--------------------------- MODULE MCHx5RtControl ---------------------------
(***************************************************************************)
(* Model checking of Hx5RtControl.  As in MCHx5Sequencer, TLC identifies   *)
(* states with the same future: locals of a call are kept only while the   *)
(* call still reads them, and banks and numbers are put in normal form.    *)
(***************************************************************************)
EXTENDS Hx5RtControl, MCHx5Sequencer

MCSequenceNumbers == 0 .. SequenceMod - 1

\* How far a sequence number lies behind the next one to be used.
Behind(sequence) ==
    (SequenceMod + next_command_sequence - sequence) % SequenceMod

\* No property here is about the words on the wire, and the service writes the
\* whole image before it commits it: what a bank holds counts while it is
\* committed, and as far as the service has stored.
LiveWords(b) ==
    IF \/ command_commit_valid /\ committed_command_bank = b
       \/ pc = "submit_commit" /\ target_bank = b
    THEN WordIndex
    ELSE IF pc = "submit_store" /\ target_bank = b THEN 0 .. store_word - 1 ELSE {}

\* Payloads only matter up to their names: each is compared with one of them.
Known(payload) == payload = (IF command_commit_valid THEN submitted ELSE commands)

StoredWords(b) == [w \in LiveWords(b) |-> Known(command_mem[b][w])]

SubmitState ==
    <<StoredWords(committed_command_bank), StoredWords(1 - committed_command_bank),
      LiveIf(pc \in {"submit_status", "submit_bank", "submit_store", "submit_commit"},
             Known(commands)),
      LiveIf(pc = "submit_bank",
             <<committed_command_bank \in locks_seen,
               1 - committed_command_bank \in locks_seen>>),
      LiveIf(pc \in {"submit_store", "submit_commit"},
             target_bank = committed_command_bank),
      LiveIf(pc = "submit_store", store_word)>>

SequenceState ==
    LiveIf(pc \notin {"init_flush", "init_wait", "init_profile"},
           <<LiveIf(command_commit_valid, Behind(committed_command_sequence)),
             LiveIf(last_command_valid, Behind(last_command_sequence))>>)

ReadState ==
    LET words == {"read_frame_status", "read_tail", "read_payload", "read_check"}
    IN  <<LiveIf(pc \in words \cup {"read_head"}, bank = active_feedback_bank),
          LiveIf(pc \in words, Age(raw.head)),
          LiveIf(pc \in words \ {"read_frame_status"}, raw.status),
          LiveIf(pc \in {"read_payload", "read_check"},
                 <<Age(raw.tail), load_word,
                   [p \in 0 .. load_word - 1 |-> Age(raw.payload[p])]>>)>>

Returned ==
    IF feedback.accepted
    THEN <<feedback.behind, feedback.overtaken, Unmixed(feedback.record)>>
    ELSE <<>>

Reading ==
    pc \in {"read_status", "read_head", "read_frame_status", "read_tail",
            "read_payload", "read_check"}

\* Publications are counted afresh when a call leaves "ready".
LiveControlState == <<LiveRegisters, pc, enabled, SubmitState, SequenceState, ReadState,
                      Returned, first_frame, LiveIf(Reading, publications)>>
=============================================================================
