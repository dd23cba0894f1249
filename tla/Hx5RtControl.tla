---------------------------- MODULE Hx5RtControl ----------------------------
(***************************************************************************)
(* The firmware service hx5_rt_control (fw/include/hx5_rt_control.h, with  *)
(* the register helpers of hx5_d20_protocol.h) running against the         *)
(* sequencer.  The service is called from one task: the program counter pc *)
(* walks through one call at a time, one MMIO access per step, and any     *)
(* number of clock edges may pass between two accesses (preemption, cache  *)
(* misses, the bus).  An access and the edge that serves it are one step.  *)
(*                                                                         *)
(* The 86 + 5 byte command frame is the image of Hx5Sequencer with every   *)
(* word holding the same payload, the axis array of the call.              *)
(***************************************************************************)
EXTENDS Hx5Sequencer

CONSTANTS
    Calls,           \* services the application uses
    SequenceMod,     \* next_command_sequence wraps at this value (2^32)
    MaxPublications  \* bound of the history variable publications

ASSUME ControlAssumption ==
    /\ Calls \subseteq {"initialize", "submit", "abort", "read"}
    /\ SequenceMod \in Nat \ {0, 1}
    /\ SequenceNumbers = 0 .. SequenceMod - 1
    /\ MaxPublications \in Nat \ {0, 1}
    \* The accesses of the service are among the host operations exercised.
    /\ {"abort", "enable", "profile", "write", "commit"} \subseteq Stimuli
    \* PROTOCOL2_DEADLINE_DISABLED, which initialize programs.
    /\ ~CommDeadline /\ ~CommandDeadline

VARIABLES
    pc,
    enabled, next_command_sequence,   \* hx5_rt_control_t
    commands,                         \* argument of try_submit
    locks_seen, target_bank, store_word,
    bank, raw, load_word,             \* locals of read_feedback
    submitted,     \* history: argument of the last submission committed
    first_frame,   \* history: RT was enabled and no frame has started since
    publications,  \* history: frames published during the running read
    feedback       \* what a read_feedback ending on this step returns

controlVars == <<enabled, next_command_sequence>>
submitVars  == <<commands, locks_seen, target_bank, store_word, submitted>>
readVars    == <<bank, raw, load_word>>
fwVars      == <<pc, controlVars, submitVars, readVars, first_frame,
                 publications, feedback>>

\* The accesses the service makes.
Nothing      == [kind |-> "none"]
Abort        == [kind |-> "abort"]
SetEnable(e) == [kind |-> "enable", enable |-> e]
Program      == [kind |-> "profile", valid |-> TRUE]
Store        == [kind |-> "write", bank |-> target_bank,
                 word |-> store_word, data |-> commands]
Commit       == [kind |-> "commit", bank |-> target_bank,
                 sequence |-> next_command_sequence]

Accesses == {Nothing, Abort, SetEnable(TRUE), SetEnable(FALSE), Program,
             Store, Commit}

Rejected == [accepted |-> FALSE]

-----------------------------------------------------------------------------
(* One MMIO access of the service.  in.op is what the host port sees.      *)

\* The task does not touch the sequencer on this edge.
Elsewhere(in) == in.op = Nothing /\ UNCHANGED <<pc, controlVars, submitVars, readVars>>

Call(in, service, entry) ==
    /\ service \in Calls
    /\ in.op = Nothing
    /\ pc' = entry
    /\ UNCHANGED <<controlVars, readVars>>

CallInitialize(in) ==
    /\ pc \in {"boot", "ready"}
    /\ Call(in, "initialize", "init_stop")
    /\ UNCHANGED submitVars

\* Bound: fewer than SequenceMod submissions fit between two frames (2^32 do
\* not fit in a millisecond), so a number is not reused while it is the last
\* one transmitted.
NumberIsFree == last_command_valid => next_command_sequence # last_command_sequence

CallSubmit(in) ==
    /\ pc = "ready"
    /\ NumberIsFree
    /\ Call(in, "submit", "submit_status")
    /\ commands' \in Payload
    /\ UNCHANGED <<locks_seen, target_bank, store_word, submitted>>

CallAbort(in) ==
    /\ pc = "ready"
    /\ Call(in, "abort", "abort_stop")
    /\ UNCHANGED submitVars

CallRead(in) ==
    /\ pc = "ready"
    /\ Call(in, "read", "read_status")
    /\ UNCHANGED submitVars

InitStop(in) ==
    /\ pc = "init_stop"
    /\ in.op = SetEnable(FALSE)
    /\ next_command_sequence' = 1
    /\ enabled' = FALSE
    /\ pc' = "init_flush"
    /\ UNCHANGED <<submitVars, readVars>>

InitFlush(in) ==
    /\ pc = "init_flush"
    /\ in.op = Abort
    /\ pc' = "init_wait"
    /\ UNCHANGED <<controlVars, submitVars, readVars>>

\* hx5_d20_wait_mask_clear polls RT_STATUS; past its limit the call fails.
InitWait(in) ==
    /\ pc = "init_wait"
    /\ in.op = Nothing
    /\ IF Active THEN pc' \in {"init_wait", "boot"} ELSE pc' = "init_profile"
    /\ UNCHANGED <<controlVars, submitVars, readVars>>

\* Mutant: RT is enabled before the first commit.
InitProfileEnables(in) ==
    /\ pc = "init_profile"
    /\ in.op = Program
    /\ pc' = "submit_enable"
    /\ UNCHANGED <<controlVars, submitVars, readVars>>

InitProfile(in) ==
    /\ pc = "init_profile"
    /\ in.op = Program
    /\ pc' = "ready"
    /\ UNCHANGED <<controlVars, submitVars, readVars>>

SubmitStatus(in) ==
    /\ pc = "submit_status"
    /\ in.op = Nothing
    /\ locks_seen' = {b \in Banks : Locked(b)}
    /\ pc' = "submit_bank"
    /\ UNCHANGED <<controlVars, commands, target_bank, store_word, submitted,
                   readVars>>

\* Mutant: the lock of the target bank is not looked at.
SubmitBankUnchecked(in) ==
    /\ pc = "submit_bank"
    /\ in.op = Nothing
    /\ target_bank' = 1 - committed_command_bank
    /\ store_word' = 0
    /\ pc' = "submit_store"
    /\ UNCHANGED <<controlVars, commands, locks_seen, submitted, readVars>>

\* The bank is read in a later access than the lock bits.
SubmitBank(in) ==
    /\ pc = "submit_bank"
    /\ in.op = Nothing
    /\ target_bank' = 1 - committed_command_bank
    /\ store_word' = 0
    /\ pc' = IF target_bank' \in locks_seen THEN "ready" ELSE "submit_store"
    /\ UNCHANGED <<controlVars, commands, locks_seen, submitted, readVars>>

\* Mutant: the last word of the image is not stored.
SubmitStoreShort(in) ==
    /\ pc = "submit_store"
    /\ in.op = Store
    /\ store_word' = (store_word + 1) % Words
    /\ pc' = IF store_word + 2 = Words THEN "submit_commit" ELSE "submit_store"
    /\ UNCHANGED <<controlVars, commands, locks_seen, target_bank, submitted,
                   readVars>>

SubmitStore(in) ==
    /\ pc = "submit_store"
    /\ in.op = Store
    /\ store_word' = (store_word + 1) % Words
    /\ pc' = IF store_word + 1 = Words THEN "submit_commit" ELSE "submit_store"
    /\ UNCHANGED <<controlVars, commands, locks_seen, target_bank, submitted,
                   readVars>>

SubmitCommit(in) ==
    /\ pc = "submit_commit"
    /\ in.op = Commit
    /\ next_command_sequence' = (next_command_sequence + 1) % SequenceMod
    /\ submitted' = commands
    /\ pc' = IF enabled THEN "ready" ELSE "submit_enable"
    /\ UNCHANGED <<enabled, commands, locks_seen, target_bank, store_word,
                   readVars>>

SubmitEnable(in) ==
    /\ pc = "submit_enable"
    /\ in.op = SetEnable(TRUE)
    /\ enabled' = TRUE
    /\ pc' = "ready"
    /\ UNCHANGED <<next_command_sequence, submitVars, readVars>>

\* Mutant: the flush is requested without stopping RT first.
AbortWithoutStop(in) ==
    /\ pc = "abort_stop"
    /\ in.op = Nothing
    /\ pc' = "abort_flush"
    /\ UNCHANGED <<controlVars, submitVars, readVars>>

AbortStop(in) ==
    /\ pc = "abort_stop"
    /\ in.op = SetEnable(FALSE)
    /\ pc' = "abort_flush"
    /\ UNCHANGED <<controlVars, submitVars, readVars>>

AbortFlushed(in) ==
    /\ pc = "abort_flush"
    /\ in.op = Abort
    /\ enabled' = FALSE
    /\ pc' = "ready"
    /\ UNCHANGED <<next_command_sequence, submitVars, readVars>>

\* The feedback memory answers when the frame is not writing it
\* (cpu_port_available).
PortFree(in) == state # "COMMIT" /\ in.ev # "param"

ReadStatus(in) ==
    /\ pc = "read_status"
    /\ in.op = Nothing
    /\ bank' = active_feedback_bank
    /\ load_word' = 0
    /\ pc' = "read_head"
    /\ UNCHANGED <<controlVars, submitVars, raw>>

Load(in, word, next) ==
    /\ in.op = Nothing
    /\ PortFree(in)
    /\ pc' = next
    /\ raw' = word
    /\ UNCHANGED <<controlVars, submitVars, bank>>

\* The copy runs upwards: sequence, status, sequence, then the payload.
ReadHead(in) ==
    /\ pc = "read_head"
    /\ Load(in, [raw EXCEPT !.head = feedback_head[bank]], "read_frame_status")
    /\ UNCHANGED load_word

ReadFrameStatus(in) ==
    /\ pc = "read_frame_status"
    /\ Load(in, [raw EXCEPT !.status = feedback_status[bank]], "read_tail")
    /\ UNCHANGED load_word

ReadTail(in) ==
    /\ pc = "read_tail"
    /\ Load(in, [raw EXCEPT !.tail = feedback_tail[bank]], "read_payload")
    /\ UNCHANGED load_word

ReadPayload(in) ==
    /\ pc = "read_payload"
    /\ Load(in, [raw EXCEPT !.payload[load_word] = feedback_payload[bank][load_word]],
            IF load_word + 1 = Params THEN "read_check" ELSE "read_payload")
    /\ load_word' = load_word + 1

\* Mutant: the active bank is not read again after the copy.
AcceptableInAnyBank == raw.head = raw.tail /\ raw.status = "complete"

\* The checks that let read_feedback return 1.
Acceptable ==
    /\ active_feedback_bank = bank
    /\ raw.head = raw.tail
    /\ raw.status = "complete"

ReadCheck(in) ==
    /\ pc = "read_check"
    /\ in.op = Nothing
    /\ pc' = "ready"
    /\ UNCHANGED <<controlVars, submitVars, readVars>>

Service(in) ==
    \/ Elsewhere(in)
    \/ CallInitialize(in) \/ CallSubmit(in) \/ CallAbort(in) \/ CallRead(in)
    \/ InitStop(in) \/ InitFlush(in) \/ InitWait(in) \/ InitProfile(in)
    \/ SubmitStatus(in) \/ SubmitBank(in) \/ SubmitStore(in)
    \/ SubmitCommit(in) \/ SubmitEnable(in)
    \/ AbortStop(in) \/ AbortFlushed(in)
    \/ ReadStatus(in) \/ ReadHead(in) \/ ReadFrameStatus(in) \/ ReadTail(in)
    \/ ReadPayload(in) \/ ReadCheck(in)

-----------------------------------------------------------------------------
(* History.                                                                *)

Triggered(in) == state = "WAIT_FRAME" /\ FrameTrigger(in)

Record(in) ==
    /\ first_frame' =
         \/ in.op = SetEnable(TRUE)
         \/ first_frame /\ ~Triggered(in) /\ in.op # SetEnable(FALSE)
    /\ publications' =
         IF pc = "ready" THEN 0
         ELSE IF active_feedback_bank' # active_feedback_bank
                 /\ publications < MaxPublications
         THEN publications + 1 ELSE publications
    /\ feedback' =
         IF pc = "read_check" /\ pc' = "ready" /\ Acceptable
         THEN [accepted |-> TRUE, record |-> raw, behind |-> Age(raw.head),
               overtaken |-> publications]
         ELSE Rejected

-----------------------------------------------------------------------------
ControlInit ==
    /\ Init
    /\ pc = "boot"
    /\ enabled = FALSE
    /\ next_command_sequence = 0
    /\ commands \in Payload
    /\ locks_seen = {}
    /\ target_bank = 0
    /\ store_word = 0
    /\ submitted = commands
    /\ bank = 0
    /\ raw = Published
    /\ load_word = 0
    /\ feedback = Rejected
    /\ first_frame = FALSE
    /\ publications = 0

controlledVars == <<vars, fwVars>>

Step(in) == Service(in) /\ Edge(in) /\ Record(in)

ControlNext == \E in \in Inputs(Accesses, Sampled(CountingDown)) : Step(in)

ControlSpec == ControlInit /\ [][ControlNext]_controlledVars

\* The clock runs, frame ticks keep coming, the bus answers or its timeouts
\* fire (a valid profile has non-zero ones), and the task is scheduled again
\* while it is inside a call.
StepWith(Chosen(_)) ==
    \E in \in Inputs(Accesses, Sampled(CountingDown)) : Chosen(in) /\ Step(in)

Ticking(in)   == state = "WAIT_FRAME" /\ in.tick
Answering(in) == in.ev # "quiet"

InsideCall ==
    /\ pc \notin {"boot", "ready"}
    /\ \E in \in Inputs(Accesses, Sampled(CountingDown)) : Step(in) /\ ~Elsewhere(in)

ControlFairness ==
    /\ WF_controlledVars(ControlNext)
    /\ WF_controlledVars(StepWith(Ticking))
    /\ WF_controlledVars(StepWith(Answering))
    /\ WF_controlledVars(InsideCall)

ControlFairSpec == ControlSpec /\ ControlFairness

-----------------------------------------------------------------------------
(* Properties.                                                             *)

\* The bank chosen from lock bits read in one access and the committed bank
\* read in a later one is never locked by the time it is written: the
\* sequencer never refuses a store or a commit of the service
\* (hx5_rt_control_try_submit).
NeverRefused == ~buffer_error_pending

\* What waits for the next frame is the whole command of the last submission,
\* never a mixture of two, whatever else the service did since.
CommitHoldsLastSubmission ==
    command_commit_valid =>
        \A w \in WordIndex : command_mem[committed_command_bank][w] = submitted

\* hx5_rt_control.h:92-93: enabling only after the bank commit prevents the
\* first frame from being reported as stale.
FirstFrameFresh ==
    [][first_frame /\ ~Active /\ Active' => state' = "START_CMD"]_controlledVars

\* A committed submission is transmitted by a later frame unless it is
\* aborted or a safety fault flushes it; a newer submission takes its place.
SubmissionGoesOut ==
    command_commit_valid /\ ~AlreadySent
        ~> \/ state = "START_CMD" /\ transaction_select = 0
           \/ ~command_commit_valid

Unmixed(record) == \A p \in 0 .. Params - 1 : record.payload[p] = record.head

\* A record the service accepts while at most one frame was published during
\* the copy is a record of one frame, the latest one published
\* (hx5_d20_read_feedback against RT_COMMIT).
PromptReadIsExact ==
    feedback.accepted /\ feedback.overtaken <= 1 =>
        /\ Unmixed(feedback.record)
        /\ feedback.behind <= 1

\* docs/HX5_D20_TABLESYNC.md:90-94: a change of the active bank during the copy
\* makes the helper return zero, so no mixed frame is consumed.
ReadIsNeverMixed == feedback.accepted => Unmixed(feedback.record)
=============================================================================
