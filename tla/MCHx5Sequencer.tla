--------------------------- MODULE MCHx5Sequencer ---------------------------
(***************************************************************************)
(* Model checking of Hx5Sequencer.  TLC identifies states by LiveState:    *)
(* registers that are written before they are next read are left out, and  *)
(* what only matters up to a symmetry of the specification is put in a     *)
(* normal form (the two command banks, the two feedback banks, the number  *)
(* of the current frame, the names of the sequence numbers, the parities   *)
(* of commits and flushes).  States it identifies have the same future.                   *)
(***************************************************************************)
EXTENDS Hx5Sequencer

LiveIf(condition, value) == IF condition THEN value ELSE "dead"

InTransaction(k) == Transmitting /\ transaction_select = k

CommandMemory ==
    <<command_mem[committed_command_bank], command_mem[1 - committed_command_bank]>>

CommandState ==
    <<LiveIf(Active, active_command_bank = committed_command_bank),
      command_commit_valid, late_command_commit, past_command_deadline,
      last_command_valid,
      LiveIf(command_commit_valid /\ last_command_valid, AlreadySent),
      command_deadline_missed, single_step_pending,
      LiveIf(InTransaction(0), buffer_error_pending)>>

StreamState ==
    <<state, LiveIf(Transmitting, transaction_select),
      LiveIf(state \in {"BODY_READ", "STREAM_BODY"}, body_index)>>

WordsSent == <<LiveIf(state = "STREAM_BODY", body_word), LiveIf(Active, wire)>>

ResponseState ==
    <<LiveIf(Transmitting, response_error_pending),
      LiveIf(InTransaction(1),
             <<parameter_index, parameter_drop, parameter_complete, result_seen>>)>>

\* The other bank is the one the next publication overwrites.
FeedbackState ==
    LET other == 1 - active_feedback_bank
        Ages(bank) == [p \in 0 .. Params - 1 |-> Age(feedback_payload[bank][p])]
    IN  <<Age(feedback_head[active_feedback_bank]),
          feedback_status[active_feedback_bank],
          Age(feedback_tail[active_feedback_bank]),
          Ages(active_feedback_bank), Ages(other),
          LiveIf(state = "COMMIT",
                 <<frame_status_latched, metadata_word_index,
                   LiveIf(metadata_word_index > 0, Age(feedback_head[other])),
                   LiveIf(metadata_word_index > 1, feedback_status[other])>>)>>

CoreState == <<core_abort, core_state, body_left, params_left, transaction_done>>

LiveRegisters == <<rt_enable, profile_valid, CommandState, StreamState,
                   ResponseState, FeedbackState, CoreState>>

LiveState == <<CommandMemory, WordsSent, LiveRegisters>>
=============================================================================
