---------------------------- MODULE Hx5Sequencer ----------------------------
(***************************************************************************)
(* The fixed-profile real-time sequencer of one HX5-D20 hand controller,   *)
(* protocol2_hx5_rt_sequencer, with the enable gating the MMIO wrapper     *)
(* puts in front of it and the transaction engine (protocol2_core) it      *)
(* drives.                                                                 *)
(*                                                                         *)
(* The design is synchronous, so one step of Next is one clock edge: the   *)
(* host port, the commit registers, the frame state machine and the        *)
(* transaction core all sample the same old state and the same inputs      *)
(* "in", and two events of the same cycle really coincide.  That is where  *)
(* the races of this block live.                                           *)
(*                                                                         *)
(* Data is abstracted to what the properties tell apart.  A body is a      *)
(* number of 32-bit words; a payload word of the feedback bank carries the *)
(* frame in which it was written; of the fourteen metadata words the first *)
(* and the last (both the frame sequence) are kept and the twelve between  *)
(* are one word, the status.  Cycle counters are inputs: in.comm says the  *)
(* communication deadline is reached on this edge and in.window that the   *)
(* command window has closed.                                              *)
(***************************************************************************)
EXTENDS Naturals, Sequences

CONSTANTS
    WriteWords,       \* words of the Sync Write body (86 bytes in the code)
    ReadWords,        \* words of the Read body (5 bytes in the code)
    Params,           \* bytes of a valid response (165 in the code)
    FrameMod,         \* frame_sequence wraps at this value (2^32)
    SequenceNumbers,  \* command sequence numbers the host may use
    Payload,          \* contents of a command word
    Stimuli,          \* host operations, bus answers and faults exercised
    CommDeadline,     \* TRUE iff COMM_DEADLINE # 0
    CommandDeadline   \* TRUE iff COMMAND_DEADLINE # 0

ASSUME GeometryAssumption ==
    /\ WriteWords \in Nat \ {0}
    /\ ReadWords \in Nat \ {0}
    /\ Params \in Nat \ {0}
    /\ FrameMod \in Nat \ {0}
    /\ CommDeadline \in BOOLEAN
    /\ CommandDeadline \in BOOLEAN

Banks     == {0, 1}
Words     == WriteWords + ReadWords
WordIndex == 0 .. Words - 1
Frames    == 0 .. FrameMod - 1
Image     == [WordIndex -> Payload]

VARIABLES
    \* wrapper register and compatibility profile window
    rt_enable, profile_valid,
    \* command banks and commit registers
    command_mem, committed_command_bank, committed_command_sequence,
    command_commit_valid, late_command_commit, past_command_deadline,
    commits, flushes,               \* history: parities of accepted commits and of flushes
    \* registers written both by the host side and by the frame FSM
    single_step_pending, command_deadline_missed,
    last_command_valid, last_command_sequence, buffer_error_pending,
    \* frame FSM
    state, active_command_bank, frame_sequence,
    transaction_select, body_index, body_word,
    \* response bookkeeping
    parameter_index, parameter_drop, parameter_complete,
    result_seen, response_error_pending,
    \* feedback banks
    active_feedback_bank, working_feedback_bank,
    feedback_head, feedback_status, feedback_tail, feedback_payload,
    frame_status_latched, metadata_word_index, core_abort,
    \* transaction core
    core_state, body_left, params_left, transaction_done,
    wire                            \* history: body words of this frame

portVars     == <<rt_enable, profile_valid, command_mem>>
commitVars   == <<committed_command_bank, committed_command_sequence,
                  command_commit_valid, late_command_commit,
                  past_command_deadline, commits, flushes>>
sharedVars   == <<single_step_pending, command_deadline_missed,
                  last_command_valid, last_command_sequence,
                  buffer_error_pending>>
frameRegs    == <<active_command_bank, working_feedback_bank, frame_sequence>>
bodyRegs     == <<transaction_select, body_index, body_word>>
responseRegs == <<parameter_index, parameter_drop, parameter_complete,
                  result_seen>>
feedbackMem  == <<feedback_head, feedback_status, feedback_tail,
                  feedback_payload>>
latchRegs    == <<frame_status_latched, metadata_word_index>>
fsmVars      == <<state, frameRegs, bodyRegs, responseRegs,
                  response_error_pending, active_feedback_bank, feedbackMem,
                  latchRegs, core_abort>>
coreVars     == <<core_state, body_left, params_left, transaction_done, wire>>
vars         == <<portVars, commitVars, sharedVars, fsmVars, coreVars>>

-----------------------------------------------------------------------------
(* Inputs of one clock edge.  The MMIO port carries one host access per    *)
(* edge ("step" is a write of RT_CONTROL with the single-step bit set);    *)
(* safety is the level of the external (safety-fault) abort.               *)

HostOps ==
    {op \in
             [kind : {"none", "abort", "bad_write"}]
        \cup [kind : {"write"}, bank : Banks, word : WordIndex, data : Payload]
        \cup [kind : {"commit"}, bank : Banks, sequence : SequenceNumbers]
        \cup [kind : {"enable", "step"}, enable : BOOLEAN]
        \cup [kind : {"profile"}, valid : BOOLEAN]
     : op.kind \in Stimuli \cup {"none"}}

\* What the transaction core does on this edge.
CoreEvents == {"quiet", "cmd", "body", "sent",
               "valid", "invalid", "failed", "param", "close"}

\* rt_enable_reg gated by the safety abort; the owner is OWNER_RT.
Enable(in) == rt_enable /\ ~in.safety

AbortFlush(in) == in.op.kind = "abort" \/ in.safety

SingleStep(in) == in.op.kind = "step" /\ ~in.safety

FrameTrigger(in) == single_step_pending \/ (Enable(in) /\ in.tick)

Active == state \notin {"IDLE", "WAIT_FRAME"}

\* The frame still owns the command bank for transmission.
Transmitting == state \in {"START_CMD", "BODY_READ", "STREAM_BODY", "WAIT_TRANS"}

\* Mutant: only the committed bank is locked, not the one being transmitted.
CommittedOnlyLocked(bank) ==
    command_commit_valid /\ committed_command_bank = bank

\* command_bank_locked.
Locked(bank) ==
    \/ Active /\ active_command_bank = bank
    \/ command_commit_valid /\ committed_command_bank = bank

\* Mutant: the deadline is compared only while a transaction is awaited.
DeadlineInWaitTrans(in) ==
    in.comm /\ state = "WAIT_TRANS" /\ transaction_done = "none"

DeadlineExpired(in) ==
    /\ Active
    /\ in.comm
    /\ state # "COMMIT"
    /\ ~(state = "WAIT_TRANS" /\ transaction_done # "none")

-----------------------------------------------------------------------------
(* Host port: control register, profile window and command memory.         *)

WriteBlocked(in) ==
    \/ in.op.kind = "bad_write"
    \/ in.op.kind = "write" /\ Locked(in.op.bank)
    \/ in.op.kind = "profile" /\ (Enable(in) \/ Active)

StoreWord(in) ==
    IF in.op.kind = "write" /\ ~WriteBlocked(in)
    THEN [command_mem EXCEPT ![in.op.bank][in.op.word] = in.op.data]
    ELSE command_mem

\* A store waits while the command memory is being read (cpu_port_available).
HostPort(in) ==
    /\ in.op.kind = "write" => state # "BODY_READ"
    /\ rt_enable' =
         IF in.op.kind \in {"enable", "step"} THEN in.op.enable ELSE rt_enable
    /\ profile_valid' =
         IF in.op.kind = "profile" /\ ~WriteBlocked(in)
         THEN in.op.valid ELSE profile_valid
    /\ command_mem' = StoreWord(in)

-----------------------------------------------------------------------------
(* Commit of a command bank.                                               *)

CommitRefused(in) == in.op.kind = "commit" /\ Locked(in.op.bank)

CommitLate(in) ==
    /\ in.op.kind = "commit"
    /\ ~CommitRefused(in)
    /\ Enable(in) /\ past_command_deadline

CommitTaken(in) ==
    /\ in.op.kind = "commit"
    /\ ~CommitRefused(in)
    /\ ~CommitLate(in)

\* Mutant: a refused commit takes the standing one with it.
CommitValidUnlessRefused(in) ==
    (command_commit_valid \/ CommitTaken(in)) /\ ~AbortFlush(in) /\ ~CommitRefused(in)

\* abort_flush is assigned after the commit and wins over it.
CommitValidAfter(in) ==
    (command_commit_valid \/ CommitTaken(in)) /\ ~AbortFlush(in)

CommitRegisters(in) ==
    /\ committed_command_bank' =
         IF CommitTaken(in) THEN in.op.bank ELSE committed_command_bank
    /\ committed_command_sequence' =
         IF CommitTaken(in) THEN in.op.sequence ELSE committed_command_sequence
    /\ command_commit_valid' = CommitValidAfter(in)
    /\ late_command_commit' =
         ((late_command_commit \/ CommitLate(in)) /\ ~CommitTaken(in))
    /\ past_command_deadline' =
         /\ Enable(in) /\ ~FrameTrigger(in)
         /\ past_command_deadline \/ in.window
    /\ commits' = IF CommitTaken(in) THEN 1 - commits ELSE commits
    /\ flushes' = IF AbortFlush(in) THEN 1 - flushes ELSE flushes

-----------------------------------------------------------------------------
(* Values the registers shared by host and FSM take when the FSM does not  *)
(* override them on this edge.                                             *)

AlreadySent ==
    last_command_valid /\ committed_command_sequence = last_command_sequence

DeadlineMissedAfter(in) ==
    \/ (command_deadline_missed \/ CommitLate(in)) /\ ~CommitTaken(in)
    \/ /\ Enable(in) /\ past_command_deadline
       /\ ~command_commit_valid \/ AlreadySent

BufferErrorAfter(in) ==
    buffer_error_pending \/ WriteBlocked(in) \/ CommitRefused(in)

HoldShared(in) ==
    /\ single_step_pending' = (single_step_pending \/ SingleStep(in))
    /\ command_deadline_missed' = DeadlineMissedAfter(in)
    /\ last_command_valid' = (last_command_valid /\ ~AbortFlush(in))
    /\ buffer_error_pending' = BufferErrorAfter(in)
    /\ UNCHANGED last_command_sequence

\* A UART overrun in an active frame is a response error of that frame.
HoldResponseError(in) ==
    response_error_pending' = (response_error_pending \/ (Active /\ in.overrun))

-----------------------------------------------------------------------------
(* The frame state machine, one operator per branch.                       *)

\* Mutant: the metadata index is not reset.
ConcludeWithoutReset(status) ==
    /\ state' = "COMMIT"
    /\ frame_status_latched' = status
    /\ metadata_word_index' = metadata_word_index

\* Latch a final status and start writing the metadata.
Conclude(status) ==
    /\ state' = "COMMIT"
    /\ frame_status_latched' = status
    /\ metadata_word_index' = 0

FlushFrame(in, status) ==
    /\ Conclude(status)
    /\ core_abort' = TRUE
    /\ HoldShared(in) /\ HoldResponseError(in)
    /\ UNCHANGED <<frameRegs, bodyRegs, responseRegs, active_feedback_bank,
                   feedbackMem>>

ExpireFrame(in) == DeadlineExpired(in) /\ FlushFrame(in, "deadline")

AbortFrame(in) ==
    /\ ~DeadlineExpired(in) /\ AbortFlush(in) /\ Active
    /\ FlushFrame(in, "aborted")

\* No branch of the state machine fires: only the shared registers move.
Stay(in) ==
    /\ HoldShared(in) /\ HoldResponseError(in)
    /\ core_abort' = FALSE
    /\ UNCHANGED <<state, frameRegs, bodyRegs, responseRegs,
                   active_feedback_bank, feedbackMem, latchRegs>>

MoveTo(in, next) ==
    /\ state' = next
    /\ HoldShared(in) /\ HoldResponseError(in)
    /\ core_abort' = FALSE
    /\ UNCHANGED <<frameRegs, responseRegs, active_feedback_bank, feedbackMem,
                   latchRegs>>

LeaveIdle(in) ==
    /\ state = "IDLE"
    /\ Enable(in) \/ single_step_pending
    /\ profile_valid
    /\ MoveTo(in, "WAIT_FRAME")
    /\ UNCHANGED bodyRegs

ReturnIdle(in) ==
    /\ state = "WAIT_FRAME"
    /\ ~Enable(in) /\ ~single_step_pending
    /\ MoveTo(in, "IDLE")
    /\ UNCHANGED bodyRegs

\* Mutant: a command already transmitted is not recognised.
StaleWithoutReplayCheck ==
    ~command_commit_valid \/ command_deadline_missed \/ late_command_commit

\* Mutant: the sequence numbers are not compared.
StaleAfterAnyCommand == StaleWithoutReplayCheck \/ last_command_valid

\* The command is missing, late or already transmitted.
StaleCommand ==
    \/ ~command_commit_valid
    \/ command_deadline_missed
    \/ late_command_commit
    \/ AlreadySent

\* Snapshot taken at the frame trigger.  These assignments come last in the
\* clocked block and win over the host's on the same edge.
OpenFrame ==
    /\ state = "WAIT_FRAME"
    /\ single_step_pending' = FALSE
    /\ command_deadline_missed' = FALSE
    /\ last_command_sequence' = committed_command_sequence
    /\ buffer_error_pending' = FALSE
    /\ frame_sequence' = (frame_sequence + 1) % FrameMod
    /\ active_command_bank' = committed_command_bank
    /\ working_feedback_bank' = 1 - active_feedback_bank
    /\ parameter_index' = 0
    /\ parameter_drop' = FALSE
    /\ parameter_complete' = FALSE
    /\ result_seen' = FALSE
    /\ response_error_pending' = FALSE
    /\ core_abort' = FALSE
    /\ UNCHANGED <<active_feedback_bank, feedbackMem>>

StartFrame(in) ==
    /\ FrameTrigger(in) /\ ~StaleCommand
    /\ OpenFrame
    /\ last_command_valid' = TRUE
    /\ state' = "START_CMD"
    /\ transaction_select' = 0
    /\ body_index' = 0
    /\ UNCHANGED <<body_word, latchRegs>>

StartStaleFrame(in) ==
    /\ FrameTrigger(in) /\ StaleCommand
    /\ OpenFrame
    /\ last_command_valid' = command_commit_valid
    /\ Conclude("stale")
    /\ UNCHANGED bodyRegs

BodyOffset == IF transaction_select = 0 THEN 0 ELSE WriteWords
BodyLength == IF transaction_select = 0 THEN WriteWords ELSE ReadWords

IssueCommand(in) ==
    /\ state = "START_CMD" /\ in.ev = "cmd"
    /\ MoveTo(in, "BODY_READ")
    /\ body_index' = 0
    /\ UNCHANGED <<transaction_select, body_word>>

ReadBodyWord(in) ==
    /\ state = "BODY_READ"
    /\ MoveTo(in, "STREAM_BODY")
    /\ body_word' = command_mem[active_command_bank][BodyOffset + body_index]
    /\ UNCHANGED <<transaction_select, body_index>>

StreamBodyWord(in) ==
    /\ state = "STREAM_BODY" /\ in.ev = "body"
    /\ MoveTo(in, IF body_index + 1 >= BodyLength
                  THEN "WAIT_TRANS" ELSE "BODY_READ")
    /\ body_index' = body_index + 1
    /\ UNCHANGED <<transaction_select, body_word>>

\* Header of the response: only a valid one lets its parameters through.
TakeResult(in) ==
    /\ state = "WAIT_TRANS" /\ in.ev \in {"valid", "invalid", "failed"}
    /\ result_seen' = TRUE
    /\ parameter_index' = 0
    /\ parameter_complete' = FALSE
    /\ parameter_drop' = (in.ev # "valid")
    /\ response_error_pending' =
         (response_error_pending \/ in.overrun \/ in.ev # "valid")
    /\ HoldShared(in)
    /\ core_abort' = FALSE
    /\ UNCHANGED <<state, frameRegs, bodyRegs, active_feedback_bank,
                   feedbackMem, latchRegs>>

LastParam == params_left = 1

TakeParam(in) ==
    LET stored   == ~parameter_drop /\ parameter_index < Params
        finished == parameter_index + 1 = Params
    IN  /\ state = "WAIT_TRANS" /\ in.ev = "param"
        /\ feedback_payload' =
             IF stored
             THEN [feedback_payload EXCEPT
                     ![working_feedback_bank][parameter_index] = frame_sequence]
             ELSE feedback_payload
        /\ parameter_index' = parameter_index + 1
        /\ parameter_complete' =
             IF LastParam THEN finished ELSE parameter_complete
        /\ response_error_pending' =
             \/ response_error_pending \/ in.overrun
             \/ ~stored
             \/ LastParam /\ ~finished
        /\ HoldShared(in)
        /\ core_abort' = FALSE
        /\ UNCHANGED <<state, frameRegs, bodyRegs, parameter_drop, result_seen,
                       active_feedback_bank, feedback_head, feedback_status,
                       feedback_tail, latchRegs>>

WriteSucceeded(in) ==
    /\ transaction_select = 0
    /\ transaction_done = "ok"
    /\ ~buffer_error_pending
    /\ ~in.overrun

\* The broadcast Sync Write is out: go on with the Read.
NextTransaction(in) ==
    /\ state = "WAIT_TRANS" /\ transaction_done # "none"
    /\ WriteSucceeded(in)
    /\ state' = "START_CMD"
    /\ transaction_select' = 1
    /\ body_index' = 0
    /\ parameter_index' = 0
    /\ parameter_drop' = FALSE
    /\ parameter_complete' = FALSE
    /\ result_seen' = FALSE
    /\ HoldShared(in) /\ HoldResponseError(in)
    /\ core_abort' = FALSE
    /\ UNCHANGED <<frameRegs, body_word, active_feedback_bank, feedbackMem,
                   latchRegs>>

\* Mutant: the sticky response error is not looked at.
FailedWithoutSticky(in) ==
    \/ transaction_select = 0 \/ transaction_done = "error"
    \/ in.overrun \/ ~result_seen \/ ~parameter_complete

FrameFailed(in) ==
    \/ transaction_select = 0
    \/ transaction_done = "error"
    \/ in.overrun
    \/ response_error_pending
    \/ ~result_seen
    \/ ~parameter_complete

EndTransactions(in) ==
    /\ state = "WAIT_TRANS" /\ transaction_done # "none"
    /\ ~WriteSucceeded(in)
    /\ Conclude(IF FrameFailed(in) THEN "error" ELSE "complete")
    /\ HoldShared(in) /\ HoldResponseError(in)
    /\ core_abort' = FALSE
    /\ UNCHANGED <<frameRegs, bodyRegs, responseRegs, active_feedback_bank,
                   feedbackMem>>

LastMetadataWord == metadata_word_index = 2

\* One metadata word per edge; the last one publishes the working bank.
WriteMetadata(in) ==
    /\ state = "COMMIT"
    /\ ~LastMetadataWord
    /\ feedback_head' =
         IF metadata_word_index = 0
         THEN [feedback_head EXCEPT ![working_feedback_bank] = frame_sequence]
         ELSE feedback_head
    /\ feedback_status' =
         IF metadata_word_index = 1
         THEN [feedback_status EXCEPT
                 ![working_feedback_bank] = frame_status_latched]
         ELSE feedback_status
    /\ metadata_word_index' = metadata_word_index + 1
    /\ HoldShared(in) /\ HoldResponseError(in)
    /\ core_abort' = FALSE
    /\ UNCHANGED <<state, frameRegs, bodyRegs, responseRegs,
                   active_feedback_bank, feedback_tail, feedback_payload,
                   frame_status_latched>>

PublishFrame(in) ==
    /\ state = "COMMIT"
    /\ LastMetadataWord
    /\ feedback_tail' =
         [feedback_tail EXCEPT ![working_feedback_bank] = frame_sequence]
    /\ active_feedback_bank' = working_feedback_bank
    /\ state' = IF Enable(in) THEN "WAIT_FRAME" ELSE "IDLE"
    /\ HoldShared(in) /\ HoldResponseError(in)
    /\ core_abort' = FALSE
    /\ UNCHANGED <<frameRegs, bodyRegs, responseRegs, feedback_head,
                   feedback_status, feedback_payload, latchRegs>>

\* The edge finds nothing to do in the current state.
NothingToDo(in) ==
    \/ state = "IDLE" /\ ~((Enable(in) \/ single_step_pending) /\ profile_valid)
    \/ /\ state = "WAIT_FRAME"
       /\ Enable(in) \/ single_step_pending
       /\ ~FrameTrigger(in)
    \/ state = "START_CMD" /\ in.ev # "cmd"
    \/ state = "STREAM_BODY" /\ in.ev # "body"
    \/ /\ state = "WAIT_TRANS"
       /\ transaction_done = "none"
       /\ in.ev \notin {"valid", "invalid", "failed", "param"}

Sequence(in) ==
    \/ LeaveIdle(in) \/ ReturnIdle(in)
    \/ StartFrame(in) \/ StartStaleFrame(in)
    \/ IssueCommand(in) \/ ReadBodyWord(in) \/ StreamBodyWord(in)
    \/ TakeResult(in) \/ TakeParam(in)
    \/ NextTransaction(in) \/ EndTransactions(in)
    \/ WriteMetadata(in) \/ PublishFrame(in)
    \/ NothingToDo(in) /\ Stay(in)

FrameFsm(in) ==
    \/ ExpireFrame(in)
    \/ AbortFrame(in)
    \/ /\ ~DeadlineExpired(in)
       /\ ~(AbortFlush(in) /\ Active)
       /\ Sequence(in)

-----------------------------------------------------------------------------
(* The transaction core: accepts a command and its body, drives the wire   *)
(* and, for the Read, hands over one result and its parameters.  Its pulse *)
(* transaction_done lasts one cycle.  When it accepts and when the answer  *)
(* comes is the environment's choice.                                      *)

FlushCore ==
    /\ core_state' = "IDLE"
    /\ body_left' = 0
    /\ params_left' = 0
    /\ transaction_done' = "none"

AcceptCommand(in) ==
    /\ in.ev = "cmd" /\ core_state = "WAIT" /\ state = "START_CMD"
    /\ core_state' = "TX"
    /\ body_left' = BodyLength
    /\ transaction_done' = "none"
    /\ UNCHANGED params_left

AcceptBody(in) ==
    /\ in.ev = "body" /\ core_state = "TX" /\ body_left > 0
    /\ state = "STREAM_BODY"
    /\ body_left' = body_left - 1
    /\ transaction_done' = "none"
    /\ UNCHANGED <<core_state, params_left>>

\* The packet has left the PHY and the direction is turned round.  tx_error is
\* left out: the serializer's length checks cannot fail for the fixed bodies.
FinishTransmit(in) ==
    /\ in.ev = "sent" /\ core_state = "TX" /\ body_left = 0
    /\ IF transaction_select = 0
       THEN core_state' = "WAIT" /\ transaction_done' = "ok"
       ELSE core_state' = "RX"   /\ transaction_done' = "none"
    /\ UNCHANGED <<body_left, params_left>>

\* A bound: an overlong answer has one parameter too many.
LongestAnswer == Params + 1

\* result_ready and parameter_ready of the sequencer.
ResponseReady == state = "WAIT_TRANS" /\ transaction_select = 1

\* A CRC, timeout, framing or length fault ends the transaction at once; a
\* packet the sequencer finds invalid still streams its parameters, which may be
\* fewer or more than those of a valid one.
DeliverResult(in) ==
    /\ core_state = "RX" /\ ResponseReady
    /\ \/ /\ in.ev = "failed"
          /\ core_state' = "WAIT"
          /\ transaction_done' = "error"
          /\ UNCHANGED params_left
       \/ /\ in.ev = "valid"
          /\ core_state' = "PARAMS"
          /\ params_left' = Params
          /\ transaction_done' = "none"
       \/ /\ in.ev = "invalid"
          /\ \E n \in 0 .. LongestAnswer :
               /\ params_left' = n
               /\ core_state' = IF n = 0 THEN "CLOSE" ELSE "PARAMS"
          /\ transaction_done' = "none"
    /\ UNCHANGED body_left

DeliverParam(in) ==
    /\ in.ev = "param" /\ core_state = "PARAMS" /\ ResponseReady
    /\ params_left' = params_left - 1
    /\ core_state' = IF LastParam THEN "CLOSE" ELSE "PARAMS"
    /\ transaction_done' = "none"
    /\ UNCHANGED body_left

CloseTransaction(in) ==
    /\ in.ev = "close" /\ core_state = "CLOSE"
    /\ core_state' = "WAIT"
    /\ transaction_done' = "ok"
    /\ UNCHANGED <<body_left, params_left>>

CoreQuiet(in) ==
    /\ in.ev = "quiet"
    /\ core_state' = IF core_state = "IDLE" THEN "WAIT" ELSE core_state
    /\ transaction_done' = "none"
    /\ UNCHANGED <<body_left, params_left>>

TransactionCore(in) ==
    \/ /\ core_abort \/ AbortFlush(in)
       /\ in.ev = "quiet"
       /\ FlushCore
    \/ /\ ~(core_abort \/ AbortFlush(in))
       /\ \/ AcceptCommand(in) \/ AcceptBody(in) \/ FinishTransmit(in)
          \/ DeliverResult(in) \/ DeliverParam(in) \/ CloseTransaction(in)
          \/ CoreQuiet(in)

\* History: the body words handed to the core since the frame trigger.
RecordWire(in) ==
    wire' = IF state = "WAIT_FRAME" /\ FrameTrigger(in) THEN <<>>
            ELSE IF in.ev = "body" THEN Append(wire, body_word)
            ELSE wire

-----------------------------------------------------------------------------
Init ==
    /\ rt_enable = FALSE
    /\ profile_valid = FALSE
    /\ command_mem \in [Banks -> Image]
    /\ committed_command_bank = 0
    /\ committed_command_sequence \in SequenceNumbers
    /\ command_commit_valid = FALSE
    /\ late_command_commit = FALSE
    /\ past_command_deadline = FALSE
    /\ commits = 0 /\ flushes = 0
    /\ single_step_pending = FALSE
    /\ command_deadline_missed = FALSE
    /\ last_command_valid = FALSE
    /\ last_command_sequence = committed_command_sequence
    /\ buffer_error_pending = FALSE
    /\ state = "IDLE"
    /\ active_command_bank = 0
    /\ frame_sequence = 0
    /\ transaction_select = 0
    /\ body_index = 0
    /\ body_word \in Payload
    /\ parameter_index = 0
    /\ parameter_drop = FALSE
    /\ parameter_complete = FALSE
    /\ result_seen = FALSE
    /\ response_error_pending = FALSE
    /\ active_feedback_bank = 0
    /\ working_feedback_bank = 1
    /\ feedback_head = [b \in Banks |-> 0]
    /\ feedback_status = [b \in Banks |-> "none"]
    /\ feedback_tail = [b \in Banks |-> 0]
    /\ feedback_payload = [b \in Banks |-> [p \in 0 .. Params - 1 |-> 0]]
    /\ frame_status_latched = "none"
    /\ metadata_word_index = 0
    /\ core_abort = FALSE
    /\ core_state = "IDLE"
    /\ body_left = 0
    /\ params_left = 0
    /\ transaction_done = "none"
    /\ wire = <<>>

\* One clock edge: every register samples the old state and the inputs.
Edge(in) ==
    /\ TransactionCore(in)
    /\ RecordWire(in)
    /\ FrameFsm(in)
    /\ CommitRegisters(in)
    /\ HostPort(in)

\* What the core can do next, given where it is in a transaction.
PossibleEvents ==
    CASE core_state = "WAIT"   -> {"quiet", "cmd"}
      [] core_state = "TX"     -> {"quiet", "body", "sent"}
      [] core_state = "RX"     ->
             {"quiet"} \cup (Stimuli \cap {"valid", "invalid", "failed"})
      [] core_state = "PARAMS" -> {"quiet", "param"}
      [] core_state = "CLOSE"  -> {"quiet", "close"}
      [] OTHER                 -> {"quiet"}

\* An input that nothing samples in this state is held FALSE.  A frame tick
\* outside RT_WAIT_FRAME only restarts the period counter.  An overrun before
\* RT_WAIT_TRANS sets the same sticky register as one in it.
Sampled(condition) == IF condition THEN BOOLEAN ELSE {FALSE}

\* The inputs of an edge, given the host operations and the values of the
\* communication-deadline input to choose from.
Inputs(ops, comms) ==
    [ev      : PossibleEvents,
     op      : ops,
     safety  : Sampled("safety" \in Stimuli),
     tick    : Sampled(rt_enable /\ (state = "WAIT_FRAME" \/ past_command_deadline)),
     window  : Sampled(CommandDeadline /\ rt_enable /\ ~past_command_deadline),
     overrun : Sampled("overrun" \in Stimuli /\ state = "WAIT_TRANS"),
     comm    : comms]

CountingDown == CommDeadline /\ Active /\ state # "COMMIT"

Next == \E in \in Inputs(HostOps, Sampled(CountingDown)) : Edge(in)

Spec == Init /\ [][Next]_vars

\* frame_cycles, which counts every cycle of an active frame and is compared
\* with >=, reaches COMM_DEADLINE.
DeadlineReached ==
    CountingDown /\ \E in \in Inputs(HostOps, {TRUE}) : Edge(in)

\* The edges that write the record.
Committing == state = "COMMIT" /\ Next

\* The clock runs.  Nothing is assumed of the servo bus, of the transaction
\* core or of the host.
Fairness == WF_vars(Committing) /\ WF_vars(DeadlineReached)

FairSpec == Spec /\ Fairness

-----------------------------------------------------------------------------
(* Properties.                                                             *)

FrameStatus == {"none", "stale", "error", "complete", "deadline", "aborted"}

PortTypes ==
    /\ rt_enable \in BOOLEAN
    /\ profile_valid \in BOOLEAN
    /\ command_mem \in [Banks -> Image]

CommitTypes ==
    /\ committed_command_bank \in Banks
    /\ committed_command_sequence \in SequenceNumbers
    /\ command_commit_valid \in BOOLEAN
    /\ late_command_commit \in BOOLEAN
    /\ past_command_deadline \in BOOLEAN
    /\ commits \in {0, 1} /\ flushes \in {0, 1}

SharedTypes ==
    /\ single_step_pending \in BOOLEAN
    /\ command_deadline_missed \in BOOLEAN
    /\ last_command_valid \in BOOLEAN
    /\ last_command_sequence \in SequenceNumbers
    /\ buffer_error_pending \in BOOLEAN

FrameTypes ==
    /\ state \in {"IDLE", "WAIT_FRAME", "START_CMD", "BODY_READ",
                  "STREAM_BODY", "WAIT_TRANS", "COMMIT"}
    /\ active_command_bank \in Banks
    /\ frame_sequence \in Frames
    /\ transaction_select \in {0, 1}
    /\ body_index \in 0 .. Words
    /\ body_word \in Payload
    /\ active_feedback_bank \in Banks
    /\ working_feedback_bank \in Banks
    /\ frame_status_latched \in FrameStatus
    /\ metadata_word_index \in 0 .. 2
    /\ core_abort \in BOOLEAN

ResponseTypes ==
    /\ parameter_index \in 0 .. LongestAnswer
    /\ parameter_drop \in BOOLEAN
    /\ parameter_complete \in BOOLEAN
    /\ result_seen \in BOOLEAN
    /\ response_error_pending \in BOOLEAN

FeedbackTypes ==
    /\ feedback_head \in [Banks -> Frames]
    /\ feedback_status \in [Banks -> FrameStatus]
    /\ feedback_tail \in [Banks -> Frames]
    /\ feedback_payload \in [Banks -> [0 .. Params - 1 -> Frames]]

CoreTypes ==
    /\ core_state \in {"IDLE", "WAIT", "TX", "RX", "PARAMS", "CLOSE"}
    /\ body_left \in 0 .. Words
    /\ params_left \in 0 .. LongestAnswer
    /\ transaction_done \in {"none", "ok", "error"}
    /\ wire \in Seq(Payload)

\* Every register holds a value of its type; the indices stay in the memories
\* they address.
TypeOK ==
    /\ PortTypes /\ CommitTypes /\ SharedTypes /\ FrameTypes
    /\ ResponseTypes /\ FeedbackTypes /\ CoreTypes

\* The words on the wire are, in order, the words of the bank the frame took
\* at its trigger, as they are in memory now; the word about to be sent is the
\* next of them.  RT_BODY_READ reads the memory one word at a time while the
\* host keeps the write port (RT_START_CMD to RT_WAIT_TRANS).
SentSoFar == BodyOffset + (IF state = "START_CMD" THEN 0 ELSE body_index)

TransmissionIsolated ==
    Transmitting =>
        /\ Len(wire) = SentSoFar
        /\ \A i \in 1 .. Len(wire) :
              wire[i] = command_mem[active_command_bank][i - 1]
        /\ state = "STREAM_BODY" =>
              body_word = command_mem[active_command_bank][SentSoFar]

\* A frame about to be published as complete has transmitted both bodies, and
\* every byte of the answer in the working bank was received in this frame:
\* nothing of an older frame shows through (RT_WAIT_TRANS, RT_COMMIT).
CompleteMeansFresh ==
    state = "COMMIT" /\ frame_status_latched = "complete" =>
        /\ Len(wire) = Words
        /\ \A p \in 0 .. Params - 1 :
              feedback_payload[working_feedback_bank][p] = frame_sequence

\* What makes the two properties above inductive.

\* The state machine and the core go through a transaction hand in hand, and
\* the core is idle again before the next frame can start.
Lockstep ==
    /\ core_abort => state = "COMMIT"
    /\ state \in {"IDLE", "WAIT_FRAME", "START_CMD"} =>
         core_state \in {"IDLE", "WAIT"} /\ transaction_done = "none"
    /\ state \in {"BODY_READ", "STREAM_BODY"} =>
         /\ core_state = "TX" /\ transaction_done = "none"
         /\ body_index < BodyLength
         /\ body_left = BodyLength - body_index
    /\ state = "WAIT_TRANS" =>
         /\ body_index = BodyLength
         /\ \/ core_state = "TX" /\ transaction_done = "none"
            \/ core_state = "WAIT" /\ transaction_done # "none"
            \/ /\ core_state \in {"RX", "PARAMS", "CLOSE"}
               /\ transaction_select = 1 /\ transaction_done = "none"
    /\ state = "COMMIT" /\ ~core_abort =>
         core_state \in {"IDLE", "WAIT"}
    /\ Active => working_feedback_bank = 1 - active_feedback_bank

\* The bytes received and the bytes to come never exceed a valid response, but for
\* an invalid one, whose bytes are dropped; it is complete only after its last byte.
ParameterLedger ==
    core_state = "PARAMS" =>
        /\ params_left > 0
        /\ state = "WAIT_TRANS" =>
             /\ parameter_index + params_left <= LongestAnswer
             /\ ~parameter_drop => parameter_index + params_left <= Params
             /\ ~parameter_complete

\* Without a response error, what was received so far is stored, in order.
StoredSoFar ==
    Transmitting =>
        /\ parameter_complete => parameter_index = Params
        /\ ~response_error_pending =>
             \A p \in 0 .. parameter_index - 1 :
                 feedback_payload[working_feedback_bank][p] = frame_sequence

\* The metadata words written so far are those of this frame.
MetadataSoFar ==
    state = "COMMIT" =>
        /\ metadata_word_index > 0 =>
             feedback_head[working_feedback_bank] = frame_sequence
        /\ metadata_word_index > 1 =>
             feedback_status[working_feedback_bank] = frame_status_latched

\* The record the host reads through ACTIVE_FEEDBACK_BANK.
Published ==
    [head    |-> feedback_head[active_feedback_bank],
     status  |-> feedback_status[active_feedback_bank],
     tail    |-> feedback_tail[active_feedback_bank],
     payload |-> feedback_payload[active_feedback_bank]]

\* How many frames ago a frame number was current.
Age(frame) == (FrameMod + frame_sequence - frame) % FrameMod

\* The image on offer to the next frame, and the one of the running frame.
Pending  == IF command_commit_valid /\ ~AlreadySent
            THEN {command_mem[committed_command_bank]} ELSE {}
Inflight == IF Transmitting THEN {command_mem[active_command_bank]} ELSE {}

Contract == INSTANCE FrameContract WITH
    ParamIndex <- 0 .. Params - 1,
    pending    <- Pending,
    inflight   <- Inflight,
    frame      <- frame_sequence,
    busy       <- Active,
    published  <- Published

\* The sequencer, with its two-bank memories and its commit and replay
\* registers, keeps the promise of FrameContract: a committed image is
\* transmitted at most once, whole and unmixed, and feedback marked complete
\* answers the frame it is numbered with (RT_WAIT_FRAME to RT_COMMIT).
ImplementsFrameContract == Contract!Spec

\* A flush invalidates the committed snapshot, and no word of it leaves until
\* a fresh bank is committed (protocol2_rt_engine.sv:668-671, and
\* docs/VERIFICATION_STATUS.md:78-80 of a safety fault).
FlushSuppressesTransmission ==
    [][wire' \notin {wire, <<>>} => command_commit_valid]_vars

\* A frame ends whatever the servo bus and the core do, unless the host or the
\* safety supervisor aborts for ever: the communication deadline forces it out
\* of every waiting state (deadline_expired).
FrameEnds == <>[]~core_abort => (Active ~> ~Active)
=============================================================================
