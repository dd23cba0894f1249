------------------------- MODULE Hx5SequencerProofs -------------------------
(***************************************************************************)
(* Proofs about the sequencer, for every geometry, every host, servo bus   *)
(* and fault: its inductive invariant, and that it implements              *)
(* FrameContract.                                                          *)
(***************************************************************************)
EXTENDS Hx5Sequencer, TLAPS

LEMMA InputFacts ==
    ASSUME NEW in \in Inputs(HostOps, Sampled(CountingDown))
    PROVE  /\ in.op \in HostOps
           /\ in.safety \in BOOLEAN /\ in.tick \in BOOLEAN
           /\ in.window \in BOOLEAN /\ in.overrun \in BOOLEAN
           /\ in.comm \in BOOLEAN
BY DEF Inputs, Sampled

LEMMA HostOpFacts ==
    ASSUME NEW op \in HostOps
    PROVE  /\ op.kind = "write" =>
                op.bank \in Banks /\ op.word \in WordIndex /\ op.data \in Payload
           /\ op.kind = "commit" =>
                op.bank \in Banks /\ op.sequence \in SequenceNumbers
           /\ op.kind \in {"enable", "step"} => op.enable \in BOOLEAN
           /\ op.kind = "profile" => op.valid \in BOOLEAN
BY DEF HostOps

LEMMA PortTypesPreserved ==
    ASSUME TypeOK, NEW in \in Inputs(HostOps, Sampled(CountingDown)), HostPort(in)
    PROVE  PortTypes'
<1>1. in.op \in HostOps
  BY InputFacts
<1>2. rt_enable' \in BOOLEAN /\ profile_valid' \in BOOLEAN
  BY <1>1, HostOpFacts DEF HostPort, TypeOK, PortTypes
<1>3. command_mem' \in [Banks -> Image]
  BY <1>1, HostOpFacts DEF HostPort, StoreWord, TypeOK, PortTypes, Image
<1> QED
  BY <1>2, <1>3 DEF PortTypes

LEMMA CommitTypesPreserved ==
    ASSUME TypeOK, NEW in \in Inputs(HostOps, Sampled(CountingDown)),
           CommitRegisters(in)
    PROVE  CommitTypes'
<1>1. in.op \in HostOps
  BY InputFacts
<1>2. CommitTaken(in) => in.op.bank \in Banks /\ in.op.sequence \in SequenceNumbers
  BY <1>1, HostOpFacts DEF CommitTaken
<1> QED
  BY <1>1, <1>2, InputFacts
  DEF CommitRegisters, CommitValidAfter, TypeOK, CommitTypes

(***************************************************************************)
(* The frame state machine writes the shared registers in two ways only:   *)
(* it holds them, or it overrides them at the frame trigger.               *)
(***************************************************************************)
LEMMA SharedCases ==
    ASSUME NEW in, FrameFsm(in)
    PROVE  \/ HoldShared(in)
           \/ OpenFrame /\ last_command_valid' \in {TRUE, command_commit_valid}
BY DEF FrameFsm, ExpireFrame, AbortFrame, FlushFrame, Sequence, LeaveIdle,
       ReturnIdle, StartFrame, StartStaleFrame, IssueCommand, ReadBodyWord,
       StreamBodyWord, TakeResult, TakeParam, NextTransaction,
       EndTransactions, WriteMetadata, PublishFrame, Stay, MoveTo

LEMMA SharedTypesPreserved ==
    ASSUME TypeOK, NEW in, FrameFsm(in)
    PROVE  SharedTypes'
<1>1. CASE HoldShared(in)
  BY <1>1 DEF HoldShared, DeadlineMissedAfter, BufferErrorAfter, TypeOK,
              SharedTypes
<1>2. CASE OpenFrame /\ last_command_valid' \in {TRUE, command_commit_valid}
  BY <1>2 DEF OpenFrame, TypeOK, SharedTypes, CommitTypes
<1> QED
  BY Zenon, <1>1, <1>2, SharedCases

(***************************************************************************)
(* What the core's event says about the core and the state machine.        *)
(***************************************************************************)
LEMMA CoreCases ==
    ASSUME NEW in, TransactionCore(in)
    PROVE  \/ FlushCore /\ in.ev = "quiet"
           \/ AcceptCommand(in) \/ AcceptBody(in) \/ FinishTransmit(in)
           \/ DeliverResult(in) \/ DeliverParam(in) \/ CloseTransaction(in)
           \/ CoreQuiet(in)
BY DEF TransactionCore

LEMMA CoreTypesPreserved ==
    ASSUME TypeOK, ParameterLedger, NEW in, TransactionCore(in), RecordWire(in)
    PROVE  CoreTypes'
<1>1. BodyLength \in 0 .. Words
  BY GeometryAssumption DEF BodyLength, Words
<1>2. wire' \in Seq(Payload)
  BY DEF RecordWire, TypeOK, CoreTypes, FrameTypes
<1>3. /\ core_state' \in {"IDLE", "WAIT", "TX", "RX", "PARAMS", "CLOSE"}
      /\ transaction_done' \in {"none", "ok", "error"}
  BY CoreCases DEF FlushCore, AcceptCommand, AcceptBody, FinishTransmit,
       DeliverResult, DeliverParam, CloseTransaction, CoreQuiet, TypeOK, CoreTypes
<1>4. body_left' \in 0 .. Words
  BY <1>1, CoreCases, GeometryAssumption DEF FlushCore, AcceptCommand, AcceptBody,
       FinishTransmit, DeliverResult, DeliverParam, CloseTransaction, CoreQuiet,
       TypeOK, CoreTypes, Words
<1>5. params_left' \in 0 .. LongestAnswer
  BY CoreCases, GeometryAssumption DEF LongestAnswer, FlushCore, AcceptCommand, AcceptBody,
       FinishTransmit, DeliverResult, DeliverParam, CloseTransaction, CoreQuiet,
       TypeOK, CoreTypes, ParameterLedger
<1> QED
  BY <1>2, <1>3, <1>4, <1>5 DEF CoreTypes

(***************************************************************************)
(* A parameter is taken only while the core streams one, so the index of   *)
(* a byte that is stored stays within a valid response.                    *)
(***************************************************************************)
LEMMA TakenParam ==
    ASSUME TypeOK, Lockstep, ParameterLedger,
           NEW in, TransactionCore(in), TakeParam(in)
    PROVE  /\ params_left \in 1 .. LongestAnswer
           /\ parameter_index + params_left <= LongestAnswer
           /\ ~parameter_complete
           /\ params_left' = params_left - 1
           /\ core_state' = IF params_left = 1 THEN "CLOSE" ELSE "PARAMS"
           /\ transaction_done' = "none"
<1>1. in.ev = "param" /\ state = "WAIT_TRANS"
  BY DEF TakeParam
<1>2. DeliverParam(in)
  BY <1>1, CoreCases DEF FlushCore, AcceptCommand, AcceptBody,
       FinishTransmit, DeliverResult, CloseTransaction, CoreQuiet
<1> QED
  BY <1>1, <1>2, GeometryAssumption
  DEF DeliverParam, TypeOK, CoreTypes, ResponseTypes, ParameterLedger, LastParam

LEMMA FrameTypesPreserved ==
    ASSUME TypeOK, Lockstep, NEW in, FrameFsm(in)
    PROVE  FrameTypes'
<1>0. FrameTypes
  BY DEF TypeOK
<1>1. CASE ExpireFrame(in)
  BY <1>0, <1>1
  DEF FrameTypes, FrameStatus, ExpireFrame, FlushFrame, Conclude, bodyRegs,
      frameRegs
<1>2. CASE AbortFrame(in)
  BY <1>0, <1>2
  DEF FrameTypes, FrameStatus, AbortFrame, FlushFrame, Conclude, bodyRegs,
      frameRegs
<1>3. CASE LeaveIdle(in) \/ ReturnIdle(in)
  BY <1>0, <1>3
  DEF FrameTypes, LeaveIdle, ReturnIdle, MoveTo, bodyRegs, frameRegs, latchRegs
<1>4. CASE IssueCommand(in)
  <2>1. 0 \in 0 .. Words
    BY GeometryAssumption DEF Words
  <2> QED
    BY <1>0, <1>4, <2>1
    DEF FrameTypes, IssueCommand, MoveTo, frameRegs, latchRegs
<1>5. CASE StartFrame(in) \/ StartStaleFrame(in)
  <2>1. (frame_sequence + 1) % FrameMod \in Frames
    BY <1>0, GeometryAssumption DEF FrameTypes, Frames
  <2>2. /\ committed_command_bank \in Banks
        /\ 1 - active_feedback_bank \in Banks
        /\ 0 \in 0 .. Words
    BY <1>0, GeometryAssumption DEF FrameTypes, TypeOK, CommitTypes, Banks, Words
  <2>3. CASE StartFrame(in)
    BY <1>0, <2>1, <2>2, <2>3
    DEF FrameTypes, StartFrame, OpenFrame, latchRegs
  <2>4. CASE StartStaleFrame(in)
    <3>1. metadata_word_index' \in 0 .. 2 /\ frame_status_latched' \in FrameStatus
      BY <2>4 DEF StartStaleFrame, Conclude, FrameStatus
    <3> QED
      BY <1>0, <2>1, <2>2, <2>4, <3>1
      DEF FrameTypes, StartStaleFrame, OpenFrame, Conclude, bodyRegs
  <2> QED
    BY <1>5, <2>3, <2>4
<1>6. CASE ReadBodyWord(in)
  <2>1. active_command_bank \in Banks /\ BodyOffset + body_index \in WordIndex
    BY <1>0, <1>6, GeometryAssumption
    DEF FrameTypes, ReadBodyWord, Lockstep, BodyOffset, BodyLength, WordIndex,
        Words
  <2>2. body_word' \in Payload
    BY <1>6, <2>1 DEF ReadBodyWord, TypeOK, PortTypes, Image
  <2> QED
    BY <1>0, <1>6, <2>2
    DEF FrameTypes, ReadBodyWord, MoveTo, frameRegs, latchRegs
<1>7. CASE StreamBodyWord(in)
  <2>1. body_index + 1 \in 0 .. Words
    BY <1>0, <1>7, GeometryAssumption
    DEF FrameTypes, StreamBodyWord, Lockstep, BodyLength, Words
  <2> QED
    BY <1>0, <1>7, <2>1
    DEF FrameTypes, StreamBodyWord, MoveTo, frameRegs, latchRegs
<1>8. CASE TakeResult(in) \/ TakeParam(in)
  BY <1>0, <1>8
  DEF FrameTypes, TakeResult, TakeParam, bodyRegs, frameRegs, latchRegs
<1>9. CASE NextTransaction(in)
  <2>1. 0 \in 0 .. Words
    BY GeometryAssumption DEF Words
  <2> QED
    BY <1>0, <1>9, <2>1 DEF FrameTypes, NextTransaction, frameRegs, latchRegs
<1>10. CASE EndTransactions(in)
  <2>1. metadata_word_index' \in 0 .. 2 /\ frame_status_latched' \in FrameStatus
    BY <1>10 DEF EndTransactions, Conclude, FrameStatus
  <2> QED
    BY <1>0, <1>10, <2>1
    DEF FrameTypes, EndTransactions, Conclude, bodyRegs, frameRegs
<1>11. CASE WriteMetadata(in)
  <2>1. metadata_word_index + 1 \in 0 .. 2
    BY <1>0, <1>11 DEF FrameTypes, WriteMetadata, LastMetadataWord
  <2> QED
    BY <1>0, <1>11, <2>1 DEF FrameTypes, WriteMetadata, bodyRegs, frameRegs
<1>12. CASE PublishFrame(in)
  BY <1>0, <1>12
  DEF FrameTypes, PublishFrame, bodyRegs, frameRegs, latchRegs
<1>13. CASE Stay(in)
  BY <1>0, <1>13 DEF FrameTypes, Stay, bodyRegs, frameRegs, latchRegs
<1> QED
  BY <1>1, <1>2, <1>3, <1>4, <1>5, <1>6, <1>7, <1>8, <1>9, <1>10, <1>11, <1>12,
     <1>13
  DEF FrameFsm, Sequence

LEMMA ResponseTypesPreserved ==
    ASSUME TypeOK, Lockstep, ParameterLedger,
           NEW in \in Inputs(HostOps, Sampled(CountingDown)),
           FrameFsm(in), TransactionCore(in)
    PROVE  ResponseTypes'
<1>0. /\ ResponseTypes
      /\ in.overrun \in BOOLEAN
      /\ 0 \in 0 .. LongestAnswer
  BY InputFacts, GeometryAssumption DEF TypeOK, LongestAnswer
<1>1. HoldResponseError(in) => response_error_pending' \in BOOLEAN
  BY DEF HoldResponseError
<1>2. CASE ExpireFrame(in) \/ AbortFrame(in)
  BY <1>0, <1>1, <1>2
  DEF ResponseTypes, responseRegs, ExpireFrame, AbortFrame, FlushFrame
<1>3. CASE LeaveIdle(in) \/ ReturnIdle(in) \/ IssueCommand(in)
           \/ ReadBodyWord(in) \/ StreamBodyWord(in)
  BY <1>0, <1>1, <1>3
  DEF ResponseTypes, responseRegs, LeaveIdle, ReturnIdle, IssueCommand,
      ReadBodyWord, StreamBodyWord, MoveTo
<1>4. CASE StartFrame(in) \/ StartStaleFrame(in)
  BY <1>0, <1>4 DEF ResponseTypes, StartFrame, StartStaleFrame, OpenFrame
<1>5. CASE TakeResult(in)
  BY <1>0, <1>5 DEF ResponseTypes, TakeResult
<1>6. CASE TakeParam(in)
  <2>1. parameter_index + 1 \in 0 .. LongestAnswer
    <3>1. parameter_index + params_left <= LongestAnswer /\ params_left \in 1 .. LongestAnswer
      BY <1>0, <1>6, TakenParam, GeometryAssumption DEF ResponseTypes, LongestAnswer
    <3> QED BY <1>0, <3>1, GeometryAssumption DEF ResponseTypes, LongestAnswer
  <2>2. response_error_pending' \in BOOLEAN /\ parameter_complete' \in BOOLEAN
    BY <1>0, <1>6 DEF ResponseTypes, TakeParam
  <2>3. /\ parameter_index' = parameter_index + 1
        /\ parameter_drop' = parameter_drop
        /\ result_seen' = result_seen
    BY <1>6 DEF TakeParam
  <2> QED
    BY <1>0, <2>1, <2>2, <2>3 DEF ResponseTypes
<1>7. CASE NextTransaction(in)
  BY <1>0, <1>1, <1>7 DEF ResponseTypes, NextTransaction
<1>8. CASE EndTransactions(in)
  BY <1>0, <1>1, <1>8 DEF ResponseTypes, responseRegs, EndTransactions
<1>9. CASE WriteMetadata(in) \/ PublishFrame(in) \/ Stay(in)
  BY <1>0, <1>1, <1>9
  DEF ResponseTypes, responseRegs, WriteMetadata, PublishFrame, Stay
<1> QED
  BY <1>2, <1>3, <1>4, <1>5, <1>6, <1>7, <1>8, <1>9 DEF FrameFsm, Sequence

LEMMA FeedbackTypesPreserved ==
    ASSUME TypeOK, NEW in, FrameFsm(in)
    PROVE  FeedbackTypes'
<1> USE DEF TypeOK, FeedbackTypes, feedbackMem
<1>1. CASE ExpireFrame(in) \/ AbortFrame(in)
  BY <1>1 DEF ExpireFrame, AbortFrame, FlushFrame
<1>2. CASE LeaveIdle(in) \/ ReturnIdle(in) \/ IssueCommand(in)
           \/ ReadBodyWord(in) \/ StreamBodyWord(in)
  BY <1>2
  DEF LeaveIdle, ReturnIdle, IssueCommand, ReadBodyWord, StreamBodyWord, MoveTo
<1>3. CASE StartFrame(in) \/ StartStaleFrame(in)
  BY <1>3 DEF StartFrame, StartStaleFrame, OpenFrame
<1>4. CASE TakeResult(in) \/ NextTransaction(in) \/ EndTransactions(in) \/ Stay(in)
  BY <1>4 DEF TakeResult, NextTransaction, EndTransactions, Stay
<1>5. CASE TakeParam(in)
  BY <1>5 DEF TakeParam, FrameTypes
<1>6. CASE WriteMetadata(in) \/ PublishFrame(in)
  BY <1>6 DEF WriteMetadata, PublishFrame, FrameTypes
<1> QED
  BY <1>1, <1>2, <1>3, <1>4, <1>5, <1>6 DEF FrameFsm, Sequence

(***************************************************************************)
(* A core that is not in a transaction leaves the idle states only by      *)
(* accepting a command.                                                    *)
(***************************************************************************)
LEMMA CoreStaysIdle ==
    ASSUME NEW in, TransactionCore(in),
           core_state \in {"IDLE", "WAIT"} \/ core_abort,
           ~(state = "START_CMD" /\ in.ev = "cmd")
    PROVE  core_state' \in {"IDLE", "WAIT"} /\ transaction_done' = "none"
BY DEF TransactionCore, FlushCore, AcceptCommand, AcceptBody, FinishTransmit,
       DeliverResult, DeliverParam, CloseTransaction, CoreQuiet

\* During a frame that goes on, nothing flushes the core.
LEMMA CoreNotFlushed ==
    ASSUME Lockstep, NEW in, TransactionCore(in), Transmitting,
           ~(AbortFlush(in) /\ Active)
    PROVE  \/ AcceptCommand(in) \/ AcceptBody(in) \/ FinishTransmit(in)
           \/ DeliverResult(in) \/ DeliverParam(in) \/ CloseTransaction(in)
           \/ CoreQuiet(in)
BY DEF TransactionCore, Lockstep, Transmitting, Active

LEMMA LockstepPreserved ==
    ASSUME TypeOK, Lockstep, ParameterLedger, NEW in,
           FrameFsm(in), TransactionCore(in)
    PROVE  Lockstep'
<1> DEFINE Idle == core_state \in {"IDLE", "WAIT"}
<1> DEFINE Opposite == working_feedback_bank = 1 - active_feedback_bank
<1>1. CASE ExpireFrame(in) \/ AbortFrame(in)
  BY <1>1 DEF Lockstep, ExpireFrame, AbortFrame, FlushFrame, Conclude, Active,
              DeadlineExpired, frameRegs
<1>2. ASSUME ~DeadlineExpired(in), ~(AbortFlush(in) /\ Active), Sequence(in)
      PROVE  Lockstep'
  <2>1. CASE LeaveIdle(in) \/ ReturnIdle(in)
    <3>1. Idle' /\ transaction_done' = "none"
      BY <2>1, CoreStaysIdle DEF Lockstep, LeaveIdle, ReturnIdle
    <3> QED
      BY <2>1, <3>1 DEF Lockstep, LeaveIdle, ReturnIdle, MoveTo, Active
  <2>2. CASE StartFrame(in) \/ StartStaleFrame(in)
    <3>1. Idle' /\ transaction_done' = "none"
      BY <2>2, CoreStaysIdle
      DEF Lockstep, StartFrame, StartStaleFrame, OpenFrame
    <3>2. Opposite' /\ core_abort' = FALSE /\ state' \in {"START_CMD", "COMMIT"}
      BY <2>2 DEF StartFrame, StartStaleFrame, OpenFrame, Conclude
    <3> QED
      BY <3>1, <3>2 DEF Lockstep
  <2>3. CASE IssueCommand(in)
    <3>1. AcceptCommand(in)
      BY <2>3, CoreCases
      DEF IssueCommand, FlushCore, AcceptBody, FinishTransmit, DeliverResult,
          DeliverParam, CloseTransaction, CoreQuiet
    <3>2. BodyLength' = BodyLength /\ BodyLength \in Nat \ {0}
      BY <2>3, GeometryAssumption DEF IssueCommand, BodyLength
    <3>3. Opposite'
      BY <2>3 DEF IssueCommand, MoveTo, frameRegs, Lockstep, Active
    <3>4. /\ core_state' = "TX" /\ transaction_done' = "none"
          /\ body_index' < BodyLength'
          /\ body_left' = BodyLength' - body_index'
      BY <2>3, <3>1, <3>2 DEF IssueCommand, AcceptCommand
    <3> QED
      BY <2>3, <3>3, <3>4 DEF Lockstep, IssueCommand, MoveTo
  <2>4. CASE ReadBodyWord(in)
    <3>1. CoreQuiet(in)
      <4>1. core_state = "TX" /\ body_left > 0
        BY <2>4, GeometryAssumption
        DEF ReadBodyWord, Lockstep, BodyLength, TypeOK, FrameTypes
      <4> QED
        BY <1>2, <2>4, <4>1, CoreNotFlushed
        DEF ReadBodyWord, AcceptCommand, AcceptBody, FinishTransmit,
            DeliverResult, DeliverParam, CloseTransaction, Transmitting
    <3>2. BodyLength' = BodyLength
      BY <2>4 DEF ReadBodyWord, BodyLength
    <3>3. Opposite'
      BY <2>4 DEF ReadBodyWord, MoveTo, frameRegs, Lockstep, Active
    <3> QED
      BY <2>4, <3>1, <3>2, <3>3 DEF Lockstep, ReadBodyWord, MoveTo, CoreQuiet
  <2>5. CASE StreamBodyWord(in)
    <3>1. AcceptBody(in)
      BY <2>5, CoreCases
      DEF StreamBodyWord, FlushCore, AcceptCommand, FinishTransmit,
          DeliverResult, DeliverParam, CloseTransaction, CoreQuiet
    <3>2. BodyLength' = BodyLength /\ BodyLength \in Nat
      BY <2>5, GeometryAssumption DEF StreamBodyWord, BodyLength
    <3>3. Opposite'
      BY <2>5 DEF StreamBodyWord, MoveTo, frameRegs, Lockstep, Active
    <3>4. body_index \in Nat /\ body_index < BodyLength
          /\ body_left = BodyLength - body_index
      BY <2>5 DEF StreamBodyWord, Lockstep, TypeOK, FrameTypes
    <3>5. core_state' = "TX" /\ transaction_done' = "none"
      BY <2>5, <3>1 DEF AcceptBody
    <3>6. CASE body_index + 1 >= BodyLength
      <4>1. state' = "WAIT_TRANS" /\ body_index' = BodyLength'
        BY <2>5, <3>2, <3>4, <3>6 DEF StreamBodyWord, MoveTo
      <4> QED
        BY <2>5, <3>3, <3>5, <4>1 DEF Lockstep, StreamBodyWord, MoveTo
    <3>7. CASE ~(body_index + 1 >= BodyLength)
      <4>1. /\ state' = "BODY_READ" /\ body_index' < BodyLength'
            /\ body_left' = BodyLength' - body_index'
        BY <2>5, <3>1, <3>2, <3>4, <3>7 DEF StreamBodyWord, MoveTo, AcceptBody
      <4> QED
        BY <2>5, <3>3, <3>5, <4>1 DEF Lockstep, StreamBodyWord, MoveTo
    <3> QED
      BY <3>6, <3>7
  <2>6. CASE TakeResult(in)
    <3>1. DeliverResult(in)
      BY <2>6, CoreCases
      DEF TakeResult, FlushCore, AcceptCommand, AcceptBody, FinishTransmit,
          DeliverParam, CloseTransaction, CoreQuiet
    <3>2. /\ BodyLength' = BodyLength /\ body_index' = body_index
          /\ transaction_select' = transaction_select /\ state' = state
          /\ Opposite' /\ core_abort' = FALSE
      BY <2>6
      DEF TakeResult, BodyLength, bodyRegs, frameRegs, Lockstep, Active
    <3>3. \/ core_state' = "WAIT" /\ transaction_done' = "error"
          \/ core_state' \in {"PARAMS", "CLOSE"} /\ transaction_done' = "none"
      BY <3>1 DEF DeliverResult
    <3> QED
      BY <2>6, <3>1, <3>2, <3>3
      DEF Lockstep, TakeResult, DeliverResult, ResponseReady
  <2>7. CASE TakeParam(in)
    <3>1. /\ BodyLength' = BodyLength /\ body_index' = body_index
          /\ transaction_select' = transaction_select /\ state' = state
          /\ Opposite' /\ core_abort' = FALSE
      BY <2>7
      DEF TakeParam, BodyLength, bodyRegs, frameRegs, Lockstep, Active
    <3>2. /\ core_state' \in {"PARAMS", "CLOSE"} /\ transaction_done' = "none"
          /\ transaction_select = 1
      <4>1. DeliverParam(in)
        BY <2>7, CoreCases
        DEF TakeParam, FlushCore, AcceptCommand, AcceptBody, FinishTransmit,
            DeliverResult, CloseTransaction, CoreQuiet
      <4> QED
        BY <4>1 DEF DeliverParam, ResponseReady
    <3> QED
      BY <2>7, <3>1, <3>2 DEF Lockstep, TakeParam
  <2>8. CASE NextTransaction(in) \/ EndTransactions(in)
    <3>1. core_state = "WAIT" /\ state = "WAIT_TRANS"
      BY <2>8 DEF NextTransaction, EndTransactions, Lockstep
    <3>2. Idle' /\ transaction_done' = "none"
      BY <3>1, CoreStaysIdle
    <3>3. /\ Opposite' /\ core_abort' = FALSE
          /\ state' \in {"START_CMD", "COMMIT"}
      BY <2>8
      DEF NextTransaction, EndTransactions, Conclude, frameRegs, Lockstep, Active
    <3> QED
      BY <3>2, <3>3 DEF Lockstep
  <2>9. CASE WriteMetadata(in)
    <3>1. Idle' /\ transaction_done' = "none"
      BY <2>9, CoreStaysIdle DEF Lockstep, WriteMetadata
    <3>2. Opposite' /\ core_abort' = FALSE /\ state' = "COMMIT"
      BY <2>9 DEF WriteMetadata, frameRegs, Lockstep, Active
    <3> QED
      BY <3>1, <3>2 DEF Lockstep
  <2>10. CASE PublishFrame(in)
    <3>1. Idle' /\ transaction_done' = "none"
      BY <2>10, CoreStaysIdle DEF Lockstep, PublishFrame
    <3> QED
      BY <2>10, <3>1 DEF Lockstep, PublishFrame, Active
  <2>11. CASE NothingToDo(in) /\ Stay(in)
    <3>1. /\ BodyLength' = BodyLength /\ body_index' = body_index
          /\ transaction_select' = transaction_select /\ state' = state
          /\ core_abort' = FALSE /\ working_feedback_bank' = working_feedback_bank
          /\ active_feedback_bank' = active_feedback_bank
      BY <2>11 DEF Stay, BodyLength, bodyRegs, frameRegs
    <3>2. CASE state \in {"IDLE", "WAIT_FRAME", "START_CMD"}
      <4>1. ~(state = "START_CMD" /\ in.ev = "cmd")
        BY <2>11 DEF NothingToDo
      <4>2. Idle' /\ transaction_done' = "none"
        BY <3>2, <4>1, CoreStaysIdle DEF Lockstep
      <4> QED
        BY <3>1, <3>2, <4>2 DEF Lockstep, Active
    <3>3. CASE state = "STREAM_BODY"
      <4>1. core_state = "TX" /\ body_left > 0 /\ in.ev # "body"
        BY <2>11, <3>3, GeometryAssumption
        DEF NothingToDo, Lockstep, BodyLength, TypeOK, FrameTypes
      <4>2. CoreQuiet(in)
        BY <1>2, <3>3, <4>1, CoreNotFlushed
        DEF AcceptCommand, AcceptBody, FinishTransmit, DeliverResult,
            DeliverParam, CloseTransaction, Transmitting
      <4> QED
        BY <3>1, <3>3, <4>1, <4>2 DEF Lockstep, Active, CoreQuiet
    <3>4. CASE state = "WAIT_TRANS"
      <4>1. /\ transaction_done = "none"
            /\ in.ev \notin {"valid", "invalid", "failed", "param"}
        BY <2>11, <3>4 DEF NothingToDo
      <4>2. FinishTransmit(in) \/ CloseTransaction(in) \/ CoreQuiet(in)
        BY <1>2, <3>4, <4>1, CoreNotFlushed
        DEF AcceptCommand, AcceptBody, DeliverResult, DeliverParam, Transmitting
      <4>3. \/ core_state = "TX"
            \/ core_state \in {"RX", "PARAMS", "CLOSE"} /\ transaction_select = 1
        BY <3>4, <4>1 DEF Lockstep
      <4>4. \/ core_state' = "TX" /\ transaction_done' = "none"
            \/ core_state' = "WAIT" /\ transaction_done' # "none"
            \/ /\ core_state' \in {"RX", "PARAMS", "CLOSE"}
               /\ transaction_select = 1 /\ transaction_done' = "none"
        BY <4>2, <4>3 DEF FinishTransmit, CloseTransaction, CoreQuiet, TypeOK,
                          FrameTypes
      <4> QED
        BY <3>1, <3>4, <4>4 DEF Lockstep, Active
    <3> QED
      BY <2>11, <3>2, <3>3, <3>4 DEF NothingToDo
  <2> QED
    BY <1>2, <2>1, <2>2, <2>3, <2>4, <2>5, <2>6, <2>7, <2>8, <2>9, <2>10, <2>11
    DEF Sequence
<1> QED
  BY <1>1, <1>2 DEF FrameFsm

(***************************************************************************)
(* Which branch of the state machine runs, seen from the state it leads to *)
(* or from the event of the core.                                          *)
(***************************************************************************)
LEMMA IntoWaitTrans ==
    ASSUME NEW in, FrameFsm(in), state' = "WAIT_TRANS"
    PROVE  \/ StreamBodyWord(in) \/ TakeResult(in) \/ TakeParam(in)
           \/ state = "WAIT_TRANS" /\ NothingToDo(in) /\ Stay(in)
BY DEF FrameFsm, ExpireFrame, AbortFrame, FlushFrame, Conclude, Sequence,
       LeaveIdle, ReturnIdle, StartFrame, StartStaleFrame, IssueCommand,
       ReadBodyWord, NextTransaction, EndTransactions, WriteMetadata,
       PublishFrame, Stay, MoveTo

LEMMA BodyEvent ==
    ASSUME NEW in, TransactionCore(in), in.ev = "body"
    PROVE  state = "STREAM_BODY"
BY DEF TransactionCore, AcceptCommand, AcceptBody, FinishTransmit,
       DeliverResult, DeliverParam, CloseTransaction, CoreQuiet

LEMMA NothingReceivedYet ==
    ASSUME NEW received, NEW coming, NEW most \in Nat, received = 0, coming \in 1 .. most
    PROVE  received + coming <= most
OBVIOUS

LEMMA ParameterLedgerPreserved ==
    ASSUME TypeOK, Lockstep, ParameterLedger, NEW in,
           FrameFsm(in), TransactionCore(in)
    PROVE  ParameterLedger'
<1> SUFFICES ASSUME core_state' = "PARAMS"
             PROVE  /\ params_left' > 0
                    /\ state' = "WAIT_TRANS" =>
                         /\ parameter_index' + params_left' <= LongestAnswer
                         /\ ~parameter_drop' => parameter_index' + params_left' <= Params
                         /\ ~parameter_complete'
  BY DEF ParameterLedger
<1>1. CASE DeliverResult(in)
  <2>1. /\ params_left' \in 1 .. LongestAnswer
        /\ in.ev = "valid" => params_left' = Params
    BY <1>1, GeometryAssumption DEF DeliverResult, LongestAnswer
  <2>2. ASSUME state' = "WAIT_TRANS" PROVE TakeResult(in)
    <3>1. ~StreamBodyWord(in) /\ ~TakeParam(in) /\ ~NothingToDo(in)
      BY <1>1 DEF DeliverResult, ResponseReady, StreamBodyWord, TakeParam,
                  NothingToDo
    <3> QED
      BY <2>2, <3>1, IntoWaitTrans
  <2>3. ASSUME state' = "WAIT_TRANS"
        PROVE  /\ parameter_index' = 0 /\ ~parameter_complete'
               /\ ~parameter_drop' => in.ev = "valid"
    BY <2>2, <2>3 DEF TakeResult
  <2>4. params_left' > 0
    BY <2>1, GeometryAssumption DEF LongestAnswer
  <2>5. ASSUME state' = "WAIT_TRANS"
        PROVE  parameter_index' + params_left' <= LongestAnswer
    <3>1. parameter_index' = 0
      BY <2>3, <2>5
    <3>2. params_left' \in 1 .. LongestAnswer
      BY <2>1
    <3>3. LongestAnswer \in Nat
      BY GeometryAssumption DEF LongestAnswer
    <3> QED BY <3>1, <3>2, <3>3, NothingReceivedYet
  <2>6. ASSUME state' = "WAIT_TRANS", ~parameter_drop'
        PROVE  parameter_index' + params_left' <= Params
    <3>1. params_left' = Params /\ parameter_index' = 0
      BY <2>1, <2>3, <2>6
    <3> QED BY <3>1, GeometryAssumption
  <2> QED
    BY <2>3, <2>4, <2>5, <2>6
<1>2. CASE DeliverParam(in)
  <2>1. params_left \in 0 .. LongestAnswer /\ params_left > 0 /\ ~LastParam
        /\ params_left' = params_left - 1
        /\ parameter_index \in 0 .. LongestAnswer
    BY <1>2 DEF DeliverParam, ParameterLedger, TypeOK, CoreTypes, ResponseTypes
  <2>2. ASSUME state' = "WAIT_TRANS" PROVE TakeParam(in)
    <3>1. ~StreamBodyWord(in) /\ ~TakeResult(in) /\ ~NothingToDo(in)
      BY <1>2 DEF DeliverParam, ResponseReady, StreamBodyWord, TakeResult,
                  NothingToDo
    <3> QED
      BY <2>2, <3>1, IntoWaitTrans
  <2>3. ASSUME state' = "WAIT_TRANS"
        PROVE  /\ parameter_index' = parameter_index + 1
               /\ parameter_index + params_left <= LongestAnswer
               /\ ~parameter_drop' => parameter_index + params_left <= Params
               /\ ~parameter_complete'
    BY <1>2, <2>1, <2>2, <2>3 DEF TakeParam, DeliverParam, ParameterLedger
  <2>4. params_left' > 0
    BY <2>1, GeometryAssumption DEF LastParam, LongestAnswer
  <2>5. ASSUME state' = "WAIT_TRANS"
        PROVE  /\ parameter_index' + params_left' <= LongestAnswer
               /\ ~parameter_drop' => parameter_index' + params_left' <= Params
    BY <2>1, <2>3, <2>5, GeometryAssumption DEF LongestAnswer
  <2> QED
    BY <2>3, <2>4, <2>5
<1>3. CASE CoreQuiet(in)
  <2>1. core_state = "PARAMS" /\ params_left' = params_left /\ in.ev = "quiet"
    BY <1>3 DEF CoreQuiet
  <2>2. ASSUME state' = "WAIT_TRANS"
        PROVE  /\ state = "WAIT_TRANS"
               /\ UNCHANGED <<parameter_index, parameter_drop, parameter_complete>>
    BY <2>1, <2>2, IntoWaitTrans
    DEF StreamBodyWord, TakeResult, TakeParam, Stay, responseRegs
  <2> QED
    BY <2>1, <2>2 DEF ParameterLedger
<1> QED
  BY <1>1, <1>2, <1>3, CoreCases
  DEF FlushCore, AcceptCommand, AcceptBody, FinishTransmit, CloseTransaction

(***************************************************************************)
(* The answer: what is stored so far belongs to this frame.                *)
(***************************************************************************)
LEMMA StoredSoFarPreserved ==
    ASSUME TypeOK, Lockstep, ParameterLedger, StoredSoFar, NEW in,
           FrameFsm(in), TransactionCore(in)
    PROVE  StoredSoFar'
<1> DEFINE Stored ==
      /\ parameter_complete => parameter_index = Params
      /\ ~response_error_pending =>
           \A p \in 0 .. parameter_index - 1 :
               feedback_payload[working_feedback_bank][p] = frame_sequence
<1> SUFFICES ASSUME Transmitting' PROVE Stored'
  BY DEF StoredSoFar
<1>1. ASSUME parameter_index' = 0, parameter_complete' = FALSE PROVE Stored'
  BY <1>1
<1>2. CASE StartFrame(in) \/ TakeResult(in) \/ NextTransaction(in)
  BY <1>1, <1>2 DEF StartFrame, OpenFrame, TakeResult, NextTransaction
<1>3. CASE IssueCommand(in) \/ ReadBodyWord(in) \/ StreamBodyWord(in)
           \/ (NothingToDo(in) /\ Stay(in))
  <2>1. Stored
    BY <1>3
    DEF StoredSoFar, Transmitting, IssueCommand, ReadBodyWord, StreamBodyWord,
        Stay
  <2>2. /\ UNCHANGED <<parameter_index, parameter_complete, feedback_payload,
                       working_feedback_bank, frame_sequence>>
        /\ response_error_pending => response_error_pending'
    BY <1>3
    DEF IssueCommand, ReadBodyWord, StreamBodyWord, Stay, MoveTo, frameRegs,
        responseRegs, feedbackMem, HoldResponseError
  <2> QED
    BY <2>1, <2>2
<1>4. CASE TakeParam(in)
  <2>1. Stored
    BY <1>4 DEF StoredSoFar, Transmitting, TakeParam
  <2>2. parameter_index \in Nat /\ ~parameter_complete
    BY <1>4, TakenParam DEF TypeOK, ResponseTypes
  <2>3. parameter_index' = parameter_index + 1
        /\ UNCHANGED <<working_feedback_bank, frame_sequence>>
    BY <1>4 DEF TakeParam, frameRegs
  <2>4. parameter_complete' => parameter_index' = Params
    <3>1. parameter_complete' =
            IF LastParam THEN parameter_index + 1 = Params ELSE parameter_complete
      BY <1>4 DEF TakeParam
    <3> QED
      BY <2>2, <2>3, <3>1
  <2>5. ASSUME ~response_error_pending', NEW p \in 0 .. parameter_index' - 1
        PROVE  feedback_payload'[working_feedback_bank'][p] = frame_sequence'
    <3>1. /\ ~response_error_pending
          /\ parameter_index < Params
          /\ feedback_payload' =
               [feedback_payload EXCEPT
                  ![working_feedback_bank][parameter_index] = frame_sequence]
      BY <1>4, <2>5 DEF TakeParam
    <3>2. /\ working_feedback_bank \in Banks
          /\ feedback_payload[working_feedback_bank]
                \in [0 .. Params - 1 -> Frames]
          /\ feedback_payload \in [Banks -> [0 .. Params - 1 -> Frames]]
          /\ parameter_index \in 0 .. Params - 1
      BY <2>2, <3>1, GeometryAssumption DEF TypeOK, FrameTypes, FeedbackTypes
    <3>3. feedback_payload'[working_feedback_bank] =
            [feedback_payload[working_feedback_bank] EXCEPT
               ![parameter_index] = frame_sequence]
      BY <3>1, <3>2
    <3>4. CASE p = parameter_index
      BY <2>3, <3>2, <3>3, <3>4
    <3>5. CASE p # parameter_index
      <4>1. p \in 0 .. parameter_index - 1 /\ p \in 0 .. Params - 1
        BY <2>2, <2>3, <2>5, <3>1, <3>5, GeometryAssumption
      <4>2. feedback_payload[working_feedback_bank][p] = frame_sequence
        BY <2>1, <3>1, <4>1
      <4> QED
        BY <2>3, <3>2, <3>3, <3>5, <4>1, <4>2
    <3> QED
      BY <3>4, <3>5
  <2> QED
    BY <2>4, <2>5
<1>5. ~ExpireFrame(in) /\ ~AbortFrame(in) /\ ~StartStaleFrame(in)
      /\ ~EndTransactions(in) /\ ~LeaveIdle(in) /\ ~ReturnIdle(in)
      /\ ~WriteMetadata(in) /\ ~PublishFrame(in)
  BY DEF Transmitting, ExpireFrame, AbortFrame, FlushFrame, StartStaleFrame,
         EndTransactions, Conclude, LeaveIdle, ReturnIdle, MoveTo,
         WriteMetadata, PublishFrame
<1> QED
  BY <1>2, <1>3, <1>4, <1>5 DEF FrameFsm, Sequence

(***************************************************************************)
(* The host cannot write the bank of a running frame: it is locked.        *)
(***************************************************************************)
LEMMA ActiveBankKept ==
    ASSUME TypeOK, Active, NEW in \in Inputs(HostOps, Sampled(CountingDown)),
           HostPort(in)
    PROVE  command_mem'[active_command_bank] = command_mem[active_command_bank]
<1>1. in.op.kind = "write" => in.op.bank \in Banks
  BY InputFacts, HostOpFacts
<1>2. in.op.kind = "write" /\ ~WriteBlocked(in) => in.op.bank # active_command_bank
  BY DEF WriteBlocked, Locked
<1>3. command_mem \in [Banks -> Image]
  BY DEF TypeOK, PortTypes
<1>4. active_command_bank \in Banks
  BY DEF TypeOK, FrameTypes
<1> QED
  BY <1>1, <1>2, <1>3, <1>4 DEF HostPort, StoreWord

\* A state in which the words already sent and their number are unchanged.
LEMMA SameTransmission ==
    ASSUME TypeOK, TransmissionIsolated, Transmitting, Active,
           NEW in \in Inputs(HostOps, Sampled(CountingDown)), HostPort(in),
           wire' = wire, active_command_bank' = active_command_bank,
           SentSoFar' = SentSoFar,
           state' = "STREAM_BODY" =>
              \/ state = "STREAM_BODY" /\ body_word' = body_word
              \/ body_word' = command_mem[active_command_bank][SentSoFar]
    PROVE  TransmissionIsolated'
BY ActiveBankKept DEF TransmissionIsolated

LEMMA TransmissionIsolatedPreserved ==
    ASSUME TypeOK, Lockstep, TransmissionIsolated,
           NEW in \in Inputs(HostOps, Sampled(CountingDown)),
           FrameFsm(in), TransactionCore(in), RecordWire(in), HostPort(in)
    PROVE  TransmissionIsolated'
<1> SUFFICES ASSUME Transmitting' PROVE TransmissionIsolated'
  BY DEF TransmissionIsolated
<1>0. /\ Transmitting => Active
      /\ body_index \in Nat /\ WriteWords \in Nat /\ ReadWords \in Nat
      /\ wire \in Seq(Payload) /\ body_word \in Payload
      /\ transaction_select \in {0, 1}
  BY GeometryAssumption
  DEF Transmitting, Active, TypeOK, FrameTypes, CoreTypes
<1>1. state # "WAIT_FRAME" /\ state # "STREAM_BODY" => wire' = wire
  BY BodyEvent DEF RecordWire
<1>2. CASE StartFrame(in)
  <2>1. wire' = <<>>
    BY <1>2 DEF StartFrame, OpenFrame, RecordWire
  <2>2. state' = "START_CMD" /\ transaction_select' = 0
    BY <1>2 DEF StartFrame
  <2>3. SentSoFar' = 0
    BY <2>2 DEF SentSoFar, BodyOffset
  <2> QED
    BY <2>1, <2>2, <2>3 DEF TransmissionIsolated
<1>3. CASE IssueCommand(in)
  <2>1. SentSoFar' = SentSoFar
    BY <1>0, <1>3 DEF IssueCommand, MoveTo, SentSoFar, BodyOffset
  <2> QED
    BY <1>0, <1>1, <1>3, <2>1, SameTransmission
    DEF IssueCommand, MoveTo, frameRegs, Transmitting
<1>4. CASE ReadBodyWord(in)
  <2>1. SentSoFar' = SentSoFar /\ SentSoFar = BodyOffset + body_index
    BY <1>0, <1>4 DEF ReadBodyWord, MoveTo, SentSoFar, BodyOffset
  <2> QED
    BY <1>0, <1>1, <1>4, <2>1, SameTransmission
    DEF ReadBodyWord, MoveTo, frameRegs, Transmitting
<1>5. CASE StreamBodyWord(in)
  <2>1. /\ wire' = Append(wire, body_word)
        /\ state = "STREAM_BODY" /\ state' \in {"BODY_READ", "WAIT_TRANS"}
        /\ active_command_bank' = active_command_bank
    BY <1>5 DEF StreamBodyWord, RecordWire, MoveTo, frameRegs
  <2>2. SentSoFar' = SentSoFar + 1
    BY <1>0, <1>5, <2>1 DEF StreamBodyWord, SentSoFar, BodyOffset
  <2>3. command_mem'[active_command_bank] = command_mem[active_command_bank]
    BY <2>1, ActiveBankKept DEF Active
  <2>4. /\ Len(wire) = SentSoFar
        /\ \A i \in 1 .. Len(wire) :
              wire[i] = command_mem[active_command_bank][i - 1]
        /\ body_word = command_mem[active_command_bank][SentSoFar]
    BY <2>1 DEF TransmissionIsolated, Transmitting
  <2>5. Len(wire') = SentSoFar'
    BY <1>0, <2>1, <2>2, <2>4
  <2>6. ASSUME NEW i \in 1 .. Len(wire')
        PROVE  wire'[i] = command_mem'[active_command_bank'][i - 1]
    <3>1. Len(wire) \in Nat /\ Len(wire') = Len(wire) + 1
      BY <1>0, <2>1
    <3>2. CASE i = Len(wire) + 1
      <4>1. wire'[i] = body_word /\ i - 1 = SentSoFar
        BY <1>0, <2>1, <2>4, <3>1, <3>2
      <4> QED
        BY <2>1, <2>3, <2>4, <4>1
    <3>3. CASE i # Len(wire) + 1
      <4>1. i \in 1 .. Len(wire) /\ wire'[i] = wire[i]
        BY <1>0, <2>1, <3>1, <3>3
      <4> QED
        BY <2>1, <2>3, <2>4, <4>1
    <3> QED
      BY <3>2, <3>3
  <2> QED
    BY <2>1, <2>5, <2>6 DEF TransmissionIsolated
<1>6. CASE TakeResult(in) \/ TakeParam(in)
  <2>1. SentSoFar' = SentSoFar
    BY <1>6 DEF TakeResult, TakeParam, bodyRegs, SentSoFar, BodyOffset
  <2> QED
    BY <1>0, <1>1, <1>6, <2>1, SameTransmission
    DEF TakeResult, TakeParam, frameRegs, Transmitting
<1>7. CASE NextTransaction(in)
  <2>1. SentSoFar' = SentSoFar
    BY <1>0, <1>7
    DEF NextTransaction, WriteSucceeded, SentSoFar, BodyOffset, Lockstep,
        BodyLength
  <2> QED
    BY <1>0, <1>1, <1>7, <2>1, SameTransmission
    DEF NextTransaction, frameRegs, Transmitting
<1>8. CASE NothingToDo(in) /\ Stay(in)
  <2>1. /\ SentSoFar' = SentSoFar /\ state' = state /\ body_word' = body_word
        /\ active_command_bank' = active_command_bank
    BY <1>8 DEF Stay, bodyRegs, frameRegs, SentSoFar, BodyOffset
  <2>2. Transmitting
    BY <2>1 DEF Transmitting
  <2>3. wire' = wire
    BY <1>8, <2>2, BodyEvent DEF NothingToDo, RecordWire, Transmitting
  <2> QED
    BY <1>0, <2>1, <2>2, <2>3, SameTransmission
<1>9. ~ExpireFrame(in) /\ ~AbortFrame(in) /\ ~StartStaleFrame(in)
      /\ ~EndTransactions(in) /\ ~LeaveIdle(in) /\ ~ReturnIdle(in)
      /\ ~WriteMetadata(in) /\ ~PublishFrame(in)
  BY DEF Transmitting, ExpireFrame, AbortFrame, FlushFrame, StartStaleFrame,
         EndTransactions, Conclude, LeaveIdle, ReturnIdle, MoveTo,
         WriteMetadata, PublishFrame
<1> QED
  BY <1>2, <1>3, <1>4, <1>5, <1>6, <1>7, <1>8, <1>9 DEF FrameFsm, Sequence

(***************************************************************************)
(* The verdict "complete" is reached from a Read whose every byte is       *)
(* stored, and nothing is stored after it.                                 *)
(***************************************************************************)
LEMMA CompleteMeansFreshPreserved ==
    ASSUME TypeOK, Lockstep, TransmissionIsolated, StoredSoFar,
           CompleteMeansFresh, NEW in,
           FrameFsm(in), TransactionCore(in), RecordWire(in)
    PROVE  CompleteMeansFresh'
<1> DEFINE Fresh ==
      /\ Len(wire) = Words
      /\ \A p \in 0 .. Params - 1 :
            feedback_payload[working_feedback_bank][p] = frame_sequence
<1> SUFFICES ASSUME state' = "COMMIT", frame_status_latched' = "complete"
             PROVE  Fresh'
  BY DEF CompleteMeansFresh
<1>1. CASE EndTransactions(in)
  <2>1. ~FrameFailed(in)
    BY <1>1 DEF EndTransactions, Conclude
  <2>2. /\ UNCHANGED <<feedback_payload, working_feedback_bank, frame_sequence>>
        /\ state = "WAIT_TRANS"
    BY <1>1 DEF EndTransactions, feedbackMem, frameRegs
  <2>3. transaction_select = 1 /\ parameter_index = Params
        /\ ~response_error_pending
    BY <2>1, <2>2 DEF FrameFailed, StoredSoFar, Transmitting, TypeOK, FrameTypes
  <2>4. wire' = wire
    BY <2>2, BodyEvent DEF RecordWire
  <2>5. Len(wire) = Words
    BY <2>2, <2>3, GeometryAssumption
    DEF TransmissionIsolated, Transmitting, SentSoFar, BodyOffset, BodyLength,
        Lockstep, Words
  <2> QED
    BY <2>2, <2>3, <2>4, <2>5 DEF StoredSoFar, Transmitting
<1>2. CASE WriteMetadata(in)
  <2>1. /\ UNCHANGED <<feedback_payload, working_feedback_bank, frame_sequence,
                       frame_status_latched>>
        /\ state = "COMMIT"
    BY <1>2 DEF WriteMetadata, frameRegs
  <2>2. wire' = wire
    BY <2>1, BodyEvent DEF RecordWire
  <2> QED
    BY <2>1, <2>2 DEF CompleteMeansFresh
<1>3. EndTransactions(in) \/ WriteMetadata(in)
  BY DEF FrameFsm, ExpireFrame, AbortFrame, FlushFrame, Conclude, Sequence,
         LeaveIdle, ReturnIdle, StartFrame, StartStaleFrame, OpenFrame,
         IssueCommand, ReadBodyWord, StreamBodyWord, TakeResult, TakeParam,
         NextTransaction, PublishFrame, Stay, NothingToDo, MoveTo
<1> QED
  BY <1>1, <1>2, <1>3

LEMMA IntoCommit ==
    ASSUME NEW in, FrameFsm(in), state' = "COMMIT"
    PROVE  WriteMetadata(in) \/ metadata_word_index' = 0
BY DEF FrameFsm, ExpireFrame, AbortFrame, FlushFrame, Conclude, Sequence,
       LeaveIdle, ReturnIdle, StartFrame, StartStaleFrame, OpenFrame,
       IssueCommand, ReadBodyWord, StreamBodyWord, TakeResult, TakeParam,
       NextTransaction, EndTransactions, PublishFrame, Stay, NothingToDo, MoveTo

LEMMA MetadataSoFarPreserved ==
    ASSUME TypeOK, MetadataSoFar, NEW in, FrameFsm(in)
    PROVE  MetadataSoFar'
<1> SUFFICES ASSUME state' = "COMMIT" PROVE MetadataSoFar'
  BY DEF MetadataSoFar
<1>1. CASE metadata_word_index' = 0
  BY <1>1 DEF MetadataSoFar
<1>2. CASE WriteMetadata(in)
  <2>1. /\ metadata_word_index \in 0 .. 1
        /\ metadata_word_index' = metadata_word_index + 1
        /\ UNCHANGED <<working_feedback_bank, frame_sequence,
                       frame_status_latched>>
        /\ state = "COMMIT"
    BY <1>2
    DEF WriteMetadata, LastMetadataWord, frameRegs, TypeOK, FrameTypes
  <2>2. CASE metadata_word_index = 0
    BY <1>2, <2>1, <2>2
    DEF WriteMetadata, MetadataSoFar, TypeOK, FrameTypes, FeedbackTypes
  <2>3. CASE metadata_word_index = 1
    BY <1>2, <2>1, <2>3
    DEF WriteMetadata, MetadataSoFar, TypeOK, FrameTypes, FeedbackTypes
  <2> QED
    BY <2>1, <2>2, <2>3
<1> QED
  BY <1>1, <1>2, IntoCommit

-----------------------------------------------------------------------------
(***************************************************************************)
(* The inductive invariant.  TypeOK alone is not inductive: that a body or *)
(* parameter index stays inside its memory depends on the state machine    *)
(* and the core being in step (Lockstep) and on how many bytes are still   *)
(* to come (ParameterLedger).                                              *)
(***************************************************************************)
IInv ==
    /\ TypeOK /\ Lockstep /\ ParameterLedger /\ StoredSoFar
    /\ TransmissionIsolated /\ CompleteMeansFresh /\ MetadataSoFar

LEMMA InitIInv == Init => IInv
<1> SUFFICES ASSUME Init PROVE IInv
  OBVIOUS
<1>0. 0 \in Frames /\ 0 \in 0 .. Words /\ 0 \in 0 .. LongestAnswer
  BY GeometryAssumption DEF Frames, Words, LongestAnswer
<1>1. PortTypes /\ CommitTypes /\ SharedTypes
  BY DEF Init, PortTypes, CommitTypes, SharedTypes, Banks
<1>2. FrameTypes
  <2>1. metadata_word_index \in 0 .. 2 /\ transaction_select \in {0, 1}
    BY DEF Init
  <2>2. /\ active_command_bank \in Banks /\ active_feedback_bank \in Banks
        /\ working_feedback_bank \in Banks
    BY DEF Init, Banks
  <2>3. core_abort \in BOOLEAN /\ frame_status_latched \in FrameStatus
    BY DEF Init, FrameStatus
  <2>4. /\ state = "IDLE" /\ body_word \in Payload
        /\ frame_sequence \in Frames /\ body_index \in 0 .. Words
    BY <1>0 DEF Init
  <2> QED
    BY <2>1, <2>2, <2>3, <2>4 DEF FrameTypes
<1>3. ResponseTypes
  BY <1>0 DEF Init, ResponseTypes
<1>4. FeedbackTypes
  BY <1>0 DEF Init, FeedbackTypes, FrameStatus
<1>5. CoreTypes
  BY <1>0 DEF Init, CoreTypes
<1>6. TypeOK
  BY <1>1, <1>2, <1>3, <1>4, <1>5 DEF TypeOK
<1>7. Lockstep /\ ParameterLedger /\ StoredSoFar
      /\ TransmissionIsolated /\ CompleteMeansFresh /\ MetadataSoFar
  BY DEF Init, Lockstep, ParameterLedger, StoredSoFar, TransmissionIsolated,
         CompleteMeansFresh, MetadataSoFar, Transmitting, Active
<1> QED
  BY <1>6, <1>7 DEF IInv

LEMMA EdgeIInv ==
    ASSUME IInv, NEW in \in Inputs(HostOps, Sampled(CountingDown)), Edge(in)
    PROVE  IInv'
<1> USE DEF IInv, Edge
<1>1. PortTypes' /\ CommitTypes' /\ SharedTypes'
  BY PortTypesPreserved, CommitTypesPreserved, SharedTypesPreserved
<1>2. FrameTypes' /\ ResponseTypes'
  BY FrameTypesPreserved, ResponseTypesPreserved
<1>3. FeedbackTypes' /\ CoreTypes'
  BY FeedbackTypesPreserved, CoreTypesPreserved
<1>4. TypeOK'
  BY <1>1, <1>2, <1>3 DEF TypeOK
<1>5. Lockstep' /\ ParameterLedger'
  BY LockstepPreserved, ParameterLedgerPreserved
<1>6. StoredSoFar'
  BY StoredSoFarPreserved
<1>7. TransmissionIsolated'
  BY TransmissionIsolatedPreserved
<1>8. CompleteMeansFresh'
  BY CompleteMeansFreshPreserved
<1>9. MetadataSoFar'
  BY MetadataSoFarPreserved
<1> QED
  BY <1>4, <1>5, <1>6, <1>7, <1>8, <1>9

LEMMA StutterIInv ==
    ASSUME IInv, UNCHANGED vars
    PROVE  IInv'
<1> USE DEF vars, portVars, commitVars, sharedVars, fsmVars, coreVars,
        frameRegs, bodyRegs, responseRegs, feedbackMem, latchRegs
<1>1. TypeOK'
  BY DEF IInv, TypeOK, PortTypes, CommitTypes, SharedTypes, FrameTypes,
         ResponseTypes, FeedbackTypes, CoreTypes
<1>2. Lockstep' /\ ParameterLedger'
  BY DEF IInv, Lockstep, ParameterLedger, Active, BodyLength
<1>3. StoredSoFar'
  BY DEF IInv, StoredSoFar, Transmitting
<1>4. TransmissionIsolated'
  BY DEF IInv, TransmissionIsolated, Transmitting, SentSoFar, BodyOffset
<1>5. CompleteMeansFresh' /\ MetadataSoFar'
  BY DEF IInv, CompleteMeansFresh, MetadataSoFar
<1> QED
  BY <1>1, <1>2, <1>3, <1>4, <1>5 DEF IInv

\* IInv holds in every reachable state, for every geometry.
THEOREM SpecIInv == Spec => []IInv
<1>1. Init => IInv
  BY InitIInv
<1>2. IInv /\ [Next]_vars => IInv'
  BY EdgeIInv, StutterIInv DEF Next
<1> QED
  BY <1>1, <1>2, PTL DEF Spec

\* Type correctness: no index ever leaves the memory it addresses, whatever
\* the length of the bodies and of the response.
THEOREM SpecTypeOK == Spec => []TypeOK
<1>1. IInv => TypeOK
  BY DEF IInv
<1> QED
  BY <1>1, SpecIInv, PTL

\* The words that leave during a frame are those of the one bank it took,
\* in order, whatever the host writes meanwhile.
THEOREM SpecTransmissionIsolated == Spec => []TransmissionIsolated
<1>1. IInv => TransmissionIsolated
  BY DEF IInv
<1> QED
  BY <1>1, SpecIInv, PTL

\* A record marked complete holds the whole answer to its own frame.
THEOREM SpecCompleteMeansFresh == Spec => []CompleteMeansFresh
<1>1. IInv => CompleteMeansFresh
  BY DEF IInv
<1> QED
  BY <1>1, SpecIInv, PTL

-----------------------------------------------------------------------------
(***************************************************************************)
(* The sequencer implements FrameContract: the initial states map to       *)
(* initial states and every clock edge to one step of the contract (or to  *)
(* none).  The argument splits an edge the way the contract does: what     *)
(* happens to the offer (lemmas Offer...) and what happens to the frame    *)
(* (lemmas Frame...).                                                      *)
(***************************************************************************)

\* A committed bank is locked until the commit is flushed or replaced.
LEMMA CommittedBankKept ==
    ASSUME TypeOK, command_commit_valid,
           NEW in \in Inputs(HostOps, Sampled(CountingDown)), HostPort(in)
    PROVE  command_mem'[committed_command_bank]
             = command_mem[committed_command_bank]
<1>1. in.op.kind = "write" => in.op.bank \in Banks
  BY InputFacts, HostOpFacts
<1>2. in.op.kind = "write" /\ ~WriteBlocked(in)
        => in.op.bank # committed_command_bank
  BY DEF WriteBlocked, Locked
<1>3. command_mem \in [Banks -> Image] /\ committed_command_bank \in Banks
  BY DEF TypeOK, PortTypes, CommitTypes
<1> QED
  BY <1>1, <1>2, <1>3 DEF HostPort, StoreWord

\* A flush ends the offer whatever else happens, also a commit on the same edge.
LEMMA OfferFlushed ==
    ASSUME NEW in, CommitRegisters(in), AbortFlush(in)
    PROVE  Contract!Flush
<1>1. Pending' = {}
  BY DEF CommitRegisters, CommitValidAfter, Pending
<1>2. flushes' = 1 - flushes /\ commits' \in {commits, 1 - commits}
  BY DEF CommitRegisters
<1> QED
  BY <1>1, <1>2 DEF Contract!Flush

\* Without one, a commit taken on this edge replaces the offer.
LEMMA OfferReplaced ==
    ASSUME TypeOK, TypeOK', NEW in, CommitRegisters(in), CommitTaken(in), ~AbortFlush(in)
    PROVE  Contract!Replace
<1>1. \/ \E image \in Contract!Image : Pending' = {image}
      \/ Pending' = {}
  BY DEF TypeOK, PortTypes, CommitTypes, Pending, Contract!Image, Image
<1>2. commits' = 1 - commits /\ flushes' = flushes
  BY DEF CommitRegisters
<1> QED
  BY <1>1, <1>2 DEF Contract!Replace

\* Without a frame trigger the offer is kept, replaced, or flushed.
LEMMA OfferHeld ==
    ASSUME TypeOK, TypeOK',
           NEW in \in Inputs(HostOps, Sampled(CountingDown)),
           CommitRegisters(in), HostPort(in), HoldShared(in)
    PROVE  Contract!Offer
<1>1. CASE CommitTaken(in) /\ ~AbortFlush(in)
  BY <1>1, OfferReplaced DEF Contract!Offer
<1>2. CASE AbortFlush(in)
  BY <1>2, OfferFlushed DEF Contract!Offer
<1>3. CASE ~CommitTaken(in) /\ ~AbortFlush(in)
  <2>1. /\ UNCHANGED <<committed_command_bank, committed_command_sequence,
                       commits, flushes, last_command_sequence>>
        /\ command_commit_valid' = command_commit_valid
        /\ last_command_valid' = last_command_valid
    BY <1>3
    DEF CommitRegisters, CommitValidAfter, HoldShared, TypeOK, CommitTypes,
        SharedTypes
  <2>2. AlreadySent' <=> AlreadySent
    BY <2>1 DEF AlreadySent
  <2>3. Pending' = Pending
    BY <2>1, <2>2, CommittedBankKept DEF Pending
  <2> QED
    BY <2>1, <2>3 DEF Contract!Offer, Contract!Keep
<1> QED
  BY <1>1, <1>2, <1>3

\* A frame trigger uses the offer up, also one that is stale.
LEMMA OfferTaken ==
    ASSUME TypeOK, TypeOK',
           NEW in \in Inputs(HostOps, Sampled(CountingDown)),
           CommitRegisters(in),
           last_command_sequence' = committed_command_sequence,
           command_commit_valid => last_command_valid'
    PROVE  Contract!Take \/ Contract!Replace \/ Contract!Flush
<1>1. CASE CommitTaken(in) /\ ~AbortFlush(in)
  BY <1>1, OfferReplaced
<1>2. CASE ~CommitTaken(in) /\ ~AbortFlush(in)
  <2>1. /\ commits' = commits /\ flushes' = flushes
        /\ committed_command_sequence' = committed_command_sequence
        /\ command_commit_valid' => command_commit_valid
    BY <1>2 DEF CommitRegisters, CommitValidAfter
  <2>2. command_commit_valid' => AlreadySent'
    BY <2>1 DEF AlreadySent
  <2> QED
    BY <2>1, <2>2 DEF Contract!Take, Pending
<1>3. CASE AbortFlush(in)
  BY <1>3, OfferFlushed
<1> QED
  BY <1>1, <1>2, <1>3

-----------------------------------------------------------------------------
\* The record on display changes only when a frame publishes: everything
\* else is written into the other bank.
LEMMA PublishedKept ==
    ASSUME IInv, NEW in, FrameFsm(in), ~PublishFrame(in)
    PROVE  Published' = Published
<1>0. /\ active_feedback_bank \in Banks /\ working_feedback_bank \in Banks
      /\ feedback_head \in [Banks -> Frames]
      /\ feedback_status \in [Banks -> FrameStatus]
      /\ feedback_payload \in [Banks -> [0 .. Params - 1 -> Frames]]
      /\ Active => working_feedback_bank # active_feedback_bank
  BY DEF IInv, TypeOK, FrameTypes, FeedbackTypes, Lockstep, Banks
<1>1. CASE ExpireFrame(in) \/ AbortFrame(in)
  BY <1>1 DEF ExpireFrame, AbortFrame, FlushFrame, feedbackMem, Published
<1>2. CASE LeaveIdle(in) \/ ReturnIdle(in) \/ IssueCommand(in)
           \/ ReadBodyWord(in) \/ StreamBodyWord(in)
  BY <1>2
  DEF LeaveIdle, ReturnIdle, IssueCommand, ReadBodyWord, StreamBodyWord, MoveTo,
      feedbackMem, Published
<1>3. CASE StartFrame(in) \/ StartStaleFrame(in)
  BY <1>3 DEF StartFrame, StartStaleFrame, OpenFrame, feedbackMem, Published
<1>4. CASE TakeResult(in) \/ NextTransaction(in) \/ EndTransactions(in) \/ Stay(in)
  BY <1>4
  DEF TakeResult, NextTransaction, EndTransactions, Stay, feedbackMem, Published
<1>5. CASE TakeParam(in)
  <2>1. working_feedback_bank # active_feedback_bank
    BY <1>0, <1>5 DEF TakeParam, Active
  <2>2. feedback_payload'[active_feedback_bank]
          = feedback_payload[active_feedback_bank]
    BY <1>0, <1>5, <2>1 DEF TakeParam
  <2> QED
    BY <1>5, <2>2 DEF TakeParam, Published
<1>6. CASE WriteMetadata(in)
  <2>1. working_feedback_bank # active_feedback_bank
    BY <1>0, <1>6 DEF WriteMetadata, Active
  <2>2. /\ feedback_head'[active_feedback_bank]
             = feedback_head[active_feedback_bank]
        /\ feedback_status'[active_feedback_bank]
             = feedback_status[active_feedback_bank]
    BY <1>0, <1>6, <2>1 DEF WriteMetadata
  <2> QED
    BY <1>6, <2>2 DEF WriteMetadata, Published
<1> QED
  BY <1>1, <1>2, <1>3, <1>4, <1>5, <1>6 DEF FrameFsm, Sequence

\* Outside a frame the sequencer only waits.
LEMMA FrameIdle ==
    ASSUME IInv, IInv', NEW in \in Inputs(HostOps, Sampled(CountingDown)),
           Edge(in), ~Active,
           LeaveIdle(in) \/ ReturnIdle(in) \/ (NothingToDo(in) /\ Stay(in))
    PROVE  Contract!Idle
<1>1. Contract!Offer
  <2>1. HoldShared(in)
    BY DEF LeaveIdle, ReturnIdle, Stay, MoveTo
  <2> QED
    BY <2>1, OfferHeld DEF IInv, Edge
<1>2. Published' = Published
  BY PublishedKept
  DEF Edge, PublishFrame, Active
<1>3. ~Active' /\ Inflight = {} /\ Inflight' = {}
  BY DEF Active, Transmitting, Inflight, LeaveIdle, ReturnIdle, Stay, MoveTo
<1>4. frame_sequence' = frame_sequence
  BY DEF LeaveIdle, ReturnIdle, Stay, MoveTo, frameRegs
<1>5. wire' = wire
  <2>1. ~(state = "WAIT_FRAME" /\ FrameTrigger(in))
    BY DEF LeaveIdle, ReturnIdle, NothingToDo, FrameTrigger
  <2>2. in.ev # "body"
    BY BodyEvent DEF Edge, Active
  <2> QED
    BY <2>1, <2>2 DEF Edge, RecordWire
<1> QED
  BY <1>1, <1>2, <1>3, <1>4, <1>5 DEF Contract!Idle, Active

\* A frame that transmits takes the offer; the host cannot change it on the
\* edge of the trigger.
LEMMA FrameStarts ==
    ASSUME IInv, IInv', NEW in \in Inputs(HostOps, Sampled(CountingDown)),
           Edge(in), StartFrame(in)
    PROVE  Contract!Start
<1>1. ~Active /\ Active' /\ Transmitting'
  BY DEF StartFrame, OpenFrame, Active, Transmitting
<1>2. command_commit_valid /\ ~AlreadySent
  BY DEF StartFrame, StaleCommand
<1>3. Contract!Take \/ Contract!Replace \/ Contract!Flush
  BY OfferTaken DEF IInv, Edge, StartFrame, OpenFrame
<1>4. Inflight' = Pending /\ Pending # {}
  <2>1. command_mem'[committed_command_bank] = command_mem[committed_command_bank]
    BY <1>2, CommittedBankKept DEF IInv, Edge
  <2>2. active_command_bank' = committed_command_bank
    BY DEF StartFrame, OpenFrame
  <2> QED
    BY <1>1, <1>2, <2>1, <2>2 DEF Inflight, Pending
<1>5. wire' = <<>> /\ frame_sequence' = (frame_sequence + 1) % FrameMod
  BY DEF Edge, RecordWire, StartFrame, OpenFrame
<1>6. Published' = Published
  BY PublishedKept DEF Edge, StartFrame, OpenFrame, PublishFrame
<1> QED
  BY <1>1, <1>2, <1>3, <1>4, <1>5, <1>6 DEF Contract!Start, Active

LEMMA FrameStartsStale ==
    ASSUME IInv, IInv', NEW in \in Inputs(HostOps, Sampled(CountingDown)),
           Edge(in), StartStaleFrame(in)
    PROVE  Contract!StartStale
<1>1. ~Active /\ Active' /\ ~Transmitting'
  BY DEF StartStaleFrame, OpenFrame, Conclude, Active, Transmitting
<1>2. Contract!Take \/ Contract!Replace \/ Contract!Flush
  BY OfferTaken DEF IInv, Edge, StartStaleFrame, OpenFrame
<1>3. Inflight' = {}
  BY <1>1 DEF Inflight
<1>4. wire' = <<>> /\ frame_sequence' = (frame_sequence + 1) % FrameMod
  BY DEF Edge, RecordWire, StartStaleFrame, OpenFrame
<1>5. Published' = Published
  BY PublishedKept DEF Edge, StartStaleFrame, OpenFrame, PublishFrame
<1> QED
  BY <1>1, <1>2, <1>3, <1>4, <1>5 DEF Contract!StartStale, Active

\* Until it publishes, a frame sends at most the next word of its image.
LEMMA FrameGoesOn ==
    ASSUME IInv, IInv', NEW in \in Inputs(HostOps, Sampled(CountingDown)),
           Edge(in), Active, ~PublishFrame(in)
    PROVE  Contract!Transmit
<1>1. /\ ~LeaveIdle(in) /\ ~ReturnIdle(in)
      /\ ~StartFrame(in) /\ ~StartStaleFrame(in)
  BY DEF Active, LeaveIdle, ReturnIdle, StartFrame, StartStaleFrame, OpenFrame
<1>2. /\ HoldShared(in)
      /\ frame_sequence' = frame_sequence
      /\ active_command_bank' = active_command_bank
      /\ Active'
      /\ Transmitting' => Transmitting
  <2>1. CASE ExpireFrame(in) \/ AbortFrame(in)
    BY <2>1 DEF ExpireFrame, AbortFrame, FlushFrame, Conclude, frameRegs,
                Active, Transmitting
  <2>2. CASE IssueCommand(in) \/ ReadBodyWord(in) \/ StreamBodyWord(in)
    BY <2>2 DEF IssueCommand, ReadBodyWord, StreamBodyWord, MoveTo, frameRegs,
                Active, Transmitting
  <2>3. CASE TakeResult(in) \/ TakeParam(in) \/ NextTransaction(in)
             \/ EndTransactions(in) \/ WriteMetadata(in)
    BY <2>3 DEF TakeResult, TakeParam, NextTransaction, EndTransactions,
                Conclude, WriteMetadata, frameRegs, Active, Transmitting
  <2>4. CASE NothingToDo(in) /\ Stay(in)
    BY <2>4 DEF Stay, frameRegs, Active, Transmitting
  <2> QED
    BY <1>1, <2>1, <2>2, <2>3, <2>4 DEF Edge, FrameFsm, Sequence
<1>3. Contract!Offer
  BY <1>2, OfferHeld DEF IInv, Edge
<1>4. Published' = Published
  BY PublishedKept DEF Edge
<1>5. Inflight' \in {Inflight, {}}
  <2>1. command_mem'[active_command_bank] = command_mem[active_command_bank]
    BY ActiveBankKept DEF IInv, Edge
  <2> QED
    BY <1>2, <2>1 DEF Inflight
<1>6. \/ wire' = wire
      \/ /\ Len(wire) \in WordIndex
         /\ \E image \in Inflight : wire' = Append(wire, image[Len(wire)])
  <2>1. CASE in.ev # "body"
    BY <2>1 DEF Edge, RecordWire, Active
  <2>2. CASE in.ev = "body"
    <3>1. state = "STREAM_BODY" /\ wire' = Append(wire, body_word)
      BY <2>2, BodyEvent DEF Edge, RecordWire
    <3>2. /\ Len(wire) = SentSoFar
          /\ body_word = command_mem[active_command_bank][SentSoFar]
      BY <3>1 DEF IInv, TransmissionIsolated, Transmitting
    <3>3. SentSoFar \in WordIndex
      BY <3>1, GeometryAssumption
      DEF IInv, TypeOK, FrameTypes, Lockstep, SentSoFar, BodyOffset, BodyLength,
          WordIndex, Words
    <3>4. Inflight = {command_mem[active_command_bank]}
      BY <3>1 DEF Inflight, Transmitting
    <3> QED
      BY <3>1, <3>2, <3>3, <3>4
  <2> QED
    BY <2>1, <2>2
<1> QED
  BY <1>2, <1>3, <1>4, <1>5, <1>6 DEF Contract!Transmit, Active

\* The record that goes on display tells the truth about the frame.
LEMMA FramePublishes ==
    ASSUME IInv, IInv', NEW in \in Inputs(HostOps, Sampled(CountingDown)),
           Edge(in), PublishFrame(in)
    PROVE  Contract!Publish
<1> DEFINE bank == working_feedback_bank
<1>1. /\ state = "COMMIT" /\ metadata_word_index = 2
      /\ active_feedback_bank' = bank
      /\ UNCHANGED <<feedback_head, feedback_status, feedback_payload,
                     frame_sequence>>
      /\ feedback_tail' = [feedback_tail EXCEPT ![bank] = frame_sequence]
      /\ HoldShared(in)
      /\ state' \in {"IDLE", "WAIT_FRAME"}
  BY DEF PublishFrame, LastMetadataWord, frameRegs
<1>2. /\ bank \in Banks /\ frame_sequence \in Frames
      /\ feedback_head \in [Banks -> Frames]
      /\ feedback_status \in [Banks -> FrameStatus]
      /\ feedback_tail \in [Banks -> Frames]
      /\ feedback_payload \in [Banks -> [0 .. Params - 1 -> Frames]]
  BY DEF IInv, TypeOK, FrameTypes, FeedbackTypes
<1>3. /\ Published'.head = frame_sequence
      /\ Published'.tail = frame_sequence
      /\ Published'.status = frame_status_latched
      /\ Published'.payload = feedback_payload[bank]
  <2>1. feedback_head[bank] = frame_sequence
        /\ feedback_status[bank] = frame_status_latched
    BY <1>1 DEF IInv, MetadataSoFar
  <2>2. feedback_tail'[bank] = frame_sequence
    BY <1>1, <1>2
  <2> QED
    BY <1>1, <2>1, <2>2 DEF Published
<1>4. Published' \in Contract!Record
  <2>1. frame_status_latched \in Contract!Verdicts
    BY DEF IInv, TypeOK, FrameTypes, FrameStatus, Contract!Verdicts
  <2>2. feedback_payload[bank] \in [0 .. Params - 1 -> Frames]
    BY <1>2
  <2>3. Published' = [head |-> frame_sequence, status |-> frame_status_latched,
                      tail |-> frame_sequence, payload |-> feedback_payload[bank]]
    BY <1>3 DEF Published
  <2> QED
    BY <1>2, <2>1, <2>2, <2>3 DEF Contract!Record, Contract!Frames, Frames
<1>5. Contract!Truthful(Published')
  <2>1. CASE frame_status_latched = "complete"
    <3>1. Len(wire) = Words
          /\ \A p \in 0 .. Params - 1 : feedback_payload[bank][p] = frame_sequence
      BY <1>1, <2>1 DEF IInv, CompleteMeansFresh
    <3>2. Len(wire) \notin WordIndex
      BY <3>1, GeometryAssumption DEF WordIndex, Words
    <3> QED
      BY <1>3, <3>1, <3>2 DEF Contract!Truthful
  <2>2. CASE frame_status_latched # "complete"
    BY <1>3, <2>2 DEF Contract!Truthful
  <2> QED
    BY <2>1, <2>2
<1>6. Contract!Offer
  BY <1>1, OfferHeld DEF IInv, Edge
<1>7. Active /\ ~Active' /\ Inflight' = {}
  BY <1>1 DEF Active, Inflight, Transmitting
<1>8. wire' = wire
  BY <1>1, BodyEvent DEF Edge, RecordWire
<1> QED
  BY <1>1, <1>4, <1>5, <1>6, <1>7, <1>8 DEF Contract!Publish

-----------------------------------------------------------------------------
LEMMA EdgeRefines ==
    ASSUME IInv, IInv', NEW in \in Inputs(HostOps, Sampled(CountingDown)),
           Edge(in)
    PROVE  Contract!Next
<1>1. CASE Active /\ PublishFrame(in)
  BY <1>1, FramePublishes DEF Contract!Next
<1>2. CASE Active /\ ~PublishFrame(in)
  BY <1>2, FrameGoesOn DEF Contract!Next
<1>3. CASE ~Active
  <2>1. \/ LeaveIdle(in) \/ ReturnIdle(in) \/ (NothingToDo(in) /\ Stay(in))
        \/ StartFrame(in) \/ StartStaleFrame(in)
    BY <1>3
    DEF Active, Edge, FrameFsm, ExpireFrame, DeadlineExpired, AbortFrame,
        Sequence, IssueCommand, ReadBodyWord, StreamBodyWord, TakeResult,
        TakeParam, NextTransaction, EndTransactions, WriteMetadata, PublishFrame
  <2> QED
    BY <1>3, <2>1, FrameIdle, FrameStarts, FrameStartsStale DEF Contract!Next
<1> QED
  BY <1>1, <1>2, <1>3

LEMMA InitRefines == Init => Contract!Init
<1> SUFFICES ASSUME Init PROVE Contract!Init
  OBVIOUS
<1>1. Pending = {} /\ Inflight = {} /\ ~Active
  BY DEF Init, Pending, Inflight, Transmitting, Active
<1>2. commits = 0 /\ flushes = 0 /\ wire = <<>> /\ frame_sequence = 0
  BY DEF Init
<1>3. Published \in Contract!Record
  <2>1. Published = [head |-> 0, status |-> "none", tail |-> 0,
                     payload |-> [p \in 0 .. Params - 1 |-> 0]]
    BY DEF Init, Published, Banks
  <2>2. 0 \in Frames
    BY GeometryAssumption DEF Frames
  <2>3. "none" \in Contract!Verdicts
    BY DEF Contract!Verdicts
  <2>4. [p \in 0 .. Params - 1 |-> 0] \in [0 .. Params - 1 -> Frames]
    BY <2>2
  <2> QED
    BY <2>1, <2>2, <2>3, <2>4 DEF Contract!Record, Contract!Frames, Frames
<1> QED
  BY <1>1, <1>2, <1>3 DEF Contract!Init, Active

LEMMA StutterRefines == UNCHANGED vars => UNCHANGED Contract!vars
BY DEF vars, portVars, commitVars, sharedVars, fsmVars, coreVars, frameRegs,
       bodyRegs, responseRegs, feedbackMem, latchRegs, Contract!vars, Pending,
       Inflight, AlreadySent, Transmitting, Active, Published

\* The sequencer keeps the promise of FrameContract, whatever the geometry,
\* the host, the servo bus and the faults.
THEOREM SpecImplementsFrameContract == Spec => ImplementsFrameContract
<1>1. Init => Contract!Init
  BY InitRefines
<1>2. IInv /\ IInv' /\ [Next]_vars => [Contract!Next]_(Contract!vars)
  BY EdgeRefines, StutterRefines DEF Next
<1> QED
  BY <1>1, <1>2, SpecIInv, PTL DEF Spec, Contract!Spec, ImplementsFrameContract
=============================================================================
