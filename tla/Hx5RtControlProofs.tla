------------------------- MODULE Hx5RtControlProofs -------------------------
(***************************************************************************)
(* The firmware service against the sequencer, for every geometry, every   *)
(* sequence-number width and any number of clock edges between two         *)
(* accesses.  The service is one client of the host port, so all that is   *)
(* proved of the sequencer holds while it runs (ControlImplementsSpec);    *)
(* what is proved here is what the service adds: which bank it may write,  *)
(* what it commits, when it enables and flushes, and what it reads back.   *)
(***************************************************************************)
EXTENDS Hx5RtControl, Hx5SequencerProofs

ServiceSteps ==
    {"boot", "ready", "init_stop", "init_flush", "init_wait", "init_profile",
     "submit_status", "submit_bank", "submit_store", "submit_commit",
     "submit_enable", "abort_stop", "abort_flush", "read_status", "read_head",
     "read_frame_status", "read_tail", "read_payload", "read_check"}

FeedbackRecord ==
    [head : Frames, status : FrameStatus, tail : Frames,
     payload : [0 .. Params - 1 -> Frames]]

ControlTypes ==
    /\ pc \in ServiceSteps
    /\ enabled \in BOOLEAN /\ next_command_sequence \in SequenceNumbers
    /\ commands \in Payload /\ submitted \in Payload
    /\ locks_seen \in SUBSET Banks /\ target_bank \in Banks
    /\ store_word \in WordIndex
    /\ first_frame \in BOOLEAN

ReadTypes ==
    /\ bank \in Banks /\ raw \in FeedbackRecord
    /\ load_word \in 0 .. Params
    /\ pc \in {"read_head", "read_frame_status", "read_tail"} => load_word = 0
    /\ pc = "read_payload" => load_word < Params
    /\ pc = "read_check" => load_word = Params
    /\ publications \in 0 .. MaxPublications

\* Where the service is says what it has made of the enable register, and with
\* both deadlines disabled nothing is ever late.
ServiceState ==
    /\ ~single_step_pending /\ ~past_command_deadline
    /\ ~late_command_commit /\ ~command_deadline_missed
    /\ rt_enable => enabled
    /\ pc \in {"boot", "init_flush", "init_wait", "init_profile", "abort_flush"}
          => ~rt_enable
    /\ pc \in {"init_flush", "init_wait", "init_profile", "submit_enable"} => ~enabled
    /\ pc = "init_profile" => ~Active
    /\ first_frame => rt_enable

\* A bank found unlocked is not taken by a frame until it is committed: a frame
\* only ever takes the committed bank, and that is the other one.
TargetFree ==
    /\ pc = "submit_bank" =>
         \A b \in Banks : b # committed_command_bank /\ b \notin locks_seen
                             => ~(Active /\ active_command_bank = b)
    /\ pc \in {"submit_store", "submit_commit"} =>
         /\ target_bank = 1 - committed_command_bank
         /\ ~(Active /\ active_command_bank = target_bank)

\* The words stored so far are those of the call.
WordsStored ==
    /\ pc = "submit_store" =>
         \A w \in WordIndex : w < store_word => command_mem[target_bank][w] = commands
    /\ pc = "submit_commit" =>
         \A w \in WordIndex : command_mem[target_bank][w] = commands

\* A frame that transmits does so with its commit standing.
TransmitsCommitted == Transmitting => command_commit_valid

ControlInv ==
    /\ ControlTypes /\ ServiceState /\ TargetFree /\ WordsStored
    /\ NeverRefused /\ CommitHoldsLastSubmission /\ TransmitsCommitted

\* Between the enable and the first frame the committed command is a new one.
Submitting == pc \in {"submit_status", "submit_bank", "submit_store", "submit_commit"}

FirstFrameInv ==
    /\ first_frame \/ pc = "submit_enable" => ~StaleCommand
    /\ Submitting /\ (first_frame \/ ~enabled) => NumberIsFree

\* The record on display answers the last frame published, and is whole when
\* it says it is complete.
DisplayInv ==
    /\ frame_sequence = IF Active THEN (Published.head + 1) % FrameMod
                        ELSE Published.head
    /\ Published.status = "complete" => Unmixed(Published) /\ Published.tail = Published.head

\* A frame published turns the display to the other bank, so a display turned
\* at most once that shows the bank being copied has not been turned since the
\* copy began, and what was copied is the record on display.
Copying == pc \in {"read_head", "read_frame_status", "read_tail", "read_payload",
                   "read_check"}

CopyMatches ==
    /\ pc \in {"read_frame_status", "read_tail", "read_payload", "read_check"}
          => raw.head = Published.head
    /\ pc \in {"read_tail", "read_payload", "read_check"}
          => raw.status = Published.status
    /\ pc \in {"read_payload", "read_check"} =>
          /\ raw.tail = Published.tail
          /\ \A p \in 0 .. load_word - 1 : raw.payload[p] = Published.payload[p]

CopyInv ==
    /\ Copying /\ publications = 0 => active_feedback_bank = bank
    /\ publications <= 1 /\ active_feedback_bank = bank => CopyMatches

ReadInv == ReadTypes /\ DisplayInv /\ CopyInv /\ PromptReadIsExact

-----------------------------------------------------------------------------
(* The service as a client of the host port.                               *)

LEMMA AccessIsHostOp ==
    ASSUME ControlTypes, NEW op \in Accesses
    PROVE  op \in HostOps
<1>1. CASE op \in {Nothing, Abort}
  BY <1>1, ControlAssumption DEF Nothing, Abort, HostOps
<1>2. ASSUME NEW e \in BOOLEAN, op = SetEnable(e) PROVE op \in HostOps
  <2>1. /\ op \in [kind : {"enable", "step"}, enable : BOOLEAN]
        /\ op.kind = "enable"
    BY <1>2 DEF SetEnable
  <2> QED BY <2>1, ControlAssumption DEF HostOps
<1>3. CASE op = Program
  BY <1>3, ControlAssumption DEF Program, HostOps
<1>4. CASE op = Store
  BY <1>4, ControlAssumption DEF Store, HostOps, ControlTypes
<1>5. CASE op = Commit
  BY <1>5, ControlAssumption DEF Commit, HostOps, ControlTypes
<1> QED BY <1>1, <1>2, <1>3, <1>4, <1>5 DEF Accesses

LEMMA StepIsEdge ==
    ASSUME ControlTypes, NEW in \in Inputs(Accesses, Sampled(CountingDown))
    PROVE  in \in Inputs(HostOps, Sampled(CountingDown))
BY AccessIsHostOp DEF Inputs

\* What the host port sees tells where the service is.
LEMMA AccessTellsStep ==
    ASSUME NEW in, Service(in)
    PROVE  /\ in.op.kind \in {"none", "abort", "enable", "profile", "write", "commit"}
           /\ in.op.kind = "abort" => pc \in {"init_flush", "abort_flush"}
           /\ in.op.kind = "enable" =>
                \/ pc = "submit_enable" /\ in.op.enable = TRUE
                \/ pc \in {"init_stop", "abort_stop"} /\ in.op.enable = FALSE
           /\ in.op.kind = "profile" => pc = "init_profile"
           /\ in.op.kind = "write" => pc = "submit_store" /\ SubmitStore(in)
           /\ in.op.kind = "commit" => pc = "submit_commit" /\ SubmitCommit(in)
<1> USE DEF Nothing, Abort, SetEnable, Program, Store, Commit
<1>1. CASE \/ Elsewhere(in) \/ CallInitialize(in) \/ CallSubmit(in)
           \/ CallAbort(in) \/ CallRead(in) \/ InitWait(in)
           \/ SubmitStatus(in) \/ SubmitBank(in)
  BY <1>1 DEF Elsewhere, CallInitialize, CallSubmit, CallAbort, CallRead, Call,
              InitWait, SubmitStatus, SubmitBank
<1>2. CASE InitStop(in) \/ AbortStop(in) \/ SubmitEnable(in)
  BY <1>2 DEF InitStop, AbortStop, SubmitEnable
<1>3. CASE InitFlush(in) \/ AbortFlushed(in) \/ InitProfile(in)
  BY <1>3 DEF InitFlush, AbortFlushed, InitProfile
<1>4. CASE SubmitStore(in) \/ SubmitCommit(in)
  BY <1>4 DEF SubmitStore, SubmitCommit
<1>5. CASE \/ ReadStatus(in) \/ ReadHead(in) \/ ReadFrameStatus(in)
           \/ ReadTail(in) \/ ReadPayload(in) \/ ReadCheck(in)
  BY <1>5 DEF ReadStatus, ReadHead, ReadFrameStatus, ReadTail, ReadPayload,
              ReadCheck, Load
<1> QED BY <1>1, <1>2, <1>3, <1>4, <1>5 DEF Service

LEMMA ControlTypesKept ==
    ASSUME TypeOK, ControlTypes, NEW in, Service(in), Record(in)
    PROVE  ControlTypes'
<1>0. /\ SequenceMod \in Nat \ {0, 1} /\ SequenceNumbers = 0 .. SequenceMod - 1
      /\ Words \in Nat \ {0} /\ WordIndex = 0 .. Words - 1
  BY ControlAssumption, GeometryAssumption DEF Words, WordIndex
<1>1. first_frame' \in BOOLEAN
  BY DEF Record
<1>2. CASE Elsewhere(in)
  BY <1>1, <1>2 DEF Elsewhere, ControlTypes, controlVars, submitVars
<1>3. CASE CallInitialize(in) \/ CallSubmit(in) \/ CallAbort(in) \/ CallRead(in)
  BY <1>1, <1>3 DEF CallInitialize, CallSubmit, CallAbort, CallRead, Call,
                    ControlTypes, ServiceSteps, controlVars, submitVars
<1>4. CASE InitStop(in)
  <2>1. 1 \in SequenceNumbers
    BY <1>0
  <2> QED BY <1>1, <1>4, <2>1 DEF InitStop, ControlTypes, ServiceSteps, submitVars
<1>5. CASE InitFlush(in) \/ InitWait(in) \/ InitProfile(in) \/ AbortStop(in)
  BY <1>1, <1>5 DEF InitFlush, InitWait, InitProfile, AbortStop, ControlTypes,
                    ServiceSteps, controlVars, submitVars
<1>6. CASE SubmitStatus(in)
  BY <1>1, <1>6 DEF SubmitStatus, ControlTypes, ServiceSteps, controlVars
<1>7. CASE SubmitBank(in)
  <2>1. target_bank' \in Banks /\ store_word' \in WordIndex
    BY <1>0, <1>7 DEF SubmitBank, Banks, TypeOK, CommitTypes
  <2> QED BY <1>1, <1>7, <2>1 DEF SubmitBank, ControlTypes, ServiceSteps, controlVars
<1>8. CASE SubmitStore(in)
  <2>1. store_word' \in WordIndex
    BY <1>0, <1>8 DEF SubmitStore, ControlTypes
  <2> QED BY <1>1, <1>8, <2>1 DEF SubmitStore, ControlTypes, ServiceSteps, controlVars
<1>9. CASE SubmitCommit(in)
  <2>1. next_command_sequence' \in SequenceNumbers
    BY <1>0, <1>9 DEF SubmitCommit, ControlTypes
  <2> QED BY <1>1, <1>9, <2>1 DEF SubmitCommit, ControlTypes, ServiceSteps
<1>10. CASE SubmitEnable(in) \/ AbortFlushed(in)
  BY <1>1, <1>10 DEF SubmitEnable, AbortFlushed, ControlTypes, ServiceSteps, submitVars
<1>11. CASE \/ ReadStatus(in) \/ ReadHead(in) \/ ReadFrameStatus(in)
            \/ ReadTail(in) \/ ReadPayload(in) \/ ReadCheck(in)
  BY <1>1, <1>11 DEF ReadStatus, ReadHead, ReadFrameStatus, ReadTail, ReadPayload,
                     ReadCheck, Load, ControlTypes, ServiceSteps, controlVars,
                     submitVars
<1> QED BY <1>2, <1>3, <1>4, <1>5, <1>6, <1>7, <1>8, <1>9, <1>10, <1>11 DEF Service

-----------------------------------------------------------------------------
(* What the service needs to know of an edge of the sequencer.             *)

\* A frame starts from the committed bank, on a trigger; a running one keeps
\* its bank.
LEMMA FrameTakesCommitted ==
    ASSUME NEW in, FrameFsm(in), Active'
    PROVE  \/ Active /\ active_command_bank' = active_command_bank
           \/ /\ state = "WAIT_FRAME" /\ FrameTrigger(in)
              /\ active_command_bank' = committed_command_bank
<1>1. CASE StartFrame(in) \/ StartStaleFrame(in)
  BY <1>1 DEF StartFrame, StartStaleFrame, OpenFrame
<1>2. CASE ~(StartFrame(in) \/ StartStaleFrame(in))
  <2>1. active_command_bank' = active_command_bank
    BY <1>2 DEF FrameFsm, ExpireFrame, AbortFrame, FlushFrame, Sequence, LeaveIdle,
                ReturnIdle, IssueCommand, ReadBodyWord, StreamBodyWord, TakeResult,
                TakeParam, NextTransaction, EndTransactions, WriteMetadata,
                PublishFrame, Stay, MoveTo, frameRegs
  <2>2. Active
    BY <1>2 DEF FrameFsm, ExpireFrame, DeadlineExpired, AbortFrame, Sequence,
                LeaveIdle, ReturnIdle, IssueCommand, ReadBodyWord, StreamBodyWord,
                TakeResult, TakeParam, NextTransaction, EndTransactions,
                WriteMetadata, PublishFrame, Stay, MoveTo, NothingToDo, Active
  <2> QED BY <2>1, <2>2
<1> QED BY <1>1, <1>2

\* A frame transmits only from a trigger that finds a fresh commit, and no
\* longer than until a flush.
LEMMA TransmissionFrom ==
    ASSUME NEW in, FrameFsm(in), Transmitting'
    PROVE  \/ /\ state = "WAIT_FRAME" /\ FrameTrigger(in)
              /\ command_commit_valid
           \/ Transmitting /\ ~AbortFlush(in)
<1>1. ~ExpireFrame(in) /\ ~AbortFrame(in)
  BY DEF ExpireFrame, AbortFrame, FlushFrame, Conclude, Transmitting
<1>2. Sequence(in) /\ ~(AbortFlush(in) /\ Active)
  BY <1>1 DEF FrameFsm
<1>3. CASE StartFrame(in)
  BY <1>3 DEF StartFrame, OpenFrame, StaleCommand
<1>4. CASE ~StartFrame(in)
  <2>1. Transmitting
    BY <1>2, <1>4 DEF Sequence, LeaveIdle, ReturnIdle, StartStaleFrame, Conclude,
                IssueCommand, ReadBodyWord, StreamBodyWord, TakeResult, TakeParam,
                NextTransaction, EndTransactions, WriteMetadata, PublishFrame, Stay,
                MoveTo, NothingToDo, Transmitting
  <2> QED BY <1>2, <2>1 DEF Transmitting, Active
<1> QED BY <1>3, <1>4

\* Without a single step pending only an enabled, unfaulted tick triggers.
LEMMA TriggerIsEnabled ==
    ASSUME ServiceState, NEW in, FrameTrigger(in)
    PROVE  rt_enable /\ ~in.safety
BY DEF ServiceState, FrameTrigger, Enable

\* With both deadlines disabled a commit is taken unless it is refused.
LEMMA NeverLate ==
    ASSUME ServiceState, NEW in
    PROVE  ~CommitLate(in)
BY DEF ServiceState, CommitLate

LEMMA WindowStaysOpen ==
    ASSUME NEW ops, NEW in \in Inputs(ops, Sampled(CountingDown))
    PROVE  ~in.window /\ ~in.comm
BY ControlAssumption DEF Inputs, Sampled, CountingDown

-----------------------------------------------------------------------------
(* The service keeps its invariant.                                        *)

\* The register of the enable bit follows the service.
EnableBitFollows ==
    /\ pc = "submit_enable" /\ pc' # "submit_enable" => rt_enable' = TRUE
    /\ pc \in {"init_stop", "abort_stop"} /\ pc' # pc => rt_enable' = FALSE
    /\ pc \notin {"submit_enable", "init_stop", "abort_stop"} \/ pc' = pc
          => rt_enable' = rt_enable

LEMMA EnableFollows ==
    ASSUME TypeOK, NEW in, Service(in), HostPort(in)
    PROVE  EnableBitFollows
<1> USE DEF Nothing, Abort, SetEnable, Program, Store, Commit
<1>1. CASE \/ Elsewhere(in) \/ CallInitialize(in) \/ CallSubmit(in)
           \/ CallAbort(in) \/ CallRead(in) \/ InitWait(in)
           \/ SubmitStatus(in) \/ SubmitBank(in)
  BY <1>1 DEF EnableBitFollows, HostPort, Elsewhere, CallInitialize, CallSubmit, CallAbort, CallRead,
              Call, InitWait, SubmitStatus, SubmitBank
<1>2. CASE InitStop(in) \/ AbortStop(in) \/ SubmitEnable(in)
  BY <1>2 DEF EnableBitFollows, HostPort, InitStop, AbortStop, SubmitEnable
<1>3. CASE InitFlush(in) \/ AbortFlushed(in) \/ InitProfile(in)
  BY <1>3 DEF EnableBitFollows, HostPort, InitFlush, AbortFlushed, InitProfile
<1>4. CASE SubmitStore(in) \/ SubmitCommit(in)
  BY <1>4 DEF EnableBitFollows, HostPort, SubmitStore, SubmitCommit
<1>5. CASE \/ ReadStatus(in) \/ ReadHead(in) \/ ReadFrameStatus(in)
           \/ ReadTail(in) \/ ReadPayload(in) \/ ReadCheck(in)
  BY <1>5 DEF EnableBitFollows, HostPort, ReadStatus, ReadHead, ReadFrameStatus, ReadTail,
              ReadPayload, ReadCheck, Load
<1> QED BY <1>1, <1>2, <1>3, <1>4, <1>5 DEF Service

\* How the service comes to the steps the invariant speaks of, and what it does
\* to its own record of the enable bit.
StepOrder ==
    /\ pc' = "boot" => pc \in {"boot", "init_wait"}
    /\ pc' = "init_flush" => pc \in {"init_flush", "init_stop"}
    /\ pc' = "init_wait" => pc \in {"init_wait", "init_flush"}
    /\ pc' = "init_profile" =>
         pc = "init_profile" \/ (pc = "init_wait" /\ ~Active)
    /\ pc' = "abort_flush" => pc \in {"abort_flush", "abort_stop"}
    /\ pc' = "submit_enable" =>
         pc = "submit_enable" \/ (pc = "submit_commit" /\ ~enabled)
    /\ enabled' # enabled =>
         \/ pc = "init_stop" /\ pc' = "init_flush" /\ enabled' = FALSE
         \/ pc = "submit_enable" /\ pc' = "ready" /\ enabled' = TRUE
         \/ pc = "abort_flush" /\ pc' = "ready" /\ enabled' = FALSE
    /\ pc = "submit_enable" /\ pc' # pc => enabled' = TRUE
    /\ pc = "init_stop" /\ pc' # pc => enabled' = FALSE

LEMMA StepsTaken ==
    ASSUME NEW in, Service(in)
    PROVE  StepOrder
<1>1. CASE \/ Elsewhere(in) \/ CallInitialize(in) \/ CallSubmit(in)
           \/ CallAbort(in) \/ CallRead(in) \/ InitWait(in)
           \/ SubmitStatus(in) \/ SubmitBank(in)
  BY <1>1 DEF StepOrder, Elsewhere, CallInitialize, CallSubmit, CallAbort, CallRead,
              Call, InitWait, SubmitStatus, SubmitBank, controlVars
<1>2. CASE InitStop(in) \/ AbortStop(in) \/ SubmitEnable(in)
  BY <1>2 DEF StepOrder, InitStop, AbortStop, SubmitEnable, controlVars
<1>3. CASE InitFlush(in) \/ AbortFlushed(in) \/ InitProfile(in)
  BY <1>3 DEF StepOrder, InitFlush, AbortFlushed, InitProfile, controlVars
<1>4. CASE SubmitStore(in) \/ SubmitCommit(in)
  BY <1>4 DEF StepOrder, SubmitStore, SubmitCommit, controlVars
<1>5. CASE \/ ReadStatus(in) \/ ReadHead(in) \/ ReadFrameStatus(in)
           \/ ReadTail(in) \/ ReadPayload(in) \/ ReadCheck(in)
  BY <1>5 DEF StepOrder, ReadStatus, ReadHead, ReadFrameStatus, ReadTail, ReadPayload,
              ReadCheck, Load, controlVars
<1> QED BY <1>1, <1>2, <1>3, <1>4, <1>5 DEF Service

LEMMA ServiceStateKept ==
    ASSUME TypeOK, ControlTypes, ServiceState,
           NEW in \in Inputs(Accesses, Sampled(CountingDown)), Step(in)
    PROVE  ServiceState'
<1> USE DEF Step, Edge
<1>1. /\ ~past_command_deadline' /\ ~late_command_commit'
      /\ ~single_step_pending' /\ ~command_deadline_missed'
  <2>1. ~past_command_deadline' /\ ~late_command_commit'
    BY WindowStaysOpen, NeverLate DEF CommitRegisters, ServiceState
  <2>2. CASE HoldShared(in)
    <3>1. ~SingleStep(in)
      BY AccessTellsStep DEF SingleStep
    <3> QED BY <2>1, <2>2, <3>1, NeverLate
            DEF HoldShared, DeadlineMissedAfter, ServiceState
  <2>3. CASE OpenFrame
    BY <2>1, <2>3 DEF OpenFrame
  <2> QED BY <2>1, <2>2, <2>3, SharedCases
<1>2. rt_enable' => enabled'
  BY EnableFollows, StepsTaken DEF ServiceState, EnableBitFollows, StepOrder
<1>3. pc' \in {"boot", "init_flush", "init_wait", "init_profile", "abort_flush"}
         => ~rt_enable'
  BY EnableFollows, StepsTaken DEF ServiceState, EnableBitFollows, StepOrder
<1>4. pc' \in {"init_flush", "init_wait", "init_profile", "submit_enable"} => ~enabled'
  BY StepsTaken DEF StepOrder, ServiceState, ControlTypes
<1>5. pc' = "init_profile" => ~Active'
  <2>1. pc' = "init_profile" => ~Active /\ ~rt_enable
    BY StepsTaken DEF StepOrder, ServiceState
  <2> QED BY <2>1, FrameTakesCommitted, TriggerIsEnabled
<1>6. first_frame' => rt_enable'
  <2>1. CASE in.op = SetEnable(TRUE)
    BY <2>1 DEF SetEnable, HostPort
  <2>2. CASE in.op # SetEnable(TRUE)
    <3>1. first_frame' => first_frame /\ in.op # SetEnable(FALSE)
      BY <2>2 DEF Record
    <3>2. in.op.kind # "enable" => rt_enable' = rt_enable
      BY AccessTellsStep DEF HostPort
    <3>3. in.op \in Accesses
      BY DEF Inputs
    <3>4. in.op \notin {SetEnable(TRUE), SetEnable(FALSE)} => in.op.kind # "enable"
      BY <3>3 DEF Accesses, Nothing, Abort, SetEnable, Program, Store, Commit
    <3> QED BY <2>2, <3>1, <3>2, <3>4 DEF ServiceState
  <2> QED BY <2>1, <2>2
<1> QED BY <1>1, <1>2, <1>3, <1>4, <1>5, <1>6 DEF ServiceState

\* A submission passes through its steps in order; outside of them, and while
\* the task is elsewhere, its locals stay as they are.
SubmissionOrder(in) ==
    /\ pc' = "submit_bank" =>
         \/ pc = "submit_bank" /\ locks_seen' = locks_seen
         \/ pc = "submit_status" /\ locks_seen' = {b \in Banks : Locked(b)}
    /\ pc' = "submit_store" =>
         \/ pc = "submit_bank" /\ SubmitBank(in)
         \/ pc = "submit_store" /\ SubmitStore(in)
         \/ pc = "submit_store" /\ in.op.kind = "none"
            /\ UNCHANGED <<target_bank, store_word, commands>>
    /\ pc' = "submit_commit" =>
         \/ pc = "submit_store" /\ SubmitStore(in)
         \/ pc = "submit_commit" /\ in.op.kind = "none"
            /\ UNCHANGED <<target_bank, store_word, commands>>

LEMMA SubmissionInOrder ==
    ASSUME NEW in, Service(in)
    PROVE  SubmissionOrder(in)
<1> USE DEF SubmissionOrder
<1>1. CASE Elsewhere(in)
  BY <1>1 DEF Elsewhere, Nothing, submitVars
<1>2. CASE CallInitialize(in) \/ CallSubmit(in) \/ CallAbort(in) \/ CallRead(in)
  BY <1>2 DEF CallInitialize, CallSubmit, CallAbort, CallRead, Call
<1>3. CASE InitStop(in) \/ InitFlush(in) \/ InitWait(in) \/ InitProfile(in)
           \/ AbortStop(in) \/ AbortFlushed(in)
  BY <1>3 DEF InitStop, InitFlush, InitWait, InitProfile, AbortStop, AbortFlushed
<1>4. CASE SubmitStatus(in) \/ SubmitBank(in)
  BY <1>4 DEF SubmitStatus, SubmitBank
<1>5. CASE SubmitStore(in) \/ SubmitCommit(in) \/ SubmitEnable(in)
  BY <1>5 DEF SubmitStore, SubmitCommit, SubmitEnable
<1>6. CASE \/ ReadStatus(in) \/ ReadHead(in) \/ ReadFrameStatus(in)
           \/ ReadTail(in) \/ ReadPayload(in) \/ ReadCheck(in)
  BY <1>6 DEF ReadStatus, ReadHead, ReadFrameStatus, ReadTail, ReadPayload,
              ReadCheck, Load
<1> HIDE DEF SubmissionOrder
<1> QED BY <1>1, <1>2, <1>3, <1>4, <1>5, <1>6 DEF Service

\* Only a commit of the service moves the committed bank.
LEMMA CommittedBankStays ==
    ASSUME NEW in, Service(in), CommitRegisters(in), pc' # "ready", pc' # "submit_enable"
    PROVE  committed_command_bank' = committed_command_bank
<1>1. in.op.kind # "commit"
  BY AccessTellsStep DEF SubmitCommit
<1> QED BY <1>1 DEF CommitRegisters, CommitTaken

LEMMA TargetFreeKept ==
    ASSUME TypeOK, ControlTypes, TargetFree, NEW in, Step(in)
    PROVE  TargetFree'
<1> USE DEF Step, Edge
<1>0. committed_command_bank \in Banks /\ active_command_bank \in Banks
  BY DEF TypeOK, CommitTypes, FrameTypes
<1>1. \/ ~Active'
      \/ Active /\ active_command_bank' = active_command_bank
      \/ active_command_bank' = committed_command_bank
  BY FrameTakesCommitted
<1>2. SubmissionOrder(in)
  BY SubmissionInOrder
<1>3. ASSUME pc' = "submit_bank", NEW b \in Banks,
             b # committed_command_bank', b \notin locks_seen'
      PROVE  ~(Active' /\ active_command_bank' = b)
  <2>1. committed_command_bank' = committed_command_bank
    BY <1>3, CommittedBankStays
  <2>2. ~(Active /\ active_command_bank = b)
    BY <1>2, <1>3, <2>1 DEF SubmissionOrder, TargetFree, Locked
  <2> QED BY <1>1, <1>3, <2>1, <2>2
<1>4. ASSUME pc' \in {"submit_store", "submit_commit"}
      PROVE  /\ target_bank' = 1 - committed_command_bank'
             /\ ~(Active' /\ active_command_bank' = target_bank')
  <2>1. committed_command_bank' = committed_command_bank
    BY <1>4, CommittedBankStays
  <2>2. /\ target_bank' = 1 - committed_command_bank
        /\ ~(Active /\ active_command_bank = target_bank')
    <3>1. CASE pc = "submit_bank" /\ SubmitBank(in)
      <4>1. target_bank' = 1 - committed_command_bank
        BY <3>1 DEF SubmitBank
      <4>2. target_bank' \notin locks_seen
        BY <1>4, <3>1 DEF SubmitBank
      <4>3. target_bank' \in Banks /\ target_bank' # committed_command_bank
        BY <1>0, <4>1 DEF Banks
      <4> QED BY <3>1, <4>1, <4>2, <4>3 DEF TargetFree
    <3>2. CASE pc \in {"submit_store", "submit_commit"} /\ target_bank' = target_bank
      BY <3>2 DEF TargetFree
    <3> QED BY <1>2, <1>4, <3>1, <3>2 DEF SubmissionOrder, SubmitStore
  <2>3. target_bank' # committed_command_bank
    BY <1>0, <2>2 DEF Banks
  <2> QED BY <1>1, <2>1, <2>2, <2>3
<1> QED BY <1>3, <1>4 DEF TargetFree

\* The bank being filled, or about to be committed, is not locked.
LEMMA TargetNotLocked ==
    ASSUME TypeOK, TargetFree, pc \in {"submit_store", "submit_commit"}
    PROVE  ~Locked(target_bank)
BY DEF TargetFree, Locked, TypeOK, CommitTypes, Banks

LEMMA NeverRefusedKept ==
    ASSUME TypeOK, ServiceState, TargetFree, NeverRefused, NEW in, Step(in)
    PROVE  NeverRefused'
<1> USE DEF Step, Edge
<1>1. CASE HoldShared(in)
  <2>1. ASSUME in.op.kind = "write" PROVE ~Locked(in.op.bank)
    <3>1. pc = "submit_store" /\ SubmitStore(in)
      BY <2>1, AccessTellsStep
    <3>2. in.op.bank = target_bank
      BY <3>1 DEF SubmitStore, Store
    <3> QED BY <3>1, <3>2, TargetNotLocked
  <2>2. ASSUME in.op.kind = "commit" PROVE ~Locked(in.op.bank)
    <3>1. pc = "submit_commit" /\ SubmitCommit(in)
      BY <2>2, AccessTellsStep
    <3>2. in.op.bank = target_bank
      BY <3>1 DEF SubmitCommit, Commit
    <3> QED BY <3>1, <3>2, TargetNotLocked
  <2>3. in.op.kind = "profile" => ~Enable(in) /\ ~Active
    BY AccessTellsStep DEF ServiceState, Enable
  <2>4. in.op.kind # "bad_write"
    BY AccessTellsStep
  <2>5. ~WriteBlocked(in) /\ ~CommitRefused(in)
    BY <2>1, <2>2, <2>3, <2>4 DEF WriteBlocked, CommitRefused
  <2>6. ~BufferErrorAfter(in)
    BY <2>5 DEF BufferErrorAfter, NeverRefused, WriteBlocked, CommitRefused
  <2> QED BY <1>1, <2>6 DEF HoldShared, NeverRefused
<1>2. CASE OpenFrame
  BY <1>2 DEF OpenFrame, NeverRefused
<1>3. FrameFsm(in)
  OBVIOUS
<1> QED BY <1>1, <1>2, <1>3, SharedCases, Zenon

LEMMA WordsStoredKept ==
    ASSUME TypeOK, ControlTypes, TargetFree, WordsStored,
           NEW in \in Inputs(Accesses, Sampled(CountingDown)), Step(in)
    PROVE  WordsStored'
<1> USE DEF Step, Edge
<1>0. /\ command_mem \in [Banks -> [WordIndex -> Payload]]
      /\ target_bank \in Banks /\ store_word \in WordIndex
      /\ Words \in Nat \ {0} /\ WordIndex = 0 .. Words - 1
  BY GeometryAssumption DEF TypeOK, PortTypes, Image, ControlTypes, Words, WordIndex
<1>1. SubmissionOrder(in)
  BY SubmissionInOrder
<1>2. CASE pc = "submit_store" /\ SubmitStore(in)
  <2>1. /\ in.op = Store /\ target_bank' = target_bank /\ commands' = commands
        /\ pc' = IF store_word + 1 = Words THEN "submit_commit" ELSE "submit_store"
        /\ store_word' = (store_word + 1) % Words
    BY <1>2 DEF SubmitStore
  <2>2. ~WriteBlocked(in)
    BY <1>2, <2>1, TargetNotLocked DEF WriteBlocked, Store
  <2>3. command_mem' = [command_mem EXCEPT ![target_bank][store_word] = commands]
    BY <2>1, <2>2 DEF HostPort, StoreWord, Store
  <2>4. \A w \in WordIndex :
            w <= store_word => command_mem'[target_bank][w] = commands
    BY <1>0, <1>2, <2>3 DEF WordsStored
  <2>5. store_word + 1 # Words => store_word' = store_word + 1
    BY <1>0, <2>1
  <2>6. store_word + 1 = Words => \A w \in WordIndex : w <= store_word
    BY <1>0
  <2> QED BY <1>0, <2>1, <2>4, <2>5, <2>6 DEF WordsStored
<1>3. CASE in.op.kind = "none" /\ pc' = pc /\ UNCHANGED <<target_bank, store_word, commands>>
  <2>1. command_mem' = command_mem
    BY <1>3 DEF HostPort, StoreWord
  <2> QED BY <1>3, <2>1 DEF WordsStored
<1>4. CASE pc = "submit_bank" /\ SubmitBank(in)
  <2>1. store_word' = 0 /\ pc' # "submit_commit"
    BY <1>4 DEF SubmitBank
  <2> QED BY <1>0, <2>1 DEF WordsStored
<1>5. CASE pc' \notin {"submit_store", "submit_commit"}
  BY <1>5 DEF WordsStored
<1> QED BY <1>1, <1>2, <1>3, <1>4, <1>5 DEF SubmissionOrder

\* Only a commit changes the submission the service remembers.
LEMMA SubmittedStays ==
    ASSUME NEW in, Service(in), in.op.kind # "commit"
    PROVE  submitted' = submitted
<1> USE DEF submitVars
<1>1. CASE \/ Elsewhere(in) \/ CallInitialize(in) \/ CallSubmit(in)
           \/ CallAbort(in) \/ CallRead(in)
  BY <1>1 DEF Elsewhere, CallInitialize, CallSubmit, CallAbort, CallRead
<1>2. CASE InitStop(in) \/ InitFlush(in) \/ InitWait(in) \/ InitProfile(in)
           \/ AbortStop(in) \/ AbortFlushed(in)
  BY <1>2 DEF InitStop, InitFlush, InitWait, InitProfile, AbortStop, AbortFlushed
<1>3. CASE SubmitStatus(in) \/ SubmitBank(in) \/ SubmitStore(in) \/ SubmitEnable(in)
  BY <1>3 DEF SubmitStatus, SubmitBank, SubmitStore, SubmitEnable
<1>4. ~SubmitCommit(in)
  BY DEF SubmitCommit, Commit
<1>5. CASE \/ ReadStatus(in) \/ ReadHead(in) \/ ReadFrameStatus(in)
           \/ ReadTail(in) \/ ReadPayload(in) \/ ReadCheck(in)
  BY <1>5 DEF ReadStatus, ReadHead, ReadFrameStatus, ReadTail, ReadPayload,
              ReadCheck, Load
<1> QED BY <1>1, <1>2, <1>3, <1>4, <1>5 DEF Service

LEMMA CommitHoldsKept ==
    ASSUME TypeOK, ControlTypes, ServiceState, TargetFree, WordsStored,
           CommitHoldsLastSubmission,
           NEW in \in Inputs(Accesses, Sampled(CountingDown)), Step(in)
    PROVE  CommitHoldsLastSubmission'
<1>0. /\ Service(in) /\ CommitRegisters(in) /\ HostPort(in)
      /\ in \in Inputs(HostOps, Sampled(CountingDown))
  BY StepIsEdge DEF Step, Edge
<1>1. CASE in.op.kind = "commit"
  <2>1. pc = "submit_commit" /\ SubmitCommit(in)
    BY <1>0, <1>1, AccessTellsStep
  <2>2. in.op.bank = target_bank /\ submitted' = commands
    BY <2>1 DEF SubmitCommit, Commit
  <2>3. ~Locked(in.op.bank)
    BY <2>1, <2>2, TargetNotLocked
  <2>4. CommitTaken(in)
    BY <1>1, <2>3, NeverLate DEF CommitTaken, CommitRefused
  <2>5. committed_command_bank' = target_bank /\ command_mem' = command_mem
    BY <1>0, <1>1, <2>2, <2>4 DEF CommitRegisters, HostPort, StoreWord
  <2> QED BY <2>1, <2>2, <2>5 DEF WordsStored, CommitHoldsLastSubmission
<1>2. CASE in.op.kind # "commit"
  <2>1. /\ committed_command_bank' = committed_command_bank
        /\ command_commit_valid' => command_commit_valid
    BY <1>0, <1>2 DEF CommitRegisters, CommitTaken, CommitValidAfter, TypeOK,
                      CommitTypes
  <2>2. submitted' = submitted
    BY <1>0, <1>2, SubmittedStays
  <2>3. command_commit_valid =>
          command_mem'[committed_command_bank] = command_mem[committed_command_bank]
    BY <1>0, CommittedBankKept
  <2> QED BY <2>1, <2>2, <2>3 DEF CommitHoldsLastSubmission
<1> QED BY <1>1, <1>2

\* A flush finds no trigger: the service stops RT before it flushes, and a
\* safety fault masks the enable bit.
LEMMA FlushFindsNoTrigger ==
    ASSUME ServiceState, NEW in, Service(in), AbortFlush(in)
    PROVE  ~FrameTrigger(in)
<1>1. in.op.kind = "abort" => pc \in {"init_flush", "abort_flush"}
  BY AccessTellsStep
<1> QED BY <1>1, TriggerIsEnabled DEF ServiceState, AbortFlush

LEMMA TransmitsCommittedKept ==
    ASSUME TypeOK, ServiceState, TransmitsCommitted, NEW in, Step(in)
    PROVE  TransmitsCommitted'
<1> SUFFICES ASSUME Transmitting' PROVE command_commit_valid'
  BY DEF TransmitsCommitted
<1>0. Service(in) /\ FrameFsm(in) /\ CommitRegisters(in)
  BY DEF Step, Edge
<1>1. command_commit_valid /\ ~AbortFlush(in)
  BY <1>0, TransmissionFrom, FlushFindsNoTrigger DEF TransmitsCommitted
<1> QED BY <1>0, <1>1 DEF CommitRegisters, CommitValidAfter

-----------------------------------------------------------------------------
(* The invariant of the whole.                                             *)

LEMMA ControlInitInv == ControlInit => ControlInv
<1> SUFFICES ASSUME ControlInit PROVE ControlInv
  OBVIOUS
<1>1. 0 \in SequenceNumbers /\ 0 \in WordIndex
  BY ControlAssumption, GeometryAssumption DEF WordIndex, Words
<1>2. ControlTypes
  BY <1>1 DEF ControlInit, ControlTypes, ServiceSteps, Banks
<1>3. ServiceState /\ NeverRefused
  BY DEF ControlInit, Init, ServiceState, NeverRefused
<1>4. TargetFree /\ WordsStored
  BY DEF ControlInit, TargetFree, WordsStored
<1>5. CommitHoldsLastSubmission /\ TransmitsCommitted
  BY DEF ControlInit, Init, CommitHoldsLastSubmission, TransmitsCommitted, Transmitting
<1> QED BY <1>2, <1>3, <1>4, <1>5 DEF ControlInv

LEMMA ControlStepKeeps ==
    ASSUME IInv, ControlInv,
           NEW in \in Inputs(Accesses, Sampled(CountingDown)), Step(in)
    PROVE  ControlInv' /\ Next
<1>1. TypeOK
  BY DEF IInv
<1>2. ControlTypes' /\ ServiceState' /\ TargetFree' /\ WordsStored'
  BY <1>1, ControlTypesKept, ServiceStateKept, TargetFreeKept, WordsStoredKept
     DEF ControlInv, Step
<1>3. NeverRefused' /\ CommitHoldsLastSubmission' /\ TransmitsCommitted'
  BY <1>1, NeverRefusedKept, CommitHoldsKept, TransmitsCommittedKept DEF ControlInv
<1>4. Next
  BY StepIsEdge DEF ControlInv, Step, Next
<1> QED BY <1>2, <1>3, <1>4 DEF ControlInv

LEMMA ControlStutter ==
    ASSUME ControlInv, UNCHANGED controlledVars
    PROVE  ControlInv' /\ UNCHANGED vars
<1> USE DEF controlledVars, fwVars, controlVars, submitVars, vars, portVars,
            commitVars, sharedVars, fsmVars, frameRegs, coreVars
<1>1. ControlTypes' /\ ServiceState'
  BY DEF ControlInv, ControlTypes, ServiceState, Active
<1>2. TargetFree' /\ WordsStored'
  BY DEF ControlInv, TargetFree, WordsStored, Active
<1>3. NeverRefused' /\ CommitHoldsLastSubmission' /\ TransmitsCommitted'
  BY DEF ControlInv, NeverRefused, CommitHoldsLastSubmission, TransmitsCommitted,
         Transmitting
<1> QED BY <1>1, <1>2, <1>3 DEF ControlInv

LEMMA ControlBoxStep ==
    IInv /\ ControlInv /\ [ControlNext]_controlledVars
        => IInv' /\ ControlInv' /\ [Next]_vars
<1> SUFFICES ASSUME IInv, ControlInv, [ControlNext]_controlledVars
             PROVE  IInv' /\ ControlInv' /\ [Next]_vars
  OBVIOUS
<1>1. CASE ControlNext
  <2>1. PICK in \in Inputs(Accesses, Sampled(CountingDown)) : Step(in)
    BY <1>1 DEF ControlNext
  <2>2. ControlInv' /\ Next
    BY <2>1, ControlStepKeeps
  <2>3. IInv'
    BY <2>1, StepIsEdge, EdgeIInv DEF ControlInv, Step
  <2> QED BY <2>2, <2>3
<1>2. CASE UNCHANGED controlledVars
  BY <1>2, ControlStutter, StutterIInv
<1> QED BY <1>1, <1>2

LEMMA SpecControlInv == ControlSpec => [](IInv /\ ControlInv)
<1>1. ControlInit => IInv /\ ControlInv
  BY InitIInv, ControlInitInv DEF ControlInit
<1> QED BY <1>1, ControlBoxStep, PTL DEF ControlSpec

\* The service only makes accesses the sequencer is specified for, so the
\* system of the two implements the sequencer, and with it FrameContract:
\* under the firmware as it is, a committed image is transmitted at most once,
\* whole and unmixed, and feedback marked complete answers its own frame.
THEOREM ControlImplementsSpec == ControlSpec => Spec /\ ImplementsFrameContract
<1>1. ControlInit => Init
  BY DEF ControlInit
<1>2. ControlSpec => Spec
  BY <1>1, InitIInv, ControlInitInv, ControlBoxStep, PTL DEF ControlSpec, Spec
<1> QED BY <1>2, SpecImplementsFrameContract, PTL

\* NeverRefused, for every geometry: lock bits read in one access and the bank
\* read in another never let a store or a commit hit a bank in use.
THEOREM ServiceNeverRefused == ControlSpec => []NeverRefused
<1>1. ControlInv => NeverRefused
  BY DEF ControlInv
<1> QED BY <1>1, SpecControlInv, PTL

\* CommitHoldsLastSubmission, for every geometry: the bank on offer holds every
\* word of the last submission, and of no other.
THEOREM OfferIsLastSubmission == ControlSpec => []CommitHoldsLastSubmission
<1>1. ControlInv => CommitHoldsLastSubmission
  BY DEF ControlInv
<1> QED BY <1>1, SpecControlInv, PTL

\* FlushSuppressesTransmission, of the firmware: the sequencer alone lets a
\* flushed command out when the flush falls on an enabled frame tick, but the
\* service clears the enable bit before every flush.
THEOREM ServiceFlushSuppresses == ControlSpec => FlushSuppressesTransmission
<1>1. ControlInv /\ [ControlNext]_controlledVars
         => [wire' \notin {wire, <<>>} => command_commit_valid]_vars
  <2> SUFFICES ASSUME ControlInv, ControlNext, wire' \notin {wire, <<>>}
               PROVE  command_commit_valid
    BY DEF controlledVars, vars, coreVars
  <2>1. PICK in \in Inputs(Accesses, Sampled(CountingDown)) : Step(in)
    BY DEF ControlNext
  <2>2. in.ev = "body"
    BY <2>1 DEF Step, Edge, RecordWire
  <2>3. state = "STREAM_BODY"
    BY <2>1, <2>2, BodyEvent DEF Step, Edge
  <2> QED BY <2>3 DEF ControlInv, TransmitsCommitted, Transmitting
<1> QED BY <1>1, SpecControlInv, PTL DEF FlushSuppressesTransmission, ControlSpec

-----------------------------------------------------------------------------
(* The first frame after an enable.                                        *)

LEMMA HeldUnlessTriggered ==
    ASSUME NEW in, FrameFsm(in), ~Triggered(in)
    PROVE  HoldShared(in)
<1>1. ~StartFrame(in) /\ ~StartStaleFrame(in)
  BY DEF Triggered, StartFrame, StartStaleFrame, OpenFrame
<1> QED BY <1>1 DEF FrameFsm, ExpireFrame, AbortFrame, FlushFrame, Sequence,
       LeaveIdle, ReturnIdle, IssueCommand, ReadBodyWord,
       StreamBodyWord, TakeResult, TakeParam, NextTransaction,
       EndTransactions, WriteMetadata, PublishFrame, Stay, MoveTo

LEMMA FramesBegin ==
    ASSUME NEW in, FrameFsm(in), ~Active, Active'
    PROVE  StartFrame(in) \/ StartStaleFrame(in)
BY DEF FrameFsm, ExpireFrame, DeadlineExpired, AbortFrame, Sequence,
       LeaveIdle, ReturnIdle, IssueCommand, ReadBodyWord, StreamBodyWord,
       TakeResult, TakeParam, NextTransaction, EndTransactions,
       WriteMetadata, PublishFrame, Stay, MoveTo, NothingToDo, Active

\* What the first frame after an enable depends on, and how it comes about.
FirstFrameOrder(in) ==
    /\ pc' = "submit_enable" /\ in.op.kind # "commit" => pc = "submit_enable"
    /\ Submitting' =>
         /\ enabled' = enabled /\ next_command_sequence' = next_command_sequence
         /\ pc # "submit_enable"
         /\ Submitting \/ NumberIsFree

LEMMA FirstFrameInOrder ==
    ASSUME NEW in, Service(in)
    PROVE  FirstFrameOrder(in)
<1> USE DEF FirstFrameOrder, Submitting
<1>1. CASE Elsewhere(in)
  BY <1>1 DEF Elsewhere, controlVars
<1>2. CASE CallInitialize(in) \/ CallSubmit(in) \/ CallAbort(in) \/ CallRead(in)
  BY <1>2 DEF CallInitialize, CallSubmit, CallAbort, CallRead, Call, controlVars
<1>3. CASE InitStop(in) \/ InitFlush(in) \/ InitWait(in) \/ InitProfile(in)
           \/ AbortStop(in) \/ AbortFlushed(in)
  BY <1>3 DEF InitStop, InitFlush, InitWait, InitProfile, AbortStop, AbortFlushed
<1>4. CASE SubmitStatus(in) \/ SubmitBank(in)
  BY <1>4 DEF SubmitStatus, SubmitBank, controlVars
<1>5. CASE SubmitStore(in)
  BY <1>5 DEF SubmitStore, controlVars
<1>6. CASE SubmitCommit(in)
  BY <1>6 DEF SubmitCommit, Commit
<1>7. CASE SubmitEnable(in)
  BY <1>7 DEF SubmitEnable
<1>8. CASE \/ ReadStatus(in) \/ ReadHead(in) \/ ReadFrameStatus(in)
           \/ ReadTail(in) \/ ReadPayload(in) \/ ReadCheck(in)
  BY <1>8 DEF ReadStatus, ReadHead, ReadFrameStatus, ReadTail, ReadPayload,
              ReadCheck, Load
<1> HIDE DEF FirstFrameOrder, Submitting
<1> QED BY <1>1, <1>2, <1>3, <1>4, <1>5, <1>6, <1>7, <1>8 DEF Service

\* A history of first_frame that goes on is one of an enable that stands, with
\* no trigger on the way.
LEMMA FirstFrameGoesOn ==
    ASSUME ServiceState, NEW in, Service(in), Record(in), first_frame'
    PROVE  /\ first_frame \/ pc = "submit_enable"
           /\ ~Triggered(in)
<1>1. CASE in.op = SetEnable(TRUE)
  <2>1. in.op.kind = "enable" /\ in.op.enable = TRUE
    BY <1>1 DEF SetEnable
  <2>2. pc = "submit_enable"
    BY <2>1, AccessTellsStep
  <2>3. ~rt_enable
    BY <2>2 DEF ServiceState
  <2> QED BY <2>2, <2>3, TriggerIsEnabled DEF Triggered
<1>2. CASE in.op # SetEnable(TRUE)
  BY <1>2 DEF Record
<1> QED BY <1>1, <1>2

LEMMA FirstFrameInvKept ==
    ASSUME "safety" \notin Stimuli,
           TypeOK, ControlInv, FirstFrameInv, ControlInv',
           NEW in \in Inputs(Accesses, Sampled(CountingDown)), Step(in)
    PROVE  FirstFrameInv'
<1>0. /\ Service(in) /\ Record(in) /\ FrameFsm(in) /\ CommitRegisters(in)
      /\ ServiceState /\ ServiceState' /\ TargetFree
  BY DEF Step, Edge, ControlInv
<1>1. AbortFlush(in) => pc \in {"init_flush", "abort_flush"}
  <2>1. ~in.safety
    BY DEF Inputs, Sampled
  <2> QED BY <1>0, <2>1, AccessTellsStep DEF AbortFlush
<1>2. FirstFrameOrder(in)
  BY <1>0, FirstFrameInOrder
\* What the registers do without a trigger.
<1>3. ASSUME ~Triggered(in)
      PROVE  /\ last_command_sequence' = last_command_sequence
             /\ last_command_valid' => last_command_valid
  <2>1. HoldShared(in)
    BY <1>0, <1>3, HeldUnlessTriggered
  <2>2. last_command_valid \in BOOLEAN
    BY DEF TypeOK, SharedTypes
  <2> QED BY <2>1, <2>2 DEF HoldShared
<1>4. ~rt_enable => ~Triggered(in)
  BY <1>0, TriggerIsEnabled DEF Triggered
<1>5. ASSUME first_frame' \/ pc' = "submit_enable"
      PROVE  ~StaleCommand'
  <2>1. ~Triggered(in)
    <3>1. CASE pc' = "submit_enable"
      <4>1. ~enabled
        BY <1>0, <3>1, StepsTaken DEF StepOrder, ServiceState
      <4> QED BY <1>0, <1>4, <4>1 DEF ServiceState
    <3>2. CASE first_frame'
      BY <1>0, <3>2, FirstFrameGoesOn
    <3> QED BY <1>5, <3>1, <3>2
  <2>2. command_commit_valid' /\ ~AlreadySent'
    <3>1. CASE in.op.kind = "commit"
      <4>1. pc = "submit_commit" /\ SubmitCommit(in)
        BY <1>0, <3>1, AccessTellsStep
      <4>2. in.op.bank = target_bank /\ in.op.sequence = next_command_sequence
        BY <4>1 DEF SubmitCommit, Commit
      <4>3. CommitTaken(in)
        BY <1>0, <3>1, <4>1, <4>2, TargetNotLocked, NeverLate
           DEF CommitTaken, CommitRefused
      <4>4. command_commit_valid' /\ committed_command_sequence' = next_command_sequence
        BY <1>0, <1>1, <4>1, <4>2, <4>3 DEF CommitRegisters, CommitValidAfter
      <4>5. first_frame \/ ~enabled
        BY <1>0, <1>5, <4>1, FirstFrameGoesOn, StepsTaken DEF StepOrder
      <4>6. NumberIsFree
        BY <4>1, <4>5 DEF FirstFrameInv, Submitting
      <4> QED BY <1>3, <2>1, <4>4, <4>6 DEF NumberIsFree, AlreadySent
    <3>2. CASE in.op.kind # "commit"
      <4>1. first_frame \/ pc = "submit_enable"
        BY <1>0, <1>2, <1>5, <3>2, FirstFrameGoesOn DEF FirstFrameOrder
      <4>2. command_commit_valid /\ ~AlreadySent
        BY <4>1 DEF FirstFrameInv, StaleCommand
      <4>3. ~AbortFlush(in)
        BY <1>0, <1>1, <4>1 DEF ServiceState
      <4>4. command_commit_valid' /\ committed_command_sequence' = committed_command_sequence
        BY <1>0, <3>2, <4>2, <4>3 DEF CommitRegisters, CommitValidAfter, CommitTaken
      <4> QED BY <1>3, <2>1, <4>2, <4>4 DEF AlreadySent
    <3> QED BY <3>1, <3>2
  <2> QED BY <1>0, <2>2 DEF StaleCommand, ServiceState
<1>6. ASSUME Submitting', first_frame' \/ ~enabled'
      PROVE  NumberIsFree'
  <2>1. /\ enabled' = enabled /\ next_command_sequence' = next_command_sequence
        /\ pc # "submit_enable"
        /\ Submitting \/ NumberIsFree
    BY <1>2, <1>6 DEF FirstFrameOrder
  <2>2. first_frame \/ ~enabled
    BY <1>0, <1>6, <2>1, FirstFrameGoesOn
  <2>3. NumberIsFree
    BY <2>1, <2>2 DEF FirstFrameInv
  <2>4. ~Triggered(in)
    BY <1>0, <1>4, <1>6, <2>1, FirstFrameGoesOn DEF ServiceState
  <2> QED BY <1>3, <2>1, <2>3, <2>4 DEF NumberIsFree
<1> QED BY <1>5, <1>6 DEF FirstFrameInv

\* FirstFrameFresh, for every geometry, while no safety fault interferes: the
\* enable that follows the first commit always finds it fresh, whatever was
\* submitted, aborted and initialized before.
THEOREM EnabledFrameIsFresh ==
    ASSUME "safety" \notin Stimuli
    PROVE  ControlSpec => FirstFrameFresh
<1> DEFINE Inv == IInv /\ ControlInv /\ FirstFrameInv
<1>1. ControlInit => Inv
  <2>1. ControlInit => FirstFrameInv
    BY DEF ControlInit, FirstFrameInv, Submitting
  <2> QED BY <2>1, InitIInv, ControlInitInv DEF ControlInit
<1>2. Inv /\ [ControlNext]_controlledVars => Inv'
  <2> SUFFICES ASSUME Inv, [ControlNext]_controlledVars PROVE Inv'
    OBVIOUS
  <2>1. IInv' /\ ControlInv'
    BY ControlBoxStep
  <2>2. CASE ControlNext
    <3>1. PICK in \in Inputs(Accesses, Sampled(CountingDown)) : Step(in)
      BY <2>2 DEF ControlNext
    <3> QED BY <2>1, <3>1, FirstFrameInvKept DEF IInv
  <2>3. CASE UNCHANGED controlledVars
    <3>1. FirstFrameInv'
      BY <2>3 DEF controlledVars, vars, commitVars, sharedVars, fwVars, controlVars,
                  FirstFrameInv, Submitting, NumberIsFree, StaleCommand, AlreadySent
    <3> QED BY <2>1, <3>1
  <2> QED BY <2>2, <2>3
<1>3. Inv /\ [ControlNext]_controlledVars
         => [first_frame /\ ~Active /\ Active' => state' = "START_CMD"]_controlledVars
  <2> SUFFICES ASSUME Inv, ControlNext, first_frame, ~Active, Active'
               PROVE  state' = "START_CMD"
    OBVIOUS
  <2>1. PICK in \in Inputs(Accesses, Sampled(CountingDown)) : Step(in)
    BY DEF ControlNext
  <2>2. StartFrame(in) \/ StartStaleFrame(in)
    BY <2>1, FramesBegin DEF Step, Edge
  <2>3. ~StaleCommand
    BY DEF FirstFrameInv
  <2> QED BY <2>2, <2>3 DEF StartFrame, StartStaleFrame
<1> QED BY <1>1, <1>2, <1>3, PTL DEF ControlSpec, FirstFrameFresh

-----------------------------------------------------------------------------
(* What the service reads back.                                            *)

\* A read passes through its steps in order; any other step of the service
\* leaves the copy alone.
ReadOrder(in) ==
    \/ ReadStatus(in) \/ ReadHead(in) \/ ReadFrameStatus(in) \/ ReadTail(in)
    \/ ReadPayload(in)
    \/ UNCHANGED readVars /\ (pc' = pc \/ ~Copying')

LEMMA ReadInOrder ==
    ASSUME NEW in, Service(in)
    PROVE  ReadOrder(in)
<1> USE DEF ReadOrder, Copying, readVars
<1>1. CASE Elsewhere(in)
  BY <1>1 DEF Elsewhere
<1>2. CASE CallInitialize(in) \/ CallSubmit(in) \/ CallAbort(in) \/ CallRead(in)
  BY <1>2 DEF CallInitialize, CallSubmit, CallAbort, CallRead, Call
<1>3. CASE InitStop(in) \/ InitFlush(in) \/ InitWait(in) \/ InitProfile(in)
           \/ AbortStop(in) \/ AbortFlushed(in) \/ ReadCheck(in)
  BY <1>3 DEF InitStop, InitFlush, InitWait, InitProfile, AbortStop, AbortFlushed,
              ReadCheck
<1>4. CASE SubmitStatus(in) \/ SubmitBank(in) \/ SubmitStore(in)
  BY <1>4 DEF SubmitStatus, SubmitBank, SubmitStore
<1>5. CASE SubmitCommit(in) \/ SubmitEnable(in)
  BY <1>5 DEF SubmitCommit, SubmitEnable, submitVars
<1> HIDE DEF ReadOrder
<1>6. CASE \/ ReadStatus(in) \/ ReadHead(in) \/ ReadFrameStatus(in)
           \/ ReadTail(in) \/ ReadPayload(in)
  BY <1>6 DEF ReadOrder
<1> QED BY <1>1, <1>2, <1>3, <1>4, <1>5, <1>6 DEF Service

LEMMA PublicationsCounted ==
    ASSUME ReadTypes, NEW in, Record(in)
    PROVE  /\ publications' \in 0 .. MaxPublications
           /\ pc # "ready" /\ active_feedback_bank' # active_feedback_bank =>
                publications' > 1 \/ publications = 0
           /\ pc # "ready" /\ publications' = 0 =>
                publications = 0 /\ active_feedback_bank' = active_feedback_bank
           /\ pc # "ready" /\ publications' <= 1 => publications <= 1
BY ControlAssumption DEF Record, ReadTypes

LEMMA ReadTypesKept ==
    ASSUME TypeOK, ReadTypes, NEW in, Service(in), Record(in)
    PROVE  ReadTypes'
<1>0. /\ publications' \in 0 .. MaxPublications /\ Params \in Nat \ {0}
      /\ active_feedback_bank \in Banks
      /\ feedback_head \in [Banks -> Frames]
      /\ feedback_status \in [Banks -> FrameStatus]
      /\ feedback_tail \in [Banks -> Frames]
      /\ feedback_payload \in [Banks -> [0 .. Params - 1 -> Frames]]
  BY PublicationsCounted, GeometryAssumption
     DEF TypeOK, FrameTypes, FeedbackTypes
<1>1. CASE ReadStatus(in)
  BY <1>0, <1>1 DEF ReadStatus, ReadTypes
<1>2. CASE ReadHead(in) \/ ReadFrameStatus(in) \/ ReadTail(in)
  <2>1. raw' \in FeedbackRecord
    BY <1>0, <1>2 DEF ReadHead, ReadFrameStatus, ReadTail, Load, ReadTypes,
                      FeedbackRecord
  <2> QED BY <1>0, <1>2, <2>1 DEF ReadHead, ReadFrameStatus, ReadTail, Load, ReadTypes
<1>3. CASE ReadPayload(in)
  <2>1. load_word \in 0 .. Params - 1
    BY <1>0, <1>3 DEF ReadPayload, ReadTypes
  <2>2. raw' \in FeedbackRecord
    BY <1>0, <1>3, <2>1 DEF ReadPayload, Load, ReadTypes, FeedbackRecord
  <2> QED BY <1>0, <1>3, <2>1, <2>2 DEF ReadPayload, Load, ReadTypes
<1>4. CASE UNCHANGED readVars /\ (pc' = pc \/ ~Copying')
  BY <1>0, <1>4 DEF readVars, Copying, ReadTypes
<1> QED BY <1>1, <1>2, <1>3, <1>4, ReadInOrder DEF ReadOrder

\* A frame number moves only when a frame starts.
LEMMA FrameNumberMoves ==
    ASSUME NEW in, FrameFsm(in)
    PROVE  \/ /\ ~Active /\ Active'
              /\ frame_sequence' = (frame_sequence + 1) % FrameMod
              /\ ~PublishFrame(in)
           \/ /\ Active' = Active /\ frame_sequence' = frame_sequence
              /\ ~PublishFrame(in)
           \/ /\ Active /\ ~Active' /\ frame_sequence' = frame_sequence
              /\ PublishFrame(in)
<1>1. CASE StartFrame(in) \/ StartStaleFrame(in)
  BY <1>1 DEF StartFrame, StartStaleFrame, OpenFrame, Conclude, PublishFrame, Active
<1>2. CASE PublishFrame(in)
  BY <1>2 DEF PublishFrame, Active, frameRegs
<1>3. CASE ~(StartFrame(in) \/ StartStaleFrame(in) \/ PublishFrame(in))
  <2>1. frame_sequence' = frame_sequence
    BY <1>3 DEF FrameFsm, ExpireFrame, AbortFrame, FlushFrame, Sequence, LeaveIdle,
                ReturnIdle, IssueCommand, ReadBodyWord, StreamBodyWord, TakeResult,
                TakeParam, NextTransaction, EndTransactions, WriteMetadata, Stay,
                MoveTo, frameRegs
  <2>2. Active' = Active
    BY <1>3 DEF FrameFsm, ExpireFrame, DeadlineExpired, AbortFrame, FlushFrame,
                Sequence, LeaveIdle, ReturnIdle, IssueCommand, ReadBodyWord,
                StreamBodyWord, TakeResult, TakeParam, NextTransaction,
                EndTransactions, WriteMetadata, Conclude, Stay, MoveTo, Active
  <2> QED BY <1>3, <2>1, <2>2
<1> QED BY <1>1, <1>2, <1>3

LEMMA BankTurns ==
    ASSUME IInv, NEW in, FrameFsm(in)
    PROVE  IF PublishFrame(in)
           THEN active_feedback_bank' = 1 - active_feedback_bank
           ELSE active_feedback_bank' = active_feedback_bank
<1>1. CASE PublishFrame(in)
  BY <1>1 DEF PublishFrame, IInv, Lockstep, Active
<1>2. CASE ~PublishFrame(in)
  BY <1>2 DEF FrameFsm, ExpireFrame, AbortFrame, FlushFrame, Sequence, LeaveIdle,
              ReturnIdle, StartFrame, StartStaleFrame, OpenFrame, IssueCommand,
              ReadBodyWord, StreamBodyWord, TakeResult, TakeParam, NextTransaction,
              EndTransactions, WriteMetadata, Stay, MoveTo
<1> QED BY <1>1, <1>2

\* What a frame shows when it is published.
LEMMA RecordPublished ==
    ASSUME IInv, NEW in, PublishFrame(in)
    PROVE  /\ Published'.head = frame_sequence
           /\ Published'.tail = frame_sequence
           /\ Published'.status = "complete" =>
                \A p \in 0 .. Params - 1 : Published'.payload[p] = frame_sequence
<1> DEFINE b == working_feedback_bank
<1>1. /\ state = "COMMIT" /\ metadata_word_index = 2
      /\ active_feedback_bank' = b /\ b \in Banks
      /\ feedback_tail' = [feedback_tail EXCEPT ![b] = frame_sequence]
      /\ feedback_tail \in [Banks -> Frames]
      /\ UNCHANGED <<feedback_head, feedback_status, feedback_payload>>
  BY DEF PublishFrame, LastMetadataWord, IInv, TypeOK, FrameTypes, FeedbackTypes
<1>2. /\ feedback_head[b] = frame_sequence
      /\ feedback_status[b] = frame_status_latched
  BY <1>1 DEF IInv, MetadataSoFar
<1>3. frame_status_latched = "complete" =>
        \A p \in 0 .. Params - 1 : feedback_payload[b][p] = frame_sequence
  BY <1>1 DEF IInv, CompleteMeansFresh
<1>4. Published' = [head |-> feedback_head[b], status |-> feedback_status[b],
                    tail |-> frame_sequence, payload |-> feedback_payload[b]]
  BY <1>1 DEF Published
<1> QED BY <1>2, <1>3, <1>4

LEMMA DisplayInvKept ==
    ASSUME IInv, DisplayInv, NEW in, FrameFsm(in)
    PROVE  DisplayInv'
<1>0. frame_sequence \in 0 .. FrameMod - 1 /\ FrameMod \in Nat \ {0}
  BY GeometryAssumption DEF IInv, TypeOK, FrameTypes, Frames
<1>1. CASE PublishFrame(in)
  <2>1. Active /\ ~Active' /\ frame_sequence' = frame_sequence
    BY <1>1, FrameNumberMoves
  <2> QED BY <1>1, <2>1, RecordPublished DEF DisplayInv, Unmixed
<1>2. CASE ~PublishFrame(in)
  <2>1. Published' = Published
    BY <1>2, PublishedKept
  <2>2. \/ ~Active /\ Active' /\ frame_sequence' = (frame_sequence + 1) % FrameMod
        \/ Active' = Active /\ frame_sequence' = frame_sequence
    BY <1>2, FrameNumberMoves
  <2>3. CASE ~Active /\ Active' /\ frame_sequence' = (frame_sequence + 1) % FrameMod
    BY <2>1, <2>3 DEF DisplayInv, Unmixed
  <2>4. CASE Active' = Active /\ frame_sequence' = frame_sequence
    BY <2>1, <2>4 DEF DisplayInv, Unmixed
  <2> QED BY <2>2, <2>3, <2>4
<1> QED BY <1>1, <1>2

LEMMA CopyGrows ==
    ASSUME IInv, ReadTypes, CopyMatches, active_feedback_bank = bank,
           NEW in, ReadOrder(in), Published' = Published
    PROVE  CopyMatches'
<1>0. /\ Params \in Nat \ {0} /\ load_word \in 0 .. Params
      /\ raw \in FeedbackRecord
      /\ Published.head = feedback_head[bank]
      /\ Published.status = feedback_status[bank]
      /\ Published.tail = feedback_tail[bank]
      /\ Published.payload = feedback_payload[bank]
  BY GeometryAssumption DEF ReadTypes, Published
<1>1. CASE ReadStatus(in)
  BY <1>1 DEF ReadStatus, CopyMatches
<1>2. CASE ReadHead(in)
  <2>1. raw'.head = Published.head
    BY <1>0, <1>2 DEF ReadHead, Load, FeedbackRecord
  <2> QED BY <1>2, <2>1 DEF ReadHead, Load, CopyMatches
<1>3. CASE ReadFrameStatus(in)
  <2>1. raw'.head = raw.head /\ raw'.status = Published.status
    BY <1>0, <1>3 DEF ReadFrameStatus, Load, FeedbackRecord
  <2> QED BY <1>3, <2>1 DEF ReadFrameStatus, Load, CopyMatches
<1>4. CASE ReadTail(in)
  <2>1. /\ raw'.head = raw.head /\ raw'.status = raw.status
        /\ raw'.tail = Published.tail
    BY <1>0, <1>4 DEF ReadTail, Load, FeedbackRecord
  <2>2. load_word' = 0
    BY <1>4 DEF ReadTail, ReadTypes
  <2> QED BY <1>4, <2>1, <2>2 DEF ReadTail, Load, CopyMatches
<1>5. CASE ReadPayload(in)
  <2>1. load_word \in 0 .. Params - 1 /\ load_word' = load_word + 1
    BY <1>0, <1>5 DEF ReadPayload, ReadTypes
  <2>2. /\ raw'.head = raw.head /\ raw'.status = raw.status /\ raw'.tail = raw.tail
        /\ raw'.payload = [raw.payload EXCEPT ![load_word] = feedback_payload[bank][load_word]]
        /\ raw.payload \in [0 .. Params - 1 -> Frames]
    BY <1>0, <1>5 DEF ReadPayload, Load, FeedbackRecord
  <2>3. ASSUME NEW p \in 0 .. load_word' - 1
        PROVE  raw'.payload[p] = Published.payload[p]
    BY <1>0, <1>5, <2>1, <2>2 DEF ReadPayload, CopyMatches
  <2> QED BY <1>5, <2>2, <2>3 DEF ReadPayload, CopyMatches
<1>6. CASE UNCHANGED readVars /\ (pc' = pc \/ ~Copying')
  BY <1>6 DEF readVars, Copying, CopyMatches
<1> QED BY <1>1, <1>2, <1>3, <1>4, <1>5, <1>6 DEF ReadOrder

LEMMA CopyInvKept ==
    ASSUME IInv, ReadTypes, CopyInv, NEW in, Step(in)
    PROVE  CopyInv'
<1>0. ReadOrder(in) /\ Record(in) /\ FrameFsm(in)
  BY ReadInOrder DEF Step, Edge
<1>1. pc = "ready" => ~Copying' \/ pc' = "ready"
  BY <1>0 DEF ReadOrder, ReadStatus, ReadHead, ReadFrameStatus, ReadTail,
              ReadPayload
<1>2. active_feedback_bank \in Banks
  BY DEF IInv, TypeOK, FrameTypes
<1>3. ASSUME Copying', publications' = 0
      PROVE  active_feedback_bank' = bank'
  <2>1. pc # "ready"
    BY <1>1, <1>3 DEF Copying
  <2>2. publications = 0 /\ active_feedback_bank' = active_feedback_bank
    BY <1>0, <1>3, <2>1, PublicationsCounted
  <2>3. CASE ReadStatus(in)
    BY <2>2, <2>3 DEF ReadStatus
  <2>4. CASE ~ReadStatus(in)
    <3>1. bank' = bank /\ Copying
      BY <1>0, <1>3, <2>4 DEF ReadOrder, ReadHead, ReadFrameStatus, ReadTail,
                              ReadPayload, Load, readVars, Copying
    <3> QED BY <2>2, <3>1 DEF CopyInv
  <2> QED BY <2>3, <2>4
<1>4. ASSUME publications' <= 1, active_feedback_bank' = bank'
      PROVE  CopyMatches'
  <2>1. CASE ~Copying' \/ pc' = "read_head"
    BY <2>1 DEF Copying, CopyMatches
  <2>2. CASE Copying' /\ pc' # "read_head"
    <3>1. pc # "ready" /\ ~ReadStatus(in)
      BY <1>1, <2>2 DEF Copying, ReadStatus
    <3>2. bank' = bank /\ Copying
      BY <1>0, <2>2, <3>1 DEF ReadOrder, ReadHead, ReadFrameStatus, ReadTail,
                              ReadPayload, Load, readVars, Copying
    <3>3. ~PublishFrame(in)
      <4> SUFFICES ASSUME PublishFrame(in) PROVE FALSE
        OBVIOUS
      <4>1. active_feedback_bank' = 1 - active_feedback_bank
        BY BankTurns, <1>0
      <4>2. publications = 0
        BY <1>0, <1>2, <1>4, <3>1, <4>1, PublicationsCounted DEF Banks, ReadTypes
      <4> QED BY <1>2, <1>4, <3>2, <4>1, <4>2 DEF CopyInv, Banks
    <3>4. active_feedback_bank = bank /\ Published' = Published
      BY <1>0, <1>4, <3>2, <3>3, BankTurns, PublishedKept
    <3>5. CopyMatches
      BY <1>0, <1>4, <3>1, <3>4, PublicationsCounted DEF CopyInv
    <3> QED BY <1>0, <3>4, <3>5, CopyGrows
  <2> QED BY <2>1, <2>2
<1> QED BY <1>3, <1>4 DEF CopyInv

\* Frame numbers one apart are one frame apart, whatever the width.
LEMMA DisplayIsRecent ==
    ASSUME IInv, DisplayInv
    PROVE  Age(Published.head) <= 1
<1>1. /\ FrameMod \in Nat \ {0} /\ Published.head \in 0 .. FrameMod - 1
      /\ frame_sequence \in 0 .. FrameMod - 1
  BY GeometryAssumption
     DEF IInv, TypeOK, FrameTypes, FeedbackTypes, Published, Frames
<1> DEFINE head == Published.head
<1>2. CASE frame_sequence = head
  BY <1>1, <1>2 DEF Age
<1>3. CASE frame_sequence = (head + 1) % FrameMod
  <2>1. CASE head + 1 = FrameMod
    <3>1. frame_sequence = 0
      BY <1>1, <1>3, <2>1
    <3> QED BY <1>1, <2>1, <3>1 DEF Age
  <2>2. CASE head + 1 < FrameMod
    <3>1. frame_sequence = head + 1
      BY <1>1, <1>3, <2>2
    <3>2. (FrameMod + 1) % FrameMod <= 1
      BY <1>1
    <3> QED BY <1>1, <3>1, <3>2 DEF Age
  <2> QED BY <1>1, <2>1, <2>2
<1> QED BY <1>2, <1>3 DEF DisplayInv

LEMMA PromptReadKept ==
    ASSUME IInv, ReadInv, NEW in, Record(in)
    PROVE  PromptReadIsExact'
<1>1. CASE pc = "read_check" /\ pc' = "ready" /\ Acceptable /\ publications <= 1
  <2>1. feedback' = [accepted |-> TRUE, record |-> raw, behind |-> Age(raw.head),
                     overtaken |-> publications]
    BY <1>1 DEF Record
  <2>2. active_feedback_bank = bank /\ raw.head = raw.tail /\ raw.status = "complete"
    BY <1>1 DEF Acceptable
  <2>3. /\ raw.head = Published.head /\ raw.status = Published.status
        /\ \A p \in 0 .. Params - 1 : raw.payload[p] = Published.payload[p]
    BY <1>1, <2>2 DEF ReadInv, CopyInv, CopyMatches, ReadTypes
  <2>4. Unmixed(raw) /\ Age(raw.head) <= 1
    BY <2>2, <2>3, DisplayIsRecent DEF ReadInv, DisplayInv, Unmixed
  <2> QED BY <2>1, <2>4 DEF PromptReadIsExact
<1>2. CASE ~(pc = "read_check" /\ pc' = "ready" /\ Acceptable)
  BY <1>2 DEF Record, Rejected, PromptReadIsExact
<1>3. CASE pc = "read_check" /\ pc' = "ready" /\ Acceptable /\ ~(publications <= 1)
  BY <1>3 DEF Record, PromptReadIsExact
<1> QED BY <1>1, <1>2, <1>3

\* PromptReadIsExact, for every geometry and every interleaving of the copy
\* with the frames.
THEOREM PromptReadsAreExact == ControlSpec => []PromptReadIsExact
<1> DEFINE Inv == IInv /\ ControlInv /\ ReadInv
<1>1. ControlInit => Inv
  <2> SUFFICES ASSUME ControlInit PROVE Inv
    OBVIOUS
  <2>1. IInv /\ ControlInv
    BY InitIInv, ControlInitInv DEF ControlInit
  <2>2. Params \in Nat \ {0} /\ 0 \in Frames
    BY GeometryAssumption DEF Frames
  <2>3. /\ Published = [head |-> 0, status |-> "none", tail |-> 0,
                        payload |-> [p \in 0 .. Params - 1 |-> 0]]
        /\ raw = Published
    BY DEF ControlInit, Init, Published, Banks
  <2>4. ReadTypes
    <3>1. raw \in FeedbackRecord
      BY <2>2, <2>3 DEF FeedbackRecord, FrameStatus
    <3> QED BY <2>2, <3>1, ControlAssumption DEF ControlInit, ReadTypes, Banks
  <2>5. DisplayInv
    BY <2>3 DEF ControlInit, Init, DisplayInv, Active
  <2>6. CopyInv /\ PromptReadIsExact
    BY DEF ControlInit, CopyInv, CopyMatches, Copying, PromptReadIsExact, Rejected
  <2> QED BY <2>1, <2>4, <2>5, <2>6 DEF ReadInv
<1>2. Inv /\ [ControlNext]_controlledVars => Inv'
  <2> SUFFICES ASSUME Inv, [ControlNext]_controlledVars PROVE Inv'
    OBVIOUS
  <2>1. IInv' /\ ControlInv'
    BY ControlBoxStep
  <2>2. CASE ControlNext
    <3>1. PICK in \in Inputs(Accesses, Sampled(CountingDown)) : Step(in)
      BY <2>2 DEF ControlNext
    <3>2. Service(in) /\ Record(in) /\ FrameFsm(in) /\ TypeOK
      BY <3>1 DEF Step, Edge, IInv
    <3> QED BY <2>1, <3>1, <3>2, ReadTypesKept, DisplayInvKept, CopyInvKept,
               PromptReadKept DEF ReadInv
  <2>3. CASE UNCHANGED controlledVars
    <3>1. UNCHANGED <<Published, Active, frame_sequence, active_feedback_bank, readVars,
                      pc, publications, feedback>>
      BY <2>3 DEF controlledVars, vars, fsmVars, frameRegs, feedbackMem, fwVars,
                  Published, Active
    <3> QED BY <2>1, <3>1 DEF readVars, ReadInv, ReadTypes, DisplayInv, CopyInv, CopyMatches, Copying,
                              PromptReadIsExact, Unmixed
  <2> QED BY <2>2, <2>3
<1>3. Inv => PromptReadIsExact
  BY DEF ReadInv
<1> QED BY <1>1, <1>2, <1>3, PTL DEF ControlSpec
=============================================================================
