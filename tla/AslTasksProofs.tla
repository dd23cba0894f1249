--------------------------- MODULE AslTasksProofs ---------------------------
(***************************************************************************)
(* The tasks and the block, for any table, queue length and width of the   *)
(* counters, and whatever is interrupted, late or faulty.                  *)
(*                                                                         *)
(* The argument follows the turn: one thing goes round between the block   *)
(* and the tasks, as a frame, as the event of its end, as an interrupt, as *)
(* a notification, as the work of the motion task and as a fresh commit,   *)
(* and it is never in two places at once.  A frame that goes wrong does    *)
(* not pass the turn on: from then on every event carries an error.        *)
(***************************************************************************)
EXTENDS AslTasks, AslPlayerProofs

TaskSteps ==
    {"take", "check", "ready", "receive", "play", "submit", "store", "commit",
     "enable", "stop", "flush", "suspended"}

BlockTypes ==
    /\ frame \in {"none", "sending", "closing"} /\ frame_bad \in BOOLEAN
    /\ rt_enable \in BOOLEAN /\ safety_fault_latched \in BOOLEAN
    /\ command_commit_valid \in BOOLEAN /\ last_command_valid \in BOOLEAN
    /\ committed_command_bank \in Banks /\ active_command_bank \in Banks
    /\ command_mem \in [Banks -> Image]

HistoryTypes ==
    /\ wire \in Image /\ stopped \in BOOLEAN
    /\ bad_frame \in {"none", "stale", "sent"} /\ after_bad \in 0 .. 1

EventTypes ==
    /\ rt_irq_status \subseteq {"DONE", "ERROR"}
    /\ isr \in {"idle", "clear", "act"} /\ pending \subseteq {"DONE", "ERROR"}
    /\ isr # "idle" => pending # {}
    /\ motion_fault_pending \in BOOLEAN /\ notified \in BOOLEAN

TaskTypes ==
    /\ pc \in TaskSteps /\ enabled \in BOOLEAN
    /\ command \in Image /\ next_command_sequence \in Counter
    /\ action_queue \in Seq(Letters) /\ Len(action_queue) <= QueueLength

Types == BlockTypes /\ HistoryTypes /\ EventTypes /\ TaskTypes

\* Where the turn may be.
Running  == frame # "none" /\ bad_frame = "none"
Event    == /\ rt_irq_status # {} /\ "ERROR" \notin rt_irq_status
            /\ ~motion_fault_pending
            /\ isr # "clear" /\ ~(isr = "act" /\ "ERROR" \in pending)
Handled  == isr # "idle" /\ "ERROR" \notin pending /\ ~motion_fault_pending
Noticed  == notified /\ ~motion_fault_pending
Working  == \/ pc = "check" /\ ~motion_fault_pending
            \/ pc \in {"ready", "receive", "play", "submit", "store", "commit"}

OneTurn ==
    /\ Working => ~Running /\ ~Event /\ ~Handled /\ ~Noticed /\ ~Fresh
    /\ Noticed => ~Running /\ ~Event /\ ~Handled /\ ~Fresh
    /\ Handled => ~Running /\ ~Event /\ ~Fresh
    /\ Event => ~Running /\ ~Fresh
    /\ Running => ~Fresh

NoTurn == ~Working /\ ~Noticed /\ ~Handled /\ ~Event /\ ~Running /\ ~Fresh

\* A frame that went wrong is on its way to the motion task, and stays known.
ErrorComing ==
    \/ motion_fault_pending
    \/ isr # "idle" /\ "ERROR" \in pending
    \/ "ERROR" \in rt_irq_status
    \/ frame = "closing" /\ frame_bad

Errors ==
    /\ bad_frame # "none" <=> ErrorComing
    /\ bad_frame = "none" => after_bad = 0
    /\ bad_frame = "sent" => NoTurn /\ after_bad = 0
    /\ after_bad = 1 => NoTurn
    /\ pc \in {"stop", "flush", "suspended"} => motion_fault_pending

\* The bank to be written is nobody's while the task works on it.
TargetFree ==
    frame # "none" /\ active_command_bank # committed_command_bank
        => ~Working /\ ~Noticed /\ ~Handled /\ ~Event

\* Nothing is left to send once the safety supervisor has tripped.
Stopping ==
    /\ safety_fault_latched => stopped
    /\ stopped /\ safety_fault_latched =>
         /\ ~command_commit_valid
         /\ frame # "none" => frame = "closing" /\ frame_bad
    /\ stopped /\ ~safety_fault_latched => NoTurn

\* The turns in which the sample in hand has gone out.
SampleIsOut ==
    \/ Running \/ Event \/ Handled \/ Noticed
    \/ pc = "check" /\ ~motion_fault_pending
    \/ pc \in {"ready", "receive", "play"}

\* The sample in hand against the one sent last.
Trajectory ==
    /\ pc \in {"submit", "store", "commit"} => command.sample = After(wire.sample)
    /\ SampleIsOut => command.sample = wire.sample
    /\ pc = "commit" => command_mem[Target] = command
    /\ Fresh => /\ command_mem[committed_command_bank] = command
                /\ command.sample = After(wire.sample)

\* The sample in hand against its number.
Numbers ==
    /\ pc \in {"submit", "store", "commit"} => command.sample = next_command_sequence
    /\ pc \in {"take", "check", "ready", "receive", "play", "enable"}
         => After(command.sample) = next_command_sequence

TasksInv ==
    /\ PlayerInv /\ Types /\ OneTurn /\ Errors /\ TargetFree /\ Stopping
    /\ Trajectory /\ Numbers

-----------------------------------------------------------------------------
(* The parts of a step.                                                    *)

LEMMA TasksInitInv == Init => TasksInv
<1> SUFFICES ASSUME Init PROVE TasksInv
  OBVIOUS
<1>1. PlayerInv
  BY PlayerInitInv DEF Init
<1>2. 0 \in Counter /\ 1 \in Counter /\ After(0) = 1
  BY TasksAssumption DEF Counter, After
<1>3. OpenImage(0) \in Image /\ OpenImage(1) \in Image
  BY <1>2, OpenIsPosture DEF OpenImage, Image
<1>4. BlockTypes /\ HistoryTypes /\ EventTypes /\ TaskTypes
  BY <1>2, <1>3, TasksAssumption DEF Init, BlockTypes, HistoryTypes, EventTypes,
         TaskTypes, TaskSteps, Banks
<1>5. OneTurn /\ Errors /\ TargetFree /\ Stopping
  BY DEF Init, OneTurn, Errors, ErrorComing, TargetFree, Stopping, Working, Noticed,
         Handled, Event, Running, Fresh, NoTurn
<1>6. Trajectory /\ Numbers
  BY <1>2 DEF Init, Trajectory, SampleIsOut, Numbers, OpenImage, Working, Noticed, Handled, Event,
              Running, Fresh
<1> QED BY <1>1, <1>4, <1>5, <1>6 DEF TasksInv, Types

LEMMA TargetNotLocked ==
    ASSUME Types, TargetFree, Working
    PROVE  ~Locked(Target)
BY DEF Types, BlockTypes, TargetFree, Locked, Target, Banks

\* The tasks drive the player by its own calls.
LEMMA PlayerDriven ==
    ASSUME Types, Next
    PROVE  [PlayerNext]_playerVars
<1>1. CASE Block \/ Trip \/ ClearFault
  BY <1>1 DEF Block, StartFrame, EndTransmission, EndFrame, Trip, ClearFault, softVars
<1>2. CASE Isr
  BY <1>2 DEF Isr, IsrRead, IsrClear, IsrAct
<1>3. CASE MotionTask
  <2>1. CASE ReceiveLetter
    <3>1. action_queue # <<>> => Head(action_queue) \in Letters
      BY DEF Types, TaskTypes
    <3> QED BY <2>1, <3>1 DEF ReceiveLetter, PlayerNext
  <2>2. CASE PlaySample
    BY <2>2 DEF PlaySample, PlayerNext
  <2>3. CASE ~ReceiveLetter /\ ~PlaySample
    BY <1>3, <2>3 DEF MotionTask, TakeNotification, CheckFault, CheckReady, CheckLock,
                      StoreImage, Commit, EnableRt, StopRt, FlushRt
  <2> QED BY <2>1, <2>2, <2>3
<1>4. CASE \E class \in Letters : SendLetter(class)
  BY <1>4 DEF SendLetter
<1> QED BY <1>1, <1>2, <1>3, <1>4 DEF Next

LEMMA BlockTypesKept ==
    ASSUME TasksInv, Next
    PROVE  BlockTypes'
<1> USE DEF blockVars, hardVars, rtVars
<1>0. BlockTypes /\ Target \in Banks /\ command \in Image
  BY DEF TasksInv, Types, TaskTypes, BlockTypes, Target, Banks
<1>1. CASE StartFrame
  BY <1>0, <1>1 DEF StartFrame, BlockTypes
<1>2. CASE EndTransmission
  BY <1>0, <1>2 DEF EndTransmission, BlockTypes
<1>3. CASE EndFrame
  BY <1>0, <1>3 DEF EndFrame, BlockTypes
<1>4. CASE Trip \/ FlushRt
  BY <1>0, <1>4 DEF Trip, FlushRt, Flush, BlockTypes
<1>5. CASE ClearFault
  BY <1>0, <1>5 DEF ClearFault, BlockTypes
<1>6. CASE Isr
  BY <1>0, <1>6 DEF Isr, IsrRead, IsrClear, IsrAct, BlockTypes
<1>7. CASE TakeNotification \/ CheckFault \/ CheckReady \/ CheckLock
  BY <1>0, <1>7 DEF TakeNotification, CheckFault, CheckReady, CheckLock, BlockTypes
<1>8. CASE ReceiveLetter \/ PlaySample
  BY <1>0, <1>8 DEF ReceiveLetter, PlaySample, BlockTypes
<1>9. CASE StoreImage
  BY <1>0, <1>9 DEF StoreImage, BlockTypes
<1>10. CASE Commit
  BY <1>0, <1>10 DEF Commit, BlockTypes
<1>11. CASE EnableRt \/ StopRt
  BY <1>0, <1>11 DEF EnableRt, StopRt, BlockTypes
<1>12. CASE \E class \in Letters : SendLetter(class)
  BY <1>0, <1>12 DEF SendLetter, BlockTypes
<1> QED BY <1>1, <1>2, <1>3, <1>4, <1>5, <1>6, <1>7, <1>8, <1>9, <1>10, <1>11, <1>12
        DEF Next, Block, MotionTask

LEMMA HistoryTypesKept ==
    ASSUME TasksInv, Next
    PROVE  HistoryTypes'
<1> USE DEF hardVars, history
<1>0. HistoryTypes /\ BlockTypes
  BY DEF TasksInv, Types
<1>1. CASE StartFrame
  <2>1. command_mem[committed_command_bank] \in Image
    BY <1>0 DEF BlockTypes
  <2>2. Fresh => after_bad = 0
    BY <1>0 DEF TasksInv, Errors, NoTurn, HistoryTypes
  <2> QED BY <1>0, <1>1, <2>1, <2>2 DEF StartFrame, HistoryTypes
<1>2. CASE EndTransmission \/ EndFrame
  BY <1>0, <1>2 DEF EndTransmission, EndFrame, HistoryTypes
<1>3. CASE Trip \/ FlushRt
  BY <1>0, <1>3 DEF Trip, FlushRt, Flush, HistoryTypes
<1>4. CASE ClearFault
  BY <1>0, <1>4 DEF ClearFault, HistoryTypes
<1>5. CASE Isr
  BY <1>0, <1>5 DEF Isr, IsrRead, IsrClear, IsrAct, HistoryTypes
<1>6. CASE \/ TakeNotification \/ CheckFault \/ CheckReady \/ CheckLock
           \/ ReceiveLetter \/ PlaySample
  BY <1>0, <1>6 DEF TakeNotification, CheckFault, CheckReady, CheckLock,
         ReceiveLetter, PlaySample, HistoryTypes
<1>7. CASE StoreImage \/ Commit \/ EnableRt \/ StopRt
  BY <1>0, <1>7 DEF StoreImage, Commit, EnableRt, StopRt, HistoryTypes
<1>8. CASE \E class \in Letters : SendLetter(class)
  BY <1>0, <1>8 DEF SendLetter, HistoryTypes
<1> QED BY <1>1, <1>2, <1>3, <1>4, <1>5, <1>6, <1>7, <1>8 DEF Next, Block, MotionTask

LEMMA EventTypesKept ==
    ASSUME TasksInv, Next
    PROVE  EventTypes'
<1> USE DEF softVars, isrVars, restOfSoft
<1>0. EventTypes
  BY DEF TasksInv, Types
<1>1. CASE StartFrame \/ EndTransmission \/ Trip \/ ClearFault
  BY <1>0, <1>1 DEF StartFrame, EndTransmission, Trip, ClearFault, EventTypes
<1>2. CASE EndFrame
  BY <1>0, <1>2 DEF EndFrame, EventTypes
<1>3. CASE IsrRead
  BY <1>0, <1>3 DEF IsrRead, EventTypes
<1>4. CASE IsrClear
  BY <1>0, <1>4 DEF IsrClear, EventTypes
<1>5. CASE IsrAct
  BY <1>0, <1>5 DEF IsrAct, EventTypes
<1>6. CASE \/ TakeNotification \/ CheckFault \/ CheckReady \/ CheckLock
           \/ ReceiveLetter \/ PlaySample
  BY <1>0, <1>6 DEF TakeNotification, CheckFault, CheckReady, CheckLock,
         ReceiveLetter, PlaySample, EventTypes
<1>7. CASE StoreImage \/ Commit
  <2>1. ~Locked(Target)
    BY <1>7, TargetNotLocked DEF TasksInv, StoreImage, Commit, At, Working
  <2> QED BY <1>0, <1>7, <2>1 DEF StoreImage, Commit, EventTypes
<1>8. CASE EnableRt \/ StopRt \/ FlushRt
  BY <1>0, <1>8 DEF EnableRt, StopRt, FlushRt, EventTypes
<1>9. CASE \E class \in Letters : SendLetter(class)
  BY <1>0, <1>9 DEF SendLetter, EventTypes
<1> QED BY <1>1, <1>2, <1>3, <1>4, <1>5, <1>6, <1>7, <1>8, <1>9
        DEF Next, Block, Isr, MotionTask

LEMMA TaskTypesKept ==
    ASSUME TasksInv, Next, PlayerInv'
    PROVE  TaskTypes'
<1> USE DEF softVars, taskVars, restOfSoft, At, GoTo, TaskSteps
<1>0. TaskTypes /\ \A n \in Counter : After(n) \in Counter
  BY TasksAssumption DEF TasksInv, Types, Counter, After
<1>1. CASE Block \/ Trip \/ ClearFault
  BY <1>0, <1>1 DEF Block, StartFrame, EndTransmission, EndFrame, Trip, ClearFault,
                    TaskTypes
<1>2. CASE Isr
  BY <1>0, <1>2 DEF Isr, IsrRead, IsrClear, IsrAct, TaskTypes
<1>3. CASE TakeNotification \/ CheckFault \/ CheckReady \/ CheckLock
  BY <1>0, <1>3 DEF TakeNotification, CheckFault, CheckReady, CheckLock, TaskTypes
<1>4. CASE ReceiveLetter
  <2>1. action_queue' \in Seq(Letters) /\ Len(action_queue') <= QueueLength
    BY <1>0, <1>4, TasksAssumption DEF ReceiveLetter, TaskTypes
  <2> QED BY <1>0, <1>4, <2>1 DEF ReceiveLetter, TaskTypes
<1>5. CASE PlaySample
  <2>1. command' \in Image
    BY <1>0, <1>5 DEF PlaySample, TaskTypes, Image, PlayerInv, PlayerTypeOK
  <2> QED BY <1>0, <1>5, <2>1 DEF PlaySample, TaskTypes
<1>6. CASE StoreImage \/ Commit
  BY <1>0, <1>6 DEF StoreImage, Commit, TaskTypes
<1>7. CASE EnableRt \/ StopRt \/ FlushRt
  BY <1>0, <1>7 DEF EnableRt, StopRt, FlushRt, TaskTypes
<1>8. CASE \E class \in Letters : SendLetter(class)
  <2>1. action_queue' \in Seq(Letters) /\ Len(action_queue') <= QueueLength
    BY <1>0, <1>8, TasksAssumption DEF SendLetter, TaskTypes
  <2> QED BY <1>0, <1>8, <2>1 DEF SendLetter, TaskTypes
<1> QED BY <1>1, <1>2, <1>3, <1>4, <1>5, <1>6, <1>7, <1>8 DEF Next, MotionTask

-----------------------------------------------------------------------------
(* The turn goes round.                                                    *)

LEMMA TurnKept ==
    ASSUME TasksInv, Next
    PROVE  OneTurn' /\ Errors'
<1> USE DEF blockVars, hardVars, softVars, rtVars, isrVars, taskVars, history, restOfSoft,
            At, GoTo, OneTurn, Errors, NoTurn, Running, Event, Handled, Noticed, Working,
            ErrorComing, Fresh, Replayed
<1>0. /\ BlockTypes /\ HistoryTypes /\ EventTypes /\ OneTurn /\ Errors
      /\ pc \in TaskSteps
  BY DEF TasksInv, Types, TaskTypes
<1>1. CASE StartFrame
  BY <1>0, <1>1 DEF StartFrame, BlockTypes, HistoryTypes
<1>2. CASE EndTransmission
  BY <1>0, <1>2 DEF EndTransmission, BlockTypes, HistoryTypes
<1>3. CASE EndFrame
  BY <1>0, <1>3 DEF EndFrame, EventTypes
<1>4. CASE Trip
  BY <1>0, <1>4 DEF Trip, Flush, BlockTypes, HistoryTypes
<1>5. CASE ClearFault \/ \E class \in Letters : SendLetter(class)
  BY <1>0, <1>5 DEF ClearFault, SendLetter
<1>6. CASE IsrRead
  BY <1>0, <1>6 DEF IsrRead, EventTypes
<1>7. CASE IsrClear
  BY <1>0, <1>7 DEF IsrClear, EventTypes
<1>8. CASE IsrAct
  BY <1>0, <1>8 DEF IsrAct, EventTypes
<1>9. CASE TakeNotification \/ CheckFault
  BY <1>0, <1>9 DEF TakeNotification, CheckFault, EventTypes
<1>10. CASE CheckReady \/ ReceiveLetter \/ PlaySample
  BY <1>0, <1>10 DEF CheckReady, ReceiveLetter, PlaySample
<1>14. CASE CheckLock
  <2>1. ~Locked(Target)
    BY <1>14, TargetNotLocked DEF TasksInv, CheckLock
  <2> QED BY <1>0, <1>14, <2>1 DEF CheckLock
<1>11. CASE StoreImage \/ Commit
  <2>1. ~Locked(Target)
    BY <1>11, TargetNotLocked DEF TasksInv, StoreImage, Commit
  <2> QED BY <1>0, <1>11, <2>1 DEF StoreImage, Commit
<1>12. CASE EnableRt \/ StopRt
  BY <1>0, <1>12 DEF EnableRt, StopRt
<1>13. CASE FlushRt
  BY <1>0, <1>13 DEF FlushRt, Flush, BlockTypes, HistoryTypes
<1> HIDE DEF OneTurn, Errors
<1> QED BY <1>1, <1>2, <1>3, <1>4, <1>5, <1>6, <1>7, <1>8, <1>9, <1>10, <1>11, <1>12, <1>13, <1>14
        DEF Next, Block, Isr, MotionTask

LEMMA TargetFreeKept ==
    ASSUME TasksInv, Next
    PROVE  TargetFree'
<1> USE DEF blockVars, hardVars, softVars, rtVars, isrVars, taskVars, history, restOfSoft,
            At, GoTo, TargetFree, Event, Handled, Noticed, Working
<1>0. /\ BlockTypes /\ EventTypes /\ OneTurn /\ Errors /\ TargetFree
      /\ pc \in TaskSteps
  BY DEF TasksInv, Types, TaskTypes
<1>1. CASE StartFrame \/ EndFrame
  BY <1>0, <1>1 DEF StartFrame, EndFrame
<1>2. CASE EndTransmission
  BY <1>0, <1>2 DEF EndTransmission
<1>3. CASE Trip \/ FlushRt
  BY <1>0, <1>3 DEF Trip, FlushRt, Flush
<1>4. CASE ClearFault \/ \E class \in Letters : SendLetter(class)
  BY <1>0, <1>4 DEF ClearFault, SendLetter
<1>5. CASE IsrRead
  BY <1>0, <1>5 DEF IsrRead
<1>6. CASE IsrClear
  BY <1>0, <1>6 DEF IsrClear, EventTypes
<1>7. CASE IsrAct
  BY <1>0, <1>7 DEF IsrAct, EventTypes
<1>8. CASE TakeNotification \/ CheckFault
  BY <1>0, <1>8 DEF TakeNotification, CheckFault, EventTypes
<1>9. CASE CheckReady \/ ReceiveLetter \/ PlaySample \/ CheckLock
  BY <1>0, <1>9 DEF CheckReady, ReceiveLetter, PlaySample, CheckLock
<1>10. CASE StoreImage
  <2>1. ~Locked(Target)
    BY <1>10, TargetNotLocked DEF TasksInv, StoreImage
  <2> QED BY <1>0, <1>10, <2>1 DEF StoreImage
<1>11. CASE Commit
  <2>1. ~Locked(Target)
    BY <1>11, TargetNotLocked DEF TasksInv, Commit
  <2>2. ~Working' /\ ~Noticed' /\ ~Handled' /\ ~Event'
    BY <1>0, <1>11, <2>1 DEF Commit, OneTurn
  <2> QED BY <2>2
<1>12. CASE EnableRt \/ StopRt
  BY <1>0, <1>12 DEF EnableRt, StopRt
<1> HIDE DEF TargetFree
<1> QED BY <1>1, <1>2, <1>3, <1>4, <1>5, <1>6, <1>7, <1>8, <1>9, <1>10, <1>11, <1>12
        DEF Next, Block, Isr, MotionTask

LEMMA StoppingKept ==
    ASSUME TasksInv, Next
    PROVE  Stopping'
<1> USE DEF blockVars, hardVars, softVars, rtVars, isrVars, taskVars, history, restOfSoft,
            At, GoTo, Stopping, NoTurn, Running, Event, Handled, Noticed, Working, Fresh,
            Replayed
<1>0. /\ BlockTypes /\ HistoryTypes /\ EventTypes /\ OneTurn /\ Errors /\ Stopping
      /\ pc \in TaskSteps
  BY DEF TasksInv, Types, TaskTypes
<1>1. CASE StartFrame
  BY <1>0, <1>1 DEF StartFrame, Enable, HistoryTypes, Errors
<1>2. CASE EndTransmission
  BY <1>0, <1>2 DEF EndTransmission, HistoryTypes
<1>15. CASE EndFrame
  <2>1. ~Running => bad_frame # "none"
    BY <1>15 DEF EndFrame
  <2>2. bad_frame # "none" => ~Event'
    BY <1>0, <1>15 DEF EndFrame, Errors, ErrorComing, EventTypes
  <2> QED BY <1>0, <1>15, <2>1, <2>2 DEF EndFrame
<1>3. CASE Trip
  BY <1>0, <1>3 DEF Trip, Flush, BlockTypes
<1>4. CASE FlushRt
  BY <1>0, <1>4 DEF FlushRt, Flush, BlockTypes, HistoryTypes
<1>5. CASE ClearFault
  <2>0. stopped /\ ~command_commit_valid /\ (frame # "none" => bad_frame # "none")
    BY <1>0, <1>5 DEF ClearFault, Errors, ErrorComing
  <2>1. ~Fresh' /\ ~Running'
    BY <1>5, <2>0 DEF ClearFault
  <2>2. ~Event' /\ ~Handled' /\ ~Noticed' /\ ~Working'
    <3>1. isr = "idle" /\ rt_irq_status = {} /\ pc \in {"suspended", "take"}
      BY <1>5 DEF ClearFault, Preempted
    <3>2. pc = "take" => ~notified
      BY <1>5 DEF ClearFault, Preempted
    <3> QED BY <1>0, <1>5, <3>1, <3>2 DEF ClearFault, Errors
  <2> QED BY <1>0, <1>5, <2>1, <2>2 DEF ClearFault
<1>6. CASE \E class \in Letters : SendLetter(class)
  BY <1>0, <1>6 DEF SendLetter
<1>7. CASE IsrRead
  BY <1>0, <1>7 DEF IsrRead
<1>8. CASE IsrClear
  BY <1>0, <1>8 DEF IsrClear, EventTypes
<1>9. CASE IsrAct
  BY <1>0, <1>9 DEF IsrAct, EventTypes
<1>10. CASE TakeNotification \/ CheckFault
  BY <1>0, <1>10 DEF TakeNotification, CheckFault, EventTypes
<1>11. CASE CheckReady \/ ReceiveLetter \/ PlaySample \/ CheckLock
  BY <1>0, <1>11 DEF CheckReady, ReceiveLetter, PlaySample, CheckLock
<1>12. CASE StoreImage
  BY <1>0, <1>12 DEF StoreImage
<1>13. CASE Commit
  BY <1>0, <1>13 DEF Commit
<1>14. CASE EnableRt \/ StopRt
  BY <1>0, <1>14 DEF EnableRt, StopRt
<1> HIDE DEF Stopping
<1> QED BY <1>1, <1>2, <1>3, <1>4, <1>5, <1>6, <1>7, <1>8, <1>9, <1>10, <1>11, <1>12,
           <1>13, <1>14, <1>15
        DEF Next, Block, Isr, MotionTask

LEMMA NumbersKept ==
    ASSUME TasksInv, Next
    PROVE  Numbers'
<1> USE DEF softVars, isrVars, taskVars, restOfSoft, At, GoTo, Numbers
<1>0. Numbers /\ TaskTypes /\ \A n \in Counter : After(n) \in Counter
  BY TasksAssumption DEF TasksInv, Types, Counter, After
<1>1. CASE Block \/ Trip \/ ClearFault
  BY <1>0, <1>1 DEF Block, StartFrame, EndTransmission, EndFrame, Trip, ClearFault
<1>2. CASE Isr
  BY <1>0, <1>2 DEF Isr, IsrRead, IsrClear, IsrAct
<1>3. CASE TakeNotification \/ CheckFault \/ CheckReady \/ CheckLock
  BY <1>0, <1>3 DEF TakeNotification, CheckFault, CheckReady, CheckLock
<1>4. CASE ReceiveLetter
  BY <1>0, <1>4 DEF ReceiveLetter
<1>5. CASE PlaySample
  BY <1>0, <1>5 DEF PlaySample
<1>6. CASE StoreImage \/ Commit
  BY <1>0, <1>6 DEF StoreImage, Commit
<1>7. CASE EnableRt \/ StopRt \/ FlushRt
  BY <1>0, <1>7 DEF EnableRt, StopRt, FlushRt
<1>8. CASE \E class \in Letters : SendLetter(class)
  BY <1>0, <1>8 DEF SendLetter
<1> HIDE DEF Numbers
<1> QED BY <1>1, <1>2, <1>3, <1>4, <1>5, <1>6, <1>7, <1>8 DEF Next, MotionTask

\* A step that leaves the sample in hand and the sample on the wire alone.
TurnMoves ==
    /\ SampleIsOut' => SampleIsOut
    /\ Fresh' => Fresh

LEMMA TrajectoryHeld ==
    ASSUME Trajectory, TurnMoves,
           UNCHANGED <<pc, wire, command, command_mem, committed_command_bank>>
    PROVE  Trajectory'
<1>1. UNCHANGED <<pc, wire, command, Target>>
      /\ UNCHANGED <<command_mem, committed_command_bank>>
  BY DEF Target
<1> QED BY <1>1 DEF Trajectory, TurnMoves

LEMMA TrajectoryKept ==
    ASSUME TasksInv, Next
    PROVE  Trajectory'
<1> USE DEF blockVars, hardVars, softVars, rtVars, isrVars, taskVars, history, restOfSoft,
            At, GoTo
<1>0. /\ BlockTypes /\ HistoryTypes /\ EventTypes /\ TaskTypes /\ OneTurn /\ Errors
      /\ Trajectory
  BY DEF TasksInv, Types
<1>1. CASE StartFrame
  BY <1>0, <1>1 DEF StartFrame, OneTurn, Trajectory, SampleIsOut, Running, Event, Handled, Noticed,
                    Working, Fresh, Replayed, Target
<1>2. CASE EndTransmission
  <2>1. TurnMoves
    BY <1>0, <1>2 DEF EndTransmission, HistoryTypes, TurnMoves, SampleIsOut, Running, Event, Handled,
                      Noticed, Fresh, Replayed
  <2> QED BY <1>0, <1>2, <2>1, TrajectoryHeld DEF EndTransmission
<1>3. CASE EndFrame
  <2>1. TurnMoves
    BY <1>0, <1>3 DEF EndFrame, BlockTypes, EventTypes, Errors, ErrorComing, TurnMoves,
                      SampleIsOut, Running, Event, Handled, Noticed, Fresh, Replayed
  <2> QED BY <1>0, <1>3, <2>1, TrajectoryHeld DEF EndFrame
<1>4. CASE Trip
  <2>1. TurnMoves
    BY <1>0, <1>4 DEF Trip, Flush, BlockTypes, HistoryTypes, TurnMoves, SampleIsOut, Running, Event,
                      Handled, Noticed, Fresh
  <2> QED BY <1>0, <1>4, <2>1, TrajectoryHeld DEF Trip
<1>5. CASE FlushRt
  BY <1>0, <1>5 DEF FlushRt, Flush, Trajectory, SampleIsOut, Running, Event, Handled, Noticed, Fresh
<1>6. CASE ClearFault \/ \E class \in Letters : SendLetter(class)
  <2>1. TurnMoves
    BY <1>6 DEF ClearFault, SendLetter, TurnMoves, SampleIsOut, Running, Event, Handled, Noticed, Fresh,
                Replayed
  <2> QED BY <1>0, <1>6, <2>1, TrajectoryHeld DEF ClearFault, SendLetter
<1>7. CASE IsrRead
  <2>1. TurnMoves
    BY <1>0, <1>7 DEF IsrRead, EventTypes, TurnMoves, SampleIsOut, Running, Event, Handled, Noticed,
                      Fresh, Replayed
  <2> QED BY <1>0, <1>7, <2>1, TrajectoryHeld DEF IsrRead
<1>8. CASE IsrClear
  <2>1. TurnMoves
    BY <1>0, <1>8 DEF IsrClear, EventTypes, TurnMoves, SampleIsOut, Running, Event, Handled, Noticed,
                      Fresh, Replayed
  <2> QED BY <1>0, <1>8, <2>1, TrajectoryHeld DEF IsrClear
<1>9. CASE IsrAct
  <2>1. TurnMoves
    BY <1>0, <1>9 DEF IsrAct, EventTypes, TurnMoves, SampleIsOut, Running, Event, Handled, Noticed,
                      Fresh, Replayed
  <2> QED BY <1>0, <1>9, <2>1, TrajectoryHeld DEF IsrAct
<1> USE DEF Trajectory, SampleIsOut, Running, Event, Handled, Noticed, Working, Fresh, Replayed
<1>10. CASE TakeNotification
  BY <1>0, <1>10 DEF TakeNotification, EventTypes
<1>11. CASE CheckFault
  BY <1>0, <1>11 DEF CheckFault, EventTypes
<1>12. CASE CheckReady \/ ReceiveLetter \/ CheckLock
  BY <1>0, <1>12 DEF CheckReady, ReceiveLetter, CheckLock
<1>13. CASE PlaySample
  <2>1. command'.sample = After(command.sample)
    BY <1>13 DEF PlaySample
  <2> QED BY <1>0, <1>13, <2>1 DEF PlaySample, OneTurn
<1>14. CASE StoreImage
  <2>1. ~Locked(Target) /\ Target \in Banks
    BY <1>0, <1>14, TargetNotLocked DEF TasksInv, StoreImage, BlockTypes, Target, Banks
  <2>2. command_mem' = [command_mem EXCEPT ![Target] = command] /\ Target' = Target
    BY <1>14, <2>1 DEF StoreImage, Target
  <2>3. command_mem'[Target'] = command
    BY <1>0, <2>1, <2>2 DEF BlockTypes
  <2> QED BY <1>0, <1>14, <2>1, <2>3 DEF StoreImage, OneTurn
<1>15. CASE Commit
  <2>1. ~Locked(Target)
    BY <1>15, TargetNotLocked DEF TasksInv, Commit
  <2> QED BY <1>0, <1>15, <2>1 DEF Commit, OneTurn
<1>16. CASE EnableRt \/ StopRt
  BY <1>0, <1>16 DEF EnableRt, StopRt
<1> HIDE DEF Trajectory
<1> QED BY <1>1, <1>2, <1>3, <1>4, <1>5, <1>6, <1>7, <1>8, <1>9, <1>10, <1>11, <1>12,
           <1>13, <1>14, <1>15, <1>16
        DEF Next, Block, Isr, MotionTask

-----------------------------------------------------------------------------
(* The invariant of the whole.                                             *)

LEMMA TasksStepKeeps == TasksInv /\ [Next]_taskAll => TasksInv' /\ [PlayerNext]_playerVars
<1> SUFFICES ASSUME TasksInv, [Next]_taskAll
             PROVE  TasksInv' /\ [PlayerNext]_playerVars
  OBVIOUS
<1>1. CASE Next
  <2>1. [PlayerNext]_playerVars
    BY <1>1, PlayerDriven DEF TasksInv
  <2>2. PlayerInv'
    BY <2>1, PlayerStepKeeps DEF TasksInv
  <2>3. Types'
    BY <1>1, <2>2, BlockTypesKept, HistoryTypesKept, EventTypesKept, TaskTypesKept
       DEF Types
  <2> QED BY <1>1, <2>1, <2>2, <2>3, TurnKept, TargetFreeKept, StoppingKept,
             TrajectoryKept, NumbersKept DEF TasksInv
<1>2. CASE UNCHANGED taskAll
  <2> USE <1>2 DEF taskAll, rtVars, isrVars, taskVars, history
  <2>1. PlayerInv' /\ UNCHANGED playerVars
    BY PlayerStepKeeps DEF TasksInv
  <2>2. Types'
    BY DEF TasksInv, Types, BlockTypes, HistoryTypes, EventTypes, TaskTypes
  <2>3. UNCHANGED <<Running, Event, Handled, Noticed, Working, Fresh, ErrorComing, Target>>
    BY DEF Running, Event, Handled, Noticed, Working, Fresh, Replayed, ErrorComing, Target
  <2>4. OneTurn' /\ Errors' /\ TargetFree' /\ Stopping'
    BY <2>3 DEF TasksInv, OneTurn, Errors, NoTurn, TargetFree, Stopping
  <2>5. Trajectory' /\ Numbers'
    BY <2>3 DEF TasksInv, Trajectory, SampleIsOut, Numbers
  <2> QED BY <2>1, <2>2, <2>4, <2>5 DEF TasksInv
<1> QED BY <1>1, <1>2

LEMMA SpecTasksInv == Spec => []TasksInv
BY TasksInitInv, TasksStepKeeps, PTL DEF Spec

\* The player the tasks drive is the player of the library: what is proved of it
\* holds here, and a letter that is taken finds the hand open.
THEOREM TasksRunThePlayer ==
    Spec => PlayerSpec /\ [](PlayerTypeOK /\ StaysInSegment /\ RestsAtOpen)
<1>1. Init => PlayerInit
  BY DEF Init
<1>2. TasksInv => PlayerTypeOK /\ StaysInSegment /\ RestsAtOpen
  BY DEF TasksInv, PlayerInv
<1> QED BY <1>1, <1>2, SpecTasksInv, TasksStepKeeps, PTL DEF Spec, PlayerSpec

\* TasksTypeOK: types, no buffer error is ever raised, and the sample and its
\* number go together.
THEOREM TasksStayTyped == Spec => []TasksTypeOK
<1>1. TasksInv => TasksTypeOK
  BY DEF TasksInv, PlayerInv, Types, BlockTypes, HistoryTypes, EventTypes, TaskTypes,
         Numbers, TasksTypeOK
<1> QED BY <1>1, SpecTasksInv, PTL

\* BadFrameStops, whatever is interrupted and however late the handler is.
THEOREM BadFramesStop == Spec => []BadFrameStops
<1>1. TasksInv => BadFrameStops
  BY DEF TasksInv, Types, HistoryTypes, Errors, BadFrameStops
<1> QED BY <1>1, SpecTasksInv, PTL

LEMMA SendingStep ==
    ASSUME TasksInv, Next, Sends
    PROVE  StartFrame /\ Fresh
<1> USE DEF Sends, hardVars, softVars, rtVars
<1>1. StartFrame
  <2>1. CASE EndTransmission \/ EndFrame
    BY <2>1 DEF EndTransmission, EndFrame
  <2>2. CASE Trip \/ FlushRt
    BY <2>2 DEF Trip, FlushRt, Flush
  <2>3. CASE ClearFault \/ Isr \/ \E class \in Letters : SendLetter(class)
    BY <2>3 DEF ClearFault, Isr, IsrRead, IsrClear, IsrAct, SendLetter
  <2>4. CASE MotionTask /\ ~FlushRt
    BY <2>4 DEF MotionTask, TakeNotification, CheckFault, CheckReady, ReceiveLetter,
                PlaySample, CheckLock, StoreImage, Commit, EnableRt, StopRt
  <2> QED BY <2>1, <2>2, <2>3, <2>4 DEF Next, Block
<1> QED BY <1>1 DEF StartFrame

\* WireFollowsPlayer, for every table and every counter of two values or more.
THEOREM WireFollows == Spec => WireFollowsPlayer
<1>1. TasksInv /\ [Next]_taskAll => [Sends => wire'.sample = After(wire.sample)]_taskAll
  <2> SUFFICES ASSUME TasksInv, Next, Sends
               PROVE  wire'.sample = After(wire.sample)
    OBVIOUS
  <2>1. wire' = command_mem[committed_command_bank] /\ Fresh
    BY SendingStep DEF StartFrame
  <2> QED BY <2>1 DEF TasksInv, Trajectory
<1> QED BY <1>1, SpecTasksInv, PTL DEF Spec, WireFollowsPlayer

\* TripStops, whatever was under way when the supervisor tripped.
THEOREM TripsStop == Spec => TripStops
<1>1. TasksInv /\ [Next]_taskAll => [Sends => ~stopped]_taskAll
  <2> SUFFICES ASSUME TasksInv, Next, Sends
               PROVE  ~stopped
    OBVIOUS
  <2>1. Fresh /\ ~safety_fault_latched
    BY SendingStep DEF StartFrame, Enable
  <2> QED BY <2>1 DEF TasksInv, Stopping, NoTurn
<1> QED BY <1>1, SpecTasksInv, PTL DEF Spec, TripStops

\* NoStepDropped: the bank the motion task is about to write is never locked.
THEOREM NoStepIsDropped == Spec => NoStepDropped
<1>1. TasksInv /\ [Next]_taskAll
        => [pc' # pc /\ pc \in {"ready", "submit"} => pc' \in {"receive", "store"}]_taskAll
  <2> SUFFICES ASSUME TasksInv, Next, pc' # pc, pc \in {"ready", "submit"}
               PROVE  pc' \in {"receive", "store"}
    OBVIOUS
  <2>1. ~Locked(Target)
    BY TargetNotLocked DEF TasksInv, Working
  <2>2. CheckReady \/ CheckLock
    BY DEF Next, Block, StartFrame, EndTransmission, EndFrame, Trip, ClearFault, Isr,
           IsrRead, IsrClear, IsrAct, SendLetter, softVars, taskVars, MotionTask, At,
           TakeNotification, CheckFault, ReceiveLetter, PlaySample, StoreImage, Commit,
           EnableRt, StopRt, FlushRt
  <2> QED BY <2>1, <2>2 DEF CheckReady, CheckLock, GoTo
<1> QED BY <1>1, SpecTasksInv, PTL DEF Spec, NoStepDropped
=============================================================================
