------------------------------ MODULE AslTasks ------------------------------
(***************************************************************************)
(* The application of the motion library: the protocol interrupt handler,  *)
(* the classifier task and the motion task, over the real-time block.      *)
(*                                                                         *)
(* One step is one access of a task or of the handler to state it shares   *)
(* with somebody else; everything may happen between two steps.  The block *)
(* is seen frame by frame: inside a frame it is Hx5Sequencer.  Neither of  *)
(* its deadlines is in use (hx5_rt_control_initialize disables them).      *)
(*                                                                         *)
(* The system starts where app_start_asl_tasks leaves it.  The classifier  *)
(* task is seen by what its filter may accept, any letter at any time.     *)
(***************************************************************************)
EXTENDS AslActionPlayer

CONSTANTS
    QueueLength,   \* ASL_ACTION_QUEUE_CAPACITY
    Modulus        \* samples and sequence numbers are counted modulo this

ASSUME TasksAssumption == QueueLength \in Nat \ {0} /\ Modulus \in Nat \ {0, 1}

Banks    == {0, 1}
Counter  == 0 .. Modulus - 1
After(n) == (n + 1) % Modulus

\* An image: which sample of the trajectory it holds, and its posture.
Image == [sample : Counter, posture : Posture]

VARIABLES
    \* the real-time block
    frame,                  \* "none", "sending", "closing" (RT_COMMIT)
    frame_bad,              \* STATUS_ERROR of the running frame
    rt_enable, command_commit_valid, committed_command_bank,
    committed_command_sequence, active_command_bank,
    last_command_valid, last_command_sequence, command_mem,
    rt_irq_status,
    safety_fault_latched,   \* external_abort, a level
    \* the tasks
    isr, pending,           \* the handler: where it is, its local
    motion_fault_pending, notified, action_queue,
    pc, command, next_command_sequence, enabled,
    \* history
    wire,                   \* the image sent last
    bad_frame,              \* the first bad frame: "none", "stale", "sent"
    after_bad,              \* frames sent since
    stopped                 \* the safety supervisor has tripped

rtVars  == <<frame, frame_bad, rt_enable, command_commit_valid,
             committed_command_bank, committed_command_sequence,
             active_command_bank, last_command_valid, last_command_sequence,
             command_mem>>
isrVars == <<isr, pending, motion_fault_pending>>
taskVars == <<pc, command, next_command_sequence, enabled>>
history == <<wire, bad_frame, after_bad, stopped>>
taskAll == <<rtVars, rt_irq_status, safety_fault_latched, isrVars, notified,
             action_queue, taskVars, history, playerVars>>

OpenImage(n) == [sample |-> n, posture |-> OpenPosture]

Init ==
    /\ PlayerInit
    /\ frame = "none" /\ frame_bad = FALSE
    /\ rt_enable = FALSE
    /\ command_commit_valid = FALSE
    /\ committed_command_bank = 0
    /\ committed_command_sequence = 0
    /\ active_command_bank = 0
    /\ last_command_valid = FALSE
    /\ last_command_sequence = 0
    /\ command_mem \in [Banks -> {OpenImage(0)}]
    /\ rt_irq_status = {}
    /\ safety_fault_latched = FALSE
    /\ isr = "idle" /\ pending = {}
    /\ motion_fault_pending = FALSE
    /\ notified = FALSE
    /\ action_queue = <<>>
    /\ pc = "submit"
    /\ command = OpenImage(1)
    /\ next_command_sequence = 1
    /\ enabled = FALSE
    /\ wire = OpenImage(0)
    /\ bad_frame = "none" /\ after_bad = 0
    /\ stopped = FALSE

-----------------------------------------------------------------------------
(* The real-time block                                                     *)

Enable == rt_enable /\ ~safety_fault_latched

\* A mutant: a running frame locks both banks.
LockedBoth(bank) ==
    \/ frame # "none"
    \/ command_commit_valid /\ bank = committed_command_bank

Locked(bank) ==
    \/ frame # "none" /\ bank = active_command_bank
    \/ command_commit_valid /\ bank = committed_command_bank

Replayed ==
    last_command_valid /\ committed_command_sequence = last_command_sequence

Fresh == command_commit_valid /\ ~Replayed

blockVars == <<rt_enable, committed_command_bank, committed_command_sequence,
               command_mem>>
softVars  == <<isrVars, notified, action_queue, taskVars, playerVars>>

StartFrame ==
    /\ frame = "none" /\ Enable
    /\ active_command_bank' = committed_command_bank
    /\ last_command_valid' = command_commit_valid
    /\ last_command_sequence' = committed_command_sequence
    /\ frame' = IF Fresh THEN "sending" ELSE "closing"
    /\ frame_bad' = ~Fresh
    /\ IF Fresh
       THEN /\ wire' = command_mem[committed_command_bank]
            /\ after_bad' = IF bad_frame = "none" \/ after_bad = 2
                            THEN after_bad ELSE after_bad + 1
            /\ UNCHANGED bad_frame
       ELSE /\ bad_frame' = IF bad_frame = "none" THEN "stale" ELSE bad_frame
            /\ UNCHANGED <<wire, after_bad>>
    /\ UNCHANGED <<blockVars, command_commit_valid, rt_irq_status,
                   safety_fault_latched, stopped, softVars>>

\* Both transactions are over: the servo answered well, badly or not in time.
EndTransmission ==
    /\ frame = "sending" /\ ~safety_fault_latched
    /\ frame' = "closing"
    /\ frame_bad' \in BOOLEAN
    /\ bad_frame' = IF frame_bad' /\ bad_frame = "none" THEN "sent" ELSE bad_frame
    /\ UNCHANGED <<blockVars, command_commit_valid, active_command_bank,
                   last_command_valid, last_command_sequence, rt_irq_status,
                   safety_fault_latched, wire, after_bad, stopped, softVars>>

\* The record is published.  Held, external_abort restarts RT_COMMIT on every
\* edge, so the frame does not end before the safety fault is cleared.
EndFrame ==
    /\ frame = "closing" /\ ~safety_fault_latched
    /\ frame' = "none"
    /\ rt_irq_status' = rt_irq_status \cup
                          (IF frame_bad THEN {"DONE", "ERROR"} ELSE {"DONE"})
    /\ UNCHANGED <<frame_bad, blockVars, command_commit_valid,
                   active_command_bank, last_command_valid,
                   last_command_sequence, safety_fault_latched, history, softVars>>

\* abort_flush: commits and the number sent last are forgotten, a running
\* frame goes to RT_COMMIT with an error.
Flush ==
    /\ command_commit_valid' = FALSE
    /\ last_command_valid' = FALSE
    /\ frame' = IF frame = "none" THEN "none" ELSE "closing"
    /\ frame_bad' = (frame_bad \/ frame # "none")
    /\ bad_frame' = IF frame # "none" /\ bad_frame = "none" THEN "sent" ELSE bad_frame

\* A mutant: the fault only gates the enable.
TripWithoutFlush ==
    /\ ~safety_fault_latched
    /\ safety_fault_latched' = TRUE
    /\ stopped' = TRUE
    /\ UNCHANGED <<rtVars, rt_irq_status, wire, bad_frame, after_bad, softVars>>

\* The safety supervisor latches: an E-stop, an external fault or the watchdog.
Trip ==
    /\ ~safety_fault_latched
    /\ safety_fault_latched' = TRUE
    /\ Flush
    /\ stopped' = TRUE
    /\ UNCHANGED <<blockVars, active_command_bank, last_command_sequence,
                   rt_irq_status, wire, after_bad, softVars>>

-----------------------------------------------------------------------------
(* The interrupt handler, app_asl_protocol2_isr: not interrupted by tasks  *)

hardVars == <<rtVars, safety_fault_latched, history>>

IsrRead ==
    /\ isr = "idle" /\ rt_irq_status # {}
    /\ isr' = "clear"
    /\ pending' = rt_irq_status
    /\ UNCHANGED <<motion_fault_pending, rt_irq_status, notified, action_queue,
                   taskVars, playerVars, hardVars>>

\* A mutant: every bit is cleared, seen or not.
IsrClearAll ==
    /\ isr = "clear"
    /\ isr' = "act"
    /\ rt_irq_status' = {}
    /\ UNCHANGED <<pending, motion_fault_pending, notified, action_queue,
                   taskVars, playerVars, hardVars>>

\* Write one to clear; an event of the same edge stays.
IsrClear ==
    /\ isr = "clear"
    /\ isr' = "act"
    /\ rt_irq_status' = rt_irq_status \ pending
    /\ UNCHANGED <<pending, motion_fault_pending, notified, action_queue,
                   taskVars, playerVars, hardVars>>

\* A mutant: only a good frame wakes the task.
IsrActOnGood ==
    /\ isr = "act"
    /\ isr' = "idle"
    /\ motion_fault_pending' =
          (motion_fault_pending \/ pending \cap {"ERROR", "BUFFER"} # {})
    /\ notified' = (notified \/ pending = {"DONE"})
    /\ pending' = {}
    /\ UNCHANGED <<rt_irq_status, action_queue, taskVars, playerVars, hardVars>>

IsrAct ==
    /\ isr = "act"
    /\ isr' = "idle"
    /\ motion_fault_pending' =
          (motion_fault_pending \/ pending \cap {"ERROR", "BUFFER"} # {})
    /\ notified' = TRUE
    /\ pending' = {}
    /\ UNCHANGED <<rt_irq_status, action_queue, taskVars, playerVars, hardVars>>

Isr == IsrRead \/ IsrClear \/ IsrAct

-----------------------------------------------------------------------------
(* The motion task                                                         *)

At(here)  == isr = "idle" /\ pc = here
GoTo(there) == pc' = there
restOfSoft == <<isrVars, action_queue>>

\* ulTaskNotifyTake(pdTRUE, portMAX_DELAY): the count is taken whole.
TakeNotification ==
    /\ At("take") /\ notified
    /\ notified' = FALSE
    /\ GoTo("check")
    /\ UNCHANGED <<restOfSoft, command, next_command_sequence, enabled,
                   playerVars, rt_irq_status, hardVars>>

\* A mutant: the fault is not looked at.
CheckNothing ==
    /\ At("check")
    /\ GoTo("ready")
    /\ UNCHANGED <<restOfSoft, notified, command, next_command_sequence,
                   enabled, playerVars, rt_irq_status, hardVars>>

CheckFault ==
    /\ At("check")
    /\ GoTo(IF motion_fault_pending THEN "stop" ELSE "ready")
    /\ UNCHANGED <<restOfSoft, notified, command, next_command_sequence,
                   enabled, playerVars, rt_irq_status, hardVars>>

Target == 1 - committed_command_bank

\* asl_soc_hx5_port_ready
CheckReady ==
    /\ At("ready")
    /\ GoTo(IF Locked(Target) THEN "take" ELSE "receive")
    /\ UNCHANGED <<restOfSoft, notified, command, next_command_sequence,
                   enabled, playerVars, rt_irq_status, hardVars>>

\* An idle player takes a letter; one it refuses is lost.
ReceiveLetter ==
    /\ At("receive")
    /\ GoTo("play")
    /\ IF active \/ action_queue = <<>> THEN UNCHANGED <<action_queue, playerVars>>
       ELSE /\ action_queue' = Tail(action_queue)
            /\ IF StartAccepted(Head(action_queue))
               THEN Start(Head(action_queue)) ELSE UNCHANGED playerVars
    /\ UNCHANGED <<isrVars, notified, command, next_command_sequence, enabled,
                   rt_irq_status, hardVars>>

\* The next sample, or the posture the player rests in.
PlaySample ==
    /\ At("play")
    /\ GoTo("submit")
    /\ Tick \/ (~active /\ UNCHANGED playerVars)
    /\ command' = [sample |-> After(command.sample), posture |-> current_q12']
    /\ UNCHANGED <<restOfSoft, notified, next_command_sequence, enabled,
                   rt_irq_status, hardVars>>

\* asl_soc_hx5_port_try_submit_q12: refused on a locked bank.
CheckLock ==
    /\ At("submit")
    /\ GoTo(IF Locked(Target) THEN "stop" ELSE "store")
    /\ UNCHANGED <<restOfSoft, notified, command, next_command_sequence,
                   enabled, playerVars, rt_irq_status, hardVars>>

\* The image, word by word; a locked bank takes no word and raises an error.
StoreImage ==
    /\ At("store")
    /\ GoTo("commit")
    /\ IF Locked(Target)
       THEN /\ rt_irq_status' = rt_irq_status \cup {"BUFFER"}
            /\ UNCHANGED command_mem
       ELSE /\ command_mem' = [command_mem EXCEPT ![Target] = command]
            /\ UNCHANGED rt_irq_status
    /\ UNCHANGED <<restOfSoft, notified, command, next_command_sequence,
                   enabled, playerVars, frame, frame_bad, rt_enable,
                   command_commit_valid, committed_command_bank,
                   committed_command_sequence, active_command_bank,
                   last_command_valid, last_command_sequence,
                   safety_fault_latched, history>>

\* COMMAND_SEQUENCE and COMMAND_COMMIT; a flush of the same edge wins.
Commit ==
    /\ At("commit")
    /\ GoTo(IF enabled THEN "take" ELSE "enable")
    /\ next_command_sequence' = After(next_command_sequence)
    /\ IF Locked(Target)
       THEN /\ rt_irq_status' = rt_irq_status \cup {"BUFFER"}
            /\ UNCHANGED <<committed_command_bank, committed_command_sequence,
                           command_commit_valid>>
       ELSE /\ committed_command_bank' = Target
            /\ committed_command_sequence' = next_command_sequence
            /\ command_commit_valid' = ~safety_fault_latched
            /\ UNCHANGED rt_irq_status
    /\ UNCHANGED <<restOfSoft, notified, command, enabled, playerVars, frame,
                   frame_bad, rt_enable, active_command_bank,
                   last_command_valid, last_command_sequence, command_mem,
                   safety_fault_latched, history>>

EnableRt ==
    /\ At("enable")
    /\ GoTo("take")
    /\ rt_enable' = TRUE
    /\ enabled' = TRUE
    /\ UNCHANGED <<restOfSoft, notified, command, next_command_sequence,
                   playerVars, rt_irq_status, frame, frame_bad,
                   command_commit_valid, committed_command_bank,
                   committed_command_sequence, active_command_bank,
                   last_command_valid, last_command_sequence, command_mem,
                   safety_fault_latched, history>>

\* asl_soc_hx5_port_abort: the two accesses of hx5_rt_control_abort.  The first
\* submission, when refused, suspends the task with nothing enabled.
StopRt ==
    /\ At("stop")
    /\ GoTo(IF enabled THEN "flush" ELSE "suspended")
    /\ rt_enable' = FALSE
    /\ UNCHANGED <<restOfSoft, notified, command, next_command_sequence,
                   enabled, playerVars, rt_irq_status, frame, frame_bad,
                   command_commit_valid, committed_command_bank,
                   committed_command_sequence, active_command_bank,
                   last_command_valid, last_command_sequence, command_mem,
                   safety_fault_latched, history>>

FlushRt ==
    /\ At("flush")
    /\ GoTo("suspended")
    /\ Flush
    /\ enabled' = FALSE
    /\ UNCHANGED <<restOfSoft, notified, command, next_command_sequence,
                   playerVars, blockVars, active_command_bank,
                   last_command_sequence, rt_irq_status, safety_fault_latched,
                   wire, after_bad, stopped>>

MotionTask ==
    \/ TakeNotification
    \/ CheckFault
    \/ CheckReady
    \/ ReceiveLetter
    \/ PlaySample
    \/ CheckLock
    \/ StoreImage
    \/ Commit
    \/ EnableRt
    \/ StopRt
    \/ FlushRt

-----------------------------------------------------------------------------
(* Code of lower priority: it runs while the handler and the motion task   *)
(* have nothing to do.                                                     *)

Preempted ==
    \/ isr # "idle" \/ rt_irq_status # {}
    \/ pc # "suspended" /\ (pc # "take" \/ notified)

\* The classifier task; xQueueSend does not wait, a full queue drops.
SendLetter(class) ==
    /\ ~Preempted
    /\ Len(action_queue) < QueueLength
    /\ action_queue' = Append(action_queue, class)
    /\ UNCHANGED <<isrVars, notified, taskVars, playerVars, rt_irq_status, hardVars>>

\* ASL_SAFETY_CLEAR_FAULT, accepted once the physical inputs are safe.
ClearFault ==
    /\ ~Preempted
    /\ safety_fault_latched
    /\ safety_fault_latched' = FALSE
    /\ UNCHANGED <<rtVars, rt_irq_status, history, softVars>>

Block == StartFrame \/ EndTransmission \/ EndFrame

Next ==
    \/ Block
    \/ Trip
    \/ ClearFault
    \/ Isr
    \/ MotionTask
    \/ \E class \in Letters : SendLetter(class)

\* The frame tick is free-running and a frame ends (FrameEnds of Hx5Sequencer;
\* the servo's silence is bounded by its timeout); interrupts are taken, and the
\* task of the highest priority runs on between them: the handler's few accesses
\* do not fill a frame.  Nobody has to clear a safety fault.
Fairness == WF_taskAll(Block) /\ WF_taskAll(Isr) /\ SF_taskAll(MotionTask)

Spec == Init /\ [][Next]_taskAll /\ Fairness

-----------------------------------------------------------------------------
(***************************************************************************)
(* Properties                                                              *)
(***************************************************************************)

\* Types, and what the two counts of a task and of the block have to do with
\* each other: the image to submit is always the one its number says.
TasksTypeOK ==
    /\ PlayerTypeOK
    /\ frame \in {"none", "sending", "closing"}
    /\ command \in Image /\ wire \in Image
    /\ \A bank \in Banks : command_mem[bank] \in Image
    /\ rt_irq_status \subseteq {"DONE", "ERROR"}
    /\ Len(action_queue) <= QueueLength
    /\ pc \in {"submit", "store", "commit"}
          => command.sample = next_command_sequence

Sends == frame = "none" /\ frame' = "sending"

\* The hand follows the trajectory: consecutive frames send consecutive
\* samples of the player, none twice and none skipped, whatever is late.
WireFollowsPlayer ==
    [][Sends => wire'.sample = After(wire.sample)]_taskAll

\* "so a locked bank drops no step": a sample taken from the player is always
\* submitted, and a frame that ended well is always answered with a sample.
NoStepDropped ==
    [][pc' # pc /\ pc \in {"ready", "submit"} => pc' \in {"receive", "store"}]_taskAll

\* After a bad frame the hand stops: no frame is sent after one that was not
\* answered, and at most the one under way after one that found no command.
BadFrameStops ==
    after_bad <= (IF bad_frame = "stale" THEN 1 ELSE 0)

\* After the safety supervisor has tripped no frame is sent any more, even if
\* the fault is cleared: the hand is not driven on from an arbitrary posture.
TripStops == [][Sends => ~stopped]_taskAll

\* The motion goes on, or the task has reported a fault and stopped: no
\* notification, interrupt or commit is lost in a way that leaves it waiting.
MotionGoesOn ==
    <>[]~safety_fault_latched => []<>(frame = "sending") \/ <>[](pc = "suspended")
=============================================================================
