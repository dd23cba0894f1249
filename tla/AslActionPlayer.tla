-------------------------- MODULE AslActionPlayer --------------------------
(***************************************************************************)
(* asl_action_player_*: plays one approved letter, OPEN to OPEN, as a      *)
(* sequence of keyframes sampled at 1 kHz.  One action per API call; the   *)
(* call that emits a sample is split by where the sample falls: inside a   *)
(* segment, at its end, or at the end of the whole action.                 *)
(*                                                                         *)
(* The table is a parameter: Keyframes is the flat array and Descriptors   *)
(* the row asl_action_find returns for a class that has one.               *)
(***************************************************************************)
EXTENDS AslInterpolation, AslClasses

CONSTANTS
    Joints,        \* joint numbers (0 .. 19 in the code)
    Keyframes,     \* asl_generated_keyframes
    Descriptors    \* class |-> its row of asl_generated_actions

Posture == [Joints -> Int16]
OpenPosture == [j \in Joints |-> 0]

TableOK ==
    /\ DOMAIN Descriptors = Letters
    /\ \A k \in DOMAIN Keyframes :
          /\ Keyframes[k].duration \in Nat
          /\ Keyframes[k].target \in Posture
    /\ Keyframes \in Seq({Keyframes[k] : k \in DOMAIN Keyframes})
    /\ \A c \in Letters :
          /\ Descriptors[c].first_keyframe \in Nat
          /\ Descriptors[c].keyframe_count \in Nat
          /\ Descriptors[c].first_keyframe + Descriptors[c].keyframe_count
                <= Len(Keyframes)

\* "The approved source plans all start and finish at OPEN"
PlansEndAtOpen ==
    \A c \in Letters :
        LET last == Descriptors[c].first_keyframe + Descriptors[c].keyframe_count
        IN  Descriptors[c].collision_approved /\ Descriptors[c].keyframe_count > 0
                => Keyframes[last].target = OpenPosture

ASSUME TableAssumption == TableOK /\ PlansEndAtOpen

VARIABLES
    action,                 \* class of the descriptor, INVALID for NULL
    current_q12, segment_start_q12, segment_elapsed_ticks, keyframe_index,
    completed_class_id, active,
    phase,                  \* reported with the last sample
    ticks                   \* history: samples of the action so far

playerVars == <<action, current_q12, segment_start_q12, segment_elapsed_ticks,
                keyframe_index, completed_class_id, active, phase, ticks>>

PlayerInit ==
    /\ action = INVALID
    /\ current_q12 = OpenPosture
    /\ segment_start_q12 = OpenPosture
    /\ segment_elapsed_ticks = 0
    /\ keyframe_index = 0
    /\ completed_class_id = INVALID
    /\ active = FALSE
    /\ phase = "UNKNOWN"
    /\ ticks = 0

\* A mutant: a plan needs more than one keyframe.
StartableIfLonger(class) ==
    /\ asl_class_has_static_action(class)
    /\ Descriptors[class].collision_approved
    /\ Descriptors[class].keyframe_count > 1

Startable(class) ==
    /\ asl_class_has_static_action(class)
    /\ Descriptors[class].collision_approved
    /\ Descriptors[class].keyframe_count # 0

\* asl_action_player_start returning true; it changes nothing otherwise.
StartAccepted(class) ==
    ~active /\ Startable(class) /\ current_q12 = OpenPosture

Start(class) ==
    /\ StartAccepted(class)
    /\ action' = class
    /\ active' = TRUE
    /\ segment_start_q12' = OpenPosture
    /\ segment_elapsed_ticks' = 0
    /\ keyframe_index' = 0
    /\ completed_class_id' = INVALID
    /\ ticks' = 0
    /\ UNCHANGED <<current_q12, phase>>

Keyframe == Keyframes[Descriptors[action].first_keyframe + keyframe_index + 1]
Duration(keyframe) == NonzeroOrOne(keyframe.duration)

\* A mutant: the action ends a keyframe early.
LastButOneKeyframe == keyframe_index + 2 >= Descriptors[action].keyframe_count

LastKeyframe == keyframe_index + 1 >= Descriptors[action].keyframe_count

\* The postures at a given time after the start of the segment.
Sample(keyframe, elapsed) ==
    LET blend == Blend(elapsed, Duration(keyframe))
    IN  IF elapsed >= Duration(keyframe) THEN keyframe.target
        ELSE [j \in Joints |->
                 Interpolate(segment_start_q12[j], keyframe.target[j], blend)]

\* What every sample does, and where it falls.
Emit(keyframe) ==
    /\ current_q12' = Sample(keyframe, segment_elapsed_ticks + 1)
    /\ phase' = keyframe.phase
    /\ ticks' = ticks + 1

SegmentGoesOn(keyframe) == segment_elapsed_ticks + 1 < Duration(keyframe)

TickInSegment(keyframe) ==
    /\ SegmentGoesOn(keyframe)
    /\ Emit(keyframe)
    /\ segment_elapsed_ticks' = segment_elapsed_ticks + 1
    /\ UNCHANGED <<action, segment_start_q12, keyframe_index,
                   completed_class_id, active>>

\* A mutant: the next segment is measured from the start of the last one.
TickEndsSegmentInPlace(keyframe) ==
    /\ ~SegmentGoesOn(keyframe) /\ ~LastKeyframe
    /\ Emit(keyframe)
    /\ keyframe_index' = keyframe_index + 1
    /\ segment_elapsed_ticks' = 0
    /\ UNCHANGED <<action, segment_start_q12, completed_class_id, active>>

\* A mutant: the elapsed time is not reset to zero.
TickEndsSegmentLate(keyframe) ==
    /\ ~SegmentGoesOn(keyframe) /\ ~LastKeyframe
    /\ Emit(keyframe)
    /\ keyframe_index' = keyframe_index + 1
    /\ segment_elapsed_ticks' = 1
    /\ segment_start_q12' = current_q12'
    /\ UNCHANGED <<action, completed_class_id, active>>

TickEndsSegment(keyframe) ==
    /\ ~SegmentGoesOn(keyframe) /\ ~LastKeyframe
    /\ Emit(keyframe)
    /\ keyframe_index' = keyframe_index + 1
    /\ segment_elapsed_ticks' = 0
    /\ segment_start_q12' = current_q12'
    /\ UNCHANGED <<action, completed_class_id, active>>

TickEndsAction(keyframe) ==
    /\ ~SegmentGoesOn(keyframe) /\ LastKeyframe
    /\ Emit(keyframe)
    /\ keyframe_index' = keyframe_index + 1
    /\ segment_elapsed_ticks' = 0
    /\ completed_class_id' = action
    /\ active' = FALSE
    /\ action' = INVALID
    /\ UNCHANGED segment_start_q12

\* asl_action_player_tick_1khz
Tick ==
    /\ active
    /\ LET keyframe == Keyframe
       IN  \/ TickInSegment(keyframe)
           \/ TickEndsSegment(keyframe)
           \/ TickEndsAction(keyframe)

\* asl_action_player_take_completed returning true
TakeCompleted ==
    /\ completed_class_id # INVALID
    /\ completed_class_id' = INVALID
    /\ UNCHANGED <<action, current_q12, segment_start_q12,
                   segment_elapsed_ticks, keyframe_index, active, phase, ticks>>

PlayerNext ==
    \/ \E class \in Letters : Start(class)
    \/ Tick
    \/ TakeCompleted

PlayerSpec == PlayerInit /\ [][PlayerNext]_playerVars

-----------------------------------------------------------------------------
(***************************************************************************)
(* Properties                                                              *)
(***************************************************************************)

\* Types; an active player points into the keyframes of its own action.
PlayerTypeOK ==
    /\ action \in Letters \cup {INVALID}
    /\ current_q12 \in Posture
    /\ segment_start_q12 \in Posture
    /\ completed_class_id \in Letters \cup {INVALID}
    /\ active \in BOOLEAN
    /\ ticks \in Nat
    /\ active <=> action # INVALID
    /\ active => /\ Startable(action)
                 /\ keyframe_index \in 0 .. Descriptors[action].keyframe_count - 1
                 /\ segment_elapsed_ticks \in 0 .. Duration(Keyframe) - 1

\* No joint ever leaves the interval between the start and the target of its
\* segment: rounding, the blend that exceeds one before its clamp, and the
\* cast to 16 bits never make it overshoot into an unapproved posture.
StaysInSegment ==
    active => LET target == Keyframe.target
              IN  \A j \in Joints :
                    Between(current_q12[j], segment_start_q12[j], target[j])

\* An idle hand is open: whatever was played before, the next approved letter
\* is not refused for want of its initial posture.
RestsAtOpen == ~active => current_q12 = OpenPosture

\* A step that emits a sample, and the keyframe it belongs to.
Sampled == ticks' = ticks + 1

\* Truncation makes the blend fall back at some samples; a joint moves against
\* the direction of its segment by one count at most.
StepsBackAtMostOne ==
    [][Sampled => LET target == Keyframe.target
                  IN  \A j \in Joints :
                        Distance(current_q12'[j], target[j])
                            <= Distance(current_q12[j], target[j]) + 1]_playerVars

\* An action completes on the sample its descriptor announces, at the keyframe
\* the exporter flagged as the end; the player reads neither of the two.
CompletesOnSchedule ==
    [][active /\ ~active' => /\ ticks' = Descriptors[action].total_ticks
                            /\ Keyframe.action_end]_playerVars
=============================================================================
