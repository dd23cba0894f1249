----------------------------- MODULE MCAslTasks -----------------------------
(***************************************************************************)
(* Model checking of AslTasks with two letters: one of two keyframes, the  *)
(* first of two samples, and one of a single keyframe.                     *)
(***************************************************************************)
EXTENDS AslTasks

MCJoints == {0}

MCFrame(samples, angle) ==
    [duration |-> samples, phase |-> "POSITION_THUMB",
     target |-> [j \in MCJoints |-> angle], hold |-> FALSE, action_end |-> angle = 0]

MCKeyframes == <<MCFrame(2, 3), MCFrame(1, 0), MCFrame(1, 0)>>

MCDescriptors ==
    [A |-> [first_keyframe |-> 0, keyframe_count |-> 2, total_ticks |-> 3,
            collision_approved |-> TRUE],
     B |-> [first_keyframe |-> 2, keyframe_count |-> 1, total_ticks |-> 1,
            collision_approved |-> TRUE]]

MCLetters == DOMAIN MCDescriptors
=============================================================================
