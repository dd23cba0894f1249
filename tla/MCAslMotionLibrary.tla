------------------------- MODULE MCAslMotionLibrary -------------------------
(***************************************************************************)
(* Model checking of AslMotionLibrary with two letters: one of three       *)
(* keyframes, the first of duration zero, and one of a single keyframe.    *)
(***************************************************************************)
EXTENDS AslMotionLibrary

MCJoints == {0}

MCFrame(ticks_, angle) ==
    [duration |-> ticks_, phase |-> "POSITION_THUMB", target |-> [j \in MCJoints |-> angle],
     hold |-> FALSE, action_end |-> angle = 0]

MCKeyframes == <<MCFrame(0, 3), MCFrame(1, 3), MCFrame(2, 0), MCFrame(1, 0)>>

MCDescriptors ==
    [A |-> [first_keyframe |-> 0, keyframe_count |-> 3, total_ticks |-> 4,
            collision_approved |-> TRUE],
     B |-> [first_keyframe |-> 3, keyframe_count |-> 1, total_ticks |-> 1,
            collision_approved |-> TRUE]]

MCLetters == DOMAIN MCDescriptors
=============================================================================
