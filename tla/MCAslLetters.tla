---------------------------- MODULE MCAslLetters ----------------------------
(***************************************************************************)
(* The player on the generated table itself: every letter, all joints,     *)
(* every sample, in any order of letters.                                  *)
(***************************************************************************)
EXTENDS AslCalibration, AslActionTable

MCLetters     == DOMAIN GeneratedActions
MCJoints      == 0 .. 19
MCKeyframes   == GeneratedKeyframes
MCDescriptors == GeneratedActions

\* Two calibrations, for even and odd joints: that of the unit test, and one
\* reversed, of 4096 counts a turn, whose limits cut some letters off.
Calibrations ==
    <<[center_raw |-> 2048, minimum_raw |-> 0, maximum_raw |-> 4095,
       direction |-> 1, valid |-> TRUE, whole |-> 100, fraction |-> 0],
      [center_raw |-> 2000, minimum_raw |-> 1200, maximum_raw |-> 2100,
       direction |-> -1, valid |-> TRUE, whole |-> 651, fraction |-> 58912]>>

MCCalibration == [j \in MCJoints |-> Calibrations[1 + (j % 2)]]

\* The phase a sample is reported with says which joints may move: a plan
\* never moves the thumb and the fingers, or spread and flexion, at once,
\* which is what its collision check was made for, and a held letter is still.
PhasesMoveTheirJoints ==
    [][Sampled => \A j \in (0 .. 19) \ PhaseJoints[phase'] :
                     current_q12'[j] = current_q12[j]]_playerVars
=============================================================================
