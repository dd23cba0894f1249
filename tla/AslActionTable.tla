--------------------------- MODULE AslActionTable ---------------------------
(***************************************************************************)
(* The generated table: for every letter with a static action the          *)
(* keyframes of its approved plan, and the descriptor of each plan.  A     *)
(* posture is written by joint group: the four thumb joints, the spread of *)
(* the four fingers, and the three flexion joints of each finger.  Plan    *)
(* identifiers are left out.                                               *)
(***************************************************************************)
EXTENDS Integers, Sequences

ThumbJoints   == 0 .. 3
SpreadJoints  == {4, 8, 12, 16}
FlexionJoints == (0 .. 19) \ (ThumbJoints \cup SpreadJoints)

Posed(thumb, spread, flexion) ==
    [j \in 0 .. 19 |-> CASE j \in ThumbJoints  -> thumb[j + 1]
                         [] j \in SpreadJoints -> spread[j \div 4]
                         [] OTHER              -> flexion[j \div 4][j % 4]]

Rest         == <<0, 0, 0, 0>>                  \* thumb, or spread, at OPEN
Alike(angles) == <<angles, angles, angles, angles>>
Straight     == Alike(<<0, 0, 0>>)
Eased        == Alike(<<328, 205, 205>>)

\* asl_keyframe_t, with its two flags as Booleans
Flagged(duration, joint_phase, target, hold, action_end) ==
    [duration |-> duration, phase |-> joint_phase, target |-> target,
     hold |-> hold, action_end |-> action_end]

Move(duration, joint_phase, thumb, spread, flexion) ==
    Flagged(duration, joint_phase, Posed(thumb, spread, flexion), FALSE, FALSE)

Hold(duration, thumb, spread, flexion) ==
    Flagged(duration, "TARGET_HOLD", Posed(thumb, spread, flexion), TRUE, FALSE)

End(duration, joint_phase, thumb, spread, flexion) ==
    Flagged(duration, joint_phase, Posed(thumb, spread, flexion), FALSE, TRUE)

PlanA ==
    LET f1 == Alike(<<6881, 5652, 4997>>)  t1 == <<2791, 0, 1787, 2176>>
    IN <<Move(136, "RELEASE_NON_THUMB", Rest, Rest, Eased),
         Move(750, "FORM_NON_THUMB_SHAPE", Rest, Rest, f1),
         Move(397, "POSITION_THUMB", t1, Rest, f1), Hold(500, t1, Rest, f1),
         Move(397, "RELEASE_THUMB", Rest, Rest, f1),
         Move(750, "RELEASE_NON_THUMB", Rest, Rest, Eased),
         End(136, "FORM_NON_THUMB_SHAPE", Rest, Rest, Straight)>>

PlanB ==
    LET t1 == <<4710, -4506, 205, 205>>  s1 == <<-57, 41, 66, 180>>
        f1 == <<<<216, 123, 123>>, <<205, 123, 123>>, <<205, 123, 123>>, <<205, 123, 123>>>>
        t2 == <<6431, -867, 1318, 5430>>
    IN <<Move(136, "RELEASE_NON_THUMB", Rest, Rest, Eased),
         Move(539, "RETRACT_THUMB", t1, Rest, Eased),
         Move(101, "SET_FINGER_SPREAD", t1, s1, Eased),
         Move(83, "FORM_NON_THUMB_SHAPE", t1, s1, f1),
         Move(598, "POSITION_THUMB", t2, s1, f1), Hold(500, t2, s1, f1),
         Move(83, "RELEASE_NON_THUMB", t2, s1, Eased),
         Move(101, "RELEASE_FINGER_SPREAD", t2, Rest, Eased),
         Move(736, "RETRACT_THUMB", Rest, Rest, Eased),
         End(136, "FORM_NON_THUMB_SHAPE", Rest, Rest, Straight)>>

PlanC ==
    LET t1 == <<4710, -4506, 205, 205>>  s1 == <<34, 0, 246, 410>>
        f1 == Alike(<<2949, 2540, 1843>>)  t2 == <<2253, -4804, 253, 3217>>
    IN <<Move(136, "RELEASE_NON_THUMB", Rest, Rest, Eased),
         Move(539, "RETRACT_THUMB", t1, Rest, Eased),
         Move(152, "SET_FINGER_SPREAD", t1, s1, Eased),
         Move(384, "FORM_NON_THUMB_SHAPE", t1, s1, f1),
         Move(412, "POSITION_THUMB", t2, s1, f1), Hold(500, t2, s1, f1),
         Move(384, "RELEASE_NON_THUMB", t2, s1, Eased),
         Move(152, "RELEASE_FINGER_SPREAD", t2, Rest, Eased),
         Move(550, "RETRACT_THUMB", Rest, Rest, Eased),
         End(136, "FORM_NON_THUMB_SHAPE", Rest, Rest, Straight)>>

PlanD ==
    LET t1 == <<4710, -4506, 205, 205>>  s1 == <<0, 49, 0, 0>>
        f1 == <<<<205, 123, 123>>, <<3441, 3768, 2949>>, <<3768, 3768, 2949>>,
                <<3768, 3768, 2949>>>>
        t2 == <<1427, -6431, 2716, 2168>>
    IN <<Move(136, "RELEASE_NON_THUMB", Rest, Rest, Eased),
         Move(539, "RETRACT_THUMB", t1, Rest, Eased),
         Move(60, "SET_FINGER_SPREAD", t1, s1, Eased),
         Move(448, "FORM_NON_THUMB_SHAPE", t1, s1, f1),
         Move(430, "POSITION_THUMB", t2, s1, f1), Hold(500, t2, s1, f1),
         Move(448, "RELEASE_NON_THUMB", t2, s1, Eased),
         Move(60, "RELEASE_FINGER_SPREAD", t2, Rest, Eased),
         Move(736, "RETRACT_THUMB", Rest, Rest, Eased),
         End(136, "FORM_NON_THUMB_SHAPE", Rest, Rest, Straight)>>

PlanE ==
    LET t1 == <<4710, -4506, 205, 205>>  s1 == <<-75, 0, 0, 0>>
        f1 == Alike(<<4506, 4588, 3891>>)  t2 == <<6431, -4762, 572, 5336>>
    IN <<Move(136, "RELEASE_NON_THUMB", Rest, Rest, Eased),
         Move(539, "RETRACT_THUMB", t1, Rest, Eased),
         Move(65, "SET_FINGER_SPREAD", t1, s1, Eased),
         Move(502, "FORM_NON_THUMB_SHAPE", t1, s1, f1),
         Move(587, "POSITION_THUMB", t2, s1, f1), Hold(500, t2, s1, f1),
         Move(502, "RELEASE_NON_THUMB", t2, s1, Eased),
         Move(65, "RELEASE_FINGER_SPREAD", t2, Rest, Eased),
         Move(736, "RETRACT_THUMB", Rest, Rest, Eased),
         End(136, "FORM_NON_THUMB_SHAPE", Rest, Rest, Straight)>>

PlanF ==
    LET t1 == <<4710, -4506, 205, 205>>  s1 == <<-514, 0, 410, 737>>
        f1 == <<<<2017, 4012, 3956>>, <<205, 123, 123>>, <<205, 123, 123>>,
                <<205, 123, 123>>>>
        t2 == <<924, -5095, 2788, 2685>>
    IN <<Move(136, "RELEASE_NON_THUMB", Rest, Rest, Eased),
         Move(539, "RETRACT_THUMB", t1, Rest, Eased),
         Move(204, "SET_FINGER_SPREAD", t1, s1, Eased),
         Move(463, "FORM_NON_THUMB_SHAPE", t1, s1, f1),
         Move(462, "POSITION_THUMB", t2, s1, f1), Hold(500, t2, s1, f1),
         Move(463, "RELEASE_NON_THUMB", t2, s1, Eased),
         Move(204, "RELEASE_FINGER_SPREAD", t2, Rest, Eased),
         Move(583, "RETRACT_THUMB", Rest, Rest, Eased),
         End(136, "FORM_NON_THUMB_SHAPE", Rest, Rest, Straight)>>

PlanG ==
    LET t1 == <<4710, -4506, 205, 205>>
        f1 == <<<<205, 123, 123>>, <<6881, 5652, 4997>>, <<6881, 5652, 4997>>,
                <<6881, 5652, 4997>>>>
    IN <<Move(136, "RELEASE_NON_THUMB", Rest, Rest, Eased),
         Move(539, "RETRACT_THUMB", t1, Rest, Eased),
         Move(750, "FORM_NON_THUMB_SHAPE", t1, Rest, f1),
         Hold(500, t1, Rest, f1),
         Move(750, "RELEASE_NON_THUMB", t1, Rest, Eased),
         Move(539, "RETRACT_THUMB", Rest, Rest, Eased),
         End(136, "FORM_NON_THUMB_SHAPE", Rest, Rest, Straight)>>

PlanH ==
    LET t1 == <<5325, -6144, 205, 205>>  s1 == <<-115, -229, 0, 0>>
        f1 == <<<<137, 123, 123>>, <<205, 123, 123>>, <<6881, 5652, 4997>>,
                <<6881, 5652, 4997>>>>
        t2 == <<1286, -471, 6089, 4753>>
    IN <<Move(136, "RELEASE_NON_THUMB", Rest, Rest, Eased),
         Move(703, "RETRACT_THUMB", t1, Rest, Eased),
         Move(114, "SET_FINGER_SPREAD", t1, s1, Eased),
         Move(750, "FORM_NON_THUMB_SHAPE", t1, s1, f1),
         Move(673, "POSITION_THUMB", t2, s1, f1), Hold(500, t2, s1, f1),
         Move(673, "RELEASE_THUMB", t1, s1, f1),
         Move(750, "RELEASE_NON_THUMB", t1, s1, Eased),
         Move(114, "RELEASE_FINGER_SPREAD", t1, Rest, Eased),
         Move(703, "RETRACT_THUMB", Rest, Rest, Eased),
         End(136, "FORM_NON_THUMB_SHAPE", Rest, Rest, Straight)>>

PlanI ==
    LET t1 == <<5325, -6144, 205, 205>>
        f1 == <<<<6881, 5652, 4997>>, <<6881, 5652, 4997>>, <<6881, 5652, 4997>>,
                <<205, 123, 123>>>>
        t2 == <<2572, -4972, 2443, 3905>>
    IN <<Move(136, "RELEASE_NON_THUMB", Rest, Rest, Eased),
         Move(703, "RETRACT_THUMB", t1, Rest, Eased),
         Move(750, "FORM_NON_THUMB_SHAPE", t1, Rest, f1),
         Move(457, "POSITION_THUMB", t2, Rest, f1), Hold(500, t2, Rest, f1),
         Move(457, "RELEASE_THUMB", t1, Rest, f1),
         Move(750, "RELEASE_NON_THUMB", t1, Rest, Eased),
         Move(703, "RETRACT_THUMB", Rest, Rest, Eased),
         End(136, "FORM_NON_THUMB_SHAPE", Rest, Rest, Straight)>>

PlanK ==
    LET t1 == <<5325, -6144, 205, 205>>
        f1 == <<<<205, 123, 123>>, <<205, 123, 123>>, <<6881, 5652, 4997>>,
                <<6881, 5652, 4997>>>>
        s1 == <<-901, 385, 0, 0>>  t2 == <<6431, -471, 748, 1229>>
    IN <<Move(136, "RELEASE_NON_THUMB", Rest, Rest, Eased),
         Move(703, "RETRACT_THUMB", t1, Rest, Eased),
         Move(750, "FORM_NON_THUMB_SHAPE", t1, Rest, f1),
         Move(225, "SET_FINGER_SPREAD", t1, s1, f1),
         Move(649, "POSITION_THUMB", t2, s1, f1), Hold(500, t2, s1, f1),
         Move(649, "RELEASE_THUMB", t1, s1, f1),
         Move(225, "RELEASE_FINGER_SPREAD", t1, Rest, f1),
         Move(750, "RELEASE_NON_THUMB", t1, Rest, Eased),
         Move(703, "RETRACT_THUMB", Rest, Rest, Eased),
         End(136, "FORM_NON_THUMB_SHAPE", Rest, Rest, Straight)>>

PlanL ==
    LET t1 == <<4710, -4506, 205, 205>>
        f1 == <<<<205, 123, 123>>, <<6881, 5652, 4997>>, <<6881, 5652, 4997>>,
                <<6881, 5652, 4997>>>>
        t2 == <<5530, -5120, 410, 205>>
    IN <<Move(136, "RELEASE_NON_THUMB", Rest, Rest, Eased),
         Move(539, "RETRACT_THUMB", t1, Rest, Eased),
         Move(750, "FORM_NON_THUMB_SHAPE", t1, Rest, f1),
         Move(215, "POSITION_THUMB", t2, Rest, f1), Hold(500, t2, Rest, f1),
         Move(750, "RELEASE_NON_THUMB", t2, Rest, Eased),
         Move(633, "RETRACT_THUMB", Rest, Rest, Eased),
         End(136, "FORM_NON_THUMB_SHAPE", Rest, Rest, Straight)>>

PlanM ==
    LET f1 == Alike(<<6881, 5652, 4997>>)  t1 == <<4075, -6173, 2785, 4230>>
    IN <<Move(136, "RELEASE_NON_THUMB", Rest, Rest, Eased),
         Move(750, "FORM_NON_THUMB_SHAPE", Rest, Rest, f1),
         Move(706, "POSITION_THUMB", t1, Rest, f1), Hold(500, t1, Rest, f1),
         Move(707, "RELEASE_THUMB", Rest, Rest, f1),
         Move(750, "RELEASE_NON_THUMB", Rest, Rest, Eased),
         End(136, "FORM_NON_THUMB_SHAPE", Rest, Rest, Straight)>>

PlanN ==
    LET f1 == Alike(<<6881, 5652, 4997>>)  t1 == <<2581, -6173, 2785, 4230>>
    IN <<Move(136, "RELEASE_NON_THUMB", Rest, Rest, Eased),
         Move(750, "FORM_NON_THUMB_SHAPE", Rest, Rest, f1),
         Move(706, "POSITION_THUMB", t1, Rest, f1), Hold(500, t1, Rest, f1),
         Move(707, "RELEASE_THUMB", Rest, Rest, f1),
         Move(750, "RELEASE_NON_THUMB", Rest, Rest, Eased),
         End(136, "FORM_NON_THUMB_SHAPE", Rest, Rest, Straight)>>

PlanO ==
    LET f1 == <<<<2278, 4630, 3013>>, <<4178, 3768, 3592>>, <<4588, 3768, 2949>>,
                <<3850, 4218, 2949>>>>
        s1 == <<1061, 1478, 1188, 1458>>  t1 == <<900, -5145, 2334, 3006>>
    IN <<Move(136, "RELEASE_NON_THUMB", Rest, Rest, Eased),
         Move(506, "FORM_NON_THUMB_SHAPE", Rest, Rest, f1),
         Move(289, "SET_FINGER_SPREAD", Rest, s1, f1),
         Move(589, "POSITION_THUMB", t1, s1, f1), Hold(500, t1, s1, f1),
         Move(589, "RELEASE_THUMB", Rest, s1, f1),
         Move(289, "RELEASE_FINGER_SPREAD", Rest, Rest, f1),
         Move(506, "RELEASE_NON_THUMB", Rest, Rest, Eased),
         End(136, "FORM_NON_THUMB_SHAPE", Rest, Rest, Straight)>>

PlanP ==
    LET t1 == <<4710, -4506, 205, 205>>  s1 == <<62, 0, 0, 0>>
        f1 == <<<<2, 123, 123>>, <<4096, 123, 123>>, <<6881, 5652, 4997>>,
                <<6881, 5652, 4997>>>>
        t2 == <<6431, -579, 260, 94>>
    IN <<Move(136, "RELEASE_NON_THUMB", Rest, Rest, Eased),
         Move(539, "RETRACT_THUMB", t1, Rest, Eased),
         Move(60, "SET_FINGER_SPREAD", t1, s1, Eased),
         Move(750, "FORM_NON_THUMB_SHAPE", t1, s1, f1),
         Move(471, "POSITION_THUMB", t2, s1, f1), Hold(500, t2, s1, f1),
         Move(750, "RELEASE_NON_THUMB", t2, s1, Eased),
         Move(60, "RELEASE_FINGER_SPREAD", t2, Rest, Eased),
         Move(736, "RETRACT_THUMB", Rest, Rest, Eased),
         End(136, "FORM_NON_THUMB_SHAPE", Rest, Rest, Straight)>>

PlanQ ==
    LET t1 == <<4710, -4506, 205, 205>>  s1 == <<0, -82, 0, 0>>
        f1 == <<<<4096, 2572, 1286>>, <<6881, 5652, 4997>>, <<6881, 5652, 4997>>,
                <<6881, 5652, 4997>>>>
    IN <<Move(136, "RELEASE_NON_THUMB", Rest, Rest, Eased),
         Move(539, "RETRACT_THUMB", t1, Rest, Eased),
         Move(68, "SET_FINGER_SPREAD", t1, s1, Eased),
         Move(750, "FORM_NON_THUMB_SHAPE", t1, s1, f1), Hold(500, t1, s1, f1),
         Move(750, "RELEASE_NON_THUMB", t1, s1, Eased),
         Move(68, "RELEASE_FINGER_SPREAD", t1, Rest, Eased),
         Move(539, "RETRACT_THUMB", Rest, Rest, Eased),
         End(136, "FORM_NON_THUMB_SHAPE", Rest, Rest, Straight)>>

PlanR ==
    LET f1 == <<<<3277, 0, 0>>, <<0, 0, 0>>, <<6881, 5652, 4997>>, <<6881, 5652, 4997>>>>
        s1 == <<1475, -1475, 0, 0>>
        f2 == <<<<1638, 0, 0>>, <<0, 0, 0>>, <<6881, 5652, 4997>>, <<6881, 5652, 4997>>>>
        t1 == <<1229, -2253, 3482, 3072>>
    IN <<Move(136, "RELEASE_NON_THUMB", Rest, Rest, Eased),
         Move(750, "FORM_NON_THUMB_SHAPE", Rest, Rest, f1),
         Move(288, "SET_FINGER_SPREAD", Rest, s1, f1),
         Move(304, "SETTLE_CROSSING", Rest, s1, f2),
         Move(443, "POSITION_THUMB", t1, s1, f2), Hold(500, t1, s1, f2),
         Move(443, "RELEASE_THUMB", Rest, s1, f2),
         Move(304, "PREPARE_RELEASE_CROSSING", Rest, s1, f1),
         Move(288, "RELEASE_FINGER_SPREAD", Rest, Rest, f1),
         Move(750, "RELEASE_NON_THUMB", Rest, Rest, Eased),
         End(136, "FORM_NON_THUMB_SHAPE", Rest, Rest, Straight)>>

PlanS ==
    LET f1 == Alike(<<6881, 5652, 4997>>)  t1 == <<3006, -6083, 3768, 2224>>
    IN <<Move(136, "RELEASE_NON_THUMB", Rest, Rest, Eased),
         Move(750, "FORM_NON_THUMB_SHAPE", Rest, Rest, f1),
         Move(696, "POSITION_THUMB", t1, Rest, f1), Hold(500, t1, Rest, f1),
         Move(696, "RELEASE_THUMB", Rest, Rest, f1),
         Move(750, "RELEASE_NON_THUMB", Rest, Rest, Eased),
         End(136, "FORM_NON_THUMB_SHAPE", Rest, Rest, Straight)>>

PlanT ==
    LET f1 == Alike(<<6881, 5652, 4997>>)  t1 == <<909, -6173, 2785, 4230>>
    IN <<Move(136, "RELEASE_NON_THUMB", Rest, Rest, Eased),
         Move(750, "FORM_NON_THUMB_SHAPE", Rest, Rest, f1),
         Move(706, "POSITION_THUMB", t1, Rest, f1), Hold(500, t1, Rest, f1),
         Move(707, "RELEASE_THUMB", Rest, Rest, f1),
         Move(750, "RELEASE_NON_THUMB", Rest, Rest, Eased),
         End(136, "FORM_NON_THUMB_SHAPE", Rest, Rest, Straight)>>

PlanU ==
    LET t1 == <<4710, -4506, 205, 205>>  s1 == <<-164, 164, 0, 0>>
        f1 == <<<<205, 123, 123>>, <<205, 123, 123>>, <<6881, 5652, 4997>>,
                <<6881, 5652, 4997>>>>
        t2 == <<1229, -2253, 3482, 3072>>
    IN <<Move(136, "RELEASE_NON_THUMB", Rest, Rest, Eased),
         Move(539, "RETRACT_THUMB", t1, Rest, Eased),
         Move(96, "SET_FINGER_SPREAD", t1, s1, Eased),
         Move(750, "FORM_NON_THUMB_SHAPE", t1, s1, f1),
         Move(443, "POSITION_THUMB", t2, s1, f1), Hold(500, t2, s1, f1),
         Move(750, "RELEASE_NON_THUMB", t2, s1, Eased),
         Move(96, "RELEASE_FINGER_SPREAD", t2, Rest, Eased),
         Move(443, "RETRACT_THUMB", Rest, Rest, Eased),
         End(136, "FORM_NON_THUMB_SHAPE", Rest, Rest, Straight)>>

PlanV ==
    LET f1 == <<<<205, 123, 123>>, <<205, 123, 123>>, <<6881, 5652, 4997>>,
                <<6881, 5652, 4997>>>>
        s1 == <<-1024, 336, 0, 0>>  t1 == <<1229, -2253, 3482, 3072>>
    IN <<Move(136, "RELEASE_NON_THUMB", Rest, Rest, Eased),
         Move(750, "FORM_NON_THUMB_SHAPE", Rest, Rest, f1),
         Move(240, "SET_FINGER_SPREAD", Rest, s1, f1),
         Move(443, "POSITION_THUMB", t1, s1, f1), Hold(500, t1, s1, f1),
         Move(443, "RELEASE_THUMB", Rest, s1, f1),
         Move(240, "RELEASE_FINGER_SPREAD", Rest, Rest, f1),
         Move(750, "RELEASE_NON_THUMB", Rest, Rest, Eased),
         End(136, "FORM_NON_THUMB_SHAPE", Rest, Rest, Straight)>>

PlanW ==
    LET f1 == <<<<205, 123, 123>>, <<205, 123, 123>>, <<205, 123, 123>>,
                <<6881, 5652, 4997>>>>
        s1 == <<-1147, 0, 1147, 0>>  t1 == <<1229, -2253, 3482, 3072>>
    IN <<Move(136, "RELEASE_NON_THUMB", Rest, Rest, Eased),
         Move(750, "FORM_NON_THUMB_SHAPE", Rest, Rest, f1),
         Move(254, "SET_FINGER_SPREAD", Rest, s1, f1),
         Move(443, "POSITION_THUMB", t1, s1, f1), Hold(500, t1, s1, f1),
         Move(443, "RELEASE_THUMB", Rest, s1, f1),
         Move(254, "RELEASE_FINGER_SPREAD", Rest, Rest, f1),
         Move(750, "RELEASE_NON_THUMB", Rest, Rest, Eased),
         End(136, "FORM_NON_THUMB_SHAPE", Rest, Rest, Straight)>>

PlanX ==
    LET f1 == <<<<1556, 4997, 4424>>, <<6881, 5652, 4997>>, <<6881, 5652, 4997>>,
                <<6881, 5652, 4997>>>>
        t1 == <<1229, -2253, 3482, 3072>>
    IN <<Move(136, "RELEASE_NON_THUMB", Rest, Rest, Eased),
         Move(750, "FORM_NON_THUMB_SHAPE", Rest, Rest, f1),
         Move(443, "POSITION_THUMB", t1, Rest, f1), Hold(500, t1, Rest, f1),
         Move(443, "RELEASE_THUMB", Rest, Rest, f1),
         Move(750, "RELEASE_NON_THUMB", Rest, Rest, Eased),
         End(136, "FORM_NON_THUMB_SHAPE", Rest, Rest, Straight)>>

PlanY ==
    LET s1 == <<0, 0, 0, 492>>
        f1 == <<<<6881, 5652, 4997>>, <<6881, 5652, 4997>>, <<6881, 5652, 4997>>,
                <<205, 123, 123>>>>
        t1 == <<-6431, -6431, 136, 205>>
    IN <<Move(136, "RELEASE_NON_THUMB", Rest, Rest, Eased),
         Move(166, "SET_FINGER_SPREAD", Rest, s1, Eased),
         Move(750, "FORM_NON_THUMB_SHAPE", Rest, s1, f1),
         Move(736, "POSITION_THUMB", t1, s1, f1), Hold(500, t1, s1, f1),
         Move(736, "RELEASE_THUMB", Rest, s1, f1),
         Move(750, "RELEASE_NON_THUMB", Rest, s1, Eased),
         Move(166, "RELEASE_FINGER_SPREAD", Rest, Rest, Eased),
         End(136, "FORM_NON_THUMB_SHAPE", Rest, Rest, Straight)>>

GeneratedKeyframes ==
    PlanA \o PlanB \o PlanC \o PlanD \o PlanE \o PlanF \o PlanG \o PlanH \o
    PlanI \o PlanK \o PlanL \o PlanM \o PlanN \o PlanO \o PlanP \o PlanQ \o
    PlanR \o PlanS \o PlanT \o PlanU \o PlanV \o PlanW \o PlanX \o PlanY

\* asl_action_descriptor_t; every exported plan carries the approval flag.
Row(first_keyframe, total_ticks, keyframe_count) ==
    [first_keyframe |-> first_keyframe, total_ticks |-> total_ticks,
     keyframe_count |-> keyframe_count, collision_approved |-> TRUE]

GeneratedActions ==
    [A |-> Row(0, 3066, 7), B |-> Row(7, 3013, 10), C |-> Row(17, 3345, 10),
     D |-> Row(27, 3493, 10), E |-> Row(37, 3768, 10), F |-> Row(47, 3690, 10),
     G |-> Row(57, 3350, 7), H |-> Row(64, 5252, 11), I |-> Row(75, 4592, 9),
     K |-> Row(84, 5426, 11), L |-> Row(95, 3659, 8), M |-> Row(103, 3685, 7),
     N |-> Row(110, 3685, 7), O |-> Row(117, 3540, 9), P |-> Row(126, 4138, 10),
     Q |-> Row(136, 3486, 9), R |-> Row(145, 4342, 11), S |-> Row(156, 3664, 7),
     T |-> Row(163, 3685, 7), U |-> Row(170, 3889, 10), V |-> Row(180, 3638, 9),
     W |-> Row(189, 3666, 9), X |-> Row(198, 3158, 7), Y |-> Row(205, 4076, 9)]

\* The joints a phase is meant to move.
PhaseJoints ==
    [RELEASE_THUMB            |-> ThumbJoints,
     RETRACT_THUMB            |-> ThumbJoints,
     POSITION_THUMB           |-> ThumbJoints,
     SET_FINGER_SPREAD        |-> SpreadJoints,
     RELEASE_FINGER_SPREAD    |-> SpreadJoints,
     FORM_NON_THUMB_SHAPE     |-> FlexionJoints,
     RELEASE_NON_THUMB        |-> FlexionJoints,
     PREPARE_RELEASE_CROSSING |-> FlexionJoints,
     SETTLE_CROSSING          |-> FlexionJoints,
     TARGET_HOLD              |-> {}]
=============================================================================
