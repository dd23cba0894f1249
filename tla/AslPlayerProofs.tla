--------------------------- MODULE AslPlayerProofs ---------------------------
(***************************************************************************)
(* The player, for any approved table: no joint ever leaves the interval   *)
(* between the postures its segment connects, and an idle hand is open.    *)
(***************************************************************************)
EXTENDS AslActionPlayer, TLAPS

-----------------------------------------------------------------------------
(* The interpolation                                                       *)

LEMMA HalfNat == Half \in Nat /\ -Half \in Int /\ Half - 1 \in Int
BY DEF Half

LEMMA Int16Is ==
    ASSUME NEW v
    PROVE  v \in Int16 <=> v \in Int /\ -Half <= v /\ v <= Half - 1
<1> DEFINE h == Half
<1>1. h \in Nat
  BY HalfNat
<1>2. Int16 = -h .. h - 1
  BY DEF Int16
<1> HIDE DEF h
<1>3. v \in -h .. h - 1 <=> v \in Int /\ -h <= v /\ v <= h - 1
  BY <1>1
<1> QED BY <1>2, <1>3 DEF h

LEMMA Rounded ==
    ASSUME NEW d \in Nat, NEW p \in Nat, p <= d * 65536
    PROVE  (p + 32768) \div 65536 \in 0 .. d
OBVIOUS

\* The rounded part of a distance is no longer than the distance.
LEMMA MovedUp ==
    ASSUME NEW d \in Nat, NEW b \in 0 .. One
    PROVE  (d * b + Half) \div One \in 0 .. d
<1> DEFINE p == d * b
<1>1. p \in Nat /\ p <= d * 65536
  BY DEF One
<1> HIDE DEF p
<1>2. (p + 32768) \div 65536 \in 0 .. d
  BY <1>1, Rounded
<1> QED BY <1>2 DEF One, Half, p

LEMMA MovedTowards ==
    ASSUME NEW d \in Int, NEW b \in 0 .. One
    PROVE  /\ Moved(d, b) \in Int
           /\ d >= 0 => 0 <= Moved(d, b) /\ Moved(d, b) <= d
           /\ d <= 0 => d <= Moved(d, b) /\ Moved(d, b) <= 0
<1>1. CASE d >= 0
  <2>1. d \in Nat
    BY <1>1
  <2> DEFINE m == (d * b + Half) \div One
  <2>2. m \in 0 .. d
    BY <2>1, MovedUp
  <2>3. Moved(d, b) = m
    BY <1>1 DEF Moved
  <2> HIDE DEF m
  <2> QED BY <1>1, <2>2, <2>3
<1>2. CASE ~(d >= 0)
  <2> DEFINE e == -d   m == (e * b + Half) \div One
  <2>1. e \in Nat
    BY <1>2
  <2>2. m \in 0 .. e
    <3> HIDE DEF e
    <3> QED BY <2>1, MovedUp
  <2>3. Moved(d, b) = -m
    BY <1>2 DEF Moved
  <2> HIDE DEF m
  <2> QED BY <1>2, <2>2, <2>3
<1> QED BY <1>1, <1>2

LEMMA ToInt16Keeps ==
    ASSUME NEW value \in Int16
    PROVE  ToInt16(value) = value
<1>1. value \in Int /\ -Half <= value /\ value <= Half - 1
  BY Int16Is
<1>2. 0 <= value + 32768 /\ value + 32768 < 65536
  BY <1>1 DEF Half
<1>3. (value + 32768) % 65536 = value + 32768
  BY <1>1, <1>2
<1> QED BY <1>1, <1>3 DEF ToInt16, Half, One

\* asl_interpolate_q12 stays between its end points, whatever the blend.
LEMMA InterpolateBetween ==
    ASSUME NEW start \in Int16, NEW target \in Int16, NEW blend \in 0 .. One
    PROVE  /\ Interpolate(start, target, blend) \in Int16
           /\ Between(Interpolate(start, target, blend), start, target)
<1> DEFINE m == Moved(target - start, blend)
<1>1. /\ start \in Int /\ -Half <= start /\ start <= Half - 1
      /\ target \in Int /\ -Half <= target /\ target <= Half - 1
  BY Int16Is
<1>2. /\ m \in Int
      /\ target - start >= 0 => 0 <= m /\ m <= target - start
      /\ target - start <= 0 => target - start <= m /\ m <= 0
  BY <1>1, MovedTowards
<1> HIDE DEF m
<1>3. start + m \in Int /\ Between(start + m, start, target)
  BY <1>1, <1>2 DEF Between
<1>4. -Half <= start + m /\ start + m <= Half - 1
  BY <1>1, <1>3, HalfNat DEF Between
<1>5. start + m \in Int16
  BY <1>3, <1>4, Int16Is
<1>6. Interpolate(start, target, blend) = start + m
  BY <1>5, ToInt16Keeps DEF Interpolate, m
<1> QED BY <1>3, <1>5, <1>6

LEMMA MulShift16Int ==
    ASSUME NEW a \in Int, NEW b \in Int
    PROVE  MulShift16(a, b) \in Int
<1> DEFINE h == a \div 256   l == a % 256
<1>1. h \in Int /\ l \in Int
  OBVIOUS
<1> HIDE DEF h, l
<1>2. h * b + (l * b) \div 256 \in Int
  BY <1>1
<1>3. MulShift16(a, b) = (h * b + (l * b) \div 256) \div 256
  BY DEF MulShift16, h, l
<1> QED BY <1>2, <1>3

LEMMA ClampedFraction ==
    ASSUME NEW raw \in Int
    PROVE  Clamped(raw) \in 0 .. One
<1>1. One \in Nat
  BY DEF One
<1> QED BY <1>1 DEF Clamped

\* The blend is a fraction of One once it is clamped.
LEMMA BlendFraction ==
    ASSUME NEW elapsed \in Nat, NEW duration \in Nat \ {0}
    PROVE  Blend(elapsed, duration) \in 0 .. One
<1> DEFINE u  == (elapsed * One) \div duration
           u2 == MulShift16(u, u)
           u3 == MulShift16(u2, u)
           u4 == MulShift16(u3, u)
           u5 == MulShift16(u4, u)
<1>1. u \in Int
  BY DEF One
<1> HIDE DEF u
<1>2. u2 \in Int
  BY <1>1, MulShift16Int
<1> HIDE DEF u2
<1>3. u3 \in Int
  BY <1>1, <1>2, MulShift16Int
<1> HIDE DEF u3
<1>4. u4 \in Int
  BY <1>1, <1>3, MulShift16Int
<1> HIDE DEF u4
<1>5. u5 \in Int
  BY <1>1, <1>4, MulShift16Int
<1> HIDE DEF u5
<1>6. RawBlend(elapsed, duration) = 10 * u3 - 15 * u4 + 6 * u5
  BY Zenon DEF RawBlend, u, u2, u3, u4, u5
<1>7. RawBlend(elapsed, duration) \in Int
  BY <1>3, <1>4, <1>5, <1>6
<1> QED BY <1>7, ClampedFraction DEF Blend

-----------------------------------------------------------------------------
(* The table                                                               *)

\* The keyframes of a startable action are rows of the table.
LEMMA FrameOfTable ==
    ASSUME NEW class \in Letters, Startable(class),
           NEW index \in Nat, index < Descriptors[class].keyframe_count
    PROVE  /\ Keyframes[Descriptors[class].first_keyframe + index + 1].target \in Posture
           /\ Duration(Keyframes[Descriptors[class].first_keyframe + index + 1])
                 \in Nat \ {0}
<1> DEFINE first == Descriptors[class].first_keyframe
           count == Descriptors[class].keyframe_count
           len   == Len(Keyframes)
           k     == first + index + 1
<1>1. first \in Nat /\ count \in Nat /\ first + count <= len
  BY TableAssumption DEF TableOK
<1>2. len \in Nat /\ DOMAIN Keyframes = 1 .. len
  <2>1. Keyframes \in Seq({Keyframes[i] : i \in DOMAIN Keyframes})
    BY TableAssumption DEF TableOK
  <2> QED BY <2>1
<1>3. k \in DOMAIN Keyframes
  <2>1. index < count
    OBVIOUS
  <2> HIDE DEF first, count, len
  <2> QED BY <1>1, <1>2, <2>1
<1> HIDE DEF k
<1>4. Keyframes[k].target \in Posture /\ Keyframes[k].duration \in Nat
  BY <1>3, TableAssumption DEF TableOK
<1> DEFINE duration == Keyframes[k].duration
<1>5. Duration(Keyframes[k]) = NonzeroOrOne(duration)
  BY DEF Duration
<1>6. duration \in Nat
  BY <1>4
<1> HIDE DEF duration
<1>7. Duration(Keyframes[k]) \in Nat \ {0}
  BY <1>5, <1>6 DEF NonzeroOrOne
<1> QED BY <1>4, <1>7 DEF k

LEMMA CountOfTable ==
    ASSUME NEW class \in Letters, Startable(class)
    PROVE  /\ Descriptors[class].keyframe_count \in Nat \ {0}
           /\ Descriptors[class].first_keyframe \in Nat
           /\ Keyframes[Descriptors[class].first_keyframe
                           + Descriptors[class].keyframe_count].target = OpenPosture
<1>1. /\ Descriptors[class].keyframe_count \in Nat \ {0}
      /\ Descriptors[class].first_keyframe \in Nat
      /\ Descriptors[class].collision_approved
  BY TableAssumption DEF TableOK, Startable
<1> QED BY <1>1, TableAssumption DEF PlansEndAtOpen

\* A sample is a posture, inside its segment, and the target at its end.
LEMMA SampleInSegment ==
    ASSUME NEW keyframe, keyframe.target \in Posture,
           Duration(keyframe) \in Nat \ {0}, segment_start_q12 \in Posture,
           NEW elapsed \in Nat
    PROVE  /\ Sample(keyframe, elapsed) \in Posture
           /\ \A j \in Joints : Between(Sample(keyframe, elapsed)[j],
                                        segment_start_q12[j], keyframe.target[j])
           /\ elapsed >= Duration(keyframe)
                 => Sample(keyframe, elapsed) = keyframe.target
<1> DEFINE start == segment_start_q12   target == keyframe.target
<1>0. ASSUME NEW j \in Joints
      PROVE  start[j] \in Int16 /\ target[j] \in Int16
  BY DEF Posture
<1>1. CASE elapsed >= Duration(keyframe)
  <2>1. Sample(keyframe, elapsed) = target
    BY <1>1 DEF Sample
  <2>2. ASSUME NEW j \in Joints
        PROVE  Between(target[j], start[j], target[j])
    <3>1. target[j] \in Int /\ start[j] \in Int
      BY <1>0, Int16Is
    <3> QED BY <3>1 DEF Between
  <2> QED BY <2>1, <2>2
<1>2. CASE ~(elapsed >= Duration(keyframe))
  <2> DEFINE blend == Blend(elapsed, Duration(keyframe))
  <2>1. blend \in 0 .. One
    BY BlendFraction
  <2>2. Sample(keyframe, elapsed) = [j \in Joints |-> Interpolate(start[j], target[j], blend)]
    BY <1>2 DEF Sample
  <2> HIDE DEF blend
  <2>3. ASSUME NEW j \in Joints
        PROVE  /\ Interpolate(start[j], target[j], blend) \in Int16
               /\ Between(Interpolate(start[j], target[j], blend), start[j], target[j])
    BY <1>0, <2>1, InterpolateBetween
  <2> HIDE DEF start, target
  <2>4. Sample(keyframe, elapsed) \in Posture
    BY <2>2, <2>3 DEF Posture
  <2>5. \A j \in Joints : Between(Sample(keyframe, elapsed)[j], start[j], target[j])
    BY <2>2, <2>3
  <2> QED BY <1>2, <2>4, <2>5 DEF start, target
<1> QED BY <1>1, <1>2

-----------------------------------------------------------------------------
(* The player                                                              *)

PlayerInv == PlayerTypeOK /\ StaysInSegment /\ RestsAtOpen

LEMMA OpenIsPosture == OpenPosture \in Posture
<1>1. 0 \in Int16
  BY Int16Is DEF Half
<1> QED BY <1>1 DEF OpenPosture, Posture

LEMMA PlayerInitInv == PlayerInit => PlayerInv
<1> SUFFICES ASSUME PlayerInit PROVE PlayerInv
  OBVIOUS
<1>1. /\ action = INVALID /\ active = FALSE /\ completed_class_id = INVALID
      /\ current_q12 = OpenPosture /\ segment_start_q12 = OpenPosture
      /\ ticks = 0
  BY DEF PlayerInit
<1>2. PlayerTypeOK
  BY <1>1, OpenIsPosture DEF PlayerTypeOK
<1> QED BY <1>1, <1>2 DEF PlayerInv, StaysInSegment, RestsAtOpen

\* An active player is inside its action and its keyframe is in the table.
LEMMA ActiveFrame ==
    ASSUME PlayerTypeOK, active
    PROVE  /\ action \in Letters /\ Startable(action)
           /\ keyframe_index \in Nat
           /\ keyframe_index < Descriptors[action].keyframe_count
           /\ segment_elapsed_ticks \in Nat
           /\ segment_elapsed_ticks < Duration(Keyframe)
           /\ segment_start_q12 \in Posture
           /\ Keyframe.target \in Posture
           /\ Duration(Keyframe) \in Nat \ {0}
<1>1. /\ action \in Letters /\ Startable(action)
      /\ keyframe_index \in 0 .. Descriptors[action].keyframe_count - 1
      /\ segment_elapsed_ticks \in 0 .. Duration(Keyframe) - 1
      /\ segment_start_q12 \in Posture
  BY DEF PlayerTypeOK
<1>2. Descriptors[action].keyframe_count \in Nat
  BY <1>1, CountOfTable
<1>3. keyframe_index \in Nat /\ keyframe_index < Descriptors[action].keyframe_count
  BY <1>1, <1>2
<1>4. Keyframe.target \in Posture /\ Duration(Keyframe) \in Nat \ {0}
  BY <1>1, <1>3, FrameOfTable DEF Keyframe
<1>5. segment_elapsed_ticks \in Nat /\ segment_elapsed_ticks < Duration(Keyframe)
  BY <1>1, <1>4
<1> QED BY <1>1, <1>3, <1>4, <1>5

\* What a sample does to the posture.
LEMMA EmitInSegment ==
    ASSUME PlayerTypeOK, active, Emit(Keyframe)
    PROVE  /\ current_q12' \in Posture
           /\ \A j \in Joints : Between(current_q12'[j], segment_start_q12[j],
                                        Keyframe.target[j])
           /\ ~SegmentGoesOn(Keyframe) => current_q12' = Keyframe.target
           /\ ticks' \in Nat
<1>1. ticks \in Nat
  BY DEF PlayerTypeOK
<1>2. segment_elapsed_ticks + 1 \in Nat
  BY ActiveFrame
<1>3. /\ Sample(Keyframe, segment_elapsed_ticks + 1) \in Posture
      /\ \A j \in Joints : Between(Sample(Keyframe, segment_elapsed_ticks + 1)[j],
                                   segment_start_q12[j], Keyframe.target[j])
      /\ segment_elapsed_ticks + 1 >= Duration(Keyframe)
            => Sample(Keyframe, segment_elapsed_ticks + 1) = Keyframe.target
  BY <1>2, ActiveFrame, SampleInSegment
<1>4. current_q12' = Sample(Keyframe, segment_elapsed_ticks + 1) /\ ticks' = ticks + 1
  BY DEF Emit
<1>5. ~SegmentGoesOn(Keyframe) => segment_elapsed_ticks + 1 >= Duration(Keyframe)
  BY <1>2, ActiveFrame DEF SegmentGoesOn
<1> QED BY <1>1, <1>3, <1>4, <1>5

\* Equal postures are between anything that starts there.
LEMMA BetweenAtStart ==
    ASSUME NEW here \in Posture, NEW target \in Posture
    PROVE  \A j \in Joints : Between(here[j], here[j], target[j])
<1> SUFFICES ASSUME NEW j \in Joints
             PROVE  Between(here[j], here[j], target[j])
  OBVIOUS
<1>1. here[j] \in Int16 /\ target[j] \in Int16
  BY DEF Posture
<1>2. here[j] \in Int /\ target[j] \in Int
  BY <1>1, Int16Is
<1> QED BY <1>2 DEF Between

LEMMA StartKeeps ==
    ASSUME PlayerInv, NEW class \in Letters, Start(class)
    PROVE  PlayerInv'
<1> DEFINE frame == Keyframes[Descriptors[class].first_keyframe + 0 + 1]
<1>1. /\ Startable(class) /\ action' = class /\ active' = TRUE
      /\ keyframe_index' = 0 /\ segment_elapsed_ticks' = 0
      /\ current_q12' = OpenPosture /\ segment_start_q12' = OpenPosture
      /\ completed_class_id' = INVALID /\ ticks' = 0
  BY DEF Start, StartAccepted
<1>2. Descriptors[class].keyframe_count \in Nat \ {0}
  BY <1>1, CountOfTable
<1>3. frame.target \in Posture /\ Duration(frame) \in Nat \ {0}
  <2>1. 0 \in Nat /\ 0 < Descriptors[class].keyframe_count
    BY <1>2
  <2> QED BY <1>1, <2>1, FrameOfTable
<1>4. Keyframe' = frame
  BY <1>1 DEF Keyframe
<1>5. Startable(action)'
  BY <1>1 DEF Startable, asl_class_has_static_action
<1>6. keyframe_index' \in 0 .. Descriptors[action'].keyframe_count - 1
  BY <1>1, <1>2
<1>7. segment_elapsed_ticks' \in 0 .. Duration(Keyframe)' - 1
  <2>1. Duration(Keyframe)' = Duration(frame)
    BY <1>4 DEF Duration
  <2> HIDE DEF frame
  <2> QED BY <1>1, <1>3, <2>1
<1>8. PlayerTypeOK'
  BY <1>1, <1>5, <1>6, <1>7, OpenIsPosture, ClassAssumption DEF PlayerTypeOK
<1>9. StaysInSegment'
  BY <1>1, <1>3, <1>4, OpenIsPosture, BetweenAtStart DEF StaysInSegment
<1>10. RestsAtOpen'
  BY <1>1 DEF RestsAtOpen
<1> QED BY <1>8, <1>9, <1>10 DEF PlayerInv

LEMMA TickInSegmentKeeps ==
    ASSUME PlayerInv, active, TickInSegment(Keyframe)
    PROVE  PlayerInv'
<1>1. /\ UNCHANGED <<action, segment_start_q12, keyframe_index,
                     completed_class_id, active>>
      /\ segment_elapsed_ticks' = segment_elapsed_ticks + 1
      /\ SegmentGoesOn(Keyframe) /\ Emit(Keyframe)
  BY DEF TickInSegment
<1>2. /\ current_q12' \in Posture /\ ticks' \in Nat
      /\ \A j \in Joints : Between(current_q12'[j], segment_start_q12[j],
                                   Keyframe.target[j])
  BY <1>1, EmitInSegment DEF PlayerInv
<1>3. Keyframe' = Keyframe
  BY <1>1 DEF Keyframe
<1>4. segment_elapsed_ticks' \in 0 .. Duration(Keyframe) - 1
  <2>1. segment_elapsed_ticks \in Nat /\ Duration(Keyframe) \in Nat
    BY ActiveFrame DEF PlayerInv
  <2> QED BY <1>1, <2>1 DEF SegmentGoesOn
<1>5. Duration(Keyframe)' = Duration(Keyframe)
  BY <1>3 DEF Duration
<1>6. PlayerTypeOK'
  BY <1>1, <1>2, <1>4, <1>5 DEF PlayerInv, PlayerTypeOK, Startable
<1>7. StaysInSegment'
  BY <1>1, <1>2, <1>3 DEF StaysInSegment
<1>8. RestsAtOpen'
  BY <1>1 DEF RestsAtOpen
<1> QED BY <1>6, <1>7, <1>8 DEF PlayerInv

LEMMA TickEndsSegmentKeeps ==
    ASSUME PlayerInv, active, TickEndsSegment(Keyframe)
    PROVE  PlayerInv'
<1> DEFINE frame == Keyframes[Descriptors[action].first_keyframe
                                 + (keyframe_index + 1) + 1]
<1>1. /\ UNCHANGED <<action, completed_class_id, active>>
      /\ segment_elapsed_ticks' = 0
      /\ keyframe_index' = keyframe_index + 1
      /\ segment_start_q12' = current_q12'
      /\ ~LastKeyframe /\ Emit(Keyframe)
  BY DEF TickEndsSegment
<1>2. current_q12' \in Posture /\ ticks' \in Nat
  BY <1>1, EmitInSegment DEF PlayerInv
<1>3. action \in Letters /\ Startable(action) /\ keyframe_index \in Nat
  BY ActiveFrame DEF PlayerInv
<1>4. Descriptors[action].keyframe_count \in Nat
  BY <1>3, CountOfTable
<1>5. /\ keyframe_index + 1 \in Nat
      /\ keyframe_index + 1 < Descriptors[action].keyframe_count
  BY <1>1, <1>3, <1>4 DEF LastKeyframe
<1>6. frame.target \in Posture /\ Duration(frame) \in Nat \ {0}
  BY <1>3, <1>5, FrameOfTable
<1>7. Keyframe' = frame
  BY <1>1 DEF Keyframe
<1>8. segment_elapsed_ticks' \in 0 .. Duration(Keyframe)' - 1
  <2>1. Duration(Keyframe)' = Duration(frame)
    BY <1>7 DEF Duration
  <2> HIDE DEF frame
  <2> QED BY <1>1, <1>6, <2>1
<1>9. keyframe_index' \in 0 .. Descriptors[action].keyframe_count - 1
  BY <1>1, <1>4, <1>5
<1>10. PlayerTypeOK'
  BY <1>1, <1>2, <1>8, <1>9 DEF PlayerInv, PlayerTypeOK, Startable
<1>11. StaysInSegment'
  BY <1>1, <1>2, <1>6, <1>7, BetweenAtStart DEF StaysInSegment
<1>12. RestsAtOpen'
  BY <1>1 DEF RestsAtOpen
<1> QED BY <1>10, <1>11, <1>12 DEF PlayerInv

\* The last keyframe of an action leaves the hand open.
LEMMA TickEndsActionKeeps ==
    ASSUME PlayerInv, active, TickEndsAction(Keyframe)
    PROVE  PlayerInv'
<1>1. /\ UNCHANGED segment_start_q12
      /\ completed_class_id' = action /\ active' = FALSE /\ action' = INVALID
      /\ ~SegmentGoesOn(Keyframe) /\ LastKeyframe /\ Emit(Keyframe)
  BY DEF TickEndsAction
<1>2. current_q12' = Keyframe.target /\ current_q12' \in Posture /\ ticks' \in Nat
  BY <1>1, EmitInSegment DEF PlayerInv
<1>3. /\ action \in Letters /\ Startable(action) /\ keyframe_index \in Nat
      /\ keyframe_index < Descriptors[action].keyframe_count
  BY ActiveFrame DEF PlayerInv
<1>4. /\ Descriptors[action].keyframe_count \in Nat
      /\ Descriptors[action].first_keyframe \in Nat
      /\ Keyframes[Descriptors[action].first_keyframe
                      + Descriptors[action].keyframe_count].target = OpenPosture
  BY <1>3, CountOfTable
<1>5. Descriptors[action].first_keyframe + keyframe_index + 1
         = Descriptors[action].first_keyframe + Descriptors[action].keyframe_count
  BY <1>1, <1>3, <1>4 DEF LastKeyframe
<1>6. current_q12' = OpenPosture
  BY <1>2, <1>4, <1>5 DEF Keyframe
<1>7. PlayerTypeOK'
  BY <1>1, <1>2, <1>3, ClassAssumption DEF PlayerInv, PlayerTypeOK
<1> QED BY <1>1, <1>6, <1>7 DEF PlayerInv, StaysInSegment, RestsAtOpen

LEMMA UnchangedKeeps ==
    ASSUME PlayerInv,
           UNCHANGED <<action, current_q12, segment_start_q12,
                       segment_elapsed_ticks, keyframe_index, active, ticks>>,
           completed_class_id' \in Letters \cup {INVALID}
    PROVE  PlayerInv'
<1>1. Keyframe' = Keyframe
  BY DEF Keyframe
<1>2. Duration(Keyframe)' = Duration(Keyframe)
  BY <1>1 DEF Duration
<1> QED BY <1>1, <1>2
        DEF PlayerInv, PlayerTypeOK, StaysInSegment, RestsAtOpen, Startable

LEMMA PlayerStepKeeps ==
    PlayerInv /\ [PlayerNext]_playerVars => PlayerInv'
<1> SUFFICES ASSUME PlayerInv, [PlayerNext]_playerVars
             PROVE  PlayerInv'
  OBVIOUS
<1>1. CASE \E class \in Letters : Start(class)
  BY <1>1, StartKeeps
<1>2. CASE Tick
  BY <1>2, TickInSegmentKeeps, TickEndsSegmentKeeps, TickEndsActionKeeps DEF Tick
<1>3. CASE TakeCompleted
  BY <1>3, UnchangedKeeps DEF TakeCompleted
<1>4. CASE UNCHANGED playerVars
  <2>1. completed_class_id' \in Letters \cup {INVALID}
    BY <1>4 DEF playerVars, PlayerInv, PlayerTypeOK
  <2> QED BY <1>4, <2>1, UnchangedKeeps DEF playerVars
<1> QED BY <1>1, <1>2, <1>3, <1>4 DEF PlayerNext

\* PlayerTypeOK: the player never reads a keyframe outside its action, nor
\* outside the table, whatever letters are started and when.
THEOREM PlayerStaysInTable == PlayerSpec => []PlayerTypeOK
<1>1. PlayerInv => PlayerTypeOK
  BY DEF PlayerInv
<1> QED BY PlayerInitInv, PlayerStepKeeps, <1>1, PTL DEF PlayerSpec

\* StaysInSegment, for every table, every duration and every blend value the
\* truncating arithmetic can give: interpolation never leaves its segment.
THEOREM JointsStayInSegment == PlayerSpec => []StaysInSegment
<1>1. PlayerInv => StaysInSegment
  BY DEF PlayerInv
<1> QED BY PlayerInitInv, PlayerStepKeeps, <1>1, PTL DEF PlayerSpec

\* RestsAtOpen, for every approved table: an idle player can always start the
\* next letter, its precondition of an open hand is never in the way.
THEOREM IdleHandIsOpen == PlayerSpec => []RestsAtOpen
<1>1. PlayerInv => RestsAtOpen
  BY DEF PlayerInv
<1> QED BY PlayerInitInv, PlayerStepKeeps, <1>1, PTL DEF PlayerSpec
=============================================================================
