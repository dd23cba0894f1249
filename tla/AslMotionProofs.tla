--------------------------- MODULE AslMotionProofs ---------------------------
(***************************************************************************)
(* Proofs about the motion library: the queue for any capacity, the filter *)
(* for any configuration, then the library put together, which runs every  *)
(* part by that part's own specification, and the conversion of a sample   *)
(* for any calibration.                                                    *)
(***************************************************************************)
EXTENDS AslMotionLibrary, AslPlayerProofs, AslCalibration, SequenceTheorems

-----------------------------------------------------------------------------
(***************************************************************************)
(* The queue is a bounded first-in first-out queue and never hands out a   *)
(* slot that was not written.                                              *)
(***************************************************************************)

\* One turn of the ring: the remainder of a sum of two indices.
LEMMA Turn ==
    ASSUME NEW x \in Int, 0 <= x, x < 2 * Capacity
    PROVE  /\ x % Capacity \in Slots
           /\ x < Capacity => x % Capacity = x
           /\ x >= Capacity => x % Capacity = x - Capacity
<1> DEFINE c == Capacity
<1>1. c \in Nat \ {0}
  BY CapacityAssumption
<1> HIDE DEF c
<1>2. x % c \in 0 .. c - 1
  BY <1>1
<1>3. x < c => x % c = x
  BY <1>1
<1>4. x >= c /\ x < 2 * c => x % c = x - c
  BY <1>1
<1> QED BY <1>2, <1>3, <1>4 DEF c, Slots

QueueInv == QueueTypeOK /\ RingInv

\* The slot of the i-th letter waiting.
SlotOf(i) == (read_index + i - 1) % Capacity

LEMMA TypesOfQueue ==
    ASSUME QueueTypeOK
    PROVE  /\ Capacity \in Nat \ {0}
           /\ read_index \in Nat /\ read_index < Capacity
           /\ write_index \in Nat /\ write_index < Capacity
           /\ count \in Nat /\ count <= Capacity
           /\ entries \in [Slots -> Letters \cup {INVALID}]
BY CapacityAssumption DEF QueueTypeOK, Slots

LEMMA WaitingIsSequence ==
    ASSUME QueueInv
    PROVE  Waiting \in Seq(Letters) /\ Len(Waiting) = count
<1>1. count \in Nat
  BY TypesOfQueue DEF QueueInv
<1>2. Waiting \in [1 .. count -> Letters]
  BY DEF QueueInv, RingInv, Waiting
<1> QED BY <1>1, <1>2, SeqDef

\* Distinct letters wait in distinct slots, and none in the write slot.
LEMMA SlotsInTurn ==
    ASSUME QueueInv
    PROVE  /\ \A i \in 1 .. count : SlotOf(i) \in Slots
           /\ count < Capacity
                 => \A i \in 1 .. count : SlotOf(i) # write_index
           /\ count < Capacity => SlotOf(count + 1) = write_index
<1>1. /\ Capacity \in Nat \ {0} /\ read_index \in Nat /\ read_index < Capacity
      /\ count \in Nat /\ count <= Capacity
  BY TypesOfQueue DEF QueueInv
<1>2. write_index = (read_index + count) % Capacity
  BY DEF QueueInv, RingInv
<1>3. ASSUME NEW i \in 1 .. count
      PROVE  /\ SlotOf(i) \in Slots
             /\ count < Capacity => SlotOf(i) # write_index
  <2> DEFINE x == read_index + i - 1   y == read_index + count
  <2>1. /\ x \in Int /\ 0 <= x /\ x < 2 * Capacity
        /\ y \in Int /\ 0 <= y /\ x < y /\ y <= x + count
        /\ count < Capacity => y < 2 * Capacity
    BY <1>1
  <2> HIDE DEF x, y
  <2>2. /\ x % Capacity \in Slots
        /\ x < Capacity => x % Capacity = x
        /\ x >= Capacity => x % Capacity = x - Capacity
    BY <2>1, Turn
  <2>3. ASSUME count < Capacity
        PROVE  x % Capacity # y % Capacity
    <3>1. /\ y < Capacity => y % Capacity = y
          /\ y >= Capacity => y % Capacity = y - Capacity
      BY <2>1, <2>3, Turn
    <3> QED BY <1>1, <2>1, <2>2, <2>3, <3>1
  <2> QED BY <1>2, <2>2, <2>3 DEF SlotOf, x, y
<1>4. SlotOf(count + 1) = (read_index + count) % Capacity
  <2>1. read_index + (count + 1) - 1 = read_index + count
    BY <1>1
  <2> QED BY <2>1 DEF SlotOf
<1> QED BY <1>2, <1>3, <1>4

\* A push is refused or accepts its letter at the end.
LEMMA PushAccepts ==
    ASSUME QueueInv, NEW class \in Classes, Push(class)
    PROVE  QueueInv' /\ Fifo!Accept(class) /\ class \in Letters
<1>1. /\ Capacity \in Nat \ {0} /\ read_index \in Nat /\ read_index < Capacity
      /\ write_index \in Nat /\ write_index < Capacity
      /\ count \in Nat /\ entries \in [Slots -> Letters \cup {INVALID}]
  BY TypesOfQueue DEF QueueInv
<1>2. /\ count < Capacity /\ class \in Letters
      /\ entries' = [entries EXCEPT ![write_index] = class]
      /\ write_index' = (write_index + 1) % Capacity
      /\ count' = count + 1 /\ read_index' = read_index
  BY DEF Push, HasRoom, NextIndex, asl_class_has_static_action
<1>3. write_index \in Slots /\ read_index \in Slots
  BY <1>1 DEF Slots
<1>4. QueueTypeOK'
  <2>1. write_index' \in Slots
    BY <1>1, <1>2, Turn
  <2>2. entries' \in [Slots -> Letters \cup {INVALID}]
    BY <1>1, <1>2, <1>3
  <2>3. count' \in 0 .. Capacity
    BY <1>1, <1>2
  <2> QED BY <1>2, <1>3, <2>1, <2>2, <2>3 DEF QueueTypeOK
<1>5. \A i \in 1 .. count : entries'[SlotOf(i)] = entries[SlotOf(i)]
  BY <1>1, <1>2, <1>3, SlotsInTurn
<1>6. entries'[SlotOf(count + 1)] = class
  BY <1>1, <1>2, <1>3, SlotsInTurn
<1>7. Waiting' = [i \in 1 .. count + 1 |-> entries'[SlotOf(i)]]
  BY <1>2 DEF Waiting, SlotOf
<1>8. Waiting = [i \in 1 .. count |-> entries[SlotOf(i)]]
  BY DEF Waiting, SlotOf
<1>9. /\ \A i \in 1 .. count : Waiting'[i] = Waiting[i]
      /\ Waiting'[count + 1] = class
  BY <1>1, <1>5, <1>6, <1>7, <1>8
<1>10. \A i \in 1 .. count' : Waiting'[i] \in Letters
  <2> SUFFICES ASSUME NEW i \in 1 .. count' PROVE Waiting'[i] \in Letters
    OBVIOUS
  <2>1. i \in 1 .. count \/ i = count + 1
    BY <1>1, <1>2
  <2> QED BY <1>2, <1>9, <2>1 DEF QueueInv, RingInv
<1>11. write_index' = (read_index' + count') % Capacity
  <2> DEFINE x == read_index + count
  <2>1. x \in Int /\ 0 <= x /\ x < 2 * Capacity
    BY <1>1, <1>2
  <2>2. write_index = x % Capacity
    BY DEF QueueInv, RingInv
  <2>3. read_index' + count' = x + 1
    BY <1>1, <1>2
  <2> HIDE DEF x
  <2>4. /\ x < Capacity => x % Capacity = x
        /\ x >= Capacity => x % Capacity = x - Capacity
    BY <2>1, Turn
  <2>5. ((x % Capacity) + 1) % Capacity = (x + 1) % Capacity
    <3>1. CASE x < Capacity
      BY <2>4, <3>1
    <3>2. CASE x >= Capacity
      <4>1. x - Capacity + 1 \in Int /\ 0 <= x - Capacity + 1
        BY <1>1, <2>1, <3>2
      <4>2. (x - Capacity + 1) % Capacity = (x + 1) % Capacity
        BY <1>1, <2>1, <4>1
      <4> QED BY <2>4, <3>2, <4>2
    <3> QED BY <1>1, <2>1, <3>1, <3>2
  <2> QED BY <1>2, <2>2, <2>3, <2>5
<1>12. QueueInv'
  BY <1>4, <1>10, <1>11 DEF QueueInv, RingInv
<1>13. Waiting' = Append(Waiting, class)
  <2>1. Waiting \in Seq(Letters) /\ Len(Waiting) = count
    BY WaitingIsSequence
  <2>2. Waiting' \in Seq(Letters) /\ Len(Waiting') = count + 1
    <3>1. Waiting' \in [1 .. count + 1 -> Letters]
      BY <1>2, <1>7, <1>10
    <3> QED BY <1>1, <3>1, SeqDef
  <2>3. /\ Append(Waiting, class) \in Seq(Letters)
        /\ Len(Append(Waiting, class)) = count + 1
        /\ \A i \in 1 .. count : Append(Waiting, class)[i] = Waiting[i]
        /\ Append(Waiting, class)[count + 1] = class
    BY <1>2, <2>1, AppendProperties
  <2>4. \A i \in 1 .. count + 1 : Waiting'[i] = Append(Waiting, class)[i]
    <3> SUFFICES ASSUME NEW i \in 1 .. count + 1
                 PROVE  Waiting'[i] = Append(Waiting, class)[i]
      OBVIOUS
    <3>1. i \in 1 .. count \/ i = count + 1
      BY <1>1
    <3> QED BY <1>9, <2>3, <3>1
  <2> QED BY <2>2, <2>3, <2>4, SeqEqual
<1>14. Len(Waiting) < Capacity
  BY <1>2, WaitingIsSequence
<1> QED BY <1>2, <1>12, <1>13, <1>14 DEF Fifo!Accept

\* A pop delivers the oldest letter.
LEMMA PopDelivers ==
    ASSUME QueueInv, NEW class \in Classes, Pop(class)
    PROVE  QueueInv' /\ Fifo!Deliver(class) /\ class \in Letters
<1>1. /\ Capacity \in Nat \ {0} /\ read_index \in Nat /\ read_index < Capacity
      /\ count \in Nat /\ count <= Capacity
  BY TypesOfQueue DEF QueueInv
<1>2. /\ count > 0 /\ class = entries[read_index]
      /\ read_index' = (read_index + 1) % Capacity
      /\ count' = count - 1
      /\ UNCHANGED <<entries, write_index>>
  BY DEF Pop, NextIndex
<1>3. QueueTypeOK'
  <2>1. read_index' \in Slots
    BY <1>1, <1>2, Turn
  <2>2. count' \in 0 .. Capacity
    BY <1>1, <1>2
  <2> QED BY <1>2, <2>1, <2>2 DEF QueueInv, QueueTypeOK
<1>4. ASSUME NEW i \in 1 .. count - 1
      PROVE  (((read_index + 1) % Capacity) + i - 1) % Capacity = SlotOf(i + 1)
  <2> DEFINE r == read_index + 1
  <2>1. r \in Nat /\ r <= Capacity /\ i \in Nat /\ i >= 1
    BY <1>1
  <2>2. SlotOf(i + 1) = (r + i - 1) % Capacity
    <3>1. read_index + (i + 1) - 1 = r + i - 1
      BY <1>1, <2>1
    <3> QED BY <3>1 DEF SlotOf
  <2> HIDE DEF r
  <2>3. CASE r < Capacity
    <3>1. r % Capacity = r
      BY <1>1, <2>1, <2>3
    <3> QED BY <2>2, <3>1 DEF r
  <2>4. CASE r = Capacity
    <3>1. r % Capacity = 0
      BY <1>1, <2>1, <2>4
    <3>2. (0 + i - 1) % Capacity = (r + i - 1) % Capacity
      BY <1>1, <2>1, <2>4
    <3> QED BY <2>2, <3>1, <3>2 DEF r
  <2> QED BY <1>1, <2>1, <2>3, <2>4
<1>5. Waiting = [i \in 1 .. count |-> entries[SlotOf(i)]]
  BY DEF Waiting, SlotOf
<1>6. Waiting' = [i \in 1 .. count - 1 |->
                     entries[(((read_index + 1) % Capacity) + i - 1) % Capacity]]
  BY <1>2 DEF Waiting
<1>7. \A i \in 1 .. count - 1 : Waiting'[i] = Waiting[i + 1]
  <2> SUFFICES ASSUME NEW i \in 1 .. count - 1 PROVE Waiting'[i] = Waiting[i + 1]
    OBVIOUS
  <2>1. i + 1 \in 1 .. count
    BY <1>1
  <2> QED BY <1>4, <1>5, <1>6, <2>1
<1>8. Waiting[1] = class
  <2>1. read_index + 1 - 1 = read_index /\ 1 \in 1 .. count
    BY <1>1, <1>2
  <2>2. read_index % Capacity = read_index
    BY <1>1
  <2> QED BY <1>2, <1>5, <2>1, <2>2 DEF SlotOf
<1>9. \A i \in 1 .. count : Waiting[i] \in Letters
  BY DEF QueueInv, RingInv
<1>10. \A i \in 1 .. count - 1 : Waiting'[i] \in Letters
  <2> SUFFICES ASSUME NEW i \in 1 .. count - 1 PROVE Waiting'[i] \in Letters
    OBVIOUS
  <2>1. i + 1 \in 1 .. count
    BY <1>1
  <2> QED BY <1>7, <1>9, <2>1
<1>11. write_index' = (read_index' + count') % Capacity
  <2> DEFINE r == read_index + 1
  <2>1. r \in Nat /\ r <= Capacity /\ count - 1 \in Nat
    BY <1>1, <1>2
  <2>2. write_index' = (r + (count - 1)) % Capacity
    <3>1. r + (count - 1) = read_index + count
      BY <1>1
    <3> QED BY <1>2, <3>1 DEF QueueInv, RingInv
  <2>3. read_index' = r % Capacity /\ count' = count - 1
    BY <1>2
  <2> HIDE DEF r
  <2>4. CASE r < Capacity
    <3>1. r % Capacity = r
      BY <1>1, <2>1, <2>4
    <3> QED BY <2>2, <2>3, <3>1
  <2>5. CASE r = Capacity
    <3>1. r % Capacity = 0
      BY <1>1, <2>1, <2>5
    <3>2. (0 + (count - 1)) % Capacity = (r + (count - 1)) % Capacity
      BY <1>1, <2>1, <2>5
    <3> QED BY <2>2, <2>3, <3>1, <3>2
  <2> QED BY <1>1, <2>1, <2>4, <2>5
<1>12. QueueInv'
  BY <1>2, <1>3, <1>10, <1>11 DEF QueueInv, RingInv
<1>13. Waiting \in Seq(Letters) /\ Len(Waiting) = count
  BY WaitingIsSequence
<1>14. Waiting # <<>> /\ Head(Waiting) = class
  BY <1>2, <1>8, <1>13
<1>15. Waiting' = Tail(Waiting)
  <2>1. /\ Tail(Waiting) \in Seq(Letters) /\ Len(Tail(Waiting)) = count - 1
        /\ \A i \in 1 .. count - 1 : Tail(Waiting)[i] = Waiting[i + 1]
    BY <1>13, <1>14, HeadTailProperties
  <2>2. Waiting' \in Seq(Letters) /\ Len(Waiting') = count - 1
    <3> DEFINE n == count - 1
    <3>0. n \in Nat /\ Waiting' = [i \in 1 .. n |-> Waiting'[i]]
      BY <1>1, <1>2, <1>6
    <3>1. Waiting' \in [1 .. n -> Letters] /\ n \in Nat
      BY <1>10, <3>0
    <3> HIDE DEF n
    <3>2. Waiting' \in Seq(Letters) /\ Len(Waiting') = n
      BY <3>1, SeqDef
    <3> QED BY <3>2 DEF n
  <2> QED BY <1>7, <2>1, <2>2, SeqEqual
<1>16. class \in Letters
  <2>1. 1 \in 1 .. count
    BY <1>1, <1>2
  <2> QED BY <1>8, <1>9, <2>1
<1> QED BY <1>12, <1>14, <1>15, <1>16 DEF Fifo!Deliver

LEMMA QueueInitInv == QueueInit => QueueInv /\ Fifo!Init
<1> SUFFICES ASSUME QueueInit PROVE QueueInv /\ Fifo!Init
  OBVIOUS
<1>1. /\ read_index = 0 /\ write_index = 0 /\ count = 0
      /\ entries \in [Slots -> Letters \cup {INVALID}]
  BY DEF QueueInit
<1>2. Capacity \in Nat \ {0}
  BY CapacityAssumption
<1>3. QueueTypeOK
  BY <1>1, <1>2 DEF QueueTypeOK, Slots
<1>4. RingInv
  <2>1. 0 % Capacity = 0
    BY <1>2
  <2> QED BY <1>1, <2>1 DEF RingInv
<1>5. QueueInv
  BY <1>3, <1>4 DEF QueueInv
<1>6. Waiting \in Seq(Letters) /\ Len(Waiting) = 0
  BY <1>1, <1>5, WaitingIsSequence
<1>7. Waiting = <<>>
  BY <1>6, EmptySeq
<1> QED BY <1>5, <1>7 DEF Fifo!Init

LEMMA QueueStep ==
    ASSUME QueueInv, [QueueNext]_queueVars
    PROVE  QueueInv' /\ [Fifo!Next]_Waiting
<1>1. CASE QueueNext
  <2>1. PICK class \in Classes : Push(class) \/ Pop(class)
    BY <1>1 DEF QueueNext
  <2> QED BY <2>1, PushAccepts, PopDelivers DEF Fifo!Next
<1>2. CASE UNCHANGED queueVars
  <2>1. Waiting' = Waiting
    BY <1>2 DEF queueVars, Waiting
  <2> QED BY <1>2, <2>1 DEF queueVars, QueueInv, QueueTypeOK, RingInv
<1> QED BY <1>1, <1>2

\* RingInv, for every capacity: what the queue hands out was pushed before,
\* never the memory asl_action_queue_init leaves in the entries.
THEOREM RingHoldsLetters == QueueSpec => [](QueueTypeOK /\ RingInv)
BY QueueInitInv, QueueStep, PTL DEF QueueSpec, QueueInv

\* ImplementsFifo, for every capacity: across any number of turns of the ring
\* no letter is lost, repeated or reordered.
THEOREM RingImplementsFifo == QueueSpec => ImplementsFifo
BY QueueInitInv, QueueStep, PTL DEF QueueSpec, ImplementsFifo, Fifo!Spec

-----------------------------------------------------------------------------
(***************************************************************************)
(* What the class filter promises of the letters it accepts.               *)
(***************************************************************************)

LEMMA Sizes ==
    /\ CounterMax \in Nat /\ repeat_guard_ms \in Nat
    /\ StableSamples \in Nat \ {0} /\ StableSamples <= CounterMax
    /\ ReleaseSamples \in Nat \ {0} /\ ReleaseSamples <= CounterMax
BY FilterAssumption DEF StableSamples, ReleaseSamples, NonzeroOrOne

HistoryTypeOK ==
    /\ accepted_class \in Letters \cup {OPEN}
    /\ streak \in [class : Letters \cup {OPEN}, length : Nat]
    /\ streak.length <= StableSamples
    /\ releases \in Nat /\ release_gap \in Nat
    /\ since_accepted \in Nat /\ since_accepted <= repeat_guard_ms

\* The guard still to go and the time gone by cover the guard time.
GuardCovered == guard_ms_left + since_accepted >= repeat_guard_ms

\* The filter counts the releases in a row, and takes the latch off only after
\* a full row of them.
LatchReleased ==
    /\ releases = release_count
    /\ latched_class = OPEN \/ latched_class = accepted_class
    /\ latched_class = OPEN /\ accepted_class # OPEN => release_gap >= ReleaseSamples

\* The candidate is the letter observed last, in a row as long as its count.
CandidateSteady ==
    /\ candidate_class = INVALID => stable_count = 0
    /\ candidate_class # INVALID => streak.class = candidate_class
    /\ stable_count <= streak.length \/ streak.length = StableSamples

FilterInv ==
    FilterTypeOK /\ HistoryTypeOK /\ GuardCovered /\ LatchReleased /\ CandidateSteady

LEMMA FilterInitInv == FilterInit => FilterInv
<1> SUFFICES ASSUME FilterInit PROVE FilterInv
  OBVIOUS
<1>1. FilterTypeOK /\ HistoryTypeOK
  BY Sizes DEF FilterInit, FilterTypeOK, HistoryTypeOK
<1>2. GuardCovered
  BY Sizes DEF FilterInit, GuardCovered
<1>3. LatchReleased /\ CandidateSteady
  BY Sizes DEF FilterInit, LatchReleased, CandidateSteady
<1> QED BY <1>1, <1>2, <1>3 DEF FilterInv

LEMMA AdvanceTimeKeeps ==
    ASSUME FilterInv, NEW elapsed_ms \in Nat, AdvanceTime(elapsed_ms)
    PROVE  FilterInv'
<1>1. /\ UNCHANGED <<stable_count, release_count, candidate_class, latched_class,
                     accepted_class, streak, releases, release_gap>>
      /\ guard_ms_left' = GuardAfter(elapsed_ms)
      /\ since_accepted' = UpTo(repeat_guard_ms, since_accepted + elapsed_ms)
  BY DEF AdvanceTime
<1>2. /\ guard_ms_left \in Nat /\ guard_ms_left <= repeat_guard_ms
      /\ since_accepted \in Nat /\ since_accepted <= repeat_guard_ms
      /\ guard_ms_left + since_accepted >= repeat_guard_ms
  BY Sizes DEF FilterInv, FilterTypeOK, HistoryTypeOK, GuardCovered
<1>3. /\ guard_ms_left' \in Nat /\ guard_ms_left' <= repeat_guard_ms
      /\ since_accepted' \in Nat /\ since_accepted' <= repeat_guard_ms
      /\ guard_ms_left' + since_accepted' >= repeat_guard_ms
  BY <1>1, <1>2, Sizes DEF GuardAfter, UpTo
<1>4. FilterTypeOK' /\ HistoryTypeOK'
  BY <1>1, <1>3, Sizes DEF FilterInv, FilterTypeOK, HistoryTypeOK
<1>5. GuardCovered'
  BY <1>3 DEF GuardCovered
<1>6. LatchReleased' /\ CandidateSteady'
  BY <1>1 DEF FilterInv, LatchReleased, CandidateSteady
<1> QED BY <1>4, <1>5, <1>6 DEF FilterInv

LEMMA ObserveReleaseKeeps ==
    ASSUME FilterInv, NEW class, NEW confident, ObserveRelease(class, confident)
    PROVE  FilterInv'
<1> DEFINE counted == Increment(release_count)
<1>1. /\ candidate_class' = INVALID /\ stable_count' = 0
      /\ release_count' = UpTo(ReleaseSamples, counted)
      /\ latched_class' = IF counted >= ReleaseSamples THEN OPEN ELSE latched_class
      /\ UNCHANGED <<guard_ms_left, accepted_class, since_accepted>>
      /\ streak' = [class |-> OPEN, length |-> 0]
      /\ releases' = UpTo(ReleaseSamples, releases + 1)
      /\ release_gap' = IF releases' > release_gap THEN releases' ELSE release_gap
  BY DEF ObserveRelease, ForgetCandidate, HistoryOfRelease
<1>2. /\ release_count \in Nat /\ release_count <= ReleaseSamples
      /\ releases = release_count /\ release_gap \in Nat
  BY Sizes DEF FilterInv, FilterTypeOK, HistoryTypeOK, LatchReleased
<1>3. /\ release_count' = releases' /\ releases' \in Nat /\ releases' <= ReleaseSamples
      /\ counted >= ReleaseSamples => releases' = ReleaseSamples
      /\ release_gap' \in Nat /\ release_gap' >= release_gap /\ release_gap' >= releases'
  BY <1>1, <1>2, Sizes DEF Increment, UpTo
<1> HIDE DEF counted
<1>4. FilterTypeOK' /\ HistoryTypeOK'
  BY <1>1, <1>3, Sizes DEF FilterInv, FilterTypeOK, HistoryTypeOK
<1>5. GuardCovered'
  BY <1>1 DEF FilterInv, GuardCovered
<1>6. LatchReleased'
  BY <1>1, <1>2, <1>3, Sizes DEF FilterInv, LatchReleased
<1>7. CandidateSteady'
  BY <1>1 DEF CandidateSteady
<1> QED BY <1>4, <1>5, <1>6, <1>7 DEF FilterInv

\* The history of a letter observed: its row goes on, releases end.
LEMMA StreakGrows ==
    ASSUME FilterInv, NEW class \in Letters
    PROVE  /\ StreakWith(class) \in [class : Letters \cup {OPEN}, length : Nat]
           /\ StreakWith(class).class = class
           /\ StreakWith(class).length <= StableSamples
           /\ StreakWith(class).length >= 1
           /\ streak.class = class =>
                 \/ StreakWith(class).length = streak.length + 1
                 \/ StreakWith(class).length = StableSamples
<1>1. /\ streak \in [class : Letters \cup {OPEN}, length : Nat]
      /\ streak.length \in Nat
  BY DEF FilterInv, HistoryTypeOK
<1>2. CASE streak.class = class
  <2>1. StreakWith(class) = [streak EXCEPT !.length = UpTo(StableSamples, streak.length + 1)]
    BY <1>2 DEF StreakWith
  <2> DEFINE n == UpTo(StableSamples, streak.length + 1)
  <2>2. n \in Nat /\ n >= 1 /\ n <= StableSamples
        /\ (n = streak.length + 1 \/ n = StableSamples)
    BY <1>1, Sizes DEF UpTo
  <2> HIDE DEF n
  <2>3. StreakWith(class) = [class |-> class, length |-> n]
    BY <1>1, <1>2, <2>1 DEF n
  <2> QED BY <2>2, <2>3
<1>3. CASE streak.class # class
  <2>1. StreakWith(class) = [class |-> class, length |-> 1]
    BY <1>3 DEF StreakWith
  <2> QED BY <1>3, <2>1, Sizes
<1> QED BY <1>2, <1>3

LEMMA ObserveLatchedKeeps ==
    ASSUME FilterInv, NEW class, NEW confident, ObserveLatched(class, confident)
    PROVE  FilterInv'
<1>1. /\ candidate_class' = INVALID /\ stable_count' = 0
      /\ release_count' = 0 /\ releases' = 0
      /\ UNCHANGED <<guard_ms_left, latched_class, accepted_class, release_gap,
                     since_accepted>>
      /\ streak' = StreakWith(class)
      /\ class \in Letters
  BY DEF ObserveLatched, ForgetCandidate, HistoryOfLetter, ReleaseObservation,
         asl_class_has_static_action
<1>2. /\ streak' \in [class : Letters \cup {OPEN}, length : Nat]
      /\ streak'.length <= StableSamples /\ streak'.length >= 1
  BY <1>1, StreakGrows
<1>3. FilterTypeOK' /\ HistoryTypeOK'
  BY <1>1, <1>2, Sizes DEF FilterInv, FilterTypeOK, HistoryTypeOK
<1>4. GuardCovered' /\ LatchReleased'
  BY <1>1 DEF FilterInv, GuardCovered, LatchReleased
<1>5. CandidateSteady'
  BY <1>1, <1>2 DEF CandidateSteady
<1> QED BY <1>3, <1>4, <1>5 DEF FilterInv

\* The count of a candidate is behind its row.
LEMMA CountedSteady ==
    ASSUME FilterInv, NEW class \in Letters
    PROVE  /\ Counted(class) \in Nat /\ Counted(class) <= CounterMax
           /\ \/ Counted(class) <= StreakWith(class).length
              \/ StreakWith(class).length = StableSamples
<1>1. stable_count \in Nat /\ stable_count <= CounterMax /\ streak.length \in Nat
  BY Sizes DEF FilterInv, FilterTypeOK, HistoryTypeOK
<1>2. CASE candidate_class = class
  <2>1. streak.class = class
    BY <1>2, ClassAssumption DEF FilterInv, CandidateSteady
  <2>2. /\ Counted(class) \in Nat /\ Counted(class) <= CounterMax
        /\ Counted(class) <= stable_count + 1
    BY <1>1, <1>2, Sizes DEF Counted, Increment, UpTo
  <2>3. stable_count <= streak.length \/ streak.length = StableSamples
    BY DEF FilterInv, CandidateSteady
  <2>4. /\ StreakWith(class).length \in Nat
        /\ StreakWith(class).length <= StableSamples
        /\ \/ StreakWith(class).length = streak.length + 1
           \/ StreakWith(class).length = StableSamples
    BY <2>1, StreakGrows
  <2> QED BY <1>1, <2>2, <2>3, <2>4, Sizes
<1>3. CASE candidate_class # class
  <2>1. Counted(class) = 1
    BY <1>3 DEF Counted
  <2>2. StreakWith(class).length \in Nat /\ StreakWith(class).length >= 1
    BY StreakGrows
  <2> QED BY <2>1, <2>2, Sizes
<1> QED BY <1>2, <1>3

LEMMA ObserveCandidateKeeps ==
    ASSUME FilterInv, NEW class, NEW confident, ObserveCandidate(class, confident)
    PROVE  FilterInv'
<1>1. /\ candidate_class' = class /\ stable_count' = Counted(class)
      /\ release_count' = 0 /\ releases' = 0
      /\ UNCHANGED <<guard_ms_left, latched_class, accepted_class, release_gap,
                     since_accepted>>
      /\ streak' = StreakWith(class)
      /\ class \in Letters
  BY DEF ObserveCandidate, HistoryOfLetter, ReleaseObservation,
         asl_class_has_static_action
<1>2. /\ streak' \in [class : Letters \cup {OPEN}, length : Nat]
      /\ streak'.length <= StableSamples /\ streak'.class = class
  BY <1>1, StreakGrows
<1>3. /\ stable_count' \in Nat /\ stable_count' <= CounterMax
      /\ stable_count' <= streak'.length \/ streak'.length = StableSamples
  BY <1>1, CountedSteady
<1>4. FilterTypeOK' /\ HistoryTypeOK'
  BY <1>1, <1>2, <1>3, Sizes DEF FilterInv, FilterTypeOK, HistoryTypeOK
<1>5. GuardCovered' /\ LatchReleased'
  BY <1>1 DEF FilterInv, GuardCovered, LatchReleased
<1>6. CandidateSteady'
  BY <1>1, <1>2, <1>3, ClassAssumption DEF CandidateSteady
<1> QED BY <1>4, <1>5, <1>6 DEF FilterInv

LEMMA AcceptLetterKeeps ==
    ASSUME FilterInv, NEW class, NEW confident, AcceptLetter(class, confident)
    PROVE  /\ FilterInv'
           /\ class \in Letters /\ returned' = class
           /\ since_accepted = repeat_guard_ms
           /\ class = accepted_class => release_gap >= ReleaseSamples
           /\ streak' = [class |-> class, length |-> StableSamples]
<1>1. /\ candidate_class' = INVALID /\ stable_count' = 0
      /\ release_count' = 0 /\ releases' = 0
      /\ latched_class' = class /\ accepted_class' = class /\ returned' = class
      /\ guard_ms_left' = repeat_guard_ms /\ since_accepted' = 0
      /\ release_gap' = 0 /\ streak' = StreakWith(class)
      /\ class \in Letters /\ latched_class # class
      /\ Counted(class) >= StableSamples /\ guard_ms_left = 0
  BY DEF AcceptLetter, ForgetCandidate, HistoryOfAccepted, ReleaseObservation,
         asl_class_has_static_action, Acceptable
<1>2. /\ streak' \in [class : Letters \cup {OPEN}, length : Nat]
      /\ streak'.length <= StableSamples /\ streak'.class = class
  BY <1>1, StreakGrows
<1>3. streak'.length = StableSamples
  <2>1. /\ Counted(class) \in Nat
        /\ Counted(class) <= streak'.length \/ streak'.length = StableSamples
    BY <1>1, CountedSteady
  <2> QED BY <1>1, <1>2, <2>1, Sizes
<1>4. streak' = [class |-> class, length |-> StableSamples]
  BY <1>2, <1>3
<1>5. since_accepted = repeat_guard_ms
  BY <1>1, Sizes DEF FilterInv, HistoryTypeOK, GuardCovered
<1>6. class = accepted_class => release_gap >= ReleaseSamples
  BY <1>1, ClassAssumption DEF FilterInv, LatchReleased
<1>7. FilterTypeOK' /\ HistoryTypeOK'
  BY <1>1, <1>2, Sizes DEF FilterTypeOK, HistoryTypeOK
<1>8. GuardCovered' /\ CandidateSteady' /\ LatchReleased'
  BY <1>1, <1>3, Sizes, ClassAssumption
     DEF GuardCovered, CandidateSteady, LatchReleased
<1> QED BY <1>1, <1>4, <1>5, <1>6, <1>7, <1>8 DEF FilterInv

\* What a step may do: it keeps the invariant, and accepts a letter only when
\* the guard time is over, after releases if it is the last one again, and on
\* a full row of it.
AcceptedAsPromised ==
    Accepting => /\ since_accepted = repeat_guard_ms
                 /\ returned' = accepted_class => release_gap >= ReleaseSamples
                 /\ streak' = [class |-> returned', length |-> StableSamples]

LEMMA FilterStep ==
    ASSUME FilterInv, FilterNext
    PROVE  FilterInv' /\ AcceptedAsPromised
<1>1. CASE \E elapsed_ms \in 0 .. CounterMax : AdvanceTime(elapsed_ms)
  <2>1. PICK elapsed_ms \in 0 .. CounterMax : AdvanceTime(elapsed_ms)
    BY <1>1
  <2>2. elapsed_ms \in Nat
    BY Sizes
  <2>3. ~Accepting
    BY <2>1, ClassAssumption DEF AdvanceTime, Accepting
  <2> QED BY <2>1, <2>2, <2>3, AdvanceTimeKeeps DEF AcceptedAsPromised
<1>2. CASE \E class \in Classes, confident \in BOOLEAN : Observe(class, confident)
  <2>1. PICK class \in Classes, confident \in BOOLEAN : Observe(class, confident)
    BY <1>2
  <2>2. ~Accepting
    BY <2>1, ClassAssumption
       DEF Observe, ObserveRelease, ObserveLatched, ObserveCandidate,
           HistoryOfRelease, HistoryOfLetter, Accepting
  <2>3. FilterInv'
    BY <2>1, ObserveReleaseKeeps, ObserveLatchedKeeps, ObserveCandidateKeeps
       DEF Observe
  <2> QED BY <2>2, <2>3 DEF AcceptedAsPromised
<1>3. CASE \E class \in Letters : AcceptLetter(class, TRUE)
  <2>1. PICK class \in Letters : AcceptLetter(class, TRUE)
    BY <1>3
  <2> QED BY <2>1, AcceptLetterKeeps DEF AcceptedAsPromised
<1> QED BY <1>1, <1>2, <1>3 DEF FilterNext

LEMMA FilterSquareStep ==
    FilterInv /\ [FilterNext]_allFilterVars
        => FilterInv' /\ [AcceptedAsPromised]_allFilterVars
<1>1. ASSUME FilterInv, UNCHANGED allFilterVars
      PROVE  FilterInv'
  BY <1>1 DEF allFilterVars, filterVars, historyVars, FilterInv, FilterTypeOK,
              HistoryTypeOK, GuardCovered, LatchReleased, CandidateSteady
<1> QED BY <1>1, FilterStep

\* GuardSeparatesLetters, for every guard time: no order of observations and
\* elapsed times brings two letters closer together.
THEOREM LettersKeepGuardTime == FilterSpec => GuardSeparatesLetters
<1>1. [AcceptedAsPromised]_allFilterVars
         => [Accepting => since_accepted = repeat_guard_ms]_allFilterVars
  BY DEF AcceptedAsPromised
<1> QED BY FilterInitInv, FilterSquareStep, <1>1, PTL DEF FilterSpec, GuardSeparatesLetters

\* RepeatNeedsRelease, for every release count up to the counter's width.
THEOREM RepeatedLetterWasReleased == FilterSpec => RepeatNeedsRelease
<1>1. [AcceptedAsPromised]_allFilterVars
         => [Accepting /\ returned' = accepted_class
                => release_gap >= ReleaseSamples]_allFilterVars
  BY DEF AcceptedAsPromised
<1> QED BY FilterInitInv, FilterSquareStep, <1>1, PTL DEF FilterSpec, RepeatNeedsRelease

\* AcceptedWasSteady, for every stable count up to the counter's width.
THEOREM AcceptedLetterWasSteady == FilterSpec => AcceptedWasSteady
<1>1. [AcceptedAsPromised]_allFilterVars
         => [Accepting => streak' = [class |-> returned', length |-> StableSamples]
            ]_allFilterVars
  BY DEF AcceptedAsPromised
<1> QED BY FilterInitInv, FilterSquareStep, <1>1, PTL DEF FilterSpec, AcceptedWasSteady

(* A letter shown steadily is not missed.                                  *)

\* The guard still to go and the time gone by make up the guard time exactly,
\* and while a letter is shown that is not latched it is the candidate, counted
\* at least as often as it was seen.
SteadyInv ==
    /\ guard_ms_left + since_accepted = repeat_guard_ms
    /\ streak.class # OPEN /\ latched_class # streak.class
          => candidate_class = streak.class /\ stable_count >= streak.length

\* What a step leaves behind when it completes a row after the guard time.
LatchedIfSteady ==
    Observing /\ streak'.length = StableSamples /\ since_accepted = repeat_guard_ms
        => latched_class' = streak'.class

LEMMA RowGrows ==
    ASSUME FilterInv, NEW class \in Letters, streak' = StreakWith(class)
    PROVE  /\ streak'.class = class
           /\ streak.class = class
                => streak'.length = UpTo(StableSamples, streak.length + 1)
           /\ streak.class # class => streak'.length = 1
BY DEF FilterInv, HistoryTypeOK, StreakWith

LEMMA TimeKeepsSteady ==
    ASSUME FilterInv, SteadyInv, NEW elapsed_ms \in Nat, AdvanceTime(elapsed_ms)
    PROVE  SteadyInv' /\ LatchedIfSteady
<1>1. ~Observing
  BY DEF AdvanceTime, Observing
<1>2. (guard_ms_left + since_accepted = repeat_guard_ms)'
  <2>1. /\ guard_ms_left \in Nat /\ since_accepted \in Nat
        /\ guard_ms_left + since_accepted = repeat_guard_ms
    BY Sizes DEF FilterInv, FilterTypeOK, HistoryTypeOK, SteadyInv
  <2> QED BY <2>1, Sizes DEF AdvanceTime, GuardAfter, UpTo
<1> QED BY <1>1, <1>2 DEF AdvanceTime, SteadyInv, LatchedIfSteady

LEMMA ReleaseKeepsSteady ==
    ASSUME FilterInv, SteadyInv, NEW class, NEW confident,
           ObserveRelease(class, confident)
    PROVE  SteadyInv' /\ LatchedIfSteady
<1>1. streak'.class = OPEN /\ streak'.length = 0
  BY DEF ObserveRelease, HistoryOfRelease
<1>2. UNCHANGED <<guard_ms_left, since_accepted>>
  BY DEF ObserveRelease, HistoryOfRelease
<1> QED BY <1>1, <1>2, Sizes DEF SteadyInv, LatchedIfSteady

LEMMA LatchedKeepsSteady ==
    ASSUME FilterInv, SteadyInv, NEW class \in Letters, NEW confident,
           ObserveLatched(class, confident)
    PROVE  SteadyInv' /\ LatchedIfSteady
<1>1. /\ streak' = StreakWith(class) /\ latched_class' = class
      /\ UNCHANGED <<guard_ms_left, since_accepted>>
  BY DEF ObserveLatched, HistoryOfLetter
<1>2. streak'.class = class
  BY <1>1, RowGrows
<1> QED BY <1>1, <1>2 DEF SteadyInv, LatchedIfSteady

\* The count of a candidate follows the row it is shown in.
LEMMA CountFollowsRow ==
    ASSUME FilterInv, SteadyInv, NEW class \in Letters, latched_class # class,
           streak' = StreakWith(class)
    PROVE  Counted(class) \in Nat /\ Counted(class) >= streak'.length
<1>1. /\ stable_count \in Nat /\ stable_count <= CounterMax
      /\ streak.length \in Nat /\ streak.length <= StableSamples
  BY Sizes DEF FilterInv, FilterTypeOK, HistoryTypeOK
<1>2. CASE streak.class = class
  <2>1. class # OPEN
    BY ClassAssumption
  <2>2. candidate_class = class /\ stable_count >= streak.length
    BY <1>2, <2>1 DEF SteadyInv
  <2>3. Counted(class) = UpTo(CounterMax, stable_count + 1)
    BY <2>2 DEF Counted, Increment
  <2>4. streak'.length = UpTo(StableSamples, streak.length + 1)
    BY <1>2, RowGrows
  <2> QED BY <1>1, <2>2, <2>3, <2>4, Sizes DEF UpTo
<1>3. CASE streak.class # class
  <2>1. streak'.length = 1
    BY <1>3, RowGrows
  <2>2. Counted(class) \in Nat /\ Counted(class) >= 1
    BY <1>1, Sizes DEF Counted, Increment, UpTo
  <2> QED BY <2>1, <2>2
<1> QED BY <1>2, <1>3

LEMMA CandidateKeepsSteady ==
    ASSUME FilterInv, SteadyInv, NEW class \in Letters, NEW confident,
           ObserveCandidate(class, confident)
    PROVE  SteadyInv' /\ LatchedIfSteady
<1>1. /\ streak' = StreakWith(class) /\ latched_class # class
      /\ candidate_class' = class /\ stable_count' = Counted(class)
      /\ ~(Counted(class) >= StableSamples /\ guard_ms_left = 0)
      /\ UNCHANGED <<guard_ms_left, latched_class, since_accepted>>
  BY DEF ObserveCandidate, HistoryOfLetter, Acceptable
<1>2. streak'.class = class
  BY <1>1, RowGrows
<1>3. Counted(class) \in Nat /\ Counted(class) >= streak'.length
  BY <1>1, CountFollowsRow
<1>4. guard_ms_left \in Nat /\ since_accepted \in Nat
  BY Sizes DEF FilterInv, FilterTypeOK, HistoryTypeOK
<1>5. LatchedIfSteady
  BY <1>1, <1>3, <1>4, Sizes DEF SteadyInv, LatchedIfSteady
<1> QED BY <1>1, <1>2, <1>3, <1>5 DEF SteadyInv

LEMMA AcceptKeepsSteady ==
    ASSUME FilterInv, SteadyInv, NEW class \in Letters, AcceptLetter(class, TRUE)
    PROVE  SteadyInv' /\ LatchedIfSteady
<1>1. /\ streak' = StreakWith(class) /\ latched_class' = class
      /\ guard_ms_left' = repeat_guard_ms /\ since_accepted' = 0
  BY DEF AcceptLetter, HistoryOfAccepted
<1>2. streak'.class = class
  BY <1>1, RowGrows
<1> QED BY <1>1, <1>2, Sizes DEF SteadyInv, LatchedIfSteady

LEMMA SteadyStep ==
    FilterInv /\ SteadyInv /\ [FilterNext]_allFilterVars
        => SteadyInv' /\ [LatchedIfSteady]_allFilterVars
<1> SUFFICES ASSUME FilterInv, SteadyInv, [FilterNext]_allFilterVars
             PROVE  SteadyInv' /\ [LatchedIfSteady]_allFilterVars
  OBVIOUS
<1>1. ASSUME NEW elapsed_ms \in 0 .. CounterMax, AdvanceTime(elapsed_ms)
      PROVE  SteadyInv' /\ LatchedIfSteady
  BY <1>1, TimeKeepsSteady, Sizes
<1>2. ASSUME NEW class \in Classes, NEW confident \in BOOLEAN,
             Observe(class, confident)
      PROVE  SteadyInv' /\ LatchedIfSteady
  <2>1. ~ReleaseObservation(class, confident) => class \in Letters
    BY DEF ReleaseObservation, asl_class_has_static_action
  <2>2. CASE ObserveRelease(class, confident)
    BY <2>2, ReleaseKeepsSteady
  <2>3. CASE ObserveLatched(class, confident)
    BY <2>1, <2>3, LatchedKeepsSteady DEF ObserveLatched
  <2>4. CASE ObserveCandidate(class, confident)
    BY <2>1, <2>4, CandidateKeepsSteady DEF ObserveCandidate
  <2> QED BY <1>2, <2>2, <2>3, <2>4 DEF Observe
<1>3. ASSUME NEW class \in Letters, AcceptLetter(class, TRUE)
      PROVE  SteadyInv' /\ LatchedIfSteady
  BY <1>3, AcceptKeepsSteady
<1>4. ASSUME UNCHANGED allFilterVars PROVE SteadyInv'
  BY <1>4 DEF allFilterVars, filterVars, historyVars, SteadyInv
<1> QED BY <1>1, <1>2, <1>3, <1>4 DEF FilterNext

\* SteadyLetterAccepted, for every configuration: a row shown long enough after
\* the guard time always ends with its letter latched.
THEOREM SteadyLetterIsLatched == FilterSpec => SteadyLetterAccepted
<1>1. FilterInit => SteadyInv
  BY Sizes DEF FilterInit, SteadyInv
<1>2. [LatchedIfSteady]_allFilterVars
         => [Observing /\ streak'.length = StableSamples
                /\ since_accepted = repeat_guard_ms
                => latched_class' = streak'.class]_allFilterVars
  BY DEF LatchedIfSteady
<1> QED BY FilterInitInv, FilterSquareStep, SteadyStep, <1>1, <1>2, PTL
        DEF FilterSpec, SteadyLetterAccepted

-----------------------------------------------------------------------------
(***************************************************************************)
(* The library put together.                                               *)
(***************************************************************************)

\* Whatever step the library takes, each part takes a step of its own or none.
LEMMA LibraryStep ==
    [Next]_libraryVars =>
        [FilterNext]_allFilterVars /\ [QueueNext]_queueVars /\ [PlayerNext]_playerVars
<1> SUFFICES ASSUME [Next]_libraryVars
             PROVE  /\ [FilterNext]_allFilterVars
                    /\ [QueueNext]_queueVars
                    /\ [PlayerNext]_playerVars
  OBVIOUS
<1>1. CASE Classify
  BY <1>1 DEF Classify, FilterNext
<1>2. CASE ClassifyAndPush
  <2>1. PICK class \in Letters :
            /\ AcceptLetter(class, TRUE)
            /\ IF HasRoom THEN Push(class) ELSE UNCHANGED queueVars
    BY <1>2 DEF ClassifyAndPush
  <2>2. class \in Classes
    BY DEF Classes
  <2>3. Push(class) => QueueNext
    BY <2>2 DEF QueueNext
  <2>4. FilterNext
    BY <2>1 DEF FilterNext
  <2> QED BY <1>2, <2>1, <2>3, <2>4 DEF ClassifyAndPush
<1>3. CASE TimePasses
  <2>1. FilterNext
    BY <1>3, ElapsedAssumption DEF TimePasses, FilterNext
  <2> QED BY <1>3, <2>1 DEF TimePasses
<1>4. CASE PlayNext
  <2>1. PICK class \in Classes :
            /\ Pop(class)
            /\ IF StartAccepted(class) THEN Start(class) ELSE UNCHANGED playerVars
    BY <1>4 DEF PlayNext
  <2>2. QueueNext
    BY <2>1 DEF QueueNext
  <2>3. StartAccepted(class) => class \in Letters
    BY DEF StartAccepted, Startable, asl_class_has_static_action
  <2>4. [PlayerNext]_playerVars
    BY <2>1, <2>3 DEF PlayerNext
  <2> QED BY <1>4, <2>2, <2>4 DEF PlayNext
<1>5. CASE Play
  BY <1>5 DEF Play, PlayerNext
<1>6. CASE Report
  BY <1>6 DEF Report, PlayerNext
<1>7. CASE UNCHANGED libraryVars
  BY <1>7 DEF libraryVars
<1> QED BY <1>1, <1>2, <1>3, <1>4, <1>5, <1>6, <1>7 DEF Next

\* The application cannot drive a part of the library off its specification:
\* the library implements all three of them, so each promise of a part holds
\* of the application as it is put together.
THEOREM LibraryRunsItsParts == Spec => FilterSpec /\ QueueSpec /\ PlayerSpec
BY LibraryStep, PTL DEF Spec, Init, FilterSpec, QueueSpec, PlayerSpec

\* LibraryTypeOK: no interleaving of the calls takes a counter, an index or a
\* posture of any part out of its range.
THEOREM LibraryIsTyped == Spec => []LibraryTypeOK
<1>1. FilterInv => FilterTypeOK
  BY DEF FilterInv
<1>2. FilterSpec => []FilterTypeOK
  BY <1>1, FilterInitInv, FilterSquareStep, PTL DEF FilterSpec
<1> QED BY <1>2, LibraryRunsItsParts, RingHoldsLetters, PlayerStaysInTable, PTL
        DEF LibraryTypeOK

\* ImplementsFifo and StaysInSegment of the library: letters reach the player
\* in the order they were accepted, and the postures it samples while letters
\* keep arriving stay inside their segments.
THEOREM LibraryPlaysSafely == Spec => ImplementsFifo /\ []StaysInSegment
BY LibraryRunsItsParts, RingImplementsFifo, JointsStayInSegment, PTL

LibraryInv == QueueInv /\ PlayerInv

\* A letter popped is the oldest waiting and starts at once: the start has no
\* reason left to refuse it, which would lose the letter.
LEMMA PoppedLetterStarts ==
    ASSUME LibraryInv, \A class \in Letters : Startable(class), PlayNext
    PROVE  action' = Waiting[1] /\ ticks' = 0
<1>1. PICK class \in Classes :
          /\ Pop(class)
          /\ IF StartAccepted(class) THEN Start(class) ELSE UNCHANGED playerVars
  BY DEF PlayNext
<1>2. count \in Nat \ {0} /\ 1 \in 1 .. count
  BY <1>1, TypesOfQueue DEF LibraryInv, QueueInv, Pop
<1>3. Waiting[1] \in Letters
  BY <1>2 DEF LibraryInv, QueueInv, RingInv
<1>4. Waiting[1] = class
  <2>1. read_index + 1 - 1 = read_index /\ read_index % Capacity = read_index
    BY TypesOfQueue, CapacityAssumption DEF LibraryInv, QueueInv
  <2> QED BY <1>1, <1>2, <2>1 DEF Waiting, Pop
<1>5. ~active /\ current_q12 = OpenPosture
  BY DEF PlayNext, LibraryInv, PlayerInv, RestsAtOpen
<1>6. StartAccepted(class)
  BY <1>3, <1>4, <1>5 DEF StartAccepted
<1> QED BY <1>1, <1>4, <1>6 DEF Start

\* Nothing else changes what is played, or takes a letter from the queue.
LEMMA OnlyPlayNextStarts ==
    ASSUME LibraryInv, Next, ~PlayNext
    PROVE  /\ action' = action \/ action' = INVALID
           /\ ~(count' < count)
<1>1. count \in Nat
  BY TypesOfQueue DEF LibraryInv, QueueInv
<1>2. CASE Classify \/ TimePasses \/ Report
  BY <1>1, <1>2 DEF Classify, TimePasses, Report, TakeCompleted, queueVars, playerVars
<1>3. CASE ClassifyAndPush
  BY <1>1, <1>3 DEF ClassifyAndPush, Push, queueVars, playerVars
<1>4. CASE Play
  <2>1. count' = count
    BY <1>4 DEF Play, queueVars
  <2>2. action' = action \/ action' = INVALID
    <3>1. Tick
      BY <1>4 DEF Play
    <3>2. PICK keyframe : \/ TickInSegment(keyframe)
                         \/ TickEndsSegment(keyframe)
                         \/ TickEndsAction(keyframe)
      BY <3>1 DEF Tick
    <3>3. TickInSegment(keyframe) => action' = action
      BY DEF TickInSegment
    <3>4. TickEndsSegment(keyframe) => action' = action
      BY DEF TickEndsSegment
    <3>5. TickEndsAction(keyframe) => action' = INVALID
      BY DEF TickEndsAction
    <3> QED BY <3>2, <3>3, <3>4, <3>5
  <2> QED BY <1>1, <2>1, <2>2
<1> QED BY <1>2, <1>3, <1>4 DEF Next

\* PlaysInOrder, when every letter of the table is approved: the player only
\* ever starts the oldest letter accepted, from its first sample, and a letter
\* leaves the queue for nothing else (asl_action_queue_pop and
\* asl_action_player_start, in turn).
THEOREM LibraryPlaysInOrder ==
    ASSUME \A class \in Letters : Startable(class)
    PROVE  Spec => PlaysInOrder
<1> DEFINE Started == (action' # action /\ action' # INVALID) \/ count' < count
                      => action' = Waiting[1] /\ ticks' = 0
<1>1. Init => LibraryInv
  BY QueueInitInv, PlayerInitInv DEF Init, LibraryInv
<1>2. LibraryInv /\ [Next]_libraryVars => LibraryInv'
  BY LibraryStep, QueueStep, PlayerStepKeeps DEF LibraryInv
<1>3. LibraryInv /\ [Next]_libraryVars => [Started]_libraryVars
  BY PoppedLetterStarts, OnlyPlayNextStarts
<1> QED BY <1>1, <1>2, <1>3, PTL DEF Spec, PlaysInOrder

-----------------------------------------------------------------------------
(***************************************************************************)
(* The conversion rounds to the nearest count, by any valid calibration.   *)
(***************************************************************************)

\* Rounded division, and the floor of the negative of a quotient.
LEMMA CountRounded ==
    ASSUME NEW value \in Nat, NEW units, units = (value + Q12Half) \div Q12One
    PROVE  /\ units \in Nat
           /\ -Q12Half <= units * Q12One - value /\ units * Q12One - value <= Q12Half
<1>1. units = (value + 2048) \div 4096
  BY DEF Q12Half, Q12One
<1>2. units \in Nat /\ -2048 <= units * 4096 - value /\ units * 4096 - value <= 2048
  BY SMT, <1>1
<1> QED BY <1>2 DEF Q12Half, Q12One

LEMMA NegatedQuotient ==
    ASSUME NEW value \in Nat
    PROVE  /\ value \div One \in Nat
           /\ (-value) \div One \in {-(value \div One), -(value \div One) - 1}
BY SMT DEF One

LEMMA SignTimes ==
    ASSUME NEW m \in Nat, NEW size \in Nat
    PROVE  /\ m * size \in Nat
           /\ (-m) * size = -(m * size)
BY SMT

LEMMA RowTypes ==
    ASSUME NEW row \in Calibration, Calibrated(row)
    PROVE  /\ row.whole \in Nat /\ row.fraction \in Nat
           /\ row.direction = 1 \/ row.direction = -1
           /\ row.center_raw \in Int /\ row.minimum_raw \in Int /\ row.maximum_raw \in Int
           /\ row.minimum_raw <= row.center_raw /\ row.center_raw <= row.maximum_raw
<1>1. Int16 \subseteq Int /\ Word16 \subseteq Nat
  BY SMT DEF Int16, Half, Word16, One
<1>2. /\ row.whole \in Word16 /\ row.fraction \in Word16
      /\ row.center_raw \in Int16 /\ row.minimum_raw \in Int16 /\ row.maximum_raw \in Int16
  BY DEF Calibration
<1> QED BY <1>1, <1>2 DEF Calibrated

\* How far a count is from the exact value it stands for.
Off(units, exact) == units * Q12One - exact

\* The counts of an angle before the limits, and the exact value they round.
LEMMA CountIsNearest ==
    ASSUME NEW angle \in Int, NEW row, row.direction = 1 \/ row.direction = -1,
           row.whole \in Nat, row.fraction \in Nat
    PROVE  LET counts == row.direction * Signed(angle, Counts(angle, row))
           IN  /\ counts \in Int /\ Exact(angle, row) \in Int
               /\ Near(Off(counts, Exact(angle, row)))
<1> DEFINE direction == row.direction
           m == Magnitude(angle)
           whole == m * row.whole
           part == m * row.fraction
           lost == part \div One
           sum == whole + lost
           units == Counts(angle, row)
           turned == direction * angle
           value == direction * Signed(angle, units)
           exact == Exact(angle, row)
<1>1. m \in Nat /\ angle = (IF angle < 0 THEN -m ELSE m)
  BY DEF Magnitude
<1>2. /\ whole \in Nat /\ (-m) * row.whole = -whole
      /\ part \in Nat /\ (-m) * row.fraction = -part
  BY <1>1, SignTimes
<1>3. lost \in Nat /\ (-part) \div One \in {-lost, -lost - 1}
  BY <1>2, NegatedQuotient
<1>4. sum \in Nat /\ sum = whole + lost
  BY <1>2, <1>3
<1>5. /\ units \in Nat
      /\ -Q12Half <= units * Q12One - sum /\ units * Q12One - sum <= Q12Half
  <2>1. units = (sum + Q12Half) \div Q12One
    BY DEF Counts
  <2> HIDE DEF units, sum
  <2> QED BY <1>4, <2>1, CountRounded
<1>6. direction = 1 \/ direction = -1
  OBVIOUS
<1>7. exact = turned * row.whole + (turned * row.fraction) \div One
  BY DEF Exact
<1>8. Signed(angle, units) = IF angle < 0 THEN -units ELSE units
  BY DEF Signed
<1>9. \/ turned = m /\ value = units
      \/ turned = -m /\ value = -units
  <2> HIDE DEF m, units
  <2>1. CASE direction = 1
    BY <1>1, <1>5, <1>8, <2>1
  <2>2. CASE direction = -1
    BY <1>1, <1>5, <1>8, <2>2
  <2> QED BY <1>6, <2>1, <2>2
<1>10. CASE turned = m /\ value = units
  <2>1. turned * row.whole = whole /\ (turned * row.fraction) \div One = lost
    BY <1>10
  <2>2. exact = sum
    BY <1>7, <2>1
  <2> HIDE DEF units, sum, value, exact
  <2>3. value \in Int /\ exact \in Int /\ Near(Off(value, exact))
    BY SMT, <1>4, <1>5, <1>10, <2>2 DEF Near, Off, Q12Half, Q12One
  <2> QED BY <2>3 DEF value, exact, units
<1>11. CASE turned = -m /\ value = -units
  <2>1. turned * row.whole = -whole /\ (turned * row.fraction) \div One \in {-lost, -lost - 1}
    BY <1>2, <1>3, <1>11
  <2> HIDE DEF m, whole, part, lost, units, sum, value, turned, exact
  <2>2. exact = -sum \/ exact = -sum - 1
    BY SMT, <1>2, <1>3, <1>4, <1>7, <2>1
  <2>3. value \in Int /\ exact \in Int /\ Near(Off(value, exact))
    BY SMT, <1>4, <1>5, <1>11, <2>2 DEF Near, Off, Q12Half, Q12One
  <2> QED BY <2>3 DEF value, exact, units
<1> QED BY <1>9, <1>10, <1>11

\* The limits cut a value off at the side it is on.
LEMMA LimitsCutOff ==
    ASSUME NEW row, row.minimum_raw <= row.center_raw, row.center_raw <= row.maximum_raw,
           row.center_raw \in Int, row.minimum_raw \in Int, row.maximum_raw \in Int,
           NEW counts \in Int, NEW exact \in Int, Near(Off(counts, exact)),
           NEW raw, raw = WithinLimits(row.center_raw + counts, row)
    PROVE  /\ raw \in row.minimum_raw .. row.maximum_raw
           /\ \/ Near(Off(raw - row.center_raw, exact))
              \/ raw = row.minimum_raw /\ Off(raw - row.center_raw, exact) > 0
              \/ raw = row.maximum_raw /\ Off(raw - row.center_raw, exact) < 0
<1>1. -2049 <= counts * 4096 - exact /\ counts * 4096 - exact <= 2049
  BY SMT DEF Near, Off, Q12Half, Q12One
<1>2. /\ raw \in row.minimum_raw .. row.maximum_raw
      /\ \/ raw - row.center_raw = counts
         \/ raw = row.minimum_raw /\ (raw - row.center_raw) * 4096 - exact > 0
         \/ raw = row.maximum_raw /\ (raw - row.center_raw) * 4096 - exact < 0
  BY SMT, <1>1 DEF WithinLimits
<1> QED BY SMT, <1>2 DEF Off, Q12One

\* CommandIsNearest, for any valid calibration and any table: no rounding of
\* asl_q12_to_raw_positions is off by more than half a count, in either
\* direction of a motor, and what is sent is inside its limits.
THEOREM CommandsAreNearest == PlayerSpec => []CommandIsNearest
<1>1. ASSUME PlayerTypeOK, NEW j \in Joints
      PROVE  LET row == calibration[j]
                 raw == RawPosition(current_q12[j], row)
                 off == (raw - row.center_raw) * Q12One - Exact(current_q12[j], row)
             IN  /\ raw \in row.minimum_raw .. row.maximum_raw
                 /\ \/ Near(off)
                    \/ raw = row.minimum_raw /\ off > 0
                    \/ raw = row.maximum_raw /\ off < 0
  <2> DEFINE angle == current_q12[j]
             row == calibration[j]
             counts == row.direction * Signed(angle, Counts(angle, row))
             exact == Exact(angle, row)
             raw == RawPosition(angle, row)
  <2>1. angle \in Int
    <3>1. angle \in Int16
      BY <1>1 DEF PlayerTypeOK, Posture
    <3>2. Int16 \subseteq Int
      BY SMT DEF Int16, Half
    <3> QED BY <3>1, <3>2
  <2>2. /\ row.whole \in Nat /\ row.fraction \in Nat
        /\ row.direction = 1 \/ row.direction = -1
        /\ row.center_raw \in Int /\ row.minimum_raw \in Int /\ row.maximum_raw \in Int
        /\ row.minimum_raw <= row.center_raw /\ row.center_raw <= row.maximum_raw
    BY <1>1, CalibrationAssumption, RowTypes
  <2>3. counts \in Int /\ exact \in Int /\ Near(Off(counts, exact))
    BY <2>1, <2>2, CountIsNearest
  <2>4. raw = WithinLimits(row.center_raw + counts, row)
    BY DEF RawPosition
  <2> HIDE DEF angle, row, counts, exact, raw
  <2>5. /\ raw \in row.minimum_raw .. row.maximum_raw
        /\ \/ Near(Off(raw - row.center_raw, exact))
           \/ raw = row.minimum_raw /\ Off(raw - row.center_raw, exact) > 0
           \/ raw = row.maximum_raw /\ Off(raw - row.center_raw, exact) < 0
    BY <2>2, <2>3, <2>4, LimitsCutOff
  <2> QED BY <2>5 DEF angle, row, exact, raw, Off
<1>2. PlayerTypeOK => CommandIsNearest
  BY <1>1 DEF CommandIsNearest
<1> QED BY <1>2, PlayerStaysInTable, PTL
=============================================================================
