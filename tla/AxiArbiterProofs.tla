-------------------------- MODULE AxiArbiterProofs --------------------------
(***************************************************************************)
(* Theorems about AxiArbiter, for every number of masters.                 *)
(***************************************************************************)
EXTENDS AxiArbiter, TLAPS

\* Places on the ring of slots: distances from one slot tell slots apart, and
\* after a step past slot p what lay behind p keeps its order and p is last.
LEMMA Turns ==
    ASSUME NEW from \in Masters, NEW p \in Masters, NEW m \in Masters
    PROVE  /\ NextSlot(p) \in Masters
           /\ Distance(from, m) \in Nat
           /\ Distance(from, m) = Distance(from, p) => m = p
           /\ m # p => Distance(NextSlot(p), m) < Distance(NextSlot(p), p)
BY ArbiterAssumption DEF Masters, NextSlot, Distance

LEMMA OrderIsKept ==
    ASSUME NEW from \in Masters, NEW p \in Masters,
           NEW m \in Masters, NEW n \in Masters,
           Distance(from, p) < Distance(from, m),
           Distance(from, m) < Distance(from, n)
    PROVE  Distance(NextSlot(p), m) < Distance(NextSlot(p), n)
BY ArbiterAssumption DEF Masters, NextSlot, Distance

\* The port carries one address.
LEMMA OneOffer ==
    ASSUME ArbiterTypeOK, NEW m \in Masters, NEW n \in Masters, Offers(m), Offers(n)
    PROVE  m = n
<1>1. CASE read_address_pending
  BY <1>1 DEF Offers
<1>2. CASE ~read_address_pending
  <2>1. Granted(m) /\ Granted(n)
    BY <1>2 DEF Offers
  <2>2. /\ Distance(read_round_robin, m) <= Distance(read_round_robin, n)
        /\ Distance(read_round_robin, n) <= Distance(read_round_robin, m)
    BY <2>1 DEF Granted
  <2>3. read_round_robin \in Masters
    BY DEF ArbiterTypeOK
  <2> QED BY <2>2, <2>3, Turns
<1> QED BY <1>1, <1>2

ArbiterInv == ArbiterTypeOK /\ BurstHasOneReader

\* Only idle masters begin to ask.
LEMMA Beginning ==
    ASSUME ArbiterTypeOK, NEW asking \in SUBSET Idle
    PROVE  /\ Begin(asking) \in [Masters -> {"idle", "address", "data"}]
           /\ \A m \in Masters : Asks(m) => m \notin asking /\ Begin(asking)[m] = "address"
           /\ \A m \in Masters : Begin(asking)[m] = "data" <=> master[m] = "data"
BY DEF Idle, Begin, Asks, ArbiterTypeOK

LEMMA InitArbiter == Init => ArbiterInv
<1> SUFFICES ASSUME Init PROVE ArbiterInv
  OBVIOUS
<1>1. 0 \in Masters /\ 0 \in 0 .. MaxBurst
  BY ArbiterAssumption DEF Masters
<1>2. master \in [Masters -> {"idle", "address", "data"}]
  BY DEF Init
<1>3. overtakers \in [Masters -> SUBSET Masters]
  BY DEF Init
<1>4. ArbiterTypeOK
  BY <1>1, <1>2, <1>3 DEF Init, ArbiterTypeOK
<1>5. BurstHasOneReader
  BY DEF Init, BurstHasOneReader
<1> QED BY <1>4, <1>5 DEF ArbiterInv

LEMMA AcceptKeeps ==
    ASSUME ArbiterInv, NEW m \in Masters, NEW asking \in SUBSET Idle, Accept(m, asking)
    PROVE  ArbiterInv'
<1>1. ArbiterTypeOK /\ BurstHasOneReader /\ ~read_active /\ Asks(m)
  BY DEF ArbiterInv, Accept, Offers, Granted
<1>2. /\ beats' \in 1 .. MaxBurst /\ MaxBurst \in Nat
      /\ read_active' = TRUE /\ read_owner' = m /\ requester' = m
      /\ read_address_pending' = FALSE
      /\ master' = [Begin(asking) EXCEPT ![m] = "data"]
  BY ArbiterAssumption DEF Accept
<1>3. overtakers' \in [Masters -> SUBSET Masters]
  BY <1>1 DEF Accept, ArbiterTypeOK
<1>4. ArbiterTypeOK'
  <2>1. master' \in [Masters -> {"idle", "address", "data"}]
    BY <1>1, <1>2, Beginning
  <2>2. beats' \in 0 .. MaxBurst
    BY <1>2
  <2>3. read_round_robin' \in Masters /\ read_address_owner' \in Masters
    BY <1>1 DEF Accept, ArbiterTypeOK
  <2> QED BY <1>2, <1>3, <2>1, <2>2, <2>3 DEF ArbiterTypeOK
<1>5. BurstHasOneReader'
  <2>1. ASSUME NEW n \in Masters, master'[n] = "data" PROVE n = m
    BY <1>1, <1>2, <2>1, Beginning DEF BurstHasOneReader
  <2> QED BY <1>2, <2>1 DEF BurstHasOneReader
<1> QED BY <1>4, <1>5 DEF ArbiterInv

LEMMA StallKeeps ==
    ASSUME ArbiterInv, NEW m \in Masters, NEW asking \in SUBSET Idle, Stall(m, asking)
    PROVE  ArbiterInv'
<1>1. ArbiterTypeOK /\ BurstHasOneReader /\ ~read_active /\ Asks(m)
  BY DEF ArbiterInv, Stall, Offers, Granted
<1>2. ArbiterTypeOK'
  BY <1>1, Beginning DEF ArbiterTypeOK, Stall
<1>3. BurstHasOneReader'
  BY <1>1, Beginning DEF BurstHasOneReader, Stall, Asks
<1> QED BY <1>2, <1>3 DEF ArbiterInv

LEMMA BeatKeeps ==
    ASSUME ArbiterInv, NEW asking \in SUBSET Idle, NEW error \in BOOLEAN,
           Beat(asking, error)
    PROVE  ArbiterInv'
<1>1. /\ ArbiterTypeOK /\ BurstHasOneReader /\ read_active /\ read_owner = requester
      /\ read_owner \in Masters /\ beats \in 1 .. MaxBurst
      /\ read_address_pending = FALSE
  BY DEF ArbiterInv, Beat, BurstHasOneReader, ArbiterTypeOK
<1>2. PICK next \in {"idle", "address", "data"} :
         /\ next = "data" => ~LeavesBurst(error)
         /\ master' = [Begin(asking) EXCEPT ![read_owner] = next]
         /\ beats' = beats - 1 /\ read_active' = ~RLast
         /\ UNCHANGED <<read_owner, requester, read_address_pending, read_address_owner,
                        overtakers>>
  BY DEF Beat, AfterBeat
<1>3. ArbiterTypeOK'
  <2>1. beats' \in 0 .. MaxBurst
    BY <1>1, <1>2, ArbiterAssumption
  <2>2. read_round_robin' \in Masters
    BY <1>1, Turns DEF Beat, ArbiterTypeOK
  <2>3. master' \in [Masters -> {"idle", "address", "data"}]
    BY <1>1, <1>2, Beginning
  <2>4. read_active' \in BOOLEAN
    BY <1>2
  <2> QED BY <1>1, <1>2, <2>1, <2>2, <2>3, <2>4 DEF ArbiterTypeOK
<1>4. read_active' <=> beats' > 0
  <2>1. ~RLast <=> beats' > 0
    BY <1>1, <1>2, ArbiterAssumption DEF RLast
  <2> QED BY <1>2, <2>1, Zenon
<1>5. ASSUME NEW m \in Masters, master'[m] = "data"
      PROVE  read_active' /\ m = requester'
  <2>1. m = read_owner
    BY <1>1, <1>2, <1>5, Beginning DEF BurstHasOneReader
  <2>2. ~RLast
    BY <1>1, <1>2, <1>5, <2>1, Beginning DEF LeavesBurst
  <2> QED BY <1>1, <1>2, <2>1, <2>2
<1> QED BY <1>1, <1>2, <1>3, <1>4, <1>5 DEF ArbiterInv, BurstHasOneReader

LEMMA QuietKeeps ==
    ASSUME ArbiterInv, NEW asking \in SUBSET Idle, Quiet(asking)
    PROVE  ArbiterInv'
<1>1. ArbiterTypeOK /\ BurstHasOneReader
  BY DEF ArbiterInv
<1>2. ArbiterTypeOK'
  BY <1>1, Beginning DEF ArbiterTypeOK, Quiet
<1>3. BurstHasOneReader'
  BY <1>1, Beginning DEF BurstHasOneReader, ArbiterTypeOK, Quiet, Asks
<1> QED BY <1>2, <1>3 DEF ArbiterInv

LEMMA ArbiterStep == ArbiterInv /\ [Next]_vars => ArbiterInv'
<1> SUFFICES ASSUME ArbiterInv, [Next]_vars PROVE ArbiterInv'
  OBVIOUS
<1>1. CASE Accepts
  BY <1>1, AcceptKeeps DEF Accepts
<1>2. CASE \E m \in Masters, asking \in SUBSET Idle : Stall(m, asking)
  BY <1>2, StallKeeps
<1>3. CASE Delivers
  BY <1>3, BeatKeeps DEF Delivers
<1>4. CASE \E asking \in SUBSET Idle : Quiet(asking)
  BY <1>4, QuietKeeps
<1>5. CASE UNCHANGED vars
  BY <1>5 DEF vars, ArbiterInv, ArbiterTypeOK, BurstHasOneReader, Asks
<1> QED BY <1>1, <1>2, <1>3, <1>4, <1>5 DEF Next

\* A burst has one reader, the master it was read for, however many masters
\* share the port and however they leave their bursts.
THEOREM BurstsAreNotMixed == Spec => [](ArbiterTypeOK /\ BurstHasOneReader)
<1>1. ArbiterInv => ArbiterTypeOK /\ BurstHasOneReader
  BY DEF ArbiterInv
<1> QED BY <1>1, InitArbiter, ArbiterStep, PTL DEF Spec

-----------------------------------------------------------------------------
(* The address on the port stays *)

LEMMA StepKeepsAddress ==
    ASSUME ArbiterInv, [Next]_vars, NEW m \in Masters, Offers(m), ~read_active'
    PROVE  Offers(m)'
<1>1. ArbiterTypeOK /\ ~read_active /\ Asks(m)
  BY DEF ArbiterInv, Offers, Granted
<1>2. CASE Accepts
  BY <1>2 DEF Accepts, Accept
<1>3. ASSUME NEW n \in Masters, NEW asking \in SUBSET Idle, Stall(n, asking)
      PROVE  Offers(m)'
  <2>1. n = m
    BY <1>1, <1>3, OneOffer DEF Stall
  <2>2. read_address_pending' = TRUE /\ read_address_owner' = m /\ master' = Begin(asking)
    BY <1>3, <2>1 DEF Stall
  <2>3. Asks(m)'
    BY <1>1, <2>2, Beginning DEF Asks
  <2> QED BY <2>2, <2>3 DEF Offers
<1>4. CASE Delivers
  BY <1>1, <1>4 DEF Delivers, Beat
<1>5. CASE \E asking \in SUBSET Idle : Quiet(asking)
  BY <1>5 DEF Quiet
<1>6. CASE UNCHANGED vars
  BY <1>6 DEF vars, Offers, Granted, Asks
<1> QED BY <1>2, <1>3, <1>4, <1>5, <1>6 DEF Next

\* The port keeps an address until the memory accepts it, whoever begins to ask.
THEOREM OfferedAddressIsLocked == Spec => AddressStaysUntilAccepted
<1>1. ArbiterInv /\ [Next]_vars =>
        [\A m \in Masters : Offers(m) /\ ~read_active' => Offers(m)']_vars
  BY StepKeepsAddress
<1> QED BY <1>1, InitArbiter, ArbiterStep, PTL DEF Spec, AddressStaysUntilAccepted

-----------------------------------------------------------------------------
(* Round robin *)

\* Where the next scan starts.
ScanFrom == IF read_active THEN NextSlot(read_owner) ELSE read_round_robin

\* Who overtook a master is behind it in the next scan, and an address that is
\* locked belongs to a master in front of all that were overtaken.
RoundRobinInv ==
    /\ ArbiterInv
    /\ \A m \in Masters : ~Asks(m) => overtakers[m] = {}
    /\ \A m \in Masters : \A n \in overtakers[m] :
          Distance(ScanFrom, m) < Distance(ScanFrom, n)
    /\ read_address_pending =>
          \A m \in Masters : overtakers[m] # {} =>
             Distance(read_round_robin, read_address_owner)
                <= Distance(read_round_robin, m)

LEMMA InitRoundRobin == Init => RoundRobinInv
BY InitArbiter DEF Init, RoundRobinInv

\* The master on the port comes before every other that was overtaken.
LEMMA OfferedIsFirst ==
    ASSUME RoundRobinInv, NEW p \in Masters, Offers(p),
           NEW m \in Masters, m # p, overtakers[m] # {}
    PROVE  Distance(read_round_robin, p) < Distance(read_round_robin, m)
<1>1. read_round_robin \in Masters /\ Asks(m)
  BY DEF RoundRobinInv, ArbiterInv, ArbiterTypeOK
<1>2. Distance(read_round_robin, p) <= Distance(read_round_robin, m)
  BY <1>1 DEF RoundRobinInv, Offers, Granted
<1> QED BY <1>1, <1>2, Turns

LEMMA AcceptKeepsRoundRobin ==
    ASSUME RoundRobinInv, NEW p \in Masters, NEW asking \in SUBSET Idle, Accept(p, asking)
    PROVE  RoundRobinInv'
<1>1. /\ ArbiterInv' /\ ArbiterTypeOK /\ ~read_active /\ Offers(p)
      /\ read_round_robin \in Masters
  BY AcceptKeeps DEF RoundRobinInv, ArbiterInv, ArbiterTypeOK, Accept, Offers
<1>2. /\ ScanFrom = read_round_robin /\ ScanFrom' = NextSlot(p)
      /\ read_address_pending' = FALSE
      /\ master' = [Begin(asking) EXCEPT ![p] = "data"]
  BY <1>1 DEF Accept, ScanFrom
<1>3. \A m \in Masters : overtakers'[m] =
        IF m = p THEN {} ELSE IF Asks(m) THEN overtakers[m] \cup {p} ELSE overtakers[m]
  BY DEF Accept
<1>4. ASSUME NEW m \in Masters, ~Asks(m)'
      PROVE  overtakers'[m] = {}
  <2>1. m # p => ~Asks(m)
    BY <1>1, <1>2, <1>4, Beginning DEF Asks
  <2> QED BY <1>3, <2>1 DEF RoundRobinInv
<1>5. ASSUME NEW m \in Masters, NEW n \in overtakers'[m]
      PROVE  Distance(NextSlot(p), m) < Distance(NextSlot(p), n)
  <2>1. m # p /\ (n = p \/ n \in overtakers[m])
    BY <1>3, <1>5
  <2>2. CASE n = p
    BY <1>1, <2>1, <2>2, Turns
  <2>3. CASE n \in overtakers[m]
    <3>1. n \in Masters /\ Distance(read_round_robin, m) < Distance(read_round_robin, n)
      BY <1>1, <1>2, <2>3 DEF RoundRobinInv, ArbiterTypeOK
    <3>2. Distance(read_round_robin, p) < Distance(read_round_robin, m)
      BY <1>1, <2>1, <2>3, OfferedIsFirst
    <3> QED BY <1>1, <3>1, <3>2, OrderIsKept
  <2> QED BY <2>1, <2>2, <2>3
<1> QED BY <1>1, <1>2, <1>4, <1>5 DEF RoundRobinInv

LEMMA StallKeepsRoundRobin ==
    ASSUME RoundRobinInv, NEW p \in Masters, NEW asking \in SUBSET Idle, Stall(p, asking)
    PROVE  RoundRobinInv'
<1>1. /\ ArbiterInv' /\ ArbiterTypeOK /\ ~read_active /\ Offers(p)
      /\ read_round_robin \in Masters
  BY StallKeeps DEF RoundRobinInv, ArbiterInv, ArbiterTypeOK, Stall, Offers
<1>2. /\ ScanFrom' = ScanFrom /\ read_round_robin' = read_round_robin
      /\ read_address_owner' = p
      /\ overtakers' = overtakers /\ master' = Begin(asking)
  BY DEF Stall, ScanFrom
<1>3. \A m \in Masters : Asks(m) => Asks(m)'
  BY <1>1, <1>2, Beginning DEF Asks
<1>4. \A m \in Masters : overtakers[m] # {} =>
        Distance(read_round_robin, p) <= Distance(read_round_robin, m)
  <2>1. SUFFICES ASSUME NEW m \in Masters, overtakers[m] # {}, m # p
                 PROVE  Distance(read_round_robin, p) <= Distance(read_round_robin, m)
    BY <1>1, Turns
  <2> QED BY <1>1, <2>1, OfferedIsFirst, Turns
<1> QED BY <1>1, <1>2, <1>3, <1>4 DEF RoundRobinInv

LEMMA BeatKeepsRoundRobin ==
    ASSUME RoundRobinInv, NEW asking \in SUBSET Idle, NEW error \in BOOLEAN,
           Beat(asking, error)
    PROVE  RoundRobinInv'
<1>1. /\ ArbiterInv' /\ ArbiterTypeOK /\ read_active /\ read_owner \in Masters
      /\ read_address_pending = FALSE /\ ~Asks(read_owner)
  BY BeatKeeps DEF RoundRobinInv, ArbiterInv, ArbiterTypeOK, BurstHasOneReader, Beat, Asks
<1>2. PICK next \in AfterBeat(error) :
         /\ master' = [Begin(asking) EXCEPT ![read_owner] = next]
         /\ UNCHANGED <<overtakers, read_owner, read_address_pending>>
  BY DEF Beat
<1>3. ScanFrom' = ScanFrom
  <2>1. CASE RLast
    BY <1>1, <2>1 DEF Beat, ScanFrom
  <2>2. CASE ~RLast
    BY <1>1, <2>2 DEF Beat, ScanFrom
  <2> QED BY <2>1, <2>2
<1>4. \A m \in Masters : Asks(m) => Asks(m)'
  BY <1>1, <1>2, Beginning DEF Asks
<1> QED BY <1>1, <1>2, <1>3, <1>4 DEF RoundRobinInv

LEMMA RoundRobinStep == RoundRobinInv /\ [Next]_vars => RoundRobinInv'
<1> SUFFICES ASSUME RoundRobinInv, [Next]_vars PROVE RoundRobinInv'
  OBVIOUS
<1>1. ArbiterInv /\ ArbiterInv' /\ ArbiterTypeOK
  BY ArbiterStep DEF RoundRobinInv, ArbiterInv
<1>2. CASE Accepts
  BY <1>2, AcceptKeepsRoundRobin DEF Accepts
<1>3. CASE \E m \in Masters, asking \in SUBSET Idle : Stall(m, asking)
  BY <1>3, StallKeepsRoundRobin
<1>4. CASE Delivers
  BY <1>4, BeatKeepsRoundRobin DEF Delivers
<1>5. ASSUME NEW asking \in SUBSET Idle, Quiet(asking)
      PROVE  RoundRobinInv'
  <2>1. \A m \in Masters : Asks(m) => Asks(m)'
    BY <1>1, <1>5, Beginning DEF Quiet, Asks
  <2> QED BY <1>1, <1>5, <2>1 DEF RoundRobinInv, Quiet, ScanFrom
<1>6. CASE UNCHANGED vars
  BY <1>1, <1>6 DEF vars, RoundRobinInv, ScanFrom, Asks
<1> QED BY <1>2, <1>3, <1>4, <1>5, <1>6 DEF Next

LEMMA NoSecondOvertaking ==
    ASSUME RoundRobinInv, [Next]_vars,
           NEW m \in Masters, NEW n \in Masters, GrantedNow(n), Asks(m), m # n
    PROVE  n \notin overtakers[m]
<1>1. Offers(n) /\ read_active = FALSE
  BY DEF GrantedNow, Next, Accepts, Accept, Stall, Delivers, Beat, Quiet, vars,
         RoundRobinInv, ArbiterInv, ArbiterTypeOK
<1>2. SUFFICES ASSUME n \in overtakers[m] PROVE FALSE
  OBVIOUS
<1>3. Distance(read_round_robin, m) < Distance(read_round_robin, n)
  BY <1>1, <1>2 DEF RoundRobinInv, ScanFrom
<1>4. Distance(read_round_robin, n) < Distance(read_round_robin, m)
  BY <1>1, <1>2, OfferedIsFirst
<1>5. read_round_robin \in Masters
  BY DEF RoundRobinInv, ArbiterInv, ArbiterTypeOK
<1> QED BY <1>3, <1>4, <1>5, Turns

\* Round robin is fair with any number of masters: whoever asks waits for at
\* most one burst of each other master.
THEOREM NobodyIsOvertakenTwice == Spec => OvertakenOnce
<1>1. RoundRobinInv /\ [Next]_vars =>
        [\A m, n \in Masters : GrantedNow(n) /\ Asks(m) /\ m # n => n \notin overtakers[m]]_vars
  BY NoSecondOvertaking
<1> QED BY <1>1, InitRoundRobin, RoundRobinStep, PTL DEF Spec, OvertakenOnce
=============================================================================
