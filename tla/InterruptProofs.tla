-------------------------- MODULE InterruptProofs --------------------------
(***************************************************************************)
(* Theorems about InterruptController, for every number of sources, every  *)
(* choice of edge and level sources, and any use of the registers by the   *)
(* program.                                                                *)
(***************************************************************************)
EXTENDS InterruptController, TLAPS

\* A source in service gets no events and is no longer pending.
Masked == pending_q \cap in_service_q = {}

IInv == ControllerTypeOK /\ ServiceIsHeld /\ Masked /\ NotClaimedTwice /\ PulseIsKept

LEMMA NothingInService ==
    ASSUME IInv, pc \in {"program", "claim"} PROVE in_service_q = {}
BY DEF IInv, ServiceIsHeld

LEMMA EventTypes ==
    ASSUME ControllerTypeOK
    PROVE  /\ irq_events \subseteq Sources
           /\ irq_events \cap in_service_q = {}
BY DEF ControllerTypeOK, irq_events, Requests

\* Whatever an access sets and clears, what is pending then has asked or was set by
\* the program, unless it was in service, and pulses that wait are pending.
LEMMA RequestsAreKept ==
    ASSUME IInv, Edge, Remembered,
           NEW set \in SUBSET Sources, NEW clear, Pending(set, clear)
    PROVE  /\ irq_sources' \subseteq Sources /\ irq_sources_q' \subseteq Sources
           /\ pending_q' \subseteq Sources
           /\ injected' \subseteq Sources /\ due' \subseteq EdgeSources
           /\ asked' \subseteq Sources
           /\ pending_q' \cap in_service_q \subseteq set
           /\ pending_q' \cap clear = {}
           /\ NotClaimedTwice'
           /\ PulseIsKept'
<1>1. /\ irq_sources' \subseteq Sources /\ irq_sources_q' \subseteq Sources
      /\ pending_q' \subseteq Sources
      /\ injected' \subseteq Sources /\ due' \subseteq EdgeSources
  BY EventTypes DEF IInv, ControllerTypeOK, Edge, DevicesGoOn, Pending
<1>2. asked' \subseteq Sources
  BY DEF IInv, ControllerTypeOK, Remembered, Requests
<1>3. /\ pending_q' \cap in_service_q \subseteq set
      /\ pending_q' \cap clear = {}
  BY EventTypes DEF IInv, Masked, Pending
<1>4. PulseIsKept'
  BY DEF IInv, PulseIsKept, Pending
<1>5. NotClaimedTwice'
  <2> SUFFICES ASSUME NEW s \in pending_q', s \notin injected'
               PROVE  s \in asked'
    BY DEF NotClaimedTwice
  <2>1. s \in pending_q \cup irq_events /\ s \notin set /\ s \notin injected
    BY DEF Pending
  <2>2. s \notin in_service_q
    BY <1>3, <2>1
  <2>3. s \in asked \cup Requests
    BY <2>1 DEF IInv, NotClaimedTwice, irq_events
  <2> QED BY <2>2, <2>3 DEF Remembered
<1> QED BY <1>1, <1>2, <1>3, <1>4, <1>5

-----------------------------------------------------------------------------
(* One lemma per kind of edge: what it does to service and devices. *)

SettingsTypeOK ==
    enable_q \subseteq Sources /\ priority_q \in [Sources -> Levels] /\ threshold_q \in Levels

LEMMA SettingsStayTyped ==
    ASSUME SettingsTypeOK, WriteSettings \/ UNCHANGED settings
    PROVE  SettingsTypeOK'
<1>1. CASE UNCHANGED settings
  BY <1>1 DEF settings, SettingsTypeOK
<1>2. CASE WriteSettings
  BY <1>2 DEF WriteSettings, SettingsTypeOK
<1> QED BY <1>1, <1>2

\* An access that claims and completes nothing, as the program's and most of the
\* handler's are.
LEMMA PlainAccess ==
    ASSUME IInv, Edge, Remembered,
           NEW set \in SUBSET Sources, NEW clear, Pending(set, clear),
           set \cap in_service_q = {}, in_service_q' = in_service_q,
           WriteSettings \/ UNCHANGED settings,
           ServiceIsHeld',
           pc' \in {"program", "claim", "serve", "complete"}, claimed' \in Sources \cup {0}
    PROVE  IInv'
<1>1. SettingsTypeOK'
  BY SettingsStayTyped DEF IInv, ControllerTypeOK, SettingsTypeOK
<1>2. /\ irq_sources' \subseteq Sources /\ irq_sources_q' \subseteq Sources
      /\ pending_q' \subseteq Sources
      /\ injected' \subseteq Sources /\ due' \subseteq EdgeSources
      /\ asked' \subseteq Sources
      /\ pending_q' \cap in_service_q = {}
      /\ NotClaimedTwice' /\ PulseIsKept'
  BY RequestsAreKept
<1>3. ControllerTypeOK'
  BY <1>1, <1>2 DEF ControllerTypeOK, SettingsTypeOK, IInv
<1>4. Masked'
  BY <1>2 DEF Masked
<1> QED BY <1>2, <1>3, <1>4 DEF IInv

LEMMA ProgramKeepsIInv ==
    ASSUME IInv, Edge, Remembered, ProgramRuns PROVE IInv'
<1>1. in_service_q = {} /\ pc = "program"
  BY NothingInService DEF ProgramRuns
<1>2. /\ in_service_q' = in_service_q
      /\ WriteSettings \/ UNCHANGED settings
      /\ \E set \in SUBSET Sources, clear \in SUBSET Sources : Pending(set, clear)
  <2>1. CASE NoAccess
    BY <2>1 DEF NoAccess, settings
  <2>2. CASE WriteSettings
    BY <2>2 DEF WriteSettings
  <2>3. ASSUME NEW s \in Sources, SetPending({s}) \/ ClearPending({s})
        PROVE  <1>2
    BY <2>3 DEF SetPending, ClearPending, settings
  <2> QED BY <2>1, <2>2, <2>3 DEF ProgramRuns
<1>3. ServiceIsHeld'
  BY <1>1, <1>2 DEF ProgramRuns, ServiceIsHeld, IInv
<1>4. pc' \in {"program", "claim", "serve", "complete"} /\ claimed' \in Sources \cup {0}
  BY DEF ProgramRuns, IInv, ControllerTypeOK
<1> QED BY <1>1, <1>2, <1>3, <1>4, PlainAccess

LEMMA TrapKeepsIInv ==
    ASSUME IInv, Edge, Remembered, Trap PROVE IInv'
<1>1. in_service_q = {} /\ pc = "program" /\ pc' = "claim" /\ claimed' = claimed
  BY NothingInService DEF Trap
<1>2. /\ in_service_q' = in_service_q
      /\ WriteSettings \/ UNCHANGED settings
      /\ \E clear \in SUBSET Sources : Pending({}, clear)
  <2>1. CASE NoAccess
    BY <2>1 DEF NoAccess, settings
  <2>2. CASE WriteSettings
    BY <2>2 DEF WriteSettings
  <2>3. ASSUME NEW s \in Sources, ClearPending({s})
        PROVE  <1>2
    BY <2>3 DEF ClearPending, settings
  <2> QED BY <2>1, <2>2, <2>3 DEF Trap
<1>3. ServiceIsHeld' /\ claimed' \in Sources \cup {0}
  BY <1>1, <1>2 DEF ServiceIsHeld, IInv, ControllerTypeOK
<1> QED BY <1>1, <1>2, <1>3, PlainAccess

LEMMA WaitKeepsIInv ==
    ASSUME IInv, Edge, Remembered, HandlerWaits PROVE IInv'
<1>1. /\ pc' = pc /\ claimed' = claimed /\ in_service_q' = in_service_q
      /\ UNCHANGED settings /\ Pending({}, {})
  BY DEF HandlerWaits, NoAccess, settings
<1>2. ServiceIsHeld'
  BY <1>1 DEF ServiceIsHeld, IInv
<1>3. pc' \in {"program", "claim", "serve", "complete"} /\ claimed' \in Sources \cup {0}
  BY <1>1 DEF IInv, ControllerTypeOK
<1> QED BY <1>1, <1>2, <1>3, PlainAccess

LEMMA ServeKeepsIInv ==
    ASSUME IInv, Edge, Remembered, HandlerServes PROVE IInv'
<1>1. /\ pc = "serve" /\ pc' = "complete" /\ claimed' = claimed
      /\ in_service_q' = in_service_q /\ UNCHANGED settings /\ Pending({}, {})
  BY DEF HandlerServes, NoAccess, settings
<1>2. ServiceIsHeld'
  BY <1>1 DEF ServiceIsHeld, IInv
<1>3. claimed' \in Sources \cup {0}
  BY <1>1 DEF IInv, ControllerTypeOK
<1> QED BY <1>1, <1>2, <1>3, PlainAccess

\* The claimed source goes from pending to in service on one edge.
LEMMA ClaimKeepsIInv ==
    ASSUME IInv, Edge, Remembered, HandlerClaims PROVE IInv'
<1>1. PICK id \in Sources \cup {0} : Claim(id)
  BY DEF HandlerClaims
<1>2. /\ pc = "claim" /\ pc' = "serve" /\ claimed' = id /\ in_service_q = {}
      /\ in_service_q' = {id} \ {0}
      /\ UNCHANGED settings /\ Pending({}, {id})
  BY <1>1, NothingInService DEF HandlerClaims, Claim
<1>3. /\ irq_sources' \subseteq Sources /\ irq_sources_q' \subseteq Sources
      /\ pending_q' \subseteq Sources
      /\ injected' \subseteq Sources /\ due' \subseteq EdgeSources
      /\ asked' \subseteq Sources
      /\ pending_q' \cap {id} = {}
      /\ NotClaimedTwice' /\ PulseIsKept'
  BY <1>2, RequestsAreKept
<1>4. SettingsTypeOK'
  BY <1>2, SettingsStayTyped DEF IInv, ControllerTypeOK, SettingsTypeOK
<1>5. ServiceIsHeld'
  BY <1>2 DEF ServiceIsHeld
<1>6. Masked'
  BY <1>2, <1>3, <1>5 DEF Masked
<1>7. ControllerTypeOK'
  BY <1>2, <1>3, <1>4, <1>5 DEF ControllerTypeOK, SettingsTypeOK
<1> QED BY <1>3, <1>5, <1>6, <1>7 DEF IInv

\* After completion nothing is in service, and what the completed source had asked
\* until then is forgotten: it was masked.
LEMMA CompleteKeepsIInv ==
    ASSUME IInv, Edge, Remembered, HandlerCompletes PROVE IInv'
<1>1. /\ pc = "complete" /\ pc' = "program" /\ claimed' = 0
      /\ in_service_q' = in_service_q \ {claimed}
      /\ UNCHANGED settings /\ Pending({}, {})
  BY DEF HandlerCompletes, Complete
<1>2. in_service_q' = {}
  BY <1>1 DEF IInv, ServiceIsHeld
<1>3. /\ irq_sources' \subseteq Sources /\ irq_sources_q' \subseteq Sources
      /\ pending_q' \subseteq Sources
      /\ injected' \subseteq Sources /\ due' \subseteq EdgeSources
      /\ asked' \subseteq Sources
      /\ NotClaimedTwice' /\ PulseIsKept'
  BY <1>1, RequestsAreKept
<1>4. SettingsTypeOK'
  BY <1>1, SettingsStayTyped DEF IInv, ControllerTypeOK, SettingsTypeOK
<1>5. ServiceIsHeld'
  BY <1>1, <1>2 DEF ServiceIsHeld
<1>6. Masked'
  BY <1>2, <1>5 DEF Masked
<1>7. ControllerTypeOK'
  BY <1>1, <1>2, <1>3, <1>4, <1>5 DEF ControllerTypeOK, SettingsTypeOK
<1> QED BY <1>3, <1>5, <1>6, <1>7 DEF IInv

-----------------------------------------------------------------------------

LEMMA InitIInv == Init => IInv
BY SourceAssumption
DEF Init, IInv, ControllerTypeOK, ServiceIsHeld, Masked, NotClaimedTwice, PulseIsKept, Sources

LEMMA NextIInv == IInv /\ [Next]_vars => IInv'
<1> SUFFICES ASSUME IInv, [Next]_vars PROVE IInv'
  OBVIOUS
<1>1. CASE UNCHANGED vars
  BY <1>1 DEF vars, settings, IInv, ControllerTypeOK, ServiceIsHeld, Masked,
              NotClaimedTwice, PulseIsKept
<1>2. CASE Next
  BY <1>2, ProgramKeepsIInv, TrapKeepsIInv, WaitKeepsIInv, ServeKeepsIInv,
     ClaimKeepsIInv, CompleteKeepsIInv
  DEF Next, HandlerStep
<1> QED BY <1>1, <1>2

LEMMA SpecIInv == Spec => []IInv
BY InitIInv, NextIInv, PTL DEF Spec

\* ServiceIsHeld, for every number of sources: no source stays masked behind the
\* handler's back, whatever the scan returned to it.
THEOREM ServiceEnds == Spec => [](ControllerTypeOK /\ ServiceIsHeld)
<1>1. IInv => ControllerTypeOK /\ ServiceIsHeld
  BY DEF IInv
<1> QED BY <1>1, SpecIInv, PTL

\* NotClaimedTwice, for every number of sources and whatever the devices do with their
\* lines: a request made before its source was completed is not claimed again after it.
THEOREM NoSecondClaim == Spec => []NotClaimedTwice
<1>1. IInv => NotClaimedTwice
  BY DEF IInv
<1> QED BY <1>1, SpecIInv, PTL

\* PulseIsKept, for every number of sources: a pulse waits until it is claimed or
\* withdrawn by name.
THEOREM PulsesWait == Spec => []PulseIsKept
<1>1. IInv => PulseIsKept
  BY DEF IInv
<1> QED BY <1>1, SpecIInv, PTL
=============================================================================
