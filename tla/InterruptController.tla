------------------------ MODULE InterruptController ------------------------
(***************************************************************************)
(* local_interrupt_controller between the devices, which raise a level or  *)
(* send a pulse, and the one hart, whose trap handler claims a source,     *)
(* serves its device and completes the source.                             *)
(*                                                                         *)
(* One step is one clock edge.  Each carries the handler a step on or lets *)
(* it wait, and while no handler runs the interrupted program may access   *)
(* the registers.  A register of one bit per source is a set of sources.   *)
(***************************************************************************)
EXTENDS Integers, FiniteSets

CONSTANTS
    NUM_SOURCES,    \* sources are numbered from 1, as CLAIM returns them
    EdgeSources,    \* RESET_EDGE: sources that send pulses
    Levels          \* values of priorities and threshold

Sources == 1 .. NUM_SOURCES

ASSUME SourceAssumption ==
    /\ NUM_SOURCES \in Nat \ {0}
    /\ EdgeSources \subseteq Sources
    /\ Levels \subseteq Nat /\ {0, 1} \subseteq Levels

LevelSources == Sources \ EdgeSources

VARIABLES
    irq_sources,    \* what the devices drive
    irq_sources_q, pending_q, in_service_q, enable_q, priority_q, threshold_q,
    pc,             \* handler: "program" (none), "claim", "serve", "complete"
    claimed,        \* what the handler's claim returned
    injected,       \* history: sources the program set pending itself
    due,            \* history: edge sources whose pulse waits to be claimed
    asked           \* history: sources that asked after their last service ended

settings == <<enable_q, priority_q, threshold_q>>
vars == <<irq_sources, irq_sources_q, pending_q, in_service_q, settings,
          pc, claimed, injected, due, asked>>

Init ==
    /\ irq_sources = {} /\ irq_sources_q = {}
    /\ pending_q = {} /\ in_service_q = {}
    /\ enable_q = Sources
    /\ priority_q = [s \in Sources |-> 1] /\ threshold_q = 0
    /\ pc = "program" /\ claimed = 0
    /\ injected = {} /\ due = {} /\ asked = {}

-----------------------------------------------------------------------------
(* The controller *)

\* The sources the scan may choose.
Candidates ==
    {s \in pending_q \cap enable_q : s \notin in_service_q /\ priority_q[s] > threshold_q}

\* Highest priority first, then the lowest number.
Precedes(s, t) ==
    priority_q[s] > priority_q[t] \/ (priority_q[s] = priority_q[t] /\ s <= t)

\* The scan's choice; 0 if there is none.
best_source(id) ==
    \/ id \in Candidates /\ \A t \in Candidates : Precedes(id, t)
    \/ id = 0 /\ Candidates = {}

external_interrupt == Candidates # {}

\* What asks on an edge: a level that is high, a pulse that starts.
Requests == (irq_sources \ EdgeSources) \cup ((irq_sources \ irq_sources_q) \cap EdgeSources)

\* A mutant: sources in service are not masked.
EventsUnmasked == Requests

irq_events == Requests \ in_service_q

-----------------------------------------------------------------------------
(* The devices, which raise and drop their lines at any time *)

DevicesGoOn == irq_sources' \in SUBSET Sources

-----------------------------------------------------------------------------
(* Register accesses, one at an edge *)

\* What an access does to pending bits and to what is remembered of them.
Pending(set, clear) ==
    /\ pending_q' = (pending_q \cup irq_events \cup set) \ clear
    /\ injected' = (injected \cup set) \ clear
    /\ due' = (due \cup (irq_events \cap EdgeSources)) \ clear

NoAccess == Pending({}, {}) /\ UNCHANGED <<in_service_q, settings>>

\* Read of CLAIM.
Claim(id) ==
    /\ best_source(id)
    /\ Pending({}, {id})
    /\ in_service_q' = in_service_q \cup ({id} \ {0})
    /\ claimed' = id
    /\ UNCHANGED settings

\* A mutant: sources are counted from 0 here.
CompleteNext(id) ==
    /\ Pending({}, {})
    /\ in_service_q' = in_service_q \ {id + 1}
    /\ UNCHANGED settings

\* Write of CLAIM; 0 is no source.
Complete(id) ==
    /\ Pending({}, {})
    /\ in_service_q' = in_service_q \ {id}
    /\ UNCHANGED settings

\* A mutant: an event on the edge of the write is dropped.
SetPendingOnly(set) ==
    /\ pending_q' = pending_q \cup set
    /\ injected' = injected \cup set
    /\ due' = due \cup (irq_events \cap EdgeSources)
    /\ UNCHANGED <<in_service_q, settings>>

SetPending(set) == Pending(set, {}) /\ UNCHANGED <<in_service_q, settings>>

ClearPending(clear) == Pending({}, clear) /\ UNCHANGED <<in_service_q, settings>>

WriteSettings ==
    /\ Pending({}, {})
    /\ \/ enable_q' \in SUBSET Sources /\ UNCHANGED <<priority_q, threshold_q>>
       \/ threshold_q' \in Levels /\ UNCHANGED <<enable_q, priority_q>>
       \/ \E s \in Sources, p \in Levels :
             /\ priority_q' = [priority_q EXCEPT ![s] = p]
             /\ UNCHANGED <<enable_q, threshold_q>>
    /\ UNCHANGED in_service_q

-----------------------------------------------------------------------------
(* The hart *)

Edge == irq_sources_q' = irq_sources /\ DevicesGoOn

\* The interrupted program, which may access any register.
ProgramRuns ==
    /\ pc = "program"
    /\ \/ NoAccess \/ WriteSettings
       \/ \E s \in Sources : SetPending({s}) \/ ClearPending({s})
    /\ UNCHANGED <<pc, claimed>>

HandlerWaits == pc # "program" /\ NoAccess /\ UNCHANGED <<pc, claimed>>

\* The trap; the program's last access may still be on its way.
Trap ==
    /\ pc = "program" /\ external_interrupt
    /\ NoAccess \/ WriteSettings \/ \E s \in Sources : ClearPending({s})
    /\ pc' = "claim"
    /\ UNCHANGED claimed

HandlerClaims ==
    /\ pc = "claim"
    /\ \E id \in Sources \cup {0} : Claim(id)
    /\ pc' = "serve"

\* The device of the claimed source is served.
HandlerServes ==
    /\ pc = "serve" /\ NoAccess
    /\ pc' = "complete"
    /\ UNCHANGED claimed

HandlerCompletes ==
    /\ pc = "complete"
    /\ Complete(claimed)
    /\ pc' = "program"
    /\ claimed' = 0

HandlerStep == Trap \/ HandlerClaims \/ HandlerServes \/ HandlerCompletes

\* A request made before its source leaves service is answered by that service.
Remembered == asked' = (asked \cup Requests) \ (in_service_q \ in_service_q')

Next == Edge /\ (ProgramRuns \/ HandlerWaits \/ HandlerStep) /\ Remembered

\* The clock runs; the hart takes the trap and runs the handler.
Fairness == WF_vars(Next) /\ WF_vars(Edge /\ HandlerStep /\ Remembered)

Spec == Init /\ [][Next]_vars /\ Fairness

-----------------------------------------------------------------------------
(***************************************************************************)
(* Properties                                                              *)
(***************************************************************************)

\* Types.
ControllerTypeOK ==
    /\ irq_sources \subseteq Sources /\ irq_sources_q \subseteq Sources
    /\ pending_q \subseteq Sources /\ in_service_q \subseteq Sources
    /\ enable_q \subseteq Sources
    /\ priority_q \in [Sources -> Levels] /\ threshold_q \in Levels
    /\ pc \in {"program", "claim", "serve", "complete"}
    /\ claimed \in Sources \cup {0}
    /\ injected \subseteq Sources /\ due \subseteq EdgeSources /\ asked \subseteq Sources

\* MMIO_REGISTERS.md: the handler gets its source from CLAIM and writes it back.  What
\* is in service is what the handler holds, so that no source stays masked.
ServiceIsHeld ==
    in_service_q = (IF pc \in {"serve", "complete"} THEN {claimed} ELSE {}) \ {0}

\* interrupt_timer_tb: a completed source does not become pending again, unless its device
\* still asks after the completion.  So no request is claimed twice: whatever is pending has
\* asked since the last service of its source ended, or was set pending by the program.
\* (It may have stopped asking since: a pending bit outlives the level that set it.)
NotClaimedTwice == pending_q \subseteq asked \cup injected

\* interrupt_timer_tb: an edge pulse remains pending after the source drops.  No access to
\* the controller that does not name the source takes the pulse away.
PulseIsKept == due \subseteq pending_q

Asks(s) == s \in due \cup (irq_sources \cap LevelSources)

Deliverable(s) == s \in enable_q /\ priority_q[s] > threshold_q

\* The program takes s away, or keeps it from getting pending.
Withdrawn(s) == pc = "program" /\ s \in (pending_q \cup irq_events) \ pending_q'

\* A source that keeps asking, is let through and not withdrawn for ever is
\* claimed, or others that precede it are claimed again and again.
ServedUnlessOvertaken ==
    \A s \in Sources :
        \/ []<>~(Deliverable(s) /\ Asks(s))
        \/ []<><<Withdrawn(s)>>_vars
        \/ []<>(claimed # 0 /\ Precedes(claimed, s))
=============================================================================
