----------------------------- MODULE AxiArbiter -----------------------------
(***************************************************************************)
(* axi4_4x1_arbiter: the masters of the system share one AXI4 port to the  *)
(* memory.  This is its read half, with the masters and the memory around  *)
(* it; the write half has the same control, with the write response where  *)
(* this one has the last beat.                                             *)
(*                                                                         *)
(* One step is one clock edge, named for what happens on the port: an      *)
(* address is accepted, or offered and not accepted, or a beat is taken,   *)
(* or nothing moves.  On the same edge idle masters may begin to ask.      *)
(***************************************************************************)
EXTENDS Integers

CONSTANTS
    Slots,          \* number of masters
    MaxBurst,       \* beats of the longest burst
    Quitters,       \* masters that leave a burst on an error response
    ErrorsAnywhere  \* the memory reports errors on any beat, not only the last

ASSUME ArbiterAssumption ==
    /\ Slots \in Nat \ {0} /\ MaxBurst \in Nat \ {0}
    /\ ErrorsAnywhere \in BOOLEAN

Masters == 0 .. Slots - 1

VARIABLES
    master,         \* bus state of each master: "idle", "address" or "data"
    read_active, read_owner, read_round_robin,
    read_address_pending, read_address_owner,
    beats,          \* what the memory has left to deliver of its burst
    requester,      \* whose address the memory accepted last
    overtakers      \* history: who was granted while this master was asking

vars == <<master, read_active, read_owner, read_round_robin,
          read_address_pending, read_address_owner, beats, requester, overtakers>>

Init ==
    /\ master = [m \in Masters |-> "idle"]
    /\ read_active = FALSE /\ read_owner = 0 /\ read_round_robin = 0
    /\ read_address_pending = FALSE /\ read_address_owner = 0
    /\ beats = 0 /\ requester = 0
    /\ overtakers = [m \in Masters |-> {}]

-----------------------------------------------------------------------------
(* The arbiter *)

\* s_axi_arvalid: a master that asks does so until its address is accepted.
Asks(m) == master[m] = "address"

\* Places from slot to slot, in the order of the scan.
Distance(from, to) == IF to >= from THEN to - from ELSE to - from + Slots

\* read_grant: the first that asks, from the round-robin slot on.
Granted(m) ==
    /\ Asks(m)
    /\ \A n \in Masters :
          Asks(n) => Distance(read_round_robin, m) <= Distance(read_round_robin, n)

\* A mutant: the address waiting to be accepted is not held.
OffersGranted(m) == ~read_active /\ Granted(m)

\* The address on the port (m_axi_arvalid, read_address_select) is that of m.
Offers(m) ==
    /\ ~read_active
    /\ IF read_address_pending
       THEN m = read_address_owner /\ Asks(m)
       ELSE Granted(m)

\* A mutant: fixed priority.
NextSlotZero(m) == 0

NextSlot(m) == IF m = Slots - 1 THEN 0 ELSE m + 1

-----------------------------------------------------------------------------
(* The edges *)

\* Idle masters that begin to ask (AR states of the caches and of the DMA).
Begin(asking) == [m \in Masters |-> IF m \in asking THEN "address" ELSE master[m]]

Idle == {m \in Masters : master[m] = "idle"}

\* m_axi_arready: the address is accepted and the path is m's.
Accept(m, asking) ==
    /\ Offers(m)
    /\ read_active' = TRUE
    /\ read_owner' = m
    /\ read_address_pending' = FALSE
    /\ master' = [Begin(asking) EXCEPT ![m] = "data"]
    /\ beats' \in 1 .. MaxBurst
    /\ requester' = m
    /\ overtakers' = [n \in Masters |->
          IF n = m THEN {} ELSE IF Asks(n) THEN overtakers[n] \cup {m} ELSE overtakers[n]]
    /\ UNCHANGED <<read_round_robin, read_address_owner>>

\* The memory does not accept: the address is locked.
Stall(m, asking) ==
    /\ Offers(m)
    /\ read_address_pending' = TRUE
    /\ read_address_owner' = m
    /\ master' = Begin(asking)
    /\ UNCHANGED <<read_active, read_owner, read_round_robin, beats, requester, overtakers>>

\* A mutant: any beat ends the burst.
EveryBeatLast == TRUE

RLast == beats = 1

\* A master that leaves on an error answers no further beat: its rready is low.
LeavesBurst(error) == RLast \/ (error /\ read_owner \in Quitters)

\* What the owner does after the beat.  A transfer of several bursts asks for the
\* next one at once; after an error there is none.
AfterBeat(error) ==
    IF ~LeavesBurst(error) THEN {"data"} ELSE IF error THEN {"idle"} ELSE {"idle", "address"}

\* A beat is delivered to the owner, which is ready for it.
Beat(asking, error) ==
    /\ read_active
    /\ beats > 0
    /\ master[read_owner] = "data"
    /\ error => RLast \/ ErrorsAnywhere
    /\ beats' = beats - 1
    /\ read_active' = ~RLast
    /\ read_round_robin' = IF RLast THEN NextSlot(read_owner) ELSE read_round_robin
    /\ \E next \in AfterBeat(error) :
          master' = [Begin(asking) EXCEPT ![read_owner] = next]
    /\ UNCHANGED <<read_owner, read_address_pending, read_address_owner,
                   requester, overtakers>>

\* No address is on the port and no beat is taken.
Quiet(asking) ==
    /\ \A m \in Masters : ~Offers(m)
    /\ master' = Begin(asking)
    /\ UNCHANGED <<read_active, read_owner, read_round_robin, read_address_pending,
                   read_address_owner, beats, requester, overtakers>>

Accepts  == \E m \in Masters, asking \in SUBSET Idle : Accept(m, asking)
Delivers == \E asking \in SUBSET Idle, error \in BOOLEAN : Beat(asking, error)

Next ==
    \/ Accepts
    \/ \E m \in Masters, asking \in SUBSET Idle : Stall(m, asking)
    \/ Delivers
    \/ \E asking \in SUBSET Idle : Quiet(asking)

\* The memory accepts an address in the end, and delivers each beat.
Fairness == WF_vars(Accepts) /\ WF_vars(Delivers)

Spec == Init /\ [][Next]_vars /\ Fairness

-----------------------------------------------------------------------------
(***************************************************************************)
(* Properties                                                              *)
(***************************************************************************)

\* Types.
ArbiterTypeOK ==
    /\ master \in [Masters -> {"idle", "address", "data"}]
    /\ read_active \in BOOLEAN /\ read_address_pending \in BOOLEAN
    /\ read_owner \in Masters /\ read_round_robin \in Masters
    /\ read_address_owner \in Masters /\ requester \in Masters
    /\ beats \in 0 .. MaxBurst
    /\ overtakers \in [Masters -> SUBSET Masters]

\* MEMORY_FABRIC.md: no master gets into another's burst.  What the memory delivers goes
\* to the master it was read for, and nobody else waits for data; the locked
\* address belongs to a master that still asks.
BurstHasOneReader ==
    /\ read_active <=> beats > 0
    /\ read_active => read_owner = requester
    /\ \A m \in Masters : master[m] = "data" => read_active /\ m = requester
    /\ read_address_pending => ~read_active /\ Asks(read_address_owner)

\* VERIFICATION_STATUS.md: an address once on the port stays there, unchanged, until it is
\* accepted, whoever begins to ask meanwhile.
AddressStaysUntilAccepted ==
    [][\A m \in Masters : Offers(m) /\ ~read_active' => Offers(m)']_vars

GrantedNow(n) == ~read_active /\ read_active' /\ read_owner' = n

\* Round robin: while a master asks, no other is granted twice, so that it waits
\* for at most one burst of each.
OvertakenOnce ==
    [][\A m, n \in Masters : GrantedNow(n) /\ Asks(m) /\ m # n => n \notin overtakers[m]]_vars

\* soc_dram_stress_tb: arbitration gives every reader progress.
ReadersProgress == \A m \in Masters : Asks(m) ~> master[m] = "data"
=============================================================================
