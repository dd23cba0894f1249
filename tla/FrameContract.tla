---------------------------- MODULE FrameContract ----------------------------
(***************************************************************************)
(* What one real-time hand controller promises its host, without banks,    *)
(* registers or cycles.  The host offers complete command images, and an   *)
(* offer stands until the host replaces or flushes it or a frame takes it; *)
(* a frame takes the image on offer, at most once, and nothing but the     *)
(* words of that one image leaves on the wire; a frame ends by             *)
(* publishing one feedback record under its own number, and a record       *)
(* marked "complete" holds the answer to a frame whose whole command went  *)
(* out, and nothing else.                                                  *)
(*                                                                         *)
(* The controller is synchronous, so offers and frames move together in    *)
(* one step: the specification is a conjunction of what may happen to each *)
(* on a step, not a choice between them.                                   *)
(***************************************************************************)
EXTENDS Naturals, Sequences

CONSTANTS
    WordIndex,   \* positions of the words of a command image
    Payload,     \* contents of a word
    FrameMod,    \* frame numbers wrap at this value
    ParamIndex   \* positions of the parameters of a feedback record

Image    == [WordIndex -> Payload]
Frames   == 0 .. FrameMod - 1
Verdicts == {"none", "stale", "error", "complete", "deadline", "aborted"}
Record   == [head : Frames, status : Verdicts, tail : Frames,
             payload : [ParamIndex -> Frames]]

VARIABLES
    pending,    \* the image on offer: a set of at most one
    commits,    \* parity of the commits accepted
    flushes,    \* parity of the flushes
    inflight,   \* the image a running frame still transmits
    wire,       \* words sent in the running, or else the last, frame
    frame,      \* number of that frame
    busy,       \* a frame is running
    published   \* the record the host reads

vars == <<pending, commits, flushes, inflight, wire, frame, busy, published>>

Init ==
    /\ pending = {}
    /\ commits = 0
    /\ flushes = 0
    /\ inflight = {}
    /\ wire = <<>>
    /\ frame = 0
    /\ busy = FALSE
    /\ published \in Record

-----------------------------------------------------------------------------
\* The host's side: the offer stands, is replaced, or is flushed.  A commit under
\* the number of the command sent last offers nothing new.
Keep == UNCHANGED <<pending, commits, flushes>>

Replace ==
    /\ commits' = 1 - commits /\ flushes' = flushes
    /\ \/ \E image \in Image : pending' = {image}
       \/ pending' = {}

Flush ==
    /\ flushes' = 1 - flushes /\ commits' \in {commits, 1 - commits}
    /\ pending' = {}

Offer == Keep \/ Replace \/ Flush

\* A frame uses the offer up.  What is on offer afterwards is new.
Take == pending' = {} /\ UNCHANGED <<commits, flushes>>

-----------------------------------------------------------------------------
\* The controller's side.

Idle ==
    /\ ~busy
    /\ Offer
    /\ UNCHANGED <<inflight, wire, frame, busy, published>>

\* A frame that transmits the image on offer.
Start ==
    /\ ~busy
    /\ pending # {}
    /\ Take \/ Replace \/ Flush
    /\ inflight' = pending
    /\ wire' = <<>>
    /\ frame' = (frame + 1) % FrameMod
    /\ busy' = TRUE
    /\ UNCHANGED published

\* A frame that transmits nothing: there is no offer, or it comes too late.
StartStale ==
    /\ ~busy
    /\ Take \/ Replace \/ Flush
    /\ inflight' = {}
    /\ wire' = <<>>
    /\ frame' = (frame + 1) % FrameMod
    /\ busy' = TRUE
    /\ UNCHANGED published

\* The frame goes on: at most the next word of its image leaves.
Transmit ==
    /\ busy
    /\ Offer
    /\ \/ wire' = wire
       \/ /\ Len(wire) \in WordIndex
          /\ \E image \in inflight : wire' = Append(wire, image[Len(wire)])
    /\ inflight' \in {inflight, {}}
    /\ UNCHANGED <<frame, busy, published>>

Truthful(record) ==
    /\ record.head = frame /\ record.tail = frame
    /\ record.status = "complete" =>
         /\ Len(wire) \notin WordIndex
         /\ \A p \in ParamIndex : record.payload[p] = frame

Publish ==
    /\ busy
    /\ Offer
    /\ published' \in Record
    /\ Truthful(published')
    /\ busy' = FALSE
    /\ inflight' = {}
    /\ UNCHANGED <<wire, frame>>

Next == Idle \/ Start \/ StartStale \/ Transmit \/ Publish

Spec == Init /\ [][Next]_vars
=============================================================================
