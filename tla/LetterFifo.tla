----------------------------- MODULE LetterFifo -----------------------------
(***************************************************************************)
(* What the action queue promises: a bounded first-in first-out queue.  A  *)
(* letter offered to a full queue is refused and leaves no trace.          *)
(***************************************************************************)
EXTENDS Integers, Sequences

CONSTANTS Letters, Capacity

VARIABLE pending

Init == pending = <<>>

Accept(letter) ==
    /\ Len(pending) < Capacity
    /\ pending' = Append(pending, letter)

Deliver(letter) ==
    /\ pending # <<>>
    /\ letter = Head(pending)
    /\ pending' = Tail(pending)

Next == \E letter \in Letters : Accept(letter) \/ Deliver(letter)

Spec == Init /\ [][Next]_pending
=============================================================================
