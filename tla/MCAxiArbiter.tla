---------------------------- MODULE MCAxiArbiter ----------------------------
(* The four slots: instruction cache, data cache, DMA, and the reserved one. *)
EXTENDS AxiArbiter

DmaSlot == {2}
=============================================================================
