----------------------- MODULE MCInterruptController -----------------------
(* A source that sends pulses and one that raises a level. *)
EXTENDS InterruptController

PulseSource == {1}

\* The last levels of sources without edge detection are never read.
LiveInterrupts ==
    <<irq_sources, irq_sources_q \cap EdgeSources, pending_q, in_service_q, settings,
      pc, claimed, injected, due, asked>>
=============================================================================
