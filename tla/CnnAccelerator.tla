--------------------------- MODULE CnnAccelerator ---------------------------
(***************************************************************************)
(* cnn_input_dma and cnn_accelerator_stub: read the frame buffer in        *)
(* bursts, then take the classifier's latency and report a result.         *)
(*                                                                         *)
(* DmaEdge and StubEdge are what the two do on one clock edge.  Offsets    *)
(* are in words, and the input starts at the frame buffer.  The class and  *)
(* its number, computed from the checksum or forced, and the interrupt,    *)
(* raised with done and error, are outputs of this part and left out.      *)
(***************************************************************************)
EXTENDS EthernetRxDma

CONSTANT Latency        \* CNN_STUB_LATENCY_CYCLES

ASSUME LatencyAssumption == Latency \in Nat \ {0}

VARIABLES
    dma_state, transfer_bytes, read_offset, active_burst_beats, beat_index,
    dma_done, dma_error, dma_checksum, bytes_read,
    read_active,    \* the arbiter's read path belongs to a burst of this DMA
    cnn_busy, cnn_done, cnn_error, latency_counter, compute_active,
    dma_start, dma_input_bytes

dmaVars  == <<dma_state, transfer_bytes, read_offset, active_burst_beats,
              beat_index, dma_done, dma_error, dma_checksum, bytes_read,
              read_active>>
stubVars == <<cnn_busy, cnn_done, cnn_error, latency_counter, compute_active,
              dma_start, dma_input_bytes>>

CnnInit ==
    /\ dma_state = "DMA_IDLE"
    /\ transfer_bytes = 0 /\ read_offset = 0
    /\ active_burst_beats = 0 /\ beat_index = 0
    /\ dma_done = FALSE /\ dma_error = FALSE
    /\ dma_checksum = {} /\ bytes_read = 0
    /\ read_active = FALSE
    /\ cnn_busy = FALSE /\ cnn_done = FALSE /\ cnn_error = FALSE
    /\ latency_counter = 0 /\ compute_active = FALSE
    /\ dma_start = FALSE /\ dma_input_bytes = 0

\* planned_burst_beats
Planned == Lesser(Lesser(MaxBurst, Words(transfer_bytes - 4 * read_offset)),
                  BeatsToPageEnd(read_offset))

Finish(error) ==
    /\ dma_state' = "DMA_IDLE"
    /\ dma_done' = TRUE
    /\ dma_error' = error

BeginTransfer ==
    /\ dma_checksum' = {}
    /\ bytes_read' = 0
    /\ read_offset' = 0
    /\ beat_index' = 0
    /\ IF dma_input_bytes \notin 1 .. MaxBytes
       THEN Finish(TRUE) /\ UNCHANGED transfer_bytes
       ELSE /\ transfer_bytes' = dma_input_bytes
            /\ dma_state' = "DMA_AR"
            /\ dma_done' = FALSE
            /\ dma_error' = FALSE
    /\ UNCHANGED <<active_burst_beats, read_active>>

ReadAddress ==
    /\ active_burst_beats' = Planned
    /\ beat_index' = 0
    /\ dma_state' = "DMA_R"
    /\ dma_done' = FALSE
    /\ read_active' = TRUE
    /\ UNCHANGED <<transfer_bytes, read_offset, dma_error, dma_checksum, bytes_read>>

ExpectedLast == beat_index + 1 = active_burst_beats
TransferEnd  == 4 * (read_offset + active_burst_beats) >= transfer_bytes

\* Beats after an error are left on the read path.
ReadBeatFails ==
    /\ Finish(TRUE)
    /\ read_active' = ~ExpectedLast
    /\ UNCHANGED <<transfer_bytes, read_offset, active_burst_beats, beat_index,
                   dma_checksum, bytes_read>>

\* masked_read_data: the lanes beyond the input count for nothing.
masked_read_data ==
    LET cell == read_offset + beat_index
    IN  {<<memory[cell][lane], lane>> : lane \in LanesBefore(cell, transfer_bytes)}

ReadBeat ==
    /\ dma_checksum' = Xor(dma_checksum, masked_read_data)
    /\ read_active' = ~ExpectedLast
    /\ IF ExpectedLast /\ TransferEnd
       THEN /\ Finish(dma_error)
            /\ bytes_read' = transfer_bytes
            /\ UNCHANGED <<read_offset, beat_index>>
       ELSE /\ dma_done' = FALSE
            /\ UNCHANGED <<dma_error, bytes_read>>
            /\ IF ExpectedLast
               THEN /\ read_offset' = read_offset + active_burst_beats
                    /\ beat_index' = 0
                    /\ dma_state' = "DMA_AR"
               ELSE /\ beat_index' = beat_index + 1
                    /\ UNCHANGED <<read_offset, dma_state>>
    /\ UNCHANGED <<transfer_bytes, active_burst_beats>>

\* read is what the read channel does: nothing, or accept the address, or
\* deliver a beat, "ok" or with an error.  The arbiter grants no address while
\* a burst is unfinished.
DmaEdge(read) ==
    CASE dma_state = "DMA_IDLE" /\ dma_start -> BeginTransfer
      [] dma_state = "DMA_AR" /\ read # "none" /\ ~read_active -> ReadAddress
      [] dma_state = "DMA_R" /\ read = "ok"  -> ReadBeat
      [] dma_state = "DMA_R" /\ read = "bad" -> ReadBeatFails
      [] OTHER -> /\ dma_done' = FALSE
                  /\ UNCHANGED <<dma_state, transfer_bytes, read_offset,
                                 active_burst_beats, beat_index, dma_error,
                                 dma_checksum, bytes_read, read_active>>

-----------------------------------------------------------------------------

\* What clear_irq leaves of the error.
ErrorAfter(clear_irq) == cnn_error /\ ~clear_irq

\* A start while busy only raises the error, but it takes the edge: a dma_done
\* of the same edge is lost.
StartCnn(bytes, clear_irq) ==
    IF cnn_busy
    THEN /\ cnn_error' = TRUE
         /\ dma_start' = FALSE
         /\ UNCHANGED <<cnn_busy, compute_active, latency_counter, dma_input_bytes>>
    ELSE /\ cnn_busy' = TRUE
         /\ cnn_error' = FALSE
         /\ compute_active' = FALSE
         /\ latency_counter' = 0
         /\ dma_input_bytes' = bytes
         /\ dma_start' = TRUE

InputRead(clear_irq) ==
    /\ dma_start' = FALSE
    /\ IF dma_error
       THEN /\ cnn_busy' = FALSE
            /\ cnn_error' = TRUE
            /\ UNCHANGED <<compute_active, latency_counter>>
       ELSE /\ compute_active' = TRUE
            /\ latency_counter' = Latency
            /\ cnn_error' = ErrorAfter(clear_irq)
            /\ UNCHANGED cnn_busy
    /\ UNCHANGED dma_input_bytes

CountDown(clear_irq) ==
    /\ dma_start' = FALSE
    /\ cnn_error' = ErrorAfter(clear_irq)
    /\ latency_counter' = latency_counter - 1
    /\ UNCHANGED <<cnn_busy, compute_active, dma_input_bytes>>

Classify(clear_irq) ==
    /\ dma_start' = FALSE
    /\ cnn_error' = ErrorAfter(clear_irq)
    /\ cnn_busy' = FALSE
    /\ compute_active' = FALSE
    /\ latency_counter' = 0
    /\ UNCHANGED dma_input_bytes

Computes == cnn_busy /\ compute_active

StubEdge(start, bytes, clear_irq) ==
    /\ cnn_done' = (~start /\ Computes /\ latency_counter <= 1)
    /\ CASE start -> StartCnn(bytes, clear_irq)
         [] ~start /\ cnn_busy /\ ~compute_active /\ dma_done -> InputRead(clear_irq)
         [] ~start /\ Computes /\ latency_counter > 1  -> CountDown(clear_irq)
         [] ~start /\ Computes /\ latency_counter <= 1 -> Classify(clear_irq)
         [] OTHER -> /\ dma_start' = FALSE
                     /\ cnn_error' = ErrorAfter(clear_irq)
                     /\ UNCHANGED <<cnn_busy, compute_active, latency_counter,
                                    dma_input_bytes>>
=============================================================================
