----------------------------- MODULE FramePath -----------------------------
(***************************************************************************)
(* The way of a camera frame: the Ethernet receive DMA writes it to the    *)
(* frame buffer, keeps the buffer for the CNN, and the CNN reads it.       *)
(* soc_core_top connects the two; the CONTROL register of the CNN page of  *)
(* soc_mmio_subsystem enables the automatic start.                         *)
(*                                                                         *)
(* One step is one clock edge.  The environment is free: the stream offers *)
(* a beat at any time and holds it until it is taken (valid/ready), the    *)
(* memory takes its time and may fail, software may write CONTROL on any   *)
(* edge.                                                                   *)
(***************************************************************************)
EXTENDS CnnAccelerator

CONSTANTS
    FrameLengths,   \* beats of the frames the camera sends
    MiddleKeeps,    \* the byte lanes kept in beats before the last one
    LastKeeps,      \* and in the last one; no lanes make a beat invalid
    ControlWrites,  \* the values software writes to CONTROL
    ManualBytes,    \* INPUT_BYTES, the length of a manual start
    NoWrite

ASSUME PathAssumption ==
    /\ FrameLengths \subseteq Nat \ {0}
    /\ MiddleKeeps \subseteq SUBSET Lanes /\ LastKeeps \subseteq SUBSET Lanes
    /\ ControlWrites \subseteq [start : BOOLEAN, auto : BOOLEAN, clear : BOOLEAN]
    /\ ManualBytes \in Nat

VARIABLES
    offered,        \* the beat on the stream, or NoBeat
    frame, place,   \* the frame being sent and its next beat
    cnn_auto_start_enable, cnn_manual_start, cnn_clear_irq,
    run             \* history: the input of the CNN's run

sourceVars  == <<offered, frame, place>>
controlVars == <<cnn_auto_start_enable, cnn_manual_start, cnn_clear_irq>>
vars == <<rxVars, dmaVars, stubVars, sourceVars, controlVars, run>>

NoRun == [checksum |-> {}, bytes |-> 0, owner |-> FALSE]

Init ==
    /\ RxInit
    /\ CnnInit
    /\ offered = NoBeat
    /\ frame = 0 /\ place = 0
    /\ cnn_auto_start_enable = TRUE
    /\ cnn_manual_start = FALSE
    /\ cnn_clear_irq = FALSE
    /\ run = NoRun

BeatOf(keep, last) ==
    [content |-> <<frame, Lesser(place, MaxBeats)>>, keep |-> keep, last |-> last]

MayEnd  == place + 1 \in FrameLengths
MayGoOn == \E length \in FrameLengths : place + 1 < length

\* What may be offered next: a beat, or none.
Offers ==
    {NoBeat} \cup {BeatOf(keep, TRUE) : keep \in {lanes \in LastKeeps : MayEnd}}
             \cup {BeatOf(keep, FALSE) : keep \in {lanes \in MiddleKeeps : MayGoOn}}

Taken == offered # NoBeat /\ eth_rx_ready

\* The stream moves on when its beat is taken, and may offer the next on the
\* same edge; a beat that is not taken stays.
Stream ==
    /\ \/ ~Taken /\ UNCHANGED <<frame, place>>
       \/ Taken /\ offered.last /\ frame' = NextFrame(frame) /\ place' = 0
       \/ Taken /\ ~offered.last /\ place' = place + 1 /\ UNCHANGED frame
    /\ \/ offered # NoBeat /\ ~Taken /\ UNCHANGED offered
       \/ (offered = NoBeat \/ Taken) /\ offered' \in Offers'

-----------------------------------------------------------------------------
(* The connections in soc_core_top *)

FrameStarts == frame_done /\ ~frame_error /\ cnn_auto_start_enable

cnn_start_selected == cnn_manual_start \/ FrameStarts

cnn_input_bytes_selected == IF cnn_manual_start THEN ManualBytes ELSE frame_bytes

\* A mutant: the buffer is released as soon as the CNN starts.
ReleasedAtStart == dma_start \/ cnn_error

\* A mutant: the buffer is not released when the CNN fails.
ReleasedWhenDone == cnn_done

frame_release == cnn_done \/ cnn_error

\* CONTROL: the start and the clear are pulses of one cycle.
Control(write) ==
    IF write = NoWrite
    THEN /\ cnn_manual_start' = FALSE
         /\ cnn_clear_irq' = FALSE
         /\ UNCHANGED cnn_auto_start_enable
    ELSE /\ cnn_manual_start' = write.start
         /\ cnn_clear_irq' = write.clear
         /\ cnn_auto_start_enable' = write.auto

\* What the run that begins on this edge is to read, and whether the buffer is
\* its own: the run was started by a frame, which is held, and neither the end
\* or the error of an earlier run nor a start refused during this one, which
\* raises an error too, releases the buffer.
RecordRun ==
    run' = IF cnn_start_selected /\ ~cnn_busy
           THEN [checksum |-> frame_checksum, bytes |-> frame_bytes,
                 owner |-> ~cnn_manual_start /\ frame_buffer_held /\ ~frame_release]
           ELSE [run EXCEPT !.owner = @ /\ cnn_busy /\ ~cnn_error]

Edge(write, axi, read) ==
    /\ Control(write)
    /\ RxEdge(offered, axi, cnn_auto_start_enable, frame_release)
    /\ DmaEdge(read)
    /\ StubEdge(cnn_start_selected, cnn_input_bytes_selected, cnn_clear_irq)
    /\ Stream
    /\ RecordRun

\* Inputs are looked at in these states only.
WriteChannel == rx_state \in {"AXI_AW", "AXI_W", "AXI_B"}
ReadChannel  == dma_state \in {"DMA_AR", "DMA_R"}

AxiInput ==
    IF ~WriteChannel THEN {"none"}
    ELSE IF rx_state = "AXI_B" THEN {"none", "ok", "bad"} ELSE {"none", "ok"}

\* An error response of the memory comes on the last beat of a burst: after one
\* in the middle the DMA does not take the rest, and the read path stays locked.
ReadInput ==
    IF ~ReadChannel THEN {"none"}
    ELSE IF dma_state = "DMA_R" /\ ExpectedLast THEN {"none", "ok", "bad"}
    ELSE {"none", "ok"}

Next ==
    \E write \in ControlWrites \cup {NoWrite}, axi \in AxiInput, read \in ReadInput :
        Edge(write, axi, read)

\* The memory answers: an edge on which no channel that waits is left waiting.
ServedEdge ==
    \E write \in ControlWrites \cup {NoWrite}, axi \in AxiInput, read \in ReadInput :
        /\ WriteChannel => axi # "none"
        /\ ReadChannel => read # "none"
        /\ Edge(write, axi, read)

Fairness == WF_vars(ServedEdge)

Spec == Init /\ [][Next]_vars /\ Fairness

-----------------------------------------------------------------------------
(***************************************************************************)
(* Properties                                                              *)
(***************************************************************************)

\* Types, and the bounds that hold whatever beats the stream sends: no more
\* bytes are counted, and no more words written, than the buffer takes bytes, a
\* burst is no longer than the burst buffer and does not cross the end of a page,
\* and the CNN reads no more words than the buffer has.
PathTypeOK ==
    /\ rx_state \in {"RX_COLLECT", "AXI_AW", "AXI_W", "AXI_B", "RX_DROP"}
    /\ burst \in Seq([content : Contents, keep : SUBSET Lanes])
    /\ memory \in [Cells -> [Lanes -> Contents]]
    /\ frame_bytes \in 0 .. MaxBytes
    /\ Len(burst) <= MaxBurst /\ Len(burst) <= BeatsToPageEnd(write_offset)
    /\ write_offset + Len(burst) <= MaxBytes
    /\ WriteChannel => write_beat_index < Len(burst)
    /\ dma_state = "DMA_R" =>
          /\ beat_index < active_burst_beats
          /\ read_offset + active_burst_beats <= MaxBeats
          /\ active_burst_beats <= BeatsToPageEnd(read_offset)

\* MMIO_REGISTERS.md: of an over-long frame nothing is written beyond the frame
\* buffer.  The limit counts kept bytes and the address counts words, so this
\* needs a stream that keeps every lane of a beat before the last of its frame.
WritesStayInBuffer ==
    rx_state = "AXI_W" => write_offset + write_beat_index \in Cells

\* The last beat of a frame was taken and the frame is not reported yet.
Unreported == WriteChannel /\ after_burst \in {"last", "bad"}

\* MMIO_REGISTERS.md: malformed and over-long frames are absorbed up to `last`, and
\* SEQUENCE is the completed frame count: the frames reported are the frames
\* sent, one for one, and what is left of a bad frame is no frame.
FramesAccounted ==
    frame = IF Unreported THEN NextFrame(frame_sequence) ELSE frame_sequence

PreviousFrame == CHOOSE number \in Frames : NextFrame(number) = frame

\* The first bytes of a frame.
FrameBytes(number, bytes) ==
    {byte \in ({number} \X Cells) \X Lanes : byte[2] \in LanesBefore(byte[1][2], bytes)}

\* A frame reported as good is in memory, whole, in order and unmixed with an
\* earlier or a bad one, and its byte count and checksum are those of its bytes.
GoodFrameIsWhole ==
    frame_done /\ ~frame_error =>
        /\ frame_bytes > 0
        /\ \A cell \in Cells : \A lane \in LanesBefore(cell, frame_bytes) :
              memory[cell][lane] = <<PreviousFrame, cell>>
        /\ frame_checksum = FrameBytes(PreviousFrame, frame_bytes)

\* The CNN classifies the frame it was started for: while it owns the buffer,
\* no later frame gets into what it reads, and it reads all of it.
ClassifiesItsFrame ==
    cnn_done /\ run.owner => dma_checksum = run.checksum /\ bytes_read = run.bytes

\* The automatic start was switched off between the end of a frame, which is
\* held for the CNN, and its report, which then does not start the CNN.
Abandoned == frame_done /\ frame_buffer_held /\ ~cnn_auto_start_enable

\* The stream goes on: beats are taken again and again, whatever errors the
\* memory and software cause, unless the CNN was not started for a held frame;
\* then the stream stops for good, unless software starts the CNN.
StreamGoesOn ==
    []<>eth_rx_ready \/ <>(Abandoned /\ []~eth_rx_ready)
=============================================================================
