---------------------------- MODULE MCFramePath ----------------------------
(***************************************************************************)
(* Model checking of FramePath: bursts of two beats, a page boundary that  *)
(* cuts the second burst short, and frames up to one beat too long.  Only  *)
(* the last beat of a frame may be partial or empty, or, for RX_DROP, any. *)
(***************************************************************************)
EXTENDS FramePath

Writes(start, auto, clear) == [start |-> start, auto |-> auto, clear |-> clear]

\* The write of the CNN port: clear, and with it the automatic start is off;
\* and a manual start, which leaves it on.
PortAndDriver == {Writes(FALSE, FALSE, TRUE), Writes(TRUE, TRUE, FALSE)}

FullKeeps        == {Lanes}
FullPartialEmpty == {Lanes, {0}, {}}
FullOrEmpty      == {Lanes, {}}

\* A stream that is not run here: beats that keep one byte of their word.
SparseKeeps == {{0}}

\* Two states with the same view have the same future but for the names of
\* frames, which are numbered from the one being sent: registers that are
\* written before they are next read, and what a run that does not own the
\* buffer has read, are left out.
Kept(needed, value) == IF needed THEN value ELSE NoFrame

Age(number)    == IF number = NoFrame THEN NoFrame
                  ELSE (frame + FrameMod - number) % FrameMod
Aged(content)  == <<Age(content[1]), content[2]>>
AgedBytes(set) == {<<Aged(byte[1]), byte[2]>> : byte \in set}

InFrame == ~FirstFrameBeat \/ WriteChannel
Reading == run.owner /\ cnn_busy /\ ~cnn_error
Good    == frame_done /\ ~frame_error

\* The words of the burst that are not written yet, which will be.
Unwritten(cell, lane) ==
    LET place_in_burst == cell - write_offset + 1
    IN  /\ place_in_burst \in 1 + (IF rx_state = "AXI_W" THEN write_beat_index ELSE 0)
                              .. (IF rx_state = "AXI_B" THEN 0 ELSE Len(burst))
        /\ lane \in burst[place_in_burst].keep

ByteKept(cell, lane) ==
    \/ /\ ~current_frame_bad /\ cell < write_offset + Len(burst)
       /\ ~Unwritten(cell, lane)
       /\ Unreported => lane \in LanesBefore(cell, frame_bytes)
    \/ Good /\ lane \in LanesBefore(cell, frame_bytes)
    \/ Reading /\ lane \in LanesBefore(cell, run.bytes)

LivePath ==
    <<rx_state, [i \in DOMAIN burst |-> <<Aged(burst[i].content), burst[i].keep>>],
      Kept(rx_state = "AXI_W", write_beat_index), write_offset,
      Kept(WriteChannel, after_burst), current_frame_bad, frame_done, frame_error,
      Kept(InFrame \/ Good, frame_bytes),
      Kept((InFrame /\ ~current_frame_bad) \/ Good, AgedBytes(frame_checksum)),
      Age(frame_sequence), frame_buffer_held,
      [cell \in Cells |->
          [lane \in Lanes |-> Kept(ByteKept(cell, lane), Aged(memory[cell][lane]))]],
      dma_state, dma_done, Kept(dma_done, dma_error), read_active,
      Kept(ReadChannel, <<transfer_bytes, read_offset>>),
      Kept(dma_state = "DMA_R", <<active_burst_beats, beat_index>>),
      Kept(run.owner, <<AgedBytes(run.checksum), run.bytes, AgedBytes(dma_checksum), bytes_read>>),
      cnn_busy, cnn_done, cnn_error, latency_counter, compute_active,
      dma_start, Kept(dma_start, dma_input_bytes),
      IF offered = NoBeat THEN NoBeat ELSE <<offered.keep, offered.last>>,
      place, controlVars, run.owner>>
=============================================================================
