--------------------------- MODULE EthernetRxDma ---------------------------
(***************************************************************************)
(* ethernet_rx_dma_shell: collects a stream of beats into bursts, writes   *)
(* them to the frame buffer and reports each frame, good or bad.           *)
(*                                                                         *)
(* RxEdge is one clock edge.  A beat is a word of four byte lanes, of which *)
(* some are kept; frame_bytes counts kept bytes, offsets count words.  The *)
(* content of a word is the frame it belongs to and its place there, and a *)
(* byte is the content of its word and its lane.  The XOR checksum is the  *)
(* symmetric difference of the bytes.  The burst buffer is the sequence of *)
(* its words, whose length stands for buffered_beats and                   *)
(* active_burst_beats.  The flags burst_contains_last, drop_after_burst    *)
(* and finish_bad_after_burst, which are assigned together, are one: what  *)
(* follows the burst.                                                      *)
(***************************************************************************)
EXTENDS Integers, Sequences, FiniteSets

CONSTANTS
    MaxBytes,       \* MAX_FRAME_BYTES, and MAX_INPUT_BYTES of the CNN
    MaxBurst,       \* MAX_BURST_BEATS
    PageBeats,      \* 4096 bytes; the buffer starts at the start of a page
    FrameMod,       \* frames are numbered modulo this
    NoBeat, NoFrame

ASSUME RxAssumption ==
    /\ MaxBytes \in Nat \ {0} /\ MaxBurst \in 1 .. 256
    /\ PageBeats \in Nat \ {0} /\ FrameMod \in Nat \ {0, 1}

VARIABLES
    rx_state, burst, write_beat_index, write_offset, after_burst,
    current_frame_bad, frame_done, frame_error, frame_bytes, frame_checksum,
    frame_sequence, frame_buffer_held,
    memory          \* the frame buffer in DRAM

rxVars == <<rx_state, burst, write_beat_index, write_offset, after_burst,
            current_frame_bad, frame_done, frame_error, frame_bytes,
            frame_checksum, frame_sequence, frame_buffer_held, memory>>

Lanes == 0 .. 3

\* The words that so many bytes take.
Words(bytes) == (bytes + 3) \div 4

\* The lanes of a word that are among the first bytes of the buffer.
LanesBefore(cell, bytes) == {lane \in Lanes : 4 * cell + lane < bytes}

MaxBeats == Words(MaxBytes)

Frames   == 0 .. FrameMod - 1
Cells    == 0 .. MaxBeats - 1
Contents == (Frames \cup {NoFrame}) \X (0 .. MaxBeats)

NextFrame(number) == (number + 1) % FrameMod
Lesser(a, b)      == IF a < b THEN a ELSE b
Xor(a, b)         == (a \ b) \cup (b \ a)

RxInit ==
    /\ rx_state = "RX_COLLECT"
    /\ burst = <<>>
    /\ write_beat_index = 0
    /\ write_offset = 0
    /\ after_burst = "more"
    /\ current_frame_bad = FALSE
    /\ frame_done = FALSE
    /\ frame_error = FALSE
    /\ frame_bytes = 0
    /\ frame_checksum = {}
    /\ frame_sequence = 0
    /\ frame_buffer_held = FALSE
    /\ memory = [cell \in Cells |-> [lane \in Lanes |-> <<NoFrame, cell>>]]

BeatsToPageEnd(offset) == PageBeats - (offset % PageBeats)

\* collect_limit
CollectLimit == Lesser(MaxBurst, BeatsToPageEnd(write_offset))

eth_rx_ready ==
    ~frame_buffer_held /\ rx_state = "RX_COLLECT" /\ Len(burst) < CollectLimit

FirstFrameBeat == write_offset = 0 /\ burst = <<>>

Accepted == IF FirstFrameBeat THEN 0 ELSE frame_bytes

Bit(lane, keep) == IF lane \in keep THEN 1 ELSE 0

keep_count(keep) == Bit(0, keep) + Bit(1, keep) + Bit(2, keep) + Bit(3, keep)

\* The bytes of a beat that count: those of the lanes it keeps.
masked_data(beat) == {<<beat.content, lane>> : lane \in beat.keep}

\* A mutant: the limit is compared before the beat is counted.
InvalidTooLate(beat) == keep_count(beat.keep) = 0 \/ Accepted > MaxBytes

\* incoming_invalid: no byte lanes, or more bytes than the buffer takes
Invalid(beat) ==
    keep_count(beat.keep) = 0 \/ Accepted + keep_count(beat.keep) > MaxBytes

\* A mutant: only good frames are counted.
ReportCountsGood(error) ==
    /\ frame_done' = TRUE
    /\ frame_error' = error
    /\ frame_sequence' = IF error THEN frame_sequence ELSE NextFrame(frame_sequence)
    /\ write_offset' = 0
    /\ current_frame_bad' = FALSE

Report(error) ==
    /\ frame_done' = TRUE
    /\ frame_error' = error
    /\ frame_sequence' = NextFrame(frame_sequence)
    /\ write_offset' = 0
    /\ current_frame_bad' = FALSE

NoReport ==
    /\ frame_done' = FALSE
    /\ frame_error' = FALSE
    /\ UNCHANGED frame_sequence

\* An invalid beat ends the collection: what is buffered is written first.
Reject(beat) ==
    /\ UNCHANGED <<burst, frame_bytes, frame_checksum, memory>>
    /\ IF burst = <<>> /\ beat.last
       THEN Report(TRUE) /\ UNCHANGED <<rx_state, write_beat_index, after_burst>>
       ELSE /\ NoReport
            /\ current_frame_bad' = TRUE
            /\ UNCHANGED write_offset
            /\ IF burst = <<>>
               THEN rx_state' = "RX_DROP"
                    /\ UNCHANGED <<write_beat_index, after_burst>>
               ELSE /\ rx_state' = "AXI_AW"
                    /\ write_beat_index' = 0
                    /\ after_burst' = IF beat.last THEN "bad" ELSE "drop"

Accept(beat) ==
    /\ NoReport
    /\ burst' = Append(burst, [content |-> beat.content, keep |-> beat.keep])
    /\ frame_bytes' = Accepted + keep_count(beat.keep)
    /\ frame_checksum' = IF FirstFrameBeat THEN masked_data(beat)
                         ELSE Xor(frame_checksum, masked_data(beat))
    /\ IF beat.last \/ Len(burst) + 1 = CollectLimit
       THEN /\ rx_state' = "AXI_AW"
            /\ write_beat_index' = 0
            /\ after_burst' = IF beat.last THEN "last" ELSE "more"
       ELSE UNCHANGED <<rx_state, write_beat_index, after_burst>>
    /\ UNCHANGED <<write_offset, current_frame_bad, memory>>

Address ==
    /\ NoReport
    /\ write_beat_index' = 0
    /\ rx_state' = "AXI_W"
    /\ UNCHANGED <<burst, write_offset, after_burst, current_frame_bad,
                   frame_bytes, frame_checksum, memory>>

\* A word of the buffer after the strobed lanes of a write.
Strobed(cell, keep, content) ==
    [lane \in Lanes |-> IF lane \in keep THEN content ELSE memory[cell][lane]]

\* A write beyond the frame buffer leaves the buffer as it is.
WriteBeat ==
    /\ NoReport
    /\ LET beat == burst[write_beat_index + 1]
       IN  memory' = [cell \in Cells |->
                         IF cell = write_offset + write_beat_index
                         THEN Strobed(cell, beat.keep, beat.content)
                         ELSE memory[cell]]
    /\ IF write_beat_index + 1 = Len(burst)
       THEN rx_state' = "AXI_B" /\ UNCHANGED write_beat_index
       ELSE write_beat_index' = write_beat_index + 1 /\ UNCHANGED rx_state
    /\ UNCHANGED <<burst, write_offset, after_burst, current_frame_bad,
                   frame_bytes, frame_checksum>>

\* A mutant: an error of an earlier burst of the frame is forgotten.
FailedNow(ok) == ~ok \/ after_burst = "bad"

\* The error a finished frame is reported with.
Failed(ok) == current_frame_bad \/ ~ok \/ after_burst = "bad"

\* After an error response what the memory holds there is unknown.
Response(ok) ==
    /\ burst' = <<>>
    /\ memory' = [cell \in Cells |->
                     IF ~ok /\ cell \in write_offset .. write_offset + Len(burst) - 1
                     THEN Strobed(cell, burst[cell - write_offset + 1].keep,
                                  <<NoFrame, cell>>)
                     ELSE memory[cell]]
    /\ IF after_burst \in {"last", "bad"}
       THEN Report(Failed(ok)) /\ rx_state' = "RX_COLLECT"
       ELSE /\ NoReport
            /\ current_frame_bad' = (current_frame_bad \/ ~ok)
            /\ IF after_burst = "drop"
               THEN write_offset' = 0 /\ rx_state' = "RX_DROP"
               ELSE write_offset' = write_offset + Len(burst) /\ rx_state' = "RX_COLLECT"
    /\ UNCHANGED <<write_beat_index, after_burst, frame_bytes, frame_checksum>>

\* The rest of a bad frame, up to its last beat.
Drop ==
    /\ Report(TRUE)
    /\ rx_state' = "RX_COLLECT"
    /\ UNCHANGED <<burst, write_beat_index, after_burst, frame_bytes,
                   frame_checksum, memory>>

Quiet ==
    /\ NoReport
    /\ UNCHANGED <<rx_state, burst, write_beat_index, write_offset, after_burst,
                   current_frame_bad, frame_bytes, frame_checksum, memory>>

\* The frame that ends on this edge is handed to the CNN.
Holds(axi, hold) ==
    /\ hold /\ rx_state = "AXI_B" /\ axi = "ok"
    /\ after_burst = "last" /\ ~current_frame_bad

\* frame_buffer_held: a release of the edge of the hold is overridden.
HoldBuffer(axi, hold, release) ==
    frame_buffer_held' = (Holds(axi, hold) \/ (frame_buffer_held /\ ~release))

\* beat is what the stream offers; axi what the write channel does: nothing, or
\* accept the address or the beat, or respond, "ok" or with an error.
RxEdge(beat, axi, hold, release) ==
    /\ HoldBuffer(axi, hold, release)
    /\ CASE rx_state = "RX_COLLECT" /\ beat # NoBeat /\ eth_rx_ready ->
                IF Invalid(beat) THEN Reject(beat) ELSE Accept(beat)
         [] rx_state = "AXI_AW" /\ axi # "none" -> Address
         [] rx_state = "AXI_W" /\ axi # "none"  -> WriteBeat
         [] rx_state = "AXI_B" /\ axi # "none"  -> Response(axi = "ok")
         [] rx_state = "RX_DROP" /\ beat # NoBeat /\ beat.last -> Drop
         [] OTHER -> Quiet

=============================================================================
