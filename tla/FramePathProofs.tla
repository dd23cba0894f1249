-------------------------- MODULE FramePathProofs --------------------------
(***************************************************************************)
(* For every size of buffer, burst and page: the bounds that hold whatever *)
(* beats the stream sends; and, if it keeps every byte lane of a beat      *)
(* before the last of its frame, that nothing is written beyond the frame  *)
(* buffer, that every frame is counted once, that a frame reported as good *)
(* is whole and that the CNN reads the frame it was started for.           *)
(***************************************************************************)
EXTENDS FramePath, SequenceTheorems, TLAPS

\* A beat the stream offers, and a word of the burst buffer.
Beats == [content : Frames \X (0 .. MaxBeats), keep : SUBSET Lanes, last : BOOLEAN]

BurstWords == [content : Contents, keep : SUBSET Lanes]

SourceTypes ==
    /\ frame \in Frames /\ place \in Nat
    /\ offered = NoBeat \/ offered \in Beats

\* The words written and buffered before the next beat.
Span == write_offset + Len(burst)

\* Accepted is the number of bytes before the next beat: at least one in each
\* word.
RxTypes ==
    /\ rx_state \in {"RX_COLLECT", "AXI_AW", "AXI_W", "AXI_B", "RX_DROP"}
    /\ burst \in Seq(BurstWords) /\ Len(burst) <= MaxBurst
    /\ write_beat_index \in Nat /\ write_offset \in Nat
    /\ frame_bytes \in 0 .. MaxBytes
    /\ memory \in [Cells -> [Lanes -> Contents]]
    /\ Span <= Accepted
    /\ WriteChannel => write_beat_index < Len(burst)
    /\ rx_state = "RX_DROP" => burst = <<>>
    /\ Len(burst) <= BeatsToPageEnd(write_offset)

DmaTypes ==
    /\ transfer_bytes \in Nat /\ read_offset \in Nat
    /\ active_burst_beats \in Nat /\ beat_index \in Nat
    /\ ReadChannel => 4 * read_offset < transfer_bytes /\ transfer_bytes <= MaxBytes
    /\ dma_state = "DMA_R" => /\ beat_index < active_burst_beats
                              /\ 4 * (read_offset + active_burst_beats) < transfer_bytes + 4
                              /\ active_burst_beats <= BeatsToPageEnd(read_offset)

PathInv == SourceTypes /\ RxTypes /\ DmaTypes

-----------------------------------------------------------------------------

\* What the rest needs of the stream.  Beats before the last of a frame keep
\* every lane, the last keeps the first lanes of its word, or none, and only the
\* last can be one too many: nothing is dropped, and a word is full before the
\* next one begins.
FullButLast ==
    /\ MiddleKeeps \subseteq {Lanes}
    /\ \A keep \in LastKeeps : \E kept \in 0 .. 4 : keep = LanesBefore(0, kept)
    /\ \A length \in FrameLengths : 4 * (length - 1) <= MaxBytes

\* The frame that is being collected or written.
Collected == IF Unreported THEN PreviousFrame ELSE frame

\* The words of the frame buffer that are written.
Written == write_offset + (CASE rx_state = "AXI_W" -> write_beat_index
                             [] rx_state = "AXI_B" -> Len(burst)
                             [] OTHER -> 0)

WordOf(number, cell, bytes) ==
    [content |-> <<number, cell>>, keep |-> LanesBefore(cell, bytes)]

\* Unless an error was seen, the frame is in memory as far as written, the rest
\* in the burst, and the checksum is that of its bytes.
WholeInv ==
    ~current_frame_bad =>
        /\ \A i \in 1 .. Len(burst) :
              burst[i] = WordOf(Collected, write_offset + i - 1, Accepted)
        /\ \A cell \in 0 .. Written - 1 : \A lane \in LanesBefore(cell, Accepted) :
              memory[cell][lane] = <<Collected, cell>>
        /\ Accepted > 0 => frame_checksum = FrameBytes(Collected, Accepted)
-----------------------------------------------------------------------------
(* The operators *)

LEMMA WordsHold ==
    ASSUME NEW bytes \in Nat
    PROVE  /\ Words(bytes) \in Nat
           /\ bytes <= 4 * Words(bytes) /\ 4 * Words(bytes) <= bytes + 3
BY DEF Words

LEMMA Sizes ==
    /\ MaxBytes \in Nat /\ MaxBytes > 0
    /\ MaxBeats \in Nat /\ MaxBeats > 0
    /\ MaxBytes <= 4 * MaxBeats /\ 4 * MaxBeats <= MaxBytes + 3
    /\ MaxBurst \in Nat /\ MaxBurst > 0
    /\ PageBeats \in Nat /\ PageBeats > 0
    /\ FrameMod \in Nat /\ FrameMod > 1
<1>1. /\ MaxBytes \in Nat /\ MaxBytes > 0 /\ MaxBurst \in Nat /\ MaxBurst > 0
      /\ PageBeats \in Nat /\ PageBeats > 0 /\ FrameMod \in Nat /\ FrameMod > 1
  BY RxAssumption
<1>2. /\ MaxBeats \in Nat /\ MaxBytes <= 4 * MaxBeats /\ 4 * MaxBeats <= MaxBytes + 3
  BY <1>1, WordsHold DEF MaxBeats
<1> QED BY <1>1, <1>2

\* A beat counts as many bytes as it keeps lanes, and none without a lane.
LEMMA KeepCount ==
    ASSUME NEW keep \in SUBSET Lanes
    PROVE  keep_count(keep) \in 0 .. 4
BY DEF keep_count, Bit

LEMMA FirstLanes ==
    ASSUME NEW kept \in 0 .. 4
    PROVE  keep_count(LanesBefore(0, kept)) = kept
<1> DEFINE keep == LanesBefore(0, kept)
<1>1. \A lane \in 0 .. 3 : lane \in keep <=> lane < kept
  BY DEF LanesBefore, Lanes
<1> HIDE DEF keep
<1>2. Bit(0, keep) = IF 0 < kept THEN 1 ELSE 0
  BY <1>1 DEF Bit
<1>3. Bit(1, keep) = IF 1 < kept THEN 1 ELSE 0
  BY <1>1 DEF Bit
<1>4. Bit(2, keep) = IF 2 < kept THEN 1 ELSE 0
  BY <1>1 DEF Bit
<1>5. Bit(3, keep) = IF 3 < kept THEN 1 ELSE 0
  BY <1>1 DEF Bit
<1>6. keep_count(keep) = kept
  BY <1>2, <1>3, <1>4, <1>5 DEF keep_count
<1> QED BY <1>6 DEF keep

\* The lanes of a word that is full, that holds the last bytes, or that is cut.
LEMMA FullWord ==
    ASSUME NEW cell \in Nat, NEW bytes \in Nat, 4 * cell + 4 <= bytes
    PROVE  LanesBefore(cell, bytes) = Lanes
BY DEF LanesBefore, Lanes

LEMMA LastWord ==
    ASSUME NEW cell \in Nat, NEW kept \in Nat
    PROVE  LanesBefore(cell, 4 * cell + kept) = LanesBefore(0, kept)
BY DEF LanesBefore, Lanes

LEMMA LanesCut ==
    ASSUME NEW cell \in Nat, NEW bytes \in Nat
    PROVE  LanesBefore(cell, bytes) = LanesBefore(cell, Lesser(4 * cell + 4, bytes))
BY DEF LanesBefore, Lanes, Lesser

\* The bytes of a frame, one by one, and what one more word adds.
LEMMA BytesOne ==
    ASSUME NEW number, NEW bytes \in Nat, NEW byte
    PROVE  byte \in FrameBytes(number, bytes) <=>
              \E cell \in Cells : \E lane \in LanesBefore(cell, bytes) :
                  byte = <<<<number, cell>>, lane>>
BY DEF FrameBytes, LanesBefore

LEMMA OneMoreWord ==
    ASSUME NEW number, NEW cell \in Cells, NEW bytes \in Nat,
           4 * cell <= bytes, bytes <= 4 * cell + 4
    PROVE  LET word == {<<<<number, cell>>, lane>> : lane \in LanesBefore(cell, bytes)}
           IN  /\ Xor(FrameBytes(number, 4 * cell), word) = FrameBytes(number, bytes)
               /\ cell = 0 => word = FrameBytes(number, bytes)
<1> DEFINE word == {<<<<number, cell>>, lane>> : lane \in LanesBefore(cell, bytes)}
           before == FrameBytes(number, 4 * cell)
           after == FrameBytes(number, bytes)
<1>0. cell \in Nat /\ 4 * cell \in Nat /\ \A other \in Cells : other \in Nat
  BY Sizes DEF Cells
<1>1. \A byte : byte \in before <=>
          \E other \in Cells : \E lane \in LanesBefore(other, 4 * cell) :
              byte = <<<<number, other>>, lane>>
  BY <1>0, BytesOne
<1>2. \A byte : byte \in after <=>
          \E other \in Cells : \E lane \in LanesBefore(other, bytes) :
              byte = <<<<number, other>>, lane>>
  BY BytesOne
<1>3. \A other \in Cells : \A lane : lane \in LanesBefore(other, 4 * cell) <=>
          lane \in Lanes /\ other < cell
  BY <1>0 DEF LanesBefore, Lanes
<1>4. \A other \in Cells : \A lane : lane \in LanesBefore(other, bytes) <=>
          \/ lane \in Lanes /\ other < cell
          \/ lane \in LanesBefore(cell, bytes) /\ other = cell
  BY <1>0 DEF LanesBefore, Lanes
<1>5. \A byte : byte \in word <=>
          \E lane \in LanesBefore(cell, bytes) : byte = <<<<number, cell>>, lane>>
  OBVIOUS
<1> HIDE DEF word, before, after
<1>6. after = before \cup word
  BY <1>0, <1>1, <1>2, <1>3, <1>4, <1>5
<1>7. before \cap word = {}
  <2> SUFFICES ASSUME NEW byte \in before, byte \in word PROVE FALSE
    OBVIOUS
  <2>1. PICK other \in Cells, lane \in Lanes : other < cell /\ byte = <<<<number, other>>, lane>>
    BY <1>1, <1>3
  <2>2. PICK mine : byte = <<<<number, cell>>, mine>>
    BY <1>5
  <2>3. other = cell
    BY <2>1, <2>2
  <2> QED BY <1>0, <2>1, <2>3
<1>8. cell = 0 => before = {}
  BY <1>0, <1>1, <1>3
<1>9. Xor(before, word) = after /\ (cell = 0 => word = after)
  BY <1>6, <1>7, <1>8 DEF Xor
<1> QED BY <1>9 DEF word, before, after

\* There is always a beat left in the page.
LEMMA PageRoom ==
    ASSUME NEW offset \in Nat
    PROVE  BeatsToPageEnd(offset) \in Nat /\ BeatsToPageEnd(offset) > 0
<1> DEFINE size == PageBeats
<1>1. size \in Nat \ {0}
  BY Sizes
<1> HIDE DEF size
<1>2. offset % size \in 0 .. size - 1
  BY <1>1
<1>3. size - (offset % size) \in Nat /\ size - (offset % size) > 0
  BY <1>1, <1>2
<1> QED BY <1>3 DEF BeatsToPageEnd, size

LEMMA NextFrameInTurn ==
    ASSUME NEW number \in Frames
    PROVE  /\ NextFrame(number) \in Frames
           /\ NextFrame(number) = IF number + 1 = FrameMod THEN 0 ELSE number + 1
<1> DEFINE size == FrameMod   next == number + 1
<1>1. /\ size \in Nat /\ size > 1
      /\ number \in Nat /\ number < size /\ next \in Nat /\ next <= size /\ next > 0
  BY Sizes DEF Frames
<1> HIDE DEF size, next
<1>2. next < size => next % size = next
  BY <1>1
<1>3. next = size => next % size = 0
  BY <1>1
<1> QED BY <1>1, <1>2, <1>3 DEF NextFrame, Frames, size, next

LEMMA PreviousIsInverse ==
    ASSUME NEW number \in Frames, NEW next, next = NextFrame(number)
    PROVE  (CHOOSE other \in Frames : NextFrame(other) = next) = number
<1>1. \A other \in Frames : NextFrame(other) = next => other = number
  <2>1. ASSUME NEW other \in Frames, NextFrame(other) = NextFrame(number)
        PROVE  other = number
    BY <2>1, NextFrameInTurn, Sizes DEF Frames
  <2> QED BY <2>1
<1> QED BY <1>1

\* The branches of the clocked block.
LEMMA RxBranches ==
    ASSUME NEW beat, NEW axi, NEW hold, NEW release, RxEdge(beat, axi, hold, release)
    PROVE  \/ beat # NoBeat /\ eth_rx_ready /\ Invalid(beat) /\ Reject(beat)
           \/ beat # NoBeat /\ eth_rx_ready /\ ~Invalid(beat) /\ Accept(beat)
           \/ rx_state = "AXI_AW" /\ Address
           \/ rx_state = "AXI_W" /\ WriteBeat
           \/ rx_state = "AXI_B" /\ Response(axi = "ok")
           \/ rx_state = "RX_DROP" /\ Drop
           \/ Quiet /\ ~(beat # NoBeat /\ eth_rx_ready)
BY DEF RxEdge, eth_rx_ready

LEMMA DmaBranches ==
    ASSUME NEW read, DmaEdge(read)
    PROVE  \/ BeginTransfer
           \/ dma_state = "DMA_AR" /\ ReadAddress
           \/ dma_state = "DMA_R" /\ ReadBeat
           \/ dma_state = "DMA_R" /\ ReadBeatFails
           \/ UNCHANGED <<dma_state, transfer_bytes, read_offset,
                           active_burst_beats, beat_index>>
BY DEF DmaEdge

-----------------------------------------------------------------------------
(* Types and bounds *)

LEMMA PlannedFits ==
    ASSUME DmaTypes, dma_state = "DMA_AR"
    PROVE  /\ Planned \in Nat /\ Planned > 0
           /\ 4 * (read_offset + Planned) < transfer_bytes + 4
           /\ Planned <= BeatsToPageEnd(read_offset)
<1>1. /\ transfer_bytes \in Nat /\ read_offset \in Nat /\ 4 * read_offset < transfer_bytes
  BY DEF DmaTypes, ReadChannel
<1>2. BeatsToPageEnd(read_offset) \in Nat /\ BeatsToPageEnd(read_offset) > 0
  BY <1>1, PageRoom
<1> DEFINE left == transfer_bytes - 4 * read_offset
<1>3. left \in Nat /\ left > 0 /\ transfer_bytes = left + 4 * read_offset
  BY <1>1
<1> HIDE DEF left
<1>4. Words(left) \in Nat /\ Words(left) > 0 /\ 4 * Words(left) <= left + 3
  BY <1>3, WordsHold
<1>5. Planned = Lesser(Lesser(MaxBurst, Words(left)), BeatsToPageEnd(read_offset))
  BY DEF Planned, left
<1>6. /\ Planned \in Nat /\ Planned > 0 /\ Planned <= Words(left)
      /\ Planned <= BeatsToPageEnd(read_offset)
  BY <1>2, <1>4, <1>5, Sizes DEF Lesser
<1> QED BY <1>1, <1>3, <1>4, <1>6

LEMMA DmaStaysInFrame ==
    ASSUME DmaTypes, NEW read, DmaEdge(read)
    PROVE  DmaTypes'
<1>1. CASE BeginTransfer
  BY <1>1, Sizes DEF BeginTransfer, Finish, DmaTypes, ReadChannel
<1>2. CASE dma_state = "DMA_AR" /\ ReadAddress
  BY <1>2, PlannedFits DEF ReadAddress, DmaTypes, ReadChannel
<1>3. CASE dma_state = "DMA_R" /\ ReadBeat
  BY <1>3 DEF ReadBeat, Finish, ExpectedLast, TransferEnd, DmaTypes, ReadChannel
<1>4. CASE dma_state = "DMA_R" /\ ReadBeatFails
  BY <1>4 DEF ReadBeatFails, Finish, DmaTypes, ReadChannel
<1>5. CASE UNCHANGED <<dma_state, transfer_bytes, read_offset,
                       active_burst_beats, beat_index>>
  BY <1>5 DEF DmaTypes, ReadChannel
<1> QED BY <1>1, <1>2, <1>3, <1>4, <1>5, DmaBranches

\* What the stream does on an edge.
LEMMA StreamMoves ==
    ASSUME Stream
    PROVE  /\ \/ Taken /\ offered.last /\ frame' = NextFrame(frame) /\ place' = 0
              \/ Taken /\ ~offered.last /\ place' = place + 1 /\ frame' = frame
              \/ ~Taken /\ frame' = frame /\ place' = place
           /\ \/ offered' = NoBeat
              \/ ~Taken /\ offered' = offered
              \/ \E keep \in LastKeeps : MayEnd' /\ offered' = BeatOf(keep, TRUE)'
              \/ \E keep \in MiddleKeeps : MayGoOn' /\ offered' = BeatOf(keep, FALSE)'
<1>1. offered' \in Offers' =>
        \/ offered' = NoBeat
        \/ \E keep \in LastKeeps : MayEnd' /\ offered' = BeatOf(keep, TRUE)'
        \/ \E keep \in MiddleKeeps : MayGoOn' /\ offered' = BeatOf(keep, FALSE)'
  BY DEF Offers
<1> QED BY <1>1, Zenon DEF Stream

LEMMA StreamKeepsTypes ==
    ASSUME SourceTypes, Stream
    PROVE  SourceTypes'
<1>1. NextFrame(frame) \in Frames
  BY NextFrameInTurn DEF SourceTypes
<1>2. frame' \in Frames /\ place' \in Nat
  BY <1>1, StreamMoves DEF SourceTypes
<1>3. ASSUME NEW keep \in SUBSET Lanes, NEW last \in BOOLEAN
      PROVE  BeatOf(keep, last)' \in Beats
  <2>1. Lesser(place', MaxBeats) \in 0 .. MaxBeats
    BY <1>2, Sizes DEF Lesser
  <2> QED BY <1>2, <2>1 DEF BeatOf, Beats
<1>4. offered' = NoBeat \/ offered' \in Beats
  BY <1>3, StreamMoves, PathAssumption DEF SourceTypes
<1> QED BY <1>2, <1>4 DEF SourceTypes

\* The room that Invalid and the page leave for a beat.
LEMMA RoomForBeat ==
    ASSUME RxTypes, NEW beat, beat.keep \in SUBSET Lanes, eth_rx_ready, ~Invalid(beat)
    PROVE  /\ Accepted \in Nat /\ keep_count(beat.keep) \in 1 .. 4
           /\ Accepted + keep_count(beat.keep) <= MaxBytes
           /\ Len(burst) + 1 <= MaxBurst
           /\ Len(burst) + 1 <= BeatsToPageEnd(write_offset)
<1>1. /\ Accepted \in Nat /\ write_offset \in Nat
  BY Sizes DEF RxTypes, Accepted
<1>2. keep_count(beat.keep) \in 0 .. 4
  BY KeepCount
<1>3. keep_count(beat.keep) \in 1 .. 4 /\ Accepted + keep_count(beat.keep) <= MaxBytes
  BY <1>1, <1>2, Sizes DEF Invalid
<1>4. BeatsToPageEnd(write_offset) \in Nat
  BY <1>1, PageRoom
<1>5. Len(burst) \in Nat
  BY DEF RxTypes
<1> QED BY <1>1, <1>3, <1>4, <1>5, Sizes DEF eth_rx_ready, CollectLimit, Lesser

\* No more words are collected than bytes are counted.
LEMMA RxWithinBuffer ==
    ASSUME RxTypes
    PROVE  /\ Len(burst) \in Nat /\ write_offset \in Nat /\ Span \in Nat
           /\ Accepted \in 0 .. MaxBytes /\ Span <= MaxBytes
           /\ burst = <<>> <=> Len(burst) = 0
<1>1. Accepted \in 0 .. MaxBytes
  BY Sizes DEF RxTypes, Accepted
<1>2. Len(burst) \in Nat /\ write_offset \in Nat /\ Span \in Nat
  BY DEF RxTypes, Span
<1>3. burst = <<>> <=> Len(burst) = 0
  BY DEF RxTypes
<1> QED BY <1>1, <1>2, <1>3, Sizes DEF RxTypes

LEMMA StrobedType ==
    ASSUME RxTypes, NEW cell \in Cells, NEW keep, NEW content \in Contents
    PROVE  Strobed(cell, keep, content) \in [Lanes -> Contents]
BY DEF RxTypes, Strobed

LEMMA RxStaysInBuffer ==
    ASSUME RxTypes, SourceTypes, NEW axi, NEW hold, NEW release,
           RxEdge(offered, axi, hold, release)
    PROVE  RxTypes'
<1> USE DEF FirstFrameBeat, WriteChannel
<1>0. \A offset \in Nat : BeatsToPageEnd(offset) \in Nat /\ BeatsToPageEnd(offset) > 0
  BY PageRoom
<1>1. CASE offered # NoBeat /\ eth_rx_ready /\ Invalid(offered) /\ Reject(offered)
  <2>1. /\ rx_state = "RX_COLLECT" /\ UNCHANGED <<burst, frame_bytes, memory>>
    BY <1>1 DEF Reject, eth_rx_ready
  <2>2. CASE burst = <<>> /\ offered.last
    BY <1>0, <1>1, <2>1, <2>2, RxWithinBuffer DEF Reject, Report, RxTypes, Accepted, Span
  <2>3. CASE ~(burst = <<>> /\ offered.last)
    <3>1. UNCHANGED write_offset
      BY <1>1, <2>3 DEF Reject
    <3>2. \/ burst = <<>> /\ rx_state' = "RX_DROP" /\ UNCHANGED write_beat_index
          \/ burst # <<>> /\ rx_state' = "AXI_AW" /\ write_beat_index' = 0
      BY <1>1, <2>3 DEF Reject
    <3> QED BY <2>1, <3>1, <3>2, RxWithinBuffer DEF RxTypes, Accepted, Span
  <2> QED BY <2>2, <2>3
<1>2. CASE offered # NoBeat /\ eth_rx_ready /\ ~Invalid(offered) /\ Accept(offered)
  <2>0. /\ offered \in Beats /\ offered.keep \in SUBSET Lanes
        /\ offered.content \in Contents
    BY <1>2 DEF SourceTypes, Beats, Contents
  <2> DEFINE kept == keep_count(offered.keep)
  <2>1. /\ Accepted \in Nat /\ kept \in 1 .. 4 /\ Accepted + kept <= MaxBytes
        /\ Len(burst) + 1 <= MaxBurst
        /\ Len(burst) + 1 <= BeatsToPageEnd(write_offset)
    BY <1>2, <2>0, RoomForBeat
  <2>3. /\ burst' = Append(burst, [content |-> offered.content, keep |-> offered.keep])
        /\ frame_bytes' = Accepted + kept /\ UNCHANGED <<write_offset, memory>>
        /\ rx_state = "RX_COLLECT"
    BY <1>2 DEF Accept, eth_rx_ready
  <2> HIDE DEF kept
  <2>4. burst' \in Seq(BurstWords) /\ Len(burst') = Len(burst) + 1
    <3>1. [content |-> offered.content, keep |-> offered.keep] \in BurstWords
      BY <2>0 DEF BurstWords
    <3> QED BY <2>3, <3>1 DEF RxTypes
  <2>5. \/ rx_state' = "AXI_AW" /\ write_beat_index' = 0
        \/ UNCHANGED <<rx_state, write_beat_index>>
    BY <1>2 DEF Accept
  <2>6. Accepted' = Accepted + kept
    BY <2>3, <2>4, RxWithinBuffer DEF Accepted
  <2>7. Span' <= Accepted' /\ frame_bytes' \in 0 .. MaxBytes
    BY <2>1, <2>3, <2>4, <2>6, RxWithinBuffer, Sizes DEF Span, RxTypes
  <2> QED BY <2>1, <2>3, <2>4, <2>5, <2>7, RxWithinBuffer DEF RxTypes
<1>3. CASE rx_state = "AXI_AW" /\ Address
  BY <1>3 DEF Address, RxTypes, Accepted, Span
<1>4. CASE rx_state = "AXI_W" /\ WriteBeat
  <2>1. write_beat_index < Len(burst) /\ burst[write_beat_index + 1] \in BurstWords
    BY <1>4, RxWithinBuffer DEF RxTypes
  <2>2. burst[write_beat_index + 1].content \in Contents
    BY <2>1 DEF BurstWords
  <2>3. memory' \in [Cells -> [Lanes -> Contents]]
    BY <1>4, <2>2, StrobedType DEF WriteBeat, RxTypes
  <2>4. /\ UNCHANGED <<burst, write_offset, frame_bytes>>
        /\ rx_state' \in {"AXI_W", "AXI_B"}
        /\ write_beat_index' \in Nat /\ write_beat_index' < Len(burst)
    BY <1>4, <2>1, RxWithinBuffer DEF WriteBeat, RxTypes
  <2> QED BY <2>3, <2>4 DEF RxTypes, Accepted, Span
<1>5. CASE rx_state = "AXI_B" /\ Response(axi = "ok")
  <2>1. memory' \in [Cells -> [Lanes -> Contents]]
    <3>1. \A cell \in Cells : <<NoFrame, cell>> \in Contents
      BY Sizes DEF Contents, Cells
    <3>2. \A cell \in Cells : \A keep :
            Strobed(cell, keep, <<NoFrame, cell>>) \in [Lanes -> Contents]
      BY <3>1, StrobedType
    <3> QED BY <1>5, <3>2 DEF Response, RxTypes
  <2>2. /\ burst' = <<>> /\ UNCHANGED <<write_beat_index, frame_bytes>>
        /\ \/ write_offset' = 0 /\ rx_state' \in {"RX_COLLECT", "RX_DROP"}
           \/ write_offset' = write_offset + Len(burst) /\ rx_state' = "RX_COLLECT"
    BY <1>5 DEF Response, Report
  <2>3. Len(burst) > 0
    BY <1>5, RxWithinBuffer DEF RxTypes
  <2>4. burst' \in Seq(BurstWords) /\ Len(burst') = 0
    BY <2>2
  <2>5. Span' = write_offset' /\ Span' <= Accepted'
    <3>1. Span' = write_offset'
      BY <2>2, <2>4, RxWithinBuffer DEF Span
    <3>2. CASE write_offset' = 0
      BY <2>2, <3>1, <3>2 DEF Accepted
    <3>3. CASE write_offset' = Span /\ Span > 0
      BY <2>2, <2>3, <3>1, <3>3, RxWithinBuffer DEF Accepted, RxTypes
    <3> QED BY <2>2, <2>3, <3>2, <3>3, RxWithinBuffer DEF Span
  <2>6. Len(burst') <= BeatsToPageEnd(write_offset')
    <3>1. write_offset' \in Nat
      BY <2>2, RxWithinBuffer
    <3>2. BeatsToPageEnd(write_offset') \in Nat /\ BeatsToPageEnd(write_offset') > 0
      BY <1>0, <3>1
    <3>3. Len(burst') = 0
      BY <2>4
    <3> QED BY <3>2, <3>3
  <2>7. /\ write_offset' \in Nat /\ write_beat_index' \in Nat
        /\ frame_bytes' \in 0 .. MaxBytes /\ Len(burst') <= MaxBurst
    BY <2>2, <2>4, RxWithinBuffer, Sizes DEF RxTypes
  <2>8. rx_state' \in {"RX_COLLECT", "RX_DROP"} /\ ~WriteChannel'
    BY <2>2
  <2> QED BY <2>1, <2>2, <2>4, <2>5, <2>6, <2>7, <2>8 DEF RxTypes
<1>6. CASE rx_state = "RX_DROP" /\ Drop
  BY <1>0, <1>6 DEF Drop, Report, RxTypes, Accepted, Span
<1>7. CASE Quiet
  BY <1>7 DEF Quiet, RxTypes, Accepted, Span
<1> QED BY <1>1, <1>2, <1>3, <1>4, <1>5, <1>6, <1>7, RxBranches

LEMMA PathInit ==
    ASSUME Init
    PROVE  PathInv
<1>1. RxTypes
  <2>1. memory \in [Cells -> [Lanes -> Contents]]
    BY Sizes DEF Init, RxInit, Cells, Contents
  <2>2. BeatsToPageEnd(0) \in Nat /\ BeatsToPageEnd(0) > 0
    BY PageRoom
  <2> QED BY <2>1, <2>2, Sizes
          DEF Init, RxInit, RxTypes, Accepted, Span, FirstFrameBeat, WriteChannel
<1>2. SourceTypes
  BY PathAssumption, Sizes DEF Init, SourceTypes, Frames
<1>3. DmaTypes
  BY DEF Init, CnnInit, DmaTypes, ReadChannel
<1> QED BY <1>1, <1>2, <1>3 DEF PathInv

LEMMA PathStep ==
    ASSUME PathInv, [Next]_vars
    PROVE  PathInv'
<1>1. CASE UNCHANGED vars
  <2>1. UNCHANGED <<rx_state, burst, write_beat_index, write_offset, frame_bytes, memory>>
    BY <1>1 DEF vars, rxVars
  <2>2. UNCHANGED <<dma_state, transfer_bytes, read_offset, active_burst_beats, beat_index>>
    BY <1>1 DEF vars, dmaVars
  <2>3. UNCHANGED <<offered, frame, place>>
    BY <1>1 DEF vars, sourceVars
  <2>4. RxTypes'
    BY <2>1 DEF PathInv, RxTypes, Accepted, Span, FirstFrameBeat, WriteChannel
  <2>5. SourceTypes' /\ DmaTypes'
    BY <2>2, <2>3 DEF PathInv, SourceTypes, DmaTypes, ReadChannel
  <2> QED BY <2>4, <2>5 DEF PathInv
<1>2. ASSUME NEW write, NEW axi, NEW read, Edge(write, axi, read)
      PROVE  PathInv'
  <2>1. RxTypes'
    BY <1>2, RxStaysInBuffer DEF Edge, PathInv
  <2>2. SourceTypes' /\ DmaTypes'
    BY <1>2, StreamKeepsTypes, DmaStaysInFrame DEF Edge, PathInv
  <2> QED BY <2>1, <2>2 DEF PathInv
<1> QED BY <1>1, <1>2 DEF Next

\* Whatever beats the stream sends, no more bytes are counted and no more words
\* written than the buffer takes bytes, no burst crosses its page, and no read
\* leaves the buffer (incoming_invalid, collect_limit, planned_burst_beats).
\* That the words stay inside the buffer too takes a theorem of its own.
THEOREM CountsAreBounded == Spec => []PathTypeOK
<1>1. Init => PathInv
  BY PathInit
<1>2. PathInv /\ [Next]_vars => PathInv'
  BY PathStep
<1>3. PathInv => PathTypeOK
  <2> SUFFICES ASSUME PathInv PROVE PathTypeOK
    OBVIOUS
  <2>1. dma_state = "DMA_R" => read_offset + active_burst_beats <= MaxBeats
    BY Sizes DEF PathInv, DmaTypes, ReadChannel
  <2> QED BY <2>1, RxWithinBuffer
          DEF PathInv, RxTypes, DmaTypes, PathTypeOK, Span, BurstWords
<1> QED BY <1>1, <1>2, <1>3, PTL DEF Spec

-----------------------------------------------------------------------------
(* One frame reported for one frame sent *)

\* The beat that is offered is the one due, full if another follows it.
OfferedInv ==
    offered # NoBeat =>
        /\ offered.content = <<frame, Lesser(place, MaxBeats)>>
        /\ offered.last => \E kept \in 0 .. 4 : offered.keep = LanesBefore(0, kept)
        /\ ~offered.last => offered.keep = Lanes /\ 4 * (place + 1) <= MaxBytes

LEMMA OfferedStep ==
    ASSUME FullButLast, SourceTypes, OfferedInv, Stream, SourceTypes'
    PROVE  OfferedInv'
<1> SUFFICES ASSUME offered' # NoBeat
             PROVE  /\ offered'.content = <<frame', Lesser(place', MaxBeats)>>
                    /\ offered'.last => \E kept \in 0 .. 4 : offered'.keep = LanesBefore(0, kept)
                    /\ ~offered'.last => offered'.keep = Lanes /\ 4 * (place' + 1) <= MaxBytes
  BY DEF OfferedInv
<1>1. CASE ~Taken /\ offered' = offered
  BY <1>1, StreamMoves DEF OfferedInv, Taken
<1>2. ASSUME NEW keep \in LastKeeps, offered' = BeatOf(keep, TRUE)'
      PROVE  /\ offered'.content = <<frame', Lesser(place', MaxBeats)>>
             /\ offered'.last /\ \E kept \in 0 .. 4 : offered'.keep = LanesBefore(0, kept)
  BY <1>2 DEF BeatOf, FullButLast
<1>3. ASSUME NEW keep \in MiddleKeeps, MayGoOn', offered' = BeatOf(keep, FALSE)'
      PROVE  /\ offered'.content = <<frame', Lesser(place', MaxBeats)>>
             /\ ~offered'.last /\ offered'.keep = Lanes /\ 4 * (place' + 1) <= MaxBytes
  <2>1. PICK length \in FrameLengths : place' + 1 < length
    BY <1>3 DEF MayGoOn
  <2>2. length \in Nat /\ 4 * (length - 1) <= MaxBytes /\ place' \in Nat
    BY PathAssumption DEF FullButLast, SourceTypes
  <2>3. 4 * (place' + 1) <= MaxBytes
    <3> DEFINE next == place'
    <3>1. next \in Nat /\ next + 1 < length /\ length \in Nat /\ MaxBytes \in Nat
      BY <2>1, <2>2, Sizes
    <3> HIDE DEF next
    <3>2. 4 * (next + 1) <= 4 * (length - 1)
      BY <3>1
    <3>3. 4 * (next + 1) <= MaxBytes
      BY <2>2, <3>1, <3>2
    <3> QED BY <3>3 DEF next
  <2> QED BY <1>3, <2>3 DEF BeatOf, FullButLast
<1> QED BY <1>1, <1>2, <1>3, StreamMoves

\* The counts agree, nothing is dropped, and a word is full before the next
\* begins.
CountInv ==
    /\ FramesAccounted
    /\ frame_sequence \in Frames
    /\ rx_state # "RX_DROP"
    /\ WriteChannel => after_burst \in {"more", "last", "bad"}
    /\ place = IF Unreported THEN 0 ELSE Span
    /\ Accepted <= 4 * Span /\ 4 * Span < Accepted + 4
    /\ ~Unreported => Accepted = 4 * Span

\* An invalid beat is the last of its frame.
LEMMA RejectedIsLast ==
    ASSUME SourceTypes, RxTypes, OfferedInv, CountInv,
           offered # NoBeat, eth_rx_ready, Invalid(offered)
    PROVE  offered.last
<1> SUFFICES ASSUME ~offered.last PROVE FALSE
  OBVIOUS
<1>1. offered.keep = LanesBefore(0, 4) /\ 4 * (place + 1) <= MaxBytes
  <2>1. LanesBefore(0, 4) = Lanes
    BY FullWord
  <2> QED BY <2>1 DEF OfferedInv
<1>2. keep_count(offered.keep) = 4
  BY <1>1, FirstLanes
<1>3. Accepted = 4 * place /\ place \in Nat
  BY DEF CountInv, Unreported, WriteChannel, eth_rx_ready, SourceTypes
<1>4. Accepted + 4 > MaxBytes
  BY <1>2 DEF Invalid
<1> QED BY <1>1, <1>3, <1>4, Sizes

\* A beat that is accepted holds the next bytes of the frame.
LEMMA AcceptedNext ==
    ASSUME SourceTypes, RxTypes, OfferedInv, CountInv,
           offered # NoBeat, eth_rx_ready, ~Invalid(offered)
    PROVE  /\ Span \in Cells /\ Accepted = 4 * Span
           /\ offered.content = <<frame, Span>>
           /\ keep_count(offered.keep) \in 1 .. 4
           /\ offered.keep = LanesBefore(Span, 4 * Span + keep_count(offered.keep))
           /\ ~offered.last => keep_count(offered.keep) = 4
<1> DEFINE kept == keep_count(offered.keep)
<1>1. Accepted = 4 * Span /\ place = Span /\ Span \in Nat
  BY RxWithinBuffer DEF CountInv, Unreported, WriteChannel, eth_rx_ready
<1>2. offered.keep \in SUBSET Lanes
  BY DEF SourceTypes, Beats
<1>3. kept \in 1 .. 4 /\ Accepted + kept <= MaxBytes
  BY <1>2, RoomForBeat
<1>4. offered.keep = LanesBefore(0, kept) /\ (~offered.last => kept = 4)
  <2>1. PICK first \in 0 .. 4 : /\ offered.keep = LanesBefore(0, first)
                                /\ ~offered.last => first = 4
    <3>1. LanesBefore(0, 4) = Lanes
      BY FullWord
    <3> QED BY <3>1 DEF OfferedInv
  <2>2. kept = first
    BY <2>1, FirstLanes
  <2> QED BY <2>1, <2>2
<1> HIDE DEF kept
<1>5. offered.keep = LanesBefore(Span, 4 * Span + kept)
  BY <1>1, <1>3, <1>4, LastWord
<1>6. Span < MaxBeats
  BY <1>1, <1>3, Sizes
<1>7. offered.content = <<frame, Span>>
  <2>1. Lesser(place, MaxBeats) = Span
    BY <1>1, <1>6, Sizes DEF Lesser
  <2> QED BY <2>1 DEF OfferedInv
<1>8. Span \in Cells
  BY <1>1, <1>6, Sizes DEF Cells
<1> QED BY <1>1, <1>3, <1>4, <1>5, <1>7, <1>8 DEF kept

\* What accepting a beat does to the counts.
LEMMA AcceptCounts ==
    ASSUME SourceTypes, RxTypes, OfferedInv, CountInv,
           offered # NoBeat, eth_rx_ready, ~Invalid(offered), Accept(offered)
    PROVE  /\ Span' = Span + 1 /\ Len(burst') = Len(burst) + 1
           /\ Accepted' = Accepted + keep_count(offered.keep)
<1>1. /\ burst' = Append(burst, [content |-> offered.content, keep |-> offered.keep])
      /\ frame_bytes' = Accepted + keep_count(offered.keep)
      /\ write_offset' = write_offset
  BY DEF Accept
<1>2. Len(burst') = Len(burst) + 1 /\ Len(burst) \in Nat /\ write_offset \in Nat
  BY <1>1, RxWithinBuffer DEF RxTypes
<1>3. burst' # <<>>
  BY <1>1, <1>2
<1> QED BY <1>1, <1>2, <1>3 DEF Span, Accepted, FirstFrameBeat

LEMMA CountStep ==
    ASSUME SourceTypes, RxTypes, OfferedInv, CountInv, Stream,
           NEW axi, NEW hold, NEW release, RxEdge(offered, axi, hold, release)
    PROVE  CountInv'
<1> USE DEF Unreported, WriteChannel
<1>0. /\ frame \in Frames /\ frame_sequence \in Frames /\ place \in Nat
      /\ \A number \in Frames : NextFrame(number) \in Frames
      /\ rx_state # "RX_DROP"
      /\ frame = IF Unreported THEN NextFrame(frame_sequence) ELSE frame_sequence
      /\ place = IF Unreported THEN 0 ELSE Span
      /\ Accepted <= 4 * Span /\ 4 * Span < Accepted + 4
      /\ ~Unreported => Accepted = 4 * Span
      /\ Span \in Nat
  BY NextFrameInTurn, RxWithinBuffer DEF SourceTypes, CountInv, FramesAccounted
<1>1. CASE offered # NoBeat /\ eth_rx_ready /\ Invalid(offered) /\ Reject(offered)
  <2>1. offered.last /\ frame' = NextFrame(frame) /\ place' = 0
    BY <1>1, RejectedIsLast, StreamMoves DEF Taken
  <2>2. rx_state = "RX_COLLECT" /\ UNCHANGED <<burst, frame_bytes>>
    BY <1>1 DEF eth_rx_ready, Reject
  <2>3. CASE burst = <<>>
    <3>1. write_offset' = 0 /\ Len(burst') = 0
      BY <1>1, <2>1, <2>2, <2>3 DEF Reject, Report
    <3>2. Span' = 0 /\ Accepted' = 0
      BY <2>2, <2>3, <3>1 DEF Span, Accepted, FirstFrameBeat
    <3> QED BY <1>0, <1>1, <2>1, <2>2, <2>3, <3>2
            DEF Reject, Report, CountInv, FramesAccounted
  <2>4. CASE burst # <<>>
    <3>1. /\ rx_state' = "AXI_AW" /\ after_burst' = "bad" /\ write_offset' = write_offset
          /\ frame_sequence' = frame_sequence
      BY <1>1, <2>1, <2>4 DEF Reject, NoReport
    <3>2. Span' = Span /\ Accepted' = Accepted
      BY <2>2, <3>1 DEF Span, Accepted, FirstFrameBeat
    <3> QED BY <1>0, <2>1, <2>2, <3>1, <3>2 DEF CountInv, FramesAccounted
  <2> QED BY <2>3, <2>4
<1>2. CASE offered # NoBeat /\ eth_rx_ready /\ ~Invalid(offered) /\ Accept(offered)
  <2>1. rx_state = "RX_COLLECT" /\ frame_sequence' = frame_sequence
    BY <1>2 DEF Accept, NoReport, eth_rx_ready
  <2>2. PICK kept \in 1 .. 4 : /\ Span' = Span + 1 /\ Accepted' = 4 * Span + kept
                               /\ ~offered.last => kept = 4
    BY <1>2, AcceptedNext, AcceptCounts
  <2>3. CASE offered.last
    <3>1. frame' = NextFrame(frame) /\ place' = 0
      BY <1>2, <2>3, StreamMoves DEF Taken
    <3>2. rx_state' = "AXI_AW" /\ after_burst' = "last"
      BY <1>2, <2>3 DEF Accept
    <3> QED BY <1>0, <2>1, <2>2, <3>1, <3>2 DEF CountInv, FramesAccounted
  <2>4. CASE ~offered.last
    <3>1. frame' = frame /\ place' = place + 1
      BY <1>2, <2>4, StreamMoves DEF Taken
    <3>2. \/ rx_state' = "AXI_AW" /\ after_burst' = "more"
          \/ rx_state' = "RX_COLLECT"
      BY <1>2, <2>1, <2>4 DEF Accept
    <3> QED BY <1>0, <2>1, <2>2, <2>4, <3>1, <3>2 DEF CountInv, FramesAccounted
  <2> QED BY <2>3, <2>4
<1>3. ASSUME ~eth_rx_ready \/ offered = NoBeat
      PROVE  frame' = frame /\ place' = place
  BY <1>3, StreamMoves DEF Taken
<1>4. CASE \/ rx_state = "AXI_AW" /\ Address
           \/ rx_state = "AXI_W" /\ WriteBeat
  <2>1. /\ UNCHANGED <<burst, write_offset, frame_bytes, after_burst, frame_sequence>>
        /\ rx_state \in {"AXI_AW", "AXI_W"} /\ rx_state' \in {"AXI_W", "AXI_B"}
    BY <1>4 DEF Address, WriteBeat, NoReport
  <2>2. Span' = Span /\ Accepted' = Accepted
    BY <2>1 DEF Span, Accepted, FirstFrameBeat
  <2>3. frame' = frame /\ place' = place
    BY <1>3, <2>1 DEF eth_rx_ready
  <2> QED BY <1>0, <2>1, <2>2, <2>3 DEF CountInv, FramesAccounted
<1>5. CASE rx_state = "AXI_B" /\ Response(axi = "ok")
  <2>1. /\ frame' = frame /\ place' = place /\ burst' = <<>> /\ Len(burst') = 0
        /\ after_burst \in {"more", "last", "bad"} /\ frame_bytes' = frame_bytes
    BY <1>3, <1>5 DEF eth_rx_ready, Response, CountInv
  <2>2. CASE after_burst \in {"last", "bad"}
    <3>1. /\ write_offset' = 0 /\ rx_state' = "RX_COLLECT"
          /\ frame_sequence' = NextFrame(frame_sequence)
      BY <1>5, <2>2 DEF Response, Report
    <3>2. Span' = 0 /\ Accepted' = 0
      BY <2>1, <3>1 DEF Span, Accepted, FirstFrameBeat
    <3> QED BY <1>0, <1>5, <2>1, <2>2, <3>1, <3>2 DEF CountInv, FramesAccounted
  <2>3. CASE after_burst = "more"
    <3>1. /\ write_offset' = Span /\ rx_state' = "RX_COLLECT"
          /\ frame_sequence' = frame_sequence
      BY <1>5, <2>3 DEF Response, NoReport, Span
    <3>2. Len(burst) > 0 /\ Span > 0
      BY <1>5, RxWithinBuffer DEF RxTypes, Span
    <3>3. Span' = Span /\ Accepted' = Accepted
      BY <1>0, <2>1, <3>1, <3>2, RxWithinBuffer DEF Span, Accepted, FirstFrameBeat
    <3> QED BY <1>0, <1>5, <2>1, <2>3, <3>1, <3>3 DEF CountInv, FramesAccounted
  <2> QED BY <2>1, <2>2, <2>3
<1>6. CASE Quiet /\ ~(offered # NoBeat /\ eth_rx_ready)
  <2>1. UNCHANGED <<rx_state, burst, write_offset, frame_bytes, after_burst, frame_sequence>>
    BY <1>6 DEF Quiet, NoReport
  <2>2. Span' = Span /\ Accepted' = Accepted
    BY <2>1 DEF Span, Accepted, FirstFrameBeat
  <2> QED BY <1>0, <1>3, <1>6, <2>1, <2>2 DEF CountInv, FramesAccounted
<1> QED BY <1>0, <1>1, <1>2, <1>4, <1>5, <1>6, RxBranches

-----------------------------------------------------------------------------
(* A good frame is whole *)

FrameInv == PathInv /\ OfferedInv /\ CountInv /\ WholeInv /\ GoodFrameIsWhole

\* A frame that is reported is the one that was collected.
LEMMA CollectedIsPrevious ==
    ASSUME frame \in Frames, frame' = NextFrame(frame)
    PROVE  PreviousFrame' = frame
BY PreviousIsInverse DEF PreviousFrame

\* The words collected fit into the buffer.
LEMMA SpanFits ==
    ASSUME RxTypes, CountInv
    PROVE  /\ Span <= MaxBeats /\ Written \in Nat /\ Written <= Span
           /\ \A cell \in 0 .. Written - 1 : cell \in Cells
<1>1. Span \in Nat /\ 4 * Span < Accepted + 4 /\ Accepted \in 0 .. MaxBytes
  BY RxWithinBuffer DEF CountInv
<1>2. Span <= MaxBeats
  BY <1>1, Sizes
<1>3. Written \in Nat /\ Written <= Span
  BY RxWithinBuffer DEF Written, Span, RxTypes, WriteChannel
<1> QED BY <1>1, <1>2, <1>3, Sizes DEF Cells

\* While a frame is not at its end, the lanes of its words are all filled.
LEMMA SameLanes ==
    ASSUME NEW cell \in Nat, NEW before \in Nat, NEW after \in Nat,
           4 * cell + 4 <= before, before <= after
    PROVE  LanesBefore(cell, before) = LanesBefore(cell, after)
BY FullWord

LEMMA AcceptKeepsWhole ==
    ASSUME SourceTypes, RxTypes, OfferedInv, CountInv, WholeInv, Stream,
           offered # NoBeat, eth_rx_ready, ~Invalid(offered), Accept(offered), RxTypes'
    PROVE  WholeInv'
<1> SUFFICES ASSUME ~current_frame_bad'
             PROVE  /\ \A i \in 1 .. Len(burst') :
                          burst'[i] = WordOf(Collected', write_offset' + i - 1, Accepted')
                    /\ \A cell \in 0 .. Written' - 1 :
                          \A lane \in LanesBefore(cell, Accepted') :
                              memory'[cell][lane] = <<Collected', cell>>
                    /\ Accepted' > 0 => frame_checksum' = FrameBytes(Collected', Accepted')
  BY DEF WholeInv
<1>1. /\ rx_state = "RX_COLLECT" /\ ~Unreported /\ Collected = frame
      /\ ~current_frame_bad /\ write_offset' = write_offset /\ memory' = memory
      /\ burst' = Append(burst, [content |-> offered.content, keep |-> offered.keep])
      /\ rx_state' \in {"RX_COLLECT", "AXI_AW"}
  BY DEF Accept, eth_rx_ready, Collected, Unreported, WriteChannel
<1> DEFINE after == Accepted + keep_count(offered.keep)
<1>2. /\ Accepted = 4 * Span /\ Span \in Cells /\ Span \in Nat
      /\ after \in Nat /\ Accepted < after /\ after <= Accepted + 4
      /\ offered.content = <<frame, Span>> /\ offered.keep = LanesBefore(Span, after)
      /\ write_offset \in Nat /\ Len(burst) \in Nat /\ Span = write_offset + Len(burst)
  <2>1. /\ Accepted = 4 * Span /\ Span \in Cells /\ Span \in Nat
        /\ keep_count(offered.keep) \in 1 .. 4 /\ offered.content = <<frame, Span>>
        /\ offered.keep = LanesBefore(Span, 4 * Span + keep_count(offered.keep))
    BY AcceptedNext, RxWithinBuffer
  <2>2. /\ write_offset \in Nat /\ Len(burst) \in Nat /\ Span = write_offset + Len(burst)
    BY RxWithinBuffer DEF Span
  <2> QED BY <2>1, <2>2
<1>3. Accepted' = after /\ Len(burst') = Len(burst) + 1
  BY AcceptCounts
<1> HIDE DEF after
<1>4. Collected' = frame
  <2>1. CASE offered.last
    <3>1. Unreported' /\ frame' = NextFrame(frame)
      BY <2>1, StreamMoves DEF Accept, Unreported, WriteChannel, Taken
    <3> QED BY <3>1, CollectedIsPrevious DEF Collected, SourceTypes
  <2>2. CASE ~offered.last
    <3>1. ~Unreported' /\ frame' = frame
      BY <1>1, <2>2, StreamMoves DEF Accept, Unreported, WriteChannel, Taken
    <3> QED BY <3>1 DEF Collected
  <2> QED BY <2>1, <2>2
<1>5. ASSUME NEW i \in 1 .. Len(burst')
      PROVE  burst'[i] = WordOf(frame, write_offset + i - 1, after)
  <2>1. burst \in Seq(BurstWords)
    BY DEF RxTypes
  <2>2. CASE i \in 1 .. Len(burst)
    <3>1. burst'[i] = burst[i] /\ burst[i] = WordOf(frame, write_offset + i - 1, Accepted)
      BY <1>1, <1>2, <2>1, <2>2 DEF WholeInv
    <3>2. LanesBefore(write_offset + i - 1, Accepted) = LanesBefore(write_offset + i - 1, after)
      <4> DEFINE cell == write_offset + i - 1
      <4>1. cell \in Nat /\ 4 * cell + 4 <= Accepted
        BY <1>2, <2>2
      <4> HIDE DEF cell
      <4>2. LanesBefore(cell, Accepted) = LanesBefore(cell, after)
        BY <1>2, <4>1, SameLanes
      <4> QED BY <4>2 DEF cell
    <3> QED BY <3>1, <3>2 DEF WordOf
  <2>3. CASE i = Len(burst) + 1
    <3>1. burst'[i] = [content |-> offered.content, keep |-> offered.keep]
      BY <1>1, <2>1, <2>3
    <3>2. write_offset + i - 1 = Span
      BY <1>2, <2>3
    <3> QED BY <1>2, <3>1, <3>2 DEF WordOf
  <2> QED BY <1>2, <1>3, <2>2, <2>3
<1>6. Written = write_offset /\ Written' = write_offset
  BY <1>1, <1>2 DEF Written
<1>7. ASSUME NEW cell \in 0 .. write_offset - 1, NEW lane \in LanesBefore(cell, after)
      PROVE  memory[cell][lane] = <<frame, cell>>
  <2>1. cell \in Nat /\ 4 * cell + 4 <= Accepted
    BY <1>2
  <2>2. lane \in LanesBefore(cell, Accepted)
    BY <1>2, <1>7, <2>1, SameLanes
  <2> QED BY <1>1, <1>6, <1>7, <2>2 DEF WholeInv
<1>8. frame_checksum' = FrameBytes(frame, after)
  <2> DEFINE word == {<<<<frame, Span>>, lane>> : lane \in LanesBefore(Span, after)}
  <2>1. masked_data(offered) = word
    BY <1>2 DEF masked_data
  <2>2. /\ Xor(FrameBytes(frame, Accepted), word) = FrameBytes(frame, after)
        /\ Span = 0 => word = FrameBytes(frame, after)
    <3> DEFINE cell == Span
    <3>1. cell \in Cells /\ 4 * cell <= after /\ after <= 4 * cell + 4 /\ after \in Nat
      BY <1>2
    <3> HIDE DEF cell
    <3>2. /\ Xor(FrameBytes(frame, 4 * cell),
                 {<<<<frame, cell>>, lane>> : lane \in LanesBefore(cell, after)})
               = FrameBytes(frame, after)
          /\ cell = 0 => {<<<<frame, cell>>, lane>> : lane \in LanesBefore(cell, after)}
                            = FrameBytes(frame, after)
      BY <3>1, OneMoreWord
    <3>3. 4 * cell = Accepted
      BY <1>2 DEF cell
    <3> QED BY <3>2, <3>3, Zenon DEF cell
  <2> HIDE DEF word
  <2>3. CASE FirstFrameBeat
    <3>1. Span = 0
      BY <1>2, <2>3, RxWithinBuffer DEF FirstFrameBeat
    <3> QED BY <2>1, <2>2, <2>3, <3>1 DEF Accept
  <2>4. CASE ~FirstFrameBeat
    <3>1. Accepted > 0
      BY <1>2, <2>4, RxWithinBuffer DEF FirstFrameBeat
    <3>2. frame_checksum = FrameBytes(frame, Accepted)
      BY <1>1, <3>1 DEF WholeInv
    <3> QED BY <2>1, <2>2, <2>4, <3>2 DEF Accept
  <2> QED BY <2>3, <2>4
<1> QED BY <1>1, <1>3, <1>4, <1>5, <1>6, <1>7, <1>8

LEMMA WriteKeepsWhole ==
    ASSUME RxTypes, CountInv, WholeInv, frame' = frame,
           \/ rx_state = "AXI_AW" /\ Address
           \/ rx_state = "AXI_W" /\ WriteBeat
    PROVE  WholeInv'
<1> SUFFICES ASSUME ~current_frame_bad'
             PROVE  /\ \A i \in 1 .. Len(burst') :
                          burst'[i] = WordOf(Collected', write_offset' + i - 1, Accepted')
                    /\ \A cell \in 0 .. Written' - 1 :
                          \A lane \in LanesBefore(cell, Accepted') :
                              memory'[cell][lane] = <<Collected', cell>>
                    /\ Accepted' > 0 => frame_checksum' = FrameBytes(Collected', Accepted')
  BY DEF WholeInv
<1>1. /\ UNCHANGED <<burst, write_offset, after_burst, current_frame_bad, frame_bytes,
                     frame_checksum>>
      /\ rx_state \in {"AXI_AW", "AXI_W"} /\ rx_state' \in {"AXI_W", "AXI_B"}
  BY DEF Address, WriteBeat
<1>2. Collected' = Collected /\ Accepted' = Accepted
  BY <1>1 DEF Collected, Unreported, WriteChannel, PreviousFrame, Accepted, FirstFrameBeat
<1>3. /\ \A i \in 1 .. Len(burst) :
            burst[i] = WordOf(Collected, write_offset + i - 1, Accepted)
      /\ \A cell \in 0 .. Written - 1 : \A lane \in LanesBefore(cell, Accepted) :
            memory[cell][lane] = <<Collected, cell>>
      /\ Accepted > 0 => frame_checksum = FrameBytes(Collected, Accepted)
  BY <1>1 DEF WholeInv
<1>4. \A cell \in 0 .. Written' - 1 : \A lane \in LanesBefore(cell, Accepted) :
          memory'[cell][lane] = <<Collected, cell>>
  <2>1. CASE rx_state = "AXI_AW" /\ Address
    <3>1. memory' = memory /\ Written' = Written
      BY <2>1, RxWithinBuffer DEF Address, Written
    <3> QED BY <1>3, <3>1
  <2>2. CASE rx_state = "AXI_W" /\ WriteBeat
    <3> DEFINE next == write_offset + write_beat_index
    <3>1. /\ write_beat_index \in Nat /\ write_beat_index < Len(burst)
          /\ next \in Nat /\ next < Span
      BY <2>2, RxWithinBuffer DEF RxTypes, WriteChannel, Span
    <3>2. burst[write_beat_index + 1] = WordOf(Collected, next, Accepted)
      BY <1>3, <3>1, RxWithinBuffer
    <3>3. memory' = [cell \in Cells |->
                        IF cell = next
                        THEN Strobed(cell, LanesBefore(next, Accepted), <<Collected, next>>)
                        ELSE memory[cell]]
      BY <2>2, <3>2 DEF WriteBeat, WordOf
    <3>4. Written = next /\ Written' = next + 1
      BY <2>2, <3>1, RxWithinBuffer DEF WriteBeat, Written
    <3>5. next \in Cells /\ \A cell \in 0 .. Written - 1 : cell \in Cells
      BY <3>1, SpanFits, RxWithinBuffer, Sizes DEF Cells
    <3>6. \A lane \in LanesBefore(next, Accepted) : memory'[next][lane] = <<Collected, next>>
      BY <3>3, <3>5 DEF Strobed, LanesBefore
    <3> HIDE DEF next
    <3>7. ASSUME NEW cell \in 0 .. Written' - 1, cell # next
          PROVE  cell \in 0 .. Written - 1 /\ memory'[cell] = memory[cell]
      BY <3>1, <3>3, <3>4, <3>5, <3>7
    <3> QED BY <1>3, <3>6, <3>7
  <2> QED BY <2>1, <2>2
<1> QED BY <1>1, <1>2, <1>3, <1>4

LEMMA ResponseKeepsWhole ==
    ASSUME RxTypes, CountInv, WholeInv, frame' = frame, RxTypes', CountInv',
           rx_state = "AXI_B", NEW ok \in BOOLEAN, Response(ok)
    PROVE  WholeInv' /\ GoodFrameIsWhole'
<1>1. /\ after_burst \in {"more", "last", "bad"} /\ burst' = <<>> /\ Len(burst') = 0
      /\ UNCHANGED <<frame_bytes, frame_checksum>>
      /\ Len(burst) \in Nat /\ Len(burst) > 0 /\ write_offset \in Nat
  BY RxWithinBuffer DEF CountInv, WriteChannel, Response, RxTypes
<1>2. /\ Written = Span /\ Span = write_offset + Len(burst) /\ Span > 0
      /\ Accepted = frame_bytes /\ Accepted > 0 /\ Accepted <= 4 * Span
      /\ Span \in Nat /\ Accepted \in Nat
  BY <1>1, RxWithinBuffer DEF Written, Span, Accepted, FirstFrameBeat, CountInv
<1>3. ok => \A cell \in Cells : memory'[cell] = memory[cell]
  BY DEF Response
<1>4. \A cell \in 0 .. Span - 1 : cell \in Cells
  BY <1>2, SpanFits
<1>5. CASE after_burst = "more"
  <2>1. /\ rx_state' = "RX_COLLECT" /\ write_offset' = Span /\ frame_done' = FALSE
        /\ current_frame_bad' = (current_frame_bad \/ ~ok)
    BY <1>2, <1>5 DEF Response, NoReport
  <2>2. Collected = frame /\ Collected' = frame
    BY <1>5, <2>1 DEF Collected, Unreported, WriteChannel
  <2>3. Written' = Written /\ Accepted' = Accepted
    BY <1>1, <1>2, <2>1 DEF Written, Accepted, FirstFrameBeat
  <2>4. ASSUME ~current_frame_bad'
        PROVE  /\ \A cell \in 0 .. Span - 1 : \A lane \in LanesBefore(cell, Accepted) :
                      memory'[cell][lane] = <<frame, cell>>
               /\ frame_checksum = FrameBytes(frame, Accepted)
    <3>1. ok /\ ~current_frame_bad
      BY Zenon, <2>1, <2>4
    <3>2. /\ \A cell \in 0 .. Span - 1 : \A lane \in LanesBefore(cell, Accepted) :
                memory[cell][lane] = <<frame, cell>>
          /\ frame_checksum = FrameBytes(frame, Accepted)
      BY <1>2, <2>2, <3>1 DEF WholeInv
    <3> QED BY <1>3, <1>4, <3>1, <3>2
  <2> QED BY <1>1, <1>2, <2>1, <2>2, <2>3, <2>4 DEF WholeInv, GoodFrameIsWhole
<1>6. CASE after_burst \in {"last", "bad"}
  <2>1. /\ rx_state' = "RX_COLLECT" /\ write_offset' = 0
        /\ frame_error' = Failed(ok)
    BY <1>6 DEF Response, Report
  <2>2. Written' = 0 /\ Accepted' = 0
    BY <1>1, <2>1 DEF Written, Accepted, FirstFrameBeat
  <2>3. WholeInv'
    BY <1>1, <2>2 DEF WholeInv
  <2>4. Collected = PreviousFrame /\ PreviousFrame' = PreviousFrame
    BY <1>6 DEF Collected, Unreported, WriteChannel, PreviousFrame
  <2>5. ASSUME ~frame_error'
        PROVE  /\ frame_bytes > 0
               /\ \A cell \in Cells : \A lane \in LanesBefore(cell, frame_bytes) :
                     memory'[cell][lane] = <<PreviousFrame, cell>>
               /\ frame_checksum = FrameBytes(PreviousFrame, frame_bytes)
    <3>1. ok /\ ~current_frame_bad
      BY Zenon, <2>1, <2>5 DEF Failed
    <3>2. /\ \A cell \in 0 .. Span - 1 : \A lane \in LanesBefore(cell, Accepted) :
                memory[cell][lane] = <<PreviousFrame, cell>>
          /\ frame_checksum = FrameBytes(PreviousFrame, Accepted)
      BY <1>2, <2>4, <3>1 DEF WholeInv
    <3>3. ASSUME NEW cell \in Cells, NEW lane \in LanesBefore(cell, frame_bytes)
          PROVE  cell \in 0 .. Span - 1
      <4>1. cell \in Nat /\ lane \in Nat /\ 4 * cell + lane < Accepted
        BY <1>2, <3>3, Sizes DEF LanesBefore, Lanes, Cells
      <4> QED BY <1>2, <4>1
    <3> QED BY <1>2, <1>3, <3>1, <3>2, <3>3
  <2> QED BY <1>1, <2>3, <2>4, <2>5 DEF GoodFrameIsWhole
<1> QED BY <1>1, <1>5, <1>6

LEMMA WholeStep ==
    ASSUME SourceTypes, RxTypes, OfferedInv, CountInv, WholeInv, Stream,
           RxTypes', CountInv', NEW axi, NEW hold, NEW release,
           RxEdge(offered, axi, hold, release)
    PROVE  WholeInv' /\ GoodFrameIsWhole'
<1>1. CASE offered # NoBeat /\ eth_rx_ready /\ Invalid(offered) /\ Reject(offered)
  <2>1. CASE burst = <<>> /\ offered.last
    <3>1. /\ frame_error' = TRUE /\ write_offset' = 0 /\ burst' = <<>>
          /\ rx_state' = "RX_COLLECT"
      BY <1>1, <2>1 DEF Reject, Report, eth_rx_ready
    <3>2. Written' = 0 /\ Accepted' = 0 /\ Len(burst') = 0
      BY <3>1 DEF Written, Accepted, FirstFrameBeat
    <3>3. WholeInv'
      BY <3>2 DEF WholeInv
    <3>4. GoodFrameIsWhole'
      BY <3>1 DEF GoodFrameIsWhole
    <3> QED BY <3>3, <3>4
  <2>2. CASE ~(burst = <<>> /\ offered.last)
    <3>1. current_frame_bad' = TRUE /\ frame_done' = FALSE
      BY <1>1, <2>2 DEF Reject, NoReport
    <3>2. WholeInv'
      BY <3>1 DEF WholeInv
    <3>3. GoodFrameIsWhole'
      BY <3>1 DEF GoodFrameIsWhole
    <3> QED BY <3>2, <3>3
  <2> QED BY <2>1, <2>2
<1>2. CASE offered # NoBeat /\ eth_rx_ready /\ ~Invalid(offered) /\ Accept(offered)
  <2>1. frame_done' = FALSE
    BY <1>2 DEF Accept, NoReport
  <2>2. GoodFrameIsWhole'
    BY <2>1 DEF GoodFrameIsWhole
  <2> QED BY <1>2, <2>2, AcceptKeepsWhole
<1>3. CASE \/ rx_state = "AXI_AW" /\ Address
           \/ rx_state = "AXI_W" /\ WriteBeat
  <2>1. frame_done' = FALSE
    BY <1>3 DEF Address, WriteBeat, NoReport
  <2>2. frame' = frame
    BY <1>3, StreamMoves DEF eth_rx_ready, Taken
  <2>3. GoodFrameIsWhole'
    BY <2>1 DEF GoodFrameIsWhole
  <2> QED BY <1>3, <2>2, <2>3, WriteKeepsWhole
<1>4. CASE rx_state = "AXI_B" /\ Response(axi = "ok")
  <2>1. frame' = frame
    BY <1>4, StreamMoves DEF eth_rx_ready, Taken
  <2>2. (axi = "ok") \in BOOLEAN
    OBVIOUS
  <2> QED BY <1>4, <2>1, <2>2, ResponseKeepsWhole
<1>5. CASE Quiet /\ ~(offered # NoBeat /\ eth_rx_ready)
  <2>1. frame_done' = FALSE
    BY <1>5 DEF Quiet, NoReport
  <2>2. /\ frame' = frame
        /\ UNCHANGED <<rx_state, burst, write_beat_index, write_offset, after_burst,
                       current_frame_bad, frame_bytes, frame_checksum, memory>>
    BY <1>5, StreamMoves DEF Quiet, Taken
  <2>3. Collected' = Collected /\ Accepted' = Accepted /\ Written' = Written
    BY <2>2 DEF Collected, Unreported, WriteChannel, PreviousFrame, Accepted,
                FirstFrameBeat, Written
  <2>4. WholeInv'
    BY <2>2, <2>3 DEF WholeInv
  <2>5. GoodFrameIsWhole'
    BY <2>1 DEF GoodFrameIsWhole
  <2> QED BY <2>4, <2>5
<1>6. ~(rx_state = "RX_DROP" /\ Drop)
  BY DEF CountInv
<1> QED BY <1>1, <1>2, <1>3, <1>4, <1>5, <1>6, RxBranches

LEMMA FrameInit ==
    ASSUME Init
    PROVE  FrameInv
<1>1. OfferedInv
  BY DEF Init, OfferedInv
<1>2. CountInv
  BY Sizes DEF Init, RxInit, CountInv, FramesAccounted, Unreported, WriteChannel, Frames,
               Span, Accepted, FirstFrameBeat
<1>3. WholeInv
  <2>1. Len(burst) = 0 /\ Written = 0 /\ Accepted = 0
    BY DEF Init, RxInit, Written, Accepted, FirstFrameBeat
  <2> QED BY <2>1 DEF WholeInv
<1>4. GoodFrameIsWhole
  BY DEF Init, RxInit, GoodFrameIsWhole
<1> QED BY <1>1, <1>2, <1>3, <1>4, PathInit DEF FrameInv

LEMMA FrameStep ==
    ASSUME FullButLast, FrameInv, [Next]_vars
    PROVE  FrameInv'
<1>1. PathInv'
  BY PathStep DEF FrameInv
<1>2. CASE UNCHANGED vars
  <2>1. UNCHANGED <<rx_state, burst, write_beat_index, write_offset, after_burst,
                    current_frame_bad, frame_done, frame_error, frame_bytes,
                    frame_checksum, frame_sequence, memory>>
    BY <1>2 DEF vars, rxVars
  <2>2. UNCHANGED <<offered, frame, place>>
    BY <1>2 DEF vars, sourceVars
  <2>3. OfferedInv'
    BY <2>2 DEF FrameInv, OfferedInv
  <2>4. CountInv'
    BY <2>1, <2>2 DEF FrameInv, CountInv, FramesAccounted, Unreported, WriteChannel,
                      Span, Accepted, FirstFrameBeat
  <2>5. Collected' = Collected /\ Accepted' = Accepted /\ Written' = Written
    BY <2>1, <2>2 DEF Collected, Unreported, WriteChannel, PreviousFrame, Accepted,
                      FirstFrameBeat, Written
  <2>6. WholeInv'
    BY <2>1, <2>5 DEF FrameInv, WholeInv
  <2>7. GoodFrameIsWhole'
    BY <2>1, <2>2 DEF FrameInv, GoodFrameIsWhole, PreviousFrame
  <2> QED BY <1>1, <2>3, <2>4, <2>6, <2>7 DEF FrameInv
<1>3. ASSUME NEW write, NEW axi, NEW read, Edge(write, axi, read)
      PROVE  FrameInv'
  <2>1. /\ Stream /\ RxEdge(offered, axi, cnn_auto_start_enable, frame_release)
        /\ SourceTypes /\ SourceTypes' /\ RxTypes /\ RxTypes'
        /\ OfferedInv /\ CountInv /\ WholeInv
    BY <1>1, <1>3 DEF Edge, FrameInv, PathInv
  <2>2. OfferedInv'
    BY <2>1, OfferedStep
  <2>3. CountInv'
    BY <2>1, CountStep
  <2>4. WholeInv' /\ GoodFrameIsWhole'
    BY <2>1, <2>3, WholeStep
  <2> QED BY <1>1, <2>2, <2>3, <2>4 DEF FrameInv
<1> QED BY <1>2, <1>3 DEF Next

\* If a beat before the last of its frame keeps all its lanes, no word is written
\* beyond the frame buffer, for every size of buffer, burst and page: the limit on
\* bytes is then a limit on words too (incoming_invalid, write_offset).
THEOREM BufferIsKept == FullButLast => (Spec => []WritesStayInBuffer)
<1> SUFFICES ASSUME FullButLast PROVE Spec => []WritesStayInBuffer
  OBVIOUS
<1>1. Init => FrameInv
  BY FrameInit
<1>2. FrameInv /\ [Next]_vars => FrameInv'
  BY FrameStep
<1>3. FrameInv => WritesStayInBuffer
  <2> SUFFICES ASSUME FrameInv, rx_state = "AXI_W"
               PROVE  write_offset + write_beat_index \in Cells
    BY DEF WritesStayInBuffer
  <2>1. RxTypes /\ Span <= MaxBeats
    BY SpanFits DEF FrameInv, PathInv
  <2>2. /\ write_beat_index \in Nat /\ write_beat_index < Len(burst)
        /\ Len(burst) \in Nat /\ write_offset \in Nat
    BY <2>1, RxWithinBuffer DEF RxTypes, WriteChannel
  <2> QED BY <2>1, <2>2, Sizes DEF Span, Cells
<1> QED BY <1>1, <1>2, <1>3, PTL DEF Spec

\* Every frame sent is then reported once (RX_COLLECT and AXI_B; RX_DROP, which
\* breaks this, is never entered).
THEOREM EveryFrameIsAccounted == FullButLast => (Spec => []FramesAccounted)
<1> SUFFICES ASSUME FullButLast PROVE Spec => []FramesAccounted
  OBVIOUS
<1>1. Init => FrameInv
  BY FrameInit
<1>2. FrameInv /\ [Next]_vars => FrameInv'
  BY FrameStep
<1>3. FrameInv => FramesAccounted
  BY DEF FrameInv, CountInv
<1> QED BY <1>1, <1>2, <1>3, PTL DEF Spec

\* Then a frame reported as good is in the frame buffer, whole and in order, with
\* its length and checksum, for every size of buffer, burst and page.
THEOREM GoodFramesAreWhole == FullButLast => (Spec => []GoodFrameIsWhole)
<1> SUFFICES ASSUME FullButLast PROVE Spec => []GoodFrameIsWhole
  OBVIOUS
<1>1. Init => FrameInv
  BY FrameInit
<1>2. FrameInv /\ [Next]_vars => FrameInv'
  BY FrameStep
<1>3. FrameInv => GoodFrameIsWhole
  BY DEF FrameInv
<1> QED BY <1>1, <1>2, <1>3, PTL DEF Spec

-----------------------------------------------------------------------------
(***************************************************************************)
(* What the CNN reads                                                      *)
(***************************************************************************)

\* A run follows its start through the input DMA to the result: one of them
\* is at work at a time, and none while the CNN is not busy.
PhaseInv ==
    /\ dma_state \in {"DMA_IDLE", "DMA_AR", "DMA_R"}
    /\ dma_start => cnn_busy /\ ~compute_active /\ dma_state = "DMA_IDLE" /\ ~dma_done
    /\ ReadChannel => cnn_busy /\ ~compute_active /\ ~dma_done
    /\ dma_done => cnn_busy /\ ~compute_active
    /\ compute_active => cnn_busy
    /\ cnn_done => ~cnn_busy
    /\ cnn_busy \in BOOLEAN /\ compute_active \in BOOLEAN

\* Nothing is collected or written while the frame buffer is held.
HeldInv == frame_buffer_held => rx_state = "RX_COLLECT"

\* A run that owns the buffer is under way, and no error has released it.
Owns == run.owner /\ cnn_busy /\ ~cnn_error

Input     == memory[0][0][1]
BeatsRead == read_offset + (IF dma_state = "DMA_R" THEN beat_index ELSE 0)

InputIsRead == dma_checksum = run.checksum /\ bytes_read = run.bytes

\* The frame the run was started for is still in the buffer, and the input DMA
\* has read it as far as it is.
RunInv ==
    Owns =>
        /\ frame_buffer_held
        /\ run.bytes \in 1 .. MaxBytes
        /\ run.checksum = FrameBytes(Input, run.bytes)
        /\ \A cell \in Cells : \A lane \in LanesBefore(cell, run.bytes) :
              memory[cell][lane] = <<Input, cell>>
        /\ dma_start => dma_input_bytes = run.bytes
        /\ ReadChannel => /\ transfer_bytes = run.bytes /\ ~dma_error
                          /\ dma_checksum = FrameBytes(Input, 4 * BeatsRead)
        /\ (dma_done /\ ~dma_error) \/ compute_active => InputIsRead

RunTypes == DOMAIN run = {"checksum", "bytes", "owner"} /\ run.owner \in BOOLEAN

ClassifyInv ==
    FrameInv /\ PhaseInv /\ HeldInv /\ RunTypes /\ RunInv /\ ClassifiesItsFrame

-----------------------------------------------------------------------------

\* Where the input DMA goes from where it is.
LEMMA DmaPhases ==
    ASSUME PhaseInv, NEW read, DmaEdge(read)
    PROVE  /\ dma_state' \in {"DMA_IDLE", "DMA_AR", "DMA_R"}
           /\ dma_state' # "DMA_IDLE" => dma_done' = FALSE
           /\ dma_start \/ ReadChannel \/ (dma_state' = "DMA_IDLE" /\ dma_done' = FALSE)
           /\ dma_done' \in BOOLEAN
<1>1. CASE dma_state = "DMA_IDLE" /\ dma_start
  BY <1>1 DEF DmaEdge, BeginTransfer, Finish
<1>2. CASE dma_state = "DMA_AR" /\ read # "none" /\ ~read_active
  BY <1>2 DEF DmaEdge, ReadAddress, ReadChannel
<1>3. CASE dma_state = "DMA_R" /\ read = "ok"
  BY <1>3 DEF DmaEdge, ReadBeat, Finish, ReadChannel
<1>4. CASE dma_state = "DMA_R" /\ read = "bad"
  BY <1>4 DEF DmaEdge, ReadBeatFails, Finish, ReadChannel
<1>5. CASE /\ ~(dma_state = "DMA_IDLE" /\ dma_start)
           /\ ~(dma_state = "DMA_AR" /\ read # "none" /\ ~read_active)
           /\ ~(dma_state = "DMA_R" /\ read = "ok")
           /\ ~(dma_state = "DMA_R" /\ read = "bad")
  BY <1>5 DEF DmaEdge, PhaseInv, ReadChannel
<1> QED BY <1>1, <1>2, <1>3, <1>4, <1>5

-----------------------------------------------------------------------------

\* What the input DMA does to its own registers on the edges of a run.
LEMMA PhaseStep ==
    ASSUME PhaseInv, NEW start \in BOOLEAN, NEW bytes, NEW clear, NEW read,
           StubEdge(start, bytes, clear), DmaEdge(read)
    PROVE  PhaseInv'
<1>1. CASE start
  <2>1. ~cnn_done'
    <3>1. cnn_done' = (~start /\ Computes /\ latency_counter <= 1)
      BY DEF StubEdge
    <3> QED BY <1>1, <3>1, Zenon
  <2>2. CASE cnn_busy
    <3>1. dma_start' = FALSE /\ UNCHANGED <<cnn_busy, compute_active>>
      BY <1>1, <2>2 DEF StubEdge, StartCnn
    <3> QED BY <2>1, <2>2, <3>1, DmaPhases DEF PhaseInv, ReadChannel
  <2>3. CASE ~cnn_busy
    <3>1. cnn_busy' = TRUE /\ compute_active' = FALSE
      BY <1>1, <2>3 DEF StubEdge, StartCnn
    <3>2. dma_state = "DMA_IDLE" /\ ~dma_start /\ ~dma_done
      BY <2>3 DEF PhaseInv, ReadChannel
    <3>3. dma_state' = "DMA_IDLE" /\ dma_done' = FALSE
      BY <3>2, DmaPhases DEF ReadChannel
    <3> QED BY <2>1, <3>1, <3>3 DEF PhaseInv, ReadChannel
  <2> QED BY <2>2, <2>3
<1>2. CASE ~start /\ cnn_busy /\ ~compute_active /\ dma_done
  <2>1. InputRead(clear) /\ ~cnn_done'
    BY <1>2 DEF StubEdge, Computes
  <2>2. dma_start' = FALSE
    BY <2>1 DEF InputRead
  <2>3. dma_state' = "DMA_IDLE" /\ dma_done' = FALSE
    BY <1>2, DmaPhases DEF PhaseInv, ReadChannel
  <2>4. /\ compute_active' => cnn_busy'
        /\ cnn_busy' \in BOOLEAN /\ compute_active' \in BOOLEAN
    <3>1. dma_error => cnn_busy' = FALSE /\ compute_active' = compute_active
      BY <2>1 DEF InputRead
    <3>2. ~dma_error => cnn_busy' = cnn_busy /\ compute_active' = TRUE
      BY <2>1 DEF InputRead
    <3>3. cnn_busy = TRUE /\ compute_active = FALSE
      BY <1>2 DEF PhaseInv
    <3>4. CASE dma_error
      BY <3>1, <3>3, <3>4
    <3>5. CASE ~dma_error
      BY <3>2, <3>3, <3>5
    <3> QED BY <3>4, <3>5
  <2> QED BY <2>1, <2>2, <2>3, <2>4 DEF PhaseInv, ReadChannel
<1>3. CASE ~start /\ Computes
  <2>1. dma_state = "DMA_IDLE" /\ ~dma_start /\ ~dma_done
    BY <1>3 DEF PhaseInv, ReadChannel, Computes
  <2>2. dma_state' = "DMA_IDLE" /\ dma_done' = FALSE
    BY <2>1, DmaPhases DEF ReadChannel
  <2>3. CASE latency_counter <= 1
    <3>1. Classify(clear)
      BY <1>3, <2>3, <2>1 DEF StubEdge, Computes
    <3> QED BY <2>2, <3>1 DEF Classify, PhaseInv, ReadChannel
  <2>4. CASE ~(latency_counter <= 1)
    <3>1. ~cnn_done'
      BY <2>4 DEF StubEdge
    <3>2. dma_start' = FALSE /\ UNCHANGED <<cnn_busy, compute_active>>
      BY <1>3, <2>1, <2>4 DEF StubEdge, Computes, CountDown
    <3> QED BY <1>3, <2>2, <3>1, <3>2 DEF PhaseInv, ReadChannel, Computes
  <2> QED BY <2>3, <2>4
<1>4. CASE ~start /\ ~(cnn_busy /\ ~compute_active /\ dma_done) /\ ~Computes
  <2>1. ~cnn_done' /\ dma_start' = FALSE /\ UNCHANGED <<cnn_busy, compute_active>>
    BY <1>4 DEF StubEdge, Computes
  <2> QED BY <1>4, <2>1, DmaPhases DEF PhaseInv, ReadChannel, Computes
<1> QED BY <1>1, <1>2, <1>3, <1>4 DEF Computes

\* While the buffer is held the receive DMA does nothing.
LEMMA HeldIsQuiet ==
    ASSUME HeldInv, frame_buffer_held,
           NEW beat, NEW axi, NEW hold, NEW release, RxEdge(beat, axi, hold, release)
    PROVE  Quiet
BY DEF HeldInv, RxEdge, eth_rx_ready

LEMMA HeldStep ==
    ASSUME HeldInv, NEW beat, NEW axi, NEW hold, NEW release,
           RxEdge(beat, axi, hold, release)
    PROVE  HeldInv'
<1>1. CASE Holds(axi, hold)
  <2>1. rx_state = "AXI_B" /\ axi = "ok" /\ after_burst = "last"
    BY <1>1 DEF Holds
  <2>2. Response(axi = "ok")
    BY <2>1 DEF RxEdge
  <2> QED BY <2>1, <2>2 DEF Response, HeldInv
<1>2. CASE ~Holds(axi, hold) /\ ~frame_buffer_held
  <2>1. ~frame_buffer_held'
    BY <1>2, Zenon DEF RxEdge, HoldBuffer
  <2> QED BY <2>1 DEF HeldInv
<1>3. CASE frame_buffer_held
  BY <1>3, HeldIsQuiet DEF HeldInv, Quiet
<1> QED BY <1>1, <1>2, <1>3

\* The stub's side of an edge of a run.
LEMMA StubInRun ==
    ASSUME PhaseInv, cnn_busy, NEW start \in BOOLEAN, NEW bytes, NEW clear,
           StubEdge(start, bytes, clear)
    PROVE  /\ ~dma_start'
           /\ compute_active' => compute_active \/ (dma_done /\ ~dma_error)
           /\ cnn_done' => compute_active
<1>1. cnn_done' = (~start /\ Computes /\ latency_counter <= 1)
  BY DEF StubEdge
<1>2. cnn_done' => compute_active
  BY <1>1, Zenon DEF Computes
<1>3. ~dma_start' /\ (compute_active' => compute_active \/ (dma_done /\ ~dma_error))
  <2>1. CASE start
    BY <2>1 DEF StubEdge, StartCnn
  <2>2. CASE ~start /\ ~compute_active /\ dma_done
    <3>1. InputRead(clear)
      BY <2>2 DEF StubEdge, Computes
    <3>2. dma_error => compute_active' = compute_active
      BY <3>1 DEF InputRead
    <3>3. compute_active = FALSE
      BY <2>2 DEF PhaseInv
    <3>4. CASE dma_error
      BY <3>1, <3>2, <3>3, <3>4 DEF InputRead
    <3>5. CASE ~dma_error
      BY <2>2, <3>1, <3>5 DEF InputRead
    <3> QED BY <3>4, <3>5
  <2>3. CASE ~start /\ ~compute_active /\ ~dma_done
    BY <2>3 DEF StubEdge, Computes
  <2>4. CASE ~start /\ compute_active
    <3>1. dma_start' = FALSE
      BY <2>4 DEF StubEdge, Computes, InputRead, CountDown, Classify, PhaseInv
    <3> QED BY <2>4, <3>1
  <2> QED BY <2>1, <2>2, <2>3, <2>4
<1> QED BY <1>2, <1>3

\* The input DMA's side: beat by beat it reads the frame in the buffer.
LEMMA DmaInRun ==
    ASSUME PhaseInv, DmaTypes, RunInv, Owns, NEW read, DmaEdge(read)
    PROVE  /\ ReadChannel' => /\ transfer_bytes' = run.bytes /\ ~dma_error'
                              /\ dma_checksum' = FrameBytes(Input, 4 * BeatsRead')
           /\ dma_done' /\ ~dma_error' => /\ dma_checksum' = run.checksum
                                          /\ bytes_read' = run.bytes
           /\ dma_done \/ compute_active => UNCHANGED <<dma_checksum, bytes_read>>
<1>0. /\ run.bytes \in 1 .. MaxBytes /\ run.bytes \in Nat
      /\ run.checksum = FrameBytes(Input, run.bytes)
      /\ dma_start => dma_input_bytes = run.bytes
      /\ ReadChannel => /\ transfer_bytes = run.bytes /\ ~dma_error
                        /\ dma_checksum = FrameBytes(Input, 4 * BeatsRead)
  BY Sizes DEF RunInv
<1>1. CASE dma_state = "DMA_IDLE" /\ dma_start
  <2>1. BeginTransfer /\ dma_input_bytes \in 1 .. MaxBytes
    BY <1>0, <1>1 DEF DmaEdge
  <2>2. /\ dma_checksum' = {} /\ read_offset' = 0 /\ dma_state' = "DMA_AR"
        /\ transfer_bytes' = run.bytes /\ ~dma_error' /\ ~dma_done'
    BY <1>0, <1>1, <2>1 DEF BeginTransfer
  <2>3. FrameBytes(Input, 4 * BeatsRead') = {}
    <3>1. BeatsRead' = 0
      BY <2>2 DEF BeatsRead
    <3>2. FrameBytes(Input, 0) = {}
      BY Sizes DEF FrameBytes, LanesBefore, Lanes, Cells
    <3> QED BY <3>1, <3>2
  <2>4. ~dma_done /\ ~compute_active
    BY <1>1 DEF PhaseInv
  <2> QED BY <2>2, <2>3, <2>4
<1>2. CASE dma_state = "DMA_AR" /\ read # "none" /\ ~read_active
  <2>1. ReadAddress /\ ReadChannel
    BY <1>2 DEF DmaEdge, ReadChannel
  <2>2. ~dma_done /\ ~compute_active
    BY <2>1 DEF PhaseInv
  <2>3. /\ UNCHANGED <<transfer_bytes, read_offset, dma_checksum, dma_error>>
        /\ beat_index' = 0 /\ dma_state' = "DMA_R" /\ dma_done' = FALSE
    BY <2>1 DEF ReadAddress
  <2>4. BeatsRead' = BeatsRead
    BY <1>2, <2>3 DEF BeatsRead, DmaTypes
  <2>5. ~dma_error'
    BY <1>0, <2>1, <2>3
  <2> QED BY <1>0, <2>1, <2>2, <2>3, <2>4, <2>5
<1>3. CASE dma_state = "DMA_R" /\ read = "ok"
  <2>1. ReadBeat /\ ReadChannel
    BY <1>3 DEF DmaEdge, ReadChannel
  <2>2. ~dma_done /\ ~compute_active
    BY <2>1 DEF PhaseInv
  <2>3. /\ BeatsRead = read_offset + beat_index /\ BeatsRead \in Nat
        /\ beat_index \in Nat /\ read_offset \in Nat /\ active_burst_beats \in Nat
        /\ beat_index < active_burst_beats
        /\ 4 * (read_offset + active_burst_beats) < run.bytes + 4
    BY <1>0, <1>3, <2>1 DEF BeatsRead, DmaTypes
  <2> DEFINE cell == BeatsRead
  <2>4. /\ cell \in Cells /\ 4 * cell < run.bytes
        /\ masked_read_data =
              {<<<<Input, cell>>, lane>> : lane \in LanesBefore(cell, run.bytes)}
    <3>1. cell \in Nat /\ 4 * cell < run.bytes
      BY <1>0, <2>3
    <3>2. cell \in Cells
      BY <1>0, <3>1, Sizes DEF Cells
    <3>3. masked_read_data =
              {<<memory[cell][lane], lane>> : lane \in LanesBefore(cell, run.bytes)}
      BY <1>0, <2>1, <2>3 DEF masked_read_data
    <3>4. \A lane \in LanesBefore(cell, run.bytes) : memory[cell][lane] = <<Input, cell>>
      BY <3>2 DEF RunInv
    <3> QED BY <3>1, <3>2, <3>3, <3>4
  <2>5. dma_checksum' = FrameBytes(Input, Lesser(4 * cell + 4, run.bytes))
    <3> HIDE DEF cell
    <3> DEFINE next == Lesser(4 * cell + 4, run.bytes)
    <3>1. /\ cell \in Cells /\ cell \in Nat /\ next \in Nat
          /\ 4 * cell <= next /\ next <= 4 * cell + 4
      BY <1>0, <2>4, Sizes DEF Lesser, Cells
    <3>2. LanesBefore(cell, run.bytes) = LanesBefore(cell, next)
      BY <1>0, <3>1, LanesCut
    <3> HIDE DEF next
    <3>3. Xor(FrameBytes(Input, 4 * cell),
              {<<<<Input, cell>>, lane>> : lane \in LanesBefore(cell, next)})
            = FrameBytes(Input, next)
      BY <3>1, OneMoreWord
    <3>4. dma_checksum' = Xor(dma_checksum, masked_read_data)
      BY <2>1 DEF ReadBeat
    <3>5. dma_checksum = FrameBytes(Input, 4 * cell)
      BY <1>0, <2>1 DEF cell
    <3> QED BY <2>4, <3>2, <3>3, <3>4, <3>5 DEF next
  <2>6. CASE ExpectedLast /\ TransferEnd
    <3>1. Lesser(4 * cell + 4, run.bytes) = run.bytes
      BY <1>0, <2>1, <2>3, <2>6 DEF ExpectedLast, TransferEnd, Lesser
    <3>2. bytes_read' = run.bytes /\ dma_state' = "DMA_IDLE"
      BY <1>0, <2>1, <2>6 DEF ReadBeat, Finish
    <3> QED BY <1>0, <2>2, <2>5, <3>1, <3>2 DEF ReadChannel
  <2>7. CASE ~(ExpectedLast /\ TransferEnd)
    <3>1. dma_done' = FALSE /\ UNCHANGED <<dma_error, transfer_bytes>>
      BY <2>1, <2>7 DEF ReadBeat
    <3>2. BeatsRead' = BeatsRead + 1
      <4>1. CASE ExpectedLast
        <5>1. /\ read_offset' = read_offset + active_burst_beats
              /\ dma_state' = "DMA_AR"
          BY <2>1, <2>7, <4>1 DEF ReadBeat
        <5> QED BY <2>3, <4>1, <5>1 DEF ExpectedLast, BeatsRead
      <4>2. CASE ~ExpectedLast
        <5>1. /\ beat_index' = beat_index + 1
              /\ read_offset' = read_offset /\ dma_state' = "DMA_R"
          BY <1>3, <2>1, <2>7, <4>2 DEF ReadBeat
        <5> QED BY <2>3, <5>1 DEF BeatsRead
      <4> QED BY <4>1, <4>2
    <3>3. ~dma_error'
      BY <1>0, <2>1, <3>1
    <3>4. Lesser(4 * cell + 4, run.bytes) = 4 * BeatsRead'
      <4>1. 4 * BeatsRead + 4 <= run.bytes
        BY <1>0, <2>1, <2>3, <2>7 DEF ExpectedLast, TransferEnd
      <4> QED BY <1>0, <2>3, <3>2, <4>1 DEF Lesser
    <3> QED BY <1>0, <2>1, <2>2, <2>5, <3>1, <3>3, <3>4
  <2> QED BY <2>6, <2>7
<1>4. CASE dma_state = "DMA_R" /\ read = "bad"
  <2>1. ReadBeatFails /\ ReadChannel
    BY <1>4 DEF DmaEdge, ReadChannel
  <2>2. ~dma_done /\ ~compute_active
    BY <2>1 DEF PhaseInv
  <2>3. dma_error' = TRUE /\ dma_state' = "DMA_IDLE"
    BY <2>1 DEF ReadBeatFails, Finish
  <2> QED BY <2>2, <2>3 DEF ReadChannel
<1>5. CASE /\ ~(dma_state = "DMA_IDLE" /\ dma_start)
           /\ ~(dma_state = "DMA_AR" /\ read # "none" /\ ~read_active)
           /\ ~(dma_state = "DMA_R" /\ read = "ok")
           /\ ~(dma_state = "DMA_R" /\ read = "bad")
  <2>1. /\ dma_done' = FALSE
        /\ UNCHANGED <<dma_state, transfer_bytes, read_offset, active_burst_beats,
                       beat_index, dma_error, dma_checksum, bytes_read>>
    BY <1>5 DEF DmaEdge
  <2>2. BeatsRead' = BeatsRead /\ ReadChannel' = ReadChannel
    BY <2>1 DEF BeatsRead, ReadChannel
  <2>3. ReadChannel => ~dma_error'
    BY <1>0, <2>1
  <2> QED BY <1>0, <2>1, <2>2, <2>3
<1> QED BY <1>1, <1>2, <1>3, <1>4, <1>5

\* The edge on which a run starts that owns the buffer.
LEMMA RunStarts ==
    ASSUME FrameInv, PhaseInv, HeldInv, RunTypes, NEW write, NEW axi, NEW read,
           Edge(write, axi, read), cnn_start_selected, ~cnn_busy, run'.owner
    PROVE  RunInv' /\ ClassifiesItsFrame'
<1>1. /\ run' = [checksum |-> frame_checksum, bytes |-> frame_bytes,
                 owner |-> ~cnn_manual_start /\ frame_buffer_held /\ ~frame_release]
      /\ RxEdge(offered, axi, cnn_auto_start_enable, frame_release)
      /\ StubEdge(cnn_start_selected, cnn_input_bytes_selected, cnn_clear_irq)
      /\ DmaEdge(read)
  BY DEF Edge, RecordRun
<1>2. ~cnn_manual_start /\ frame_buffer_held /\ ~frame_release
  <2>1. run'.owner = (~cnn_manual_start /\ frame_buffer_held /\ ~frame_release)
    BY <1>1
  <2> QED BY <2>1, Zenon
<1>3. /\ run'.checksum = frame_checksum /\ run'.bytes = frame_bytes
      /\ frame_done /\ ~frame_error
  BY <1>1, <1>2 DEF cnn_start_selected, FrameStarts
<1>4. /\ frame_bytes > 0 /\ frame_checksum = FrameBytes(PreviousFrame, frame_bytes)
      /\ \A cell \in Cells : \A lane \in LanesBefore(cell, frame_bytes) :
            memory[cell][lane] = <<PreviousFrame, cell>>
  BY <1>3 DEF FrameInv, GoodFrameIsWhole
<1>5. memory' = memory /\ frame_buffer_held'
  <2>1. Quiet
    BY <1>1, <1>2, HeldIsQuiet
  <2>2. frame_buffer_held' = (Holds(axi, cnn_auto_start_enable)
                               \/ (frame_buffer_held /\ ~frame_release))
    BY <1>1 DEF RxEdge, HoldBuffer
  <2>3. frame_buffer_held'
    BY <1>2, <2>2, Zenon
  <2> QED BY <2>1, <2>3 DEF Quiet
<1>6. frame_bytes \in 1 .. MaxBytes
  BY <1>4, Sizes DEF FrameInv, PathInv, RxTypes
<1>7. Input' = PreviousFrame
  <2>1. 0 \in Cells /\ 0 \in LanesBefore(0, frame_bytes)
    BY <1>6, Sizes DEF Cells, LanesBefore, Lanes
  <2> QED BY <1>4, <1>5, <2>1 DEF Input
<1>8. dma_input_bytes' = frame_bytes /\ compute_active' = FALSE
  BY <1>1, <1>2 DEF StubEdge, StartCnn, cnn_input_bytes_selected
<1>9. dma_state' = "DMA_IDLE" /\ dma_done' = FALSE
  BY <1>1, DmaPhases DEF PhaseInv, ReadChannel
<1>10. ~cnn_done'
  <2>1. cnn_done' = (~cnn_start_selected /\ Computes /\ latency_counter <= 1)
    BY <1>1 DEF StubEdge
  <2> QED BY <2>1, Zenon
<1>11. RunInv'
  BY <1>3, <1>4, <1>5, <1>6, <1>7, <1>8, <1>9 DEF RunInv, ReadChannel
<1> QED BY <1>10, <1>11 DEF ClassifiesItsFrame

\* An edge on which no run starts: a run that goes on still owns the buffer.
LEMMA RunGoesOn ==
    ASSUME FrameInv, PhaseInv, HeldInv, RunTypes, RunInv, NEW write, NEW axi, NEW read,
           Edge(write, axi, read), ~(cnn_start_selected /\ ~cnn_busy), run'.owner
    PROVE  RunInv' /\ ClassifiesItsFrame'
<1>1. /\ run' = [run EXCEPT !.owner = @ /\ cnn_busy /\ ~cnn_error]
      /\ RxEdge(offered, axi, cnn_auto_start_enable, frame_release)
      /\ StubEdge(cnn_start_selected, cnn_input_bytes_selected, cnn_clear_irq)
      /\ DmaEdge(read)
  BY DEF Edge, RecordRun
<1>2. run'.checksum = run.checksum /\ run'.bytes = run.bytes
  BY <1>1 DEF RunTypes
<1>3. Owns
  <2>1. run'.owner = (run.owner /\ cnn_busy /\ ~cnn_error)
    BY <1>1 DEF RunTypes
  <2> QED BY <2>1, Zenon DEF Owns
<1>4. /\ frame_buffer_held /\ run.bytes \in 1 .. MaxBytes
      /\ run.checksum = FrameBytes(Input, run.bytes)
      /\ \A cell \in Cells : \A lane \in LanesBefore(cell, run.bytes) :
            memory[cell][lane] = <<Input, cell>>
  BY <1>3 DEF RunInv
<1>5. memory' = memory /\ Input' = Input /\ frame_buffer_held'
  <2>1. Quiet
    BY <1>1, <1>4, HeldIsQuiet
  <2>2. frame_buffer_held' = (Holds(axi, cnn_auto_start_enable)
                               \/ (frame_buffer_held /\ ~frame_release))
    BY <1>1 DEF RxEdge, HoldBuffer
  <2>3. ~frame_release
    BY <1>3 DEF frame_release, PhaseInv, Owns
  <2>4. frame_buffer_held'
    BY <1>4, <2>2, <2>3, Zenon
  <2> QED BY <2>1, <2>4 DEF Quiet, Input
<1>6. /\ ~dma_start' /\ (cnn_done' => compute_active)
      /\ compute_active' => compute_active \/ (dma_done /\ ~dma_error)
  <2>1. cnn_start_selected \in BOOLEAN
    BY DEF cnn_start_selected
  <2> QED BY <1>1, <1>3, <2>1, StubInRun DEF Owns
<1>7. /\ ReadChannel' => /\ transfer_bytes' = run.bytes /\ ~dma_error'
                         /\ dma_checksum' = FrameBytes(Input, 4 * BeatsRead')
      /\ dma_done' /\ ~dma_error' => /\ dma_checksum' = run.checksum
                                     /\ bytes_read' = run.bytes
      /\ dma_done \/ compute_active => UNCHANGED <<dma_checksum, bytes_read>>
  BY <1>1, <1>3, DmaInRun DEF FrameInv, PathInv
<1>8. compute_active \/ (dma_done /\ ~dma_error) =>
          dma_checksum' = run.checksum /\ bytes_read' = run.bytes
  BY <1>3, <1>7 DEF RunInv, InputIsRead
<1>9. RunInv'
  BY <1>2, <1>4, <1>5, <1>6, <1>7, <1>8 DEF RunInv, InputIsRead
<1> QED BY <1>2, <1>6, <1>8, <1>9 DEF ClassifiesItsFrame

LEMMA ClassifyInit ==
    ASSUME Init
    PROVE  ClassifyInv
<1>1. FrameInv
  BY FrameInit
<1>2. PhaseInv /\ HeldInv
  BY DEF Init, RxInit, CnnInit, PhaseInv, HeldInv, ReadChannel
<1>3. RunTypes /\ RunInv /\ ClassifiesItsFrame
  BY DEF Init, CnnInit, NoRun, RunTypes, RunInv, Owns, ClassifiesItsFrame
<1> QED BY <1>1, <1>2, <1>3 DEF ClassifyInv

LEMMA ClassifyStep ==
    ASSUME FullButLast, ClassifyInv, [Next]_vars
    PROVE  ClassifyInv'
<1>1. FrameInv'
  BY FrameStep DEF ClassifyInv
<1>2. CASE UNCHANGED vars
  <2>1. UNCHANGED dmaVars /\ UNCHANGED stubVars /\ UNCHANGED rxVars /\ run' = run
    BY <1>2 DEF vars
  <2>2. PhaseInv' /\ HeldInv'
    BY <2>1 DEF ClassifyInv, PhaseInv, HeldInv, ReadChannel, dmaVars, stubVars, rxVars
  <2>3. RunTypes' /\ ClassifiesItsFrame'
    BY <2>1 DEF ClassifyInv, RunTypes, ClassifiesItsFrame, dmaVars, stubVars
  <2>4. RunInv'
    BY <2>1 DEF ClassifyInv, RunInv, Owns, Input, BeatsRead, InputIsRead, ReadChannel,
                dmaVars, stubVars, rxVars
  <2> QED BY <1>1, <2>2, <2>3, <2>4 DEF ClassifyInv
<1>3. ASSUME NEW write, NEW axi, NEW read, Edge(write, axi, read)
      PROVE  ClassifyInv'
  <2>1. /\ RxEdge(offered, axi, cnn_auto_start_enable, frame_release)
        /\ StubEdge(cnn_start_selected, cnn_input_bytes_selected, cnn_clear_irq)
        /\ DmaEdge(read) /\ RecordRun /\ cnn_start_selected \in BOOLEAN
    BY <1>3 DEF Edge, cnn_start_selected
  <2>2. PhaseInv' /\ HeldInv'
    BY <2>1, PhaseStep, HeldStep DEF ClassifyInv
  <2>3. RunTypes'
    <3>1. CASE cnn_start_selected /\ ~cnn_busy
      BY <2>1, <3>1 DEF RecordRun, RunTypes
    <3>2. CASE ~(cnn_start_selected /\ ~cnn_busy)
      BY <2>1, <3>2 DEF RecordRun, RunTypes, ClassifyInv
    <3> QED BY <3>1, <3>2
  <2>4. RunInv' /\ ClassifiesItsFrame'
    <3>1. CASE ~run'.owner
      BY <3>1 DEF RunInv, Owns, ClassifiesItsFrame
    <3>2. CASE run'.owner /\ cnn_start_selected /\ ~cnn_busy
      BY <1>3, <3>2, RunStarts DEF ClassifyInv
    <3>3. CASE run'.owner /\ ~(cnn_start_selected /\ ~cnn_busy)
      BY <1>3, <3>3, RunGoesOn DEF ClassifyInv
    <3> QED BY <3>1, <3>2, <3>3
  <2> QED BY <1>1, <2>2, <2>3, <2>4 DEF ClassifyInv
<1> QED BY <1>2, <1>3 DEF Next

\* Then a run that owns the buffer reads the frame it was started for, all of it
\* and nothing of a later one: the hold keeps the receive DMA out of the memory
\* until the run's end or an error (frame_buffer_held, cnn_input_dma).
THEOREM RunsReadTheirFrame == FullButLast => (Spec => []ClassifiesItsFrame)
<1> SUFFICES ASSUME FullButLast PROVE Spec => []ClassifiesItsFrame
  OBVIOUS
<1>1. Init => ClassifyInv
  BY ClassifyInit
<1>2. ClassifyInv /\ [Next]_vars => ClassifyInv'
  BY ClassifyStep
<1>3. ClassifyInv => ClassifiesItsFrame
  BY DEF ClassifyInv
<1> QED BY <1>1, <1>2, <1>3, PTL DEF Spec
=============================================================================
