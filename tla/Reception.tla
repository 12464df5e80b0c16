------------------------------ MODULE Reception ------------------------------
(***************************************************************************)
(* How frames are received: the DMA writes the bytes of the line into a    *)
(* ring, the main loop (or the task that waits for an answer) reads them   *)
(* from there, decodes them one by one and hands the frames it completes   *)
(* to the packet handler (shared/core_com: rx.c, cobs.c and                *)
(* Packet_Rx_ProcessByte of packet_comunication.c).                        *)
(*                                                                         *)
(* The reader takes several instructions to find out how much there is,    *)
(* and the callbacks of the DMA and of line errors come in between.  If    *)
(* the build reads the counter of the DMA before the offset, a ring that   *)
(* is completed in between counts twice, and the reader is ahead of it.    *)
(* A byte in the ring stands for the number it has on the line.            *)
(***************************************************************************)
EXTENDS Integers, FiniteSetsExt, SequencesExt

CONSTANTS
  Packets,     \* that are sent, each a sequence of bytes
  PacketCount, \* how many of them
  BufferSize,  \* sizeof(rx_buf)
  DecodeSize,  \* sizeof(rx_decode_buf)
  HeaderSize,  \* sizeof(struct ll_pkt_header)
  Noise,       \* what a byte may arrive as when it does not arrive as sent
  OffsetFirst, \* BOOLEAN: which term of rx.c:55 the build reads first, an
               \* order C leaves open
  ErrorAt,     \* where the reader can be when a line error is reported
  MaxFaults    \* bound on line errors and such bytes

Byte == 0 .. 255
Places == {"idle", "second", "compare", "offset", "copy", "store"}

ASSUME ReceptionAssumption ==
  /\ Packets \subseteq Seq(Byte)
  /\ \A m \in Packets : Len(m) \in HeaderSize .. 254 /\ Len(m) <= DecodeSize
  /\ {PacketCount, BufferSize, DecodeSize, HeaderSize} \subseteq Nat \ {0}
  /\ Noise \subseteq Byte /\ OffsetFirst \in BOOLEAN
  /\ ErrorAt \subseteq Places /\ MaxFaults \in Nat

VARIABLES
  packets,   \* those that are sent ...
  wire,      \* ... and all their bytes in the order they are sent in
  sent,      \* how many bytes have gone over the line
  rx_buf, counter, rx_buffer_offset, \* the ring, where the DMA writes next in
             \* it, and how much was received before it began anew
  rx_bytes_already_read,
  reader,    \* BufferedUart_Rx_ProcessReceivedData: where it is, its
             \* variables, and the cells it has still to read
  decoder,   \* cobs_state, and what rx_decode_buf holds of the frame
  accepted,  \* the numbers of the packets handed to packet_received
  seen, gap, \* the last byte that was decoded, and the last one that was
             \* not, or not as it was sent
  origin,    \* the packet of the first byte of the frame, if the others have
             \* followed it as they were sent, or 0
  faults

fixed == <<packets, wire>>
dma == <<rx_buf, counter, rx_buffer_offset>>
decoding == <<decoder, accepted, seen, gap, origin>>
vars == <<fixed, sent, dma, rx_bytes_already_read, reader, decoding, faults>>

Cells == 0 .. BufferSize - 1

-----------------------------------------------------------------------------
(* cobs.c.                                                                 *)

\* from p on, or the end
NextZero(m, p) == Min({q \in p .. Len(m) : m[q] = 0} \cup {Len(m) + 1})

\* cobs_encode: a zero gives way to the distance to the next one
Encode(m) ==
  [p \in 1 .. Len(m) + 2 |->
     IF p = Len(m) + 2 THEN 0
     ELSE IF p > 1 /\ m[p - 1] # 0 THEN m[p - 1]
     ELSE (NextZero(m, p) - p + 1) % 256]

Started == [p |-> 0, c |-> 0, dst |-> <<>>]

\* mutant: a frame that does not fit together leaves the decoder where it is
EndedAnyhow(d) ==
  IF d.c = 1 THEN [state |-> Started, rc |-> d.p - 1]
  ELSE [state |-> d, rc |-> -1]

\* the delimiter
Ended(d) ==
  [state |-> Started, rc |-> IF d.p = 0 THEN -3 ELSE IF d.c = 1 THEN d.p - 1 ELSE -1]

\* mutant: one byte too many
RoomOffByOne(d) == d.p - 1 <= DecodeSize

Room(d) ==
  d.p - 1 < DecodeSize

(* cobs_decode_incremental for the byte b.                                 *)
Decode(d, b) ==
  IF b = 0 THEN Ended(d)
  ELSE IF d.p = 0 THEN [state |-> [d EXCEPT !.p = 1, !.c = b], rc |-> 0]
  ELSE LET over == d.c = 1
           c == IF over THEN b ELSE d.c - 1
       IN IF Room(d)
          THEN [state |-> [p |-> d.p + 1, c |-> c,
                           dst |-> Append(d.dst, IF over THEN 0 ELSE b)],
                rc |-> 0]
          ELSE [state |-> [d EXCEPT !.c = c], rc |-> -2]

-----------------------------------------------------------------------------
(* The line and the DMA.                                                   *)

(* The bytes of the packets as they are sent, with the packet they are of. *)
WireOf(ps) ==
  FlattenSeq([k \in DOMAIN ps |->
    [i \in DOMAIN Encode(ps[k]) |-> [value |-> Encode(ps[k])[i], packet |-> k]]])

Unread == rx_buffer_offset + counter - rx_bytes_already_read

\* the DMA at the end of the ring: BufferedUart_Rx_CompleteCallback
Advance ==
  IF counter + 1 = BufferSize
  THEN counter' = 0 /\ rx_buffer_offset' = rx_buffer_offset + BufferSize
  ELSE counter' = counter + 1 /\ UNCHANGED rx_buffer_offset

\* there is no overrun detection: the reader is assumed to keep up
Arrive(v) ==
  /\ sent < Len(wire) /\ Unread < BufferSize
  /\ sent' = sent + 1
  /\ rx_buf' = [rx_buf EXCEPT ![counter] = [number |-> sent', value |-> v]]
  /\ Advance
  /\ UNCHANGED <<fixed, rx_bytes_already_read, reader, decoding>>

ArriveWell == sent < Len(wire) /\ Arrive(wire[sent + 1].value) /\ UNCHANGED faults

ArriveWrong ==
  /\ faults < MaxFaults /\ faults' = faults + 1
  /\ \E v \in Noise : Arrive(v)

\* mutant: the read position is not reset
LineErrorKeepsRead ==
  /\ faults < MaxFaults /\ faults' = faults + 1
  /\ reader.pc \in ErrorAt
  /\ sent < Len(wire) /\ sent' = sent + 1
  /\ counter' = 0 /\ rx_buffer_offset' = 0
  /\ UNCHANGED <<fixed, rx_buf, rx_bytes_already_read, reader, decoding>>

(* A line error: the byte is lost, and so is what has not been read; the   *)
(* DMA begins anew (BufferedUart_Rx_ErrorCallback).                        *)
LineError ==
  /\ faults < MaxFaults /\ faults' = faults + 1
  /\ reader.pc \in ErrorAt
  /\ sent < Len(wire) /\ sent' = sent + 1
  /\ counter' = 0 /\ rx_buffer_offset' = 0 /\ rx_bytes_already_read' = 0
  /\ UNCHANGED <<fixed, rx_buf, reader, decoding>>

-----------------------------------------------------------------------------
(* BufferedUart_Rx_ProcessReceivedData.  Each step but those of the copy   *)
(* is an instruction that reads or writes a variable of the callbacks.     *)

Go(pc, received, bytes, todo) ==
  reader' = [pc |-> pc, received |-> received, bytes |-> bytes, todo |-> todo]

\* rx_buffer_offset + sizeof(rx_buf) - __HAL_DMA_GET_COUNTER(...): one term ...
ReadFirst ==
  /\ reader.pc = "idle"
  /\ Go("second", IF OffsetFirst THEN rx_buffer_offset ELSE counter, 0, <<>>)
  /\ UNCHANGED <<fixed, sent, dma, rx_bytes_already_read, decoding, faults>>

\* ... and the other: a callback in between changes both
ReadSecond ==
  /\ reader.pc = "second"
  /\ Go("compare", reader.received + IF OffsetFirst THEN counter ELSE rx_buffer_offset,
        0, <<>>)
  /\ UNCHANGED <<fixed, sent, dma, rx_bytes_already_read, decoding, faults>>

BytesToRead ==
  /\ reader.pc = "compare"
  /\ Go("offset", reader.received, reader.received - rx_bytes_already_read, <<>>)
  /\ UNCHANGED <<fixed, sent, dma, rx_bytes_already_read, decoding, faults>>

\* the cells from the read position on, in two parts at the end of the ring
CellsToRead(offset, bytes, received) ==
  IF offset + bytes < BufferSize
  THEN [i \in 1 .. bytes |-> offset + i - 1]
  ELSE [i \in 1 .. BufferSize - offset |-> offset + i - 1] \o
       [i \in 1 .. received % BufferSize |-> i - 1]

ReadPosition ==
  /\ reader.pc = "offset"
  /\ IF reader.bytes <= 0 THEN Go("idle", 0, 0, <<>>)
     ELSE Go("copy", reader.received, reader.bytes,
             CellsToRead(rx_bytes_already_read % BufferSize, reader.bytes, reader.received))
  /\ UNCHANGED <<fixed, sent, dma, rx_bytes_already_read, decoding, faults>>

(* Packet_Rx_ProcessByte.  The check sum tells a packet that arrives as it *)
(* was sent from all else that the decoder may put together.               *)
ProcessByte ==
  /\ reader.pc = "copy" /\ reader.todo # <<>>
  /\ LET b == rx_buf[Head(reader.todo)]
         d == Decode(decoder, b.value)
         right == b.number > 0 /\ b.value = wire[b.number].value
     IN /\ decoder' = d.state
        /\ origin' = IF right /\ decoder.p = 0 THEN wire[b.number].packet
                     ELSE IF right /\ b.number = seen + 1 THEN origin ELSE 0
        /\ accepted' = IF /\ d.rc >= HeaderSize
                          /\ origin' # 0 /\ decoder.dst = packets[origin']
                       THEN Append(accepted, origin') ELSE accepted
        /\ seen' = b.number
        /\ gap' = IF ~right THEN b.number
                  ELSE IF b.number # seen + 1 THEN b.number - 1 ELSE gap
  /\ reader' = [reader EXCEPT !.todo = Tail(@)]
  /\ UNCHANGED <<fixed, sent, dma, rx_bytes_already_read, faults>>

(* rx_bytes_already_read += bytes_to_read                                  *)
LoadRead ==
  /\ reader.pc = "copy" /\ reader.todo = <<>>
  /\ Go("store", rx_bytes_already_read, reader.bytes, <<>>)
  /\ UNCHANGED <<fixed, sent, dma, rx_bytes_already_read, decoding, faults>>

\* mutant: = instead of +=
StoreReadAssigned ==
  /\ reader.pc = "store"
  /\ rx_bytes_already_read' = reader.bytes
  /\ Go("idle", 0, 0, <<>>)
  /\ UNCHANGED <<fixed, sent, dma, decoding, faults>>

StoreRead ==
  /\ reader.pc = "store"
  /\ rx_bytes_already_read' = reader.received + reader.bytes
  /\ Go("idle", 0, 0, <<>>)
  /\ UNCHANGED <<fixed, sent, dma, decoding, faults>>

-----------------------------------------------------------------------------
Init ==
  /\ packets \in {ps \in [1 .. PacketCount -> Packets] : IsInjective(ps)}
  /\ wire = WireOf(packets)
  /\ sent = 0
  /\ rx_buf = [c \in Cells |-> [number |-> 0, value |-> 0]]
  /\ counter = 0 /\ rx_buffer_offset = 0 /\ rx_bytes_already_read = 0
  /\ reader = [pc |-> "idle", received |-> 0, bytes |-> 0, todo |-> <<>>]
  /\ decoder = Started
  /\ accepted = <<>> /\ seen = 0 /\ gap = 0 /\ origin = 0
  /\ faults = 0

Reader == ReadFirst \/ ReadSecond \/ BytesToRead \/ ReadPosition
          \/ ProcessByte \/ LoadRead \/ StoreRead

Next == ArriveWell \/ ArriveWrong \/ LineError \/ Reader

Spec == Init /\ [][Next]_vars

-----------------------------------------------------------------------------
TypeOK ==
  /\ sent \in 0 .. Len(wire)
  /\ \A c \in Cells : rx_buf[c].number \in 0 .. Len(wire) /\ rx_buf[c].value \in Byte
  /\ counter \in Cells /\ rx_buffer_offset \in Nat /\ rx_bytes_already_read \in Nat
  /\ reader.pc \in Places /\ \A i \in DOMAIN reader.todo : reader.todo[i] \in Cells
  /\ decoder.p \in Nat /\ decoder.c \in Byte
  /\ decoder.dst \in Seq(Byte) /\ Len(decoder.dst) <= DecodeSize
  /\ accepted \in Seq(DOMAIN packets)
  /\ seen \in 0 .. sent /\ gap \in -1 .. sent
  /\ origin \in 0 .. PacketCount
  /\ faults \in 0 .. MaxFaults

(* However arrivals fall between the instructions of the reader, packets   *)
(* are handed over once and in order: the reception implements LossyLine,  *)
(* in a build that reads the offset before the counter, and as long as     *)
(* line errors are reported between two calls of the reader.               *)
Line == INSTANCE LossyLine WITH
  sent <- IF sent = 0 THEN 0 ELSE wire[sent].packet, received <- accepted
LineSpec == Line!Spec

(* A packet arrives when its frame, and the delimiter before it, do: what  *)
(* noise or a line error (between two calls of the reader, or while it     *)
(* copies) has made of the bytes before is forgotten.                      *)
Resync ==
  \A n \in 1 .. seen :
    LET k == wire[n].packet
        before == n - Len(packets[k]) - 2
    IN n = Len(wire) \/ wire[n + 1].packet # k =>
         (gap = 0 \/ gap < before => \E i \in DOMAIN accepted : accepted[i] = k)

(* A line error costs what is in the ring: never does the reader pass over *)
(* more of what arrives after it, unless the error falls between its       *)
(* reading what has arrived and computing how much of that is new, or      *)
(* within its last addition.                                               *)
PassesOverLittle == -BufferSize <= Unread
=============================================================================
