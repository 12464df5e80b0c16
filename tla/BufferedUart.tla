----------------------------- MODULE BufferedUart -----------------------------
(***************************************************************************)
(* The transmit path of the serial line between display and core           *)
(* (shared/core_com/src/tx.c over the ring of tx_buffer.c): tasks append   *)
(* frames, and the DMA sends them from the ring.  On the core the only     *)
(* task is the main loop, on the display the user interface and the        *)
(* communication task append.                                              *)
(*                                                                         *)
(* A task can be interrupted between its critical sections, hence the      *)
(* steps of a call; the interrupts, of equal priority, are one step each.  *)
(* A byte of the ring stands for the number it has among all bytes ever    *)
(* appended, so that bytes out of order, twice or overwritten show.        *)
(***************************************************************************)
EXTENDS Integers

CONSTANTS
  Tasks,       \* that call BufferedUart_Tx_Append
  BufferSize,  \* sizeof(tx_buf)
  ResetSize,   \* sizeof(tx_reset_data)
  FrameSizes,  \* the sizes of the frames that are appended
  MaxAppended, \* bound on the bytes that are appended
  LineErrors,  \* BOOLEAN: the UART reports errors
  ExactFill    \* BOOLEAN: a frame may fill the ring to its last byte

ASSUME UartAssumption ==
  /\ BufferSize \in Nat \ {0}
  /\ ResetSize \in Nat \ {0} /\ ResetSize < BufferSize
  /\ FrameSizes \subseteq 1 .. BufferSize
  /\ MaxAppended \in Nat
  /\ LineErrors \in BOOLEAN /\ ExactFill \in BOOLEAN

VARIABLES
  buffer, sent_pointer, ready_pointer, \* TxBuffer_Handle
  sending, sendingReference,           \* of tx.c
  pc, temp_reference,                  \* of the tasks in SendNextAvailableData
  dma,                                 \* the transfer of HAL_UART_Transmit_DMA
  appended, \* how many bytes have been appended
  wire,     \* how many bytes the DMA has sent
  cleared   \* the last byte appended before the ring was cleared

ring == <<buffer, sent_pointer, ready_pointer>>
vars == <<ring, sending, sendingReference, pc, temp_reference, dma,
          appended, wire, cleared>>

Cells == 0 .. BufferSize - 1
References == [start : Cells, size : 0 .. BufferSize]
NoReference == [start |-> 0, size |-> 0]

-----------------------------------------------------------------------------
(* tx_buffer.c.                                                            *)

\* the cell n cells after p
Plus(p, n) == IF p + n >= BufferSize THEN p + n - BufferSize ELSE p + n

\* the cells p, p + 1, ... up to cell c
Offset(p, c) == IF c >= p THEN c - p ELSE c + BufferSize - p

SpaceLeft ==
  IF sent_pointer <= ready_pointer
  THEN BufferSize - (ready_pointer - sent_pointer)
  ELSE sent_pointer - ready_pointer

\* mutant: the part after the wrap is lost
CopiedWithoutWrap(b, p, n) ==
  [c \in Cells |-> IF c >= p /\ c - p < n THEN appended + 1 + (c - p) ELSE b[c]]

\* TxBuffer_Copy of the next n bytes to the cells from p on
Copied(b, p, n) ==
  [c \in Cells |-> IF Offset(p, c) < n THEN appended + 1 + Offset(p, c) ELSE b[c]]

\* TxBuffer_Append_unsafe, there being space
AppendUnsafe(n) ==
  /\ buffer' = Copied(buffer, ready_pointer, n)
  /\ ready_pointer' = Plus(ready_pointer, n)
  /\ appended' = appended + n

\* mutant: the wrapped part is taken along
NextDataWrapped(sent, ready) ==
  [start |-> sent,
   size  |-> IF ready >= sent THEN ready - sent ELSE BufferSize - sent + ready]

\* TxBuffer_NextData_unsafe: up to the end of the ring at most
NextData(sent, ready) ==
  [start |-> sent,
   size  |-> IF ready >= sent THEN ready - sent ELSE BufferSize - sent]

\* mutant: the end of the ring is not recognised
ClearedOffByOne(sent, r) == IF sent + r.size > BufferSize THEN 0 ELSE sent + r.size

\* TxBuffer_ClearData_unsafe
ClearedUpTo(sent, r) == IF sent + r.size >= BufferSize THEN 0 ELSE sent + r.size

-----------------------------------------------------------------------------
(* tx.c.                                                                   *)

\* HAL_UART_Transmit_DMA: refused while a transfer runs
Transmit(current, r) ==
  IF current.size = 0 THEN r ELSE current

\* BufferedUart_Tx_Append: TxBuffer_Append, in a critical section
Append(t) ==
  /\ pc[t] = "idle"
  /\ \E n \in FrameSizes :
       /\ appended + n <= MaxAppended
       /\ n = SpaceLeft => ExactFill
       /\ n <= SpaceLeft
       /\ AppendUnsafe(n)
  /\ pc' = [pc EXCEPT ![t] = "next"]
  /\ UNCHANGED <<sent_pointer, sending, sendingReference, temp_reference, dma,
                 wire, cleared>>

\* BufferedUart_Tx_SendNextAvailableData: the critical section
TakeNext(t) ==
  /\ pc[t] = "next"
  /\ LET next == NextData(sent_pointer, ready_pointer)
     IN  IF ~sending /\ next.size > 0
         THEN /\ sending' = TRUE
              /\ temp_reference' = [temp_reference EXCEPT ![t] = next]
              /\ pc' = [pc EXCEPT ![t] = "assign"]
         ELSE /\ UNCHANGED <<sending, temp_reference>>
              /\ pc' = [pc EXCEPT ![t] = "idle"]
  /\ UNCHANGED <<ring, sendingReference, dma, appended, wire, cleared>>

\* sendingReference = temp_reference
AssignReference(t) ==
  /\ pc[t] = "assign"
  /\ sendingReference' = temp_reference[t]
  /\ pc' = [pc EXCEPT ![t] = "transmit"]
  /\ UNCHANGED <<ring, sending, temp_reference, dma, appended, wire, cleared>>

\* HAL_UART_Transmit_DMA(sendingReference)
StartTransmit(t) ==
  /\ pc[t] = "transmit"
  /\ dma' = Transmit(dma, sendingReference)
  /\ pc' = [pc EXCEPT ![t] = "idle"]
  /\ UNCHANGED <<ring, sending, sendingReference, temp_reference, appended,
                 wire, cleared>>

\* mutant: the transfer is not started
SendNextForgotten(next, idle) ==
  /\ sending' = (next.size > 0)
  /\ sendingReference' = next
  /\ dma' = idle

\* SendNextAvailableData within an interrupt, with sending reset and the UART
\* in the state idle
SendNext(next, idle) ==
  IF next.size > 0
  THEN /\ sending' = TRUE
       /\ sendingReference' = next
       /\ dma' = Transmit(idle, next)
  ELSE /\ sending' = FALSE
       /\ UNCHANGED sendingReference
       /\ dma' = idle

\* mutant: sending is not reset, and nothing more is sent
CompleteCallbackSending ==
  /\ dma.size > 0
  /\ wire' = wire + dma.size
  /\ sent_pointer' = ClearedUpTo(sent_pointer, sendingReference)
  /\ dma' = NoReference
  /\ UNCHANGED <<buffer, ready_pointer, sending, sendingReference, pc,
                 temp_reference, appended, cleared>>

\* BufferedUart_Tx_CompleteCallback
CompleteCallback ==
  /\ dma.size > 0
  /\ wire' = wire + dma.size
  /\ sent_pointer' = ClearedUpTo(sent_pointer, sendingReference)
  /\ SendNext(NextData(sent_pointer', ready_pointer), NoReference)
  /\ UNCHANGED <<buffer, ready_pointer, pc, temp_reference, appended, cleared>>

\* BufferedUart_Tx_ErrorCallback, on an error of the receiver, which leaves the
\* transfer alone, or of the transfer, which ends it
ErrorCallback ==
  /\ LineErrors
  /\ appended + ResetSize <= MaxAppended
  /\ \E idle \in {dma, NoReference} :
       SendNext([start |-> 0, size |-> ResetSize], idle)
  /\ buffer' = Copied(buffer, 0, ResetSize)
  /\ sent_pointer' = 0 /\ ready_pointer' = ResetSize
  /\ appended' = appended + ResetSize
  /\ cleared' = appended
  /\ UNCHANGED <<pc, temp_reference, wire>>

-----------------------------------------------------------------------------
\* BufferedUart_Tx_Init, which appends the reset data and starts to send it
Init ==
  /\ buffer = [c \in Cells |-> IF c < ResetSize THEN c + 1 ELSE 0]
  /\ sent_pointer = 0 /\ ready_pointer = ResetSize
  /\ appended = ResetSize /\ wire = 0 /\ cleared = 0
  /\ sending = TRUE
  /\ sendingReference = [start |-> 0, size |-> ResetSize]
  /\ dma = [start |-> 0, size |-> ResetSize]
  /\ pc = [t \in Tasks |-> "idle"]
  /\ temp_reference = [t \in Tasks |-> NoReference]

Finish(t) == TakeNext(t) \/ AssignReference(t) \/ StartTransmit(t)

Next == (\E t \in Tasks : Append(t) \/ Finish(t)) \/ CompleteCallback \/ ErrorCallback

Spec == Init /\ [][Next]_vars

\* a task finishes its call and the DMA its transfer
FairSpec ==
  /\ Spec
  /\ \A t \in Tasks : WF_vars(Finish(t))
  /\ WF_vars(CompleteCallback)

-----------------------------------------------------------------------------
TypeOK ==
  /\ buffer \in [Cells -> Nat]
  /\ sent_pointer \in Cells /\ ready_pointer \in Cells
  /\ sending \in BOOLEAN /\ sendingReference \in References /\ dma \in References
  /\ pc \in [Tasks -> {"idle", "next", "assign", "transmit"}]
  /\ temp_reference \in [Tasks -> References]
  /\ appended \in Nat /\ wire \in Nat /\ cleared \in Nat

\* The line never stalls: whenever tx.c believes that it is sending, a transfer
\* runs or a task is about to start one, errors of the line included; and data
\* in the ring is being sent or a task will look for it.
LineServed ==
  /\ sending => dma.size > 0 \/ \E t \in Tasks : pc[t] \in {"assign", "transmit"}
  /\ ~sending /\ sent_pointer # ready_pointer => \E t \in Tasks : pc[t] = "next"

\* Byte for byte, what the DMA puts on the line is what was appended, in order,
\* nothing twice and nothing overwritten before it was sent.
InOrder ==
  [][wire' # wire =>
       \A i \in 0 .. dma.size - 1 : buffer[Plus(dma.start, i)] = wire + 1 + i]_vars

\* Whatever errors and appends meet, the ring is empty in the end and the path
\* ready for the next frame.
Drains == []<>(sent_pointer = ready_pointer /\ ~sending)

\* The path implements the byte stream its callers expect.
Stream == INSTANCE ByteStream WITH accepted <- appended, delivered <- wire
StreamSpec == Stream!Spec

\* tx.c:75, "clear all data from buffer and start again": no transfer that starts
\* after an error carries bytes that were appended before it.
ClearedIsGone ==
  [][dma' # dma /\ dma'.size > 0 =>
       \A i \in 0 .. dma'.size - 1 : buffer'[Plus(dma'.start, i)] > cleared']_vars
=============================================================================
