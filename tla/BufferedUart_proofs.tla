------------------------- MODULE BufferedUart_proofs -------------------------
(***************************************************************************)
(* Proofs about the transmit path: its types, that the line never stalls   *)
(* (both with errors of the line), and that without errors and exact fills *)
(* the bytes go out in order and the path implements ByteStream.           *)
(***************************************************************************)
EXTENDS BufferedUart, TLAPS

-----------------------------------------------------------------------------
(* The ring.                                                               *)

\* Moving on by at most a ring stays within the ring.
LEMMA PlusInCells ==
  ASSUME NEW p \in Cells, NEW n \in 0 .. BufferSize
  PROVE  Plus(p, n) \in Cells
BY UartAssumption DEF Plus, Cells

\* Clearing a reference leaves the pointer within the ring.
LEMMA ClearedInCells ==
  ASSUME NEW sent \in Cells, NEW r \in References
  PROVE  ClearedUpTo(sent, r) \in Cells
BY UartAssumption DEF ClearedUpTo, Cells, References

\* What NextData returns is a reference, and empty only of an empty ring.
LEMMA NextDataIsReference ==
  ASSUME NEW sent \in Cells, NEW ready \in Cells
  PROVE  /\ NextData(sent, ready) \in References
         /\ NextData(sent, ready).size = 0 <=> sent = ready
BY UartAssumption DEF NextData, Cells, References

\* Copying keeps the ring a function to numbers.
LEMMA CopiedIsBuffer ==
  ASSUME NEW b \in [Cells -> Nat], NEW p \in Cells, NEW n \in Nat, appended \in Nat
  PROVE  Copied(b, p, n) \in [Cells -> Nat]
<1>1. ASSUME NEW c \in Cells PROVE Offset(p, c) \in Nat
  BY UartAssumption DEF Offset, Cells
<1> QED
  BY <1>1 DEF Copied

\* The reset data is a reference.
LEMMA ResetIsReference == [start |-> 0, size |-> ResetSize] \in References /\ NoReference \in References
BY UartAssumption DEF References, Cells, NoReference

-----------------------------------------------------------------------------
(* Types.                                                                  *)

\* The initial state is well typed.
LEMMA InitTyped == Init => TypeOK
<1> SUFFICES ASSUME Init PROVE TypeOK
  OBVIOUS
<1>1. buffer \in [Cells -> Nat]
  BY UartAssumption DEF Init, Cells
<1>2. sent_pointer \in Cells /\ ready_pointer \in Cells
  BY UartAssumption DEF Init, Cells
<1> QED
  BY <1>1, <1>2, ResetIsReference, UartAssumption DEF Init, TypeOK

\* The part of an interrupt that looks for more data keeps the types.
LEMMA SendNextTyped ==
  ASSUME TypeOK, NEW next \in References, NEW idle \in References, SendNext(next, idle)
  PROVE  sending' \in BOOLEAN /\ sendingReference' \in References /\ dma' \in References
BY DEF TypeOK, SendNext, Transmit

\* Every step keeps the types.
LEMMA NextTyped == TypeOK /\ [Next]_vars => TypeOK'
<1> SUFFICES ASSUME TypeOK, [Next]_vars PROVE TypeOK'
  OBVIOUS
<1> USE DEF TypeOK
<1>1. ASSUME NEW t \in Tasks, Append(t) PROVE TypeOK'
  <2> PICK n \in FrameSizes : n <= SpaceLeft /\ AppendUnsafe(n)
    BY <1>1 DEF Append
  <2>1. n \in Nat /\ n \in 0 .. BufferSize
    BY UartAssumption
  <2>2. buffer' \in [Cells -> Nat]
    BY <2>1, CopiedIsBuffer DEF AppendUnsafe
  <2>3. ready_pointer' \in Cells
    BY <2>1, PlusInCells DEF AppendUnsafe
  <2>4. appended' \in Nat
    BY <2>1 DEF AppendUnsafe
  <2> QED
    BY <1>1, <2>2, <2>3, <2>4 DEF Append
<1>2. ASSUME NEW t \in Tasks, TakeNext(t) PROVE TypeOK'
  BY <1>2, NextDataIsReference DEF TakeNext, ring
<1>3. ASSUME NEW t \in Tasks, AssignReference(t) PROVE TypeOK'
  BY <1>3 DEF AssignReference, ring
<1>4. ASSUME NEW t \in Tasks, StartTransmit(t) PROVE TypeOK'
  BY <1>4 DEF StartTransmit, Transmit, ring
<1>5. CASE CompleteCallback
  <2>1. sent_pointer' \in Cells
    BY <1>5, ClearedInCells DEF CompleteCallback
  <2>2. NextData(sent_pointer', ready_pointer) \in References
    BY <2>1, NextDataIsReference
  <2>3. sending' \in BOOLEAN /\ sendingReference' \in References /\ dma' \in References
    BY <1>5, <2>2, ResetIsReference, SendNextTyped DEF CompleteCallback
  <2>4. wire' \in Nat
    BY <1>5 DEF CompleteCallback, References
  <2> QED
    BY <1>5, <2>1, <2>3, <2>4 DEF CompleteCallback
<1>6. CASE ErrorCallback
  <2>0. 0 \in Cells /\ ResetSize \in Nat
    BY UartAssumption DEF Cells
  <2>1. buffer' \in [Cells -> Nat]
    BY <1>6, <2>0, CopiedIsBuffer DEF ErrorCallback
  <2>2. sent_pointer' \in Cells /\ ready_pointer' \in Cells
    BY <1>6, UartAssumption DEF ErrorCallback, Cells
  <2>3. sending' \in BOOLEAN /\ sendingReference' \in References /\ dma' \in References
    BY <1>6, ResetIsReference, SendNextTyped DEF ErrorCallback
  <2>4. appended' \in Nat
    BY <1>6, UartAssumption DEF ErrorCallback
  <2> QED
    BY <1>6, <2>1, <2>2, <2>3, <2>4 DEF ErrorCallback
<1>7. CASE UNCHANGED vars
  BY <1>7 DEF vars, ring
<1> QED
  BY <1>1, <1>2, <1>3, <1>4, <1>5, <1>6, <1>7 DEF Next, Finish

\* The state of the transmit path keeps to its values for every ring, set of
\* tasks and frames: the pointers never leave the ring, whatever errors of the
\* line meet the calls.
THEOREM UartTypeCorrect == Spec => []TypeOK
BY InitTyped, NextTyped, PTL DEF Spec

-----------------------------------------------------------------------------
(* The line never stalls.                                                  *)

\* LineServed, and: a transfer that is going to be started is not empty.
ServedInv ==
  /\ LineServed
  /\ sendingReference.size > 0
  /\ \A t \in Tasks : pc[t] = "assign" => temp_reference[t].size > 0

LEMMA InitServed == Init => ServedInv
BY UartAssumption DEF Init, ServedInv, LineServed

LEMMA NextServed == TypeOK /\ ServedInv /\ [Next]_vars => ServedInv'
<1> SUFFICES ASSUME TypeOK, ServedInv, [Next]_vars PROVE ServedInv'
  OBVIOUS
<1> USE DEF TypeOK, ServedInv, LineServed
<1>1. ASSUME NEW t \in Tasks, Append(t) PROVE ServedInv'
  BY <1>1 DEF Append
<1>2. ASSUME NEW t \in Tasks, TakeNext(t) PROVE ServedInv'
  BY <1>2, NextDataIsReference DEF TakeNext, ring, References
<1>3. ASSUME NEW t \in Tasks, AssignReference(t) PROVE ServedInv'
  BY <1>3 DEF AssignReference, ring
<1>4. ASSUME NEW t \in Tasks, StartTransmit(t) PROVE ServedInv'
  BY <1>4 DEF StartTransmit, Transmit, ring, References
<1>5. CASE CompleteCallback
  <2>1. sent_pointer' \in Cells
    BY <1>5, ClearedInCells DEF CompleteCallback
  <2> DEFINE next == NextData(sent_pointer', ready_pointer)
  <2>2. next \in References /\ (next.size = 0 <=> sent_pointer' = ready_pointer)
    BY <2>1, NextDataIsReference
  <2>3. SendNext(next, NoReference)
    BY <1>5 DEF CompleteCallback
  <2>4. UNCHANGED <<ready_pointer, pc, temp_reference>>
    BY <1>5 DEF CompleteCallback
  <2> HIDE DEF next
  <2>5. CASE next.size > 0
    BY <2>2, <2>3, <2>4, <2>5 DEF SendNext, Transmit, NoReference
  <2>6. CASE ~(next.size > 0)
    <3>1. sent_pointer' = ready_pointer'
      BY <2>2, <2>4, <2>6 DEF References
    <3> QED
      BY <2>3, <2>4, <2>6, <3>1 DEF SendNext
  <2> QED
    BY <2>5, <2>6
<1>6. CASE ErrorCallback
  BY <1>6, UartAssumption DEF ErrorCallback, SendNext, Transmit, NoReference, References
<1>7. CASE UNCHANGED vars
  BY <1>7 DEF vars, ring
<1> QED
  BY <1>1, <1>2, <1>3, <1>4, <1>5, <1>6, <1>7 DEF Next, Finish

\* For every ring and every set of tasks, errors of the line included, the path
\* never believes that it is sending while nothing sends or is about to, and no
\* data is left behind unnoticed.
THEOREM NeverStalls == Spec => []LineServed
<1>1. Init => TypeOK /\ ServedInv
  BY InitTyped, InitServed
<1>2. TypeOK /\ ServedInv /\ [Next]_vars => (TypeOK /\ ServedInv)'
  BY NextTyped, NextServed
<1>3. TypeOK /\ ServedInv => LineServed
  BY DEF ServedInv
<1> QED
  BY <1>1, <1>2, <1>3, PTL DEF Spec

-----------------------------------------------------------------------------
(* Without errors, and when no frame fills the ring exactly, the bytes go  *)
(* out in order.                                                           *)

Used ==
  IF sent_pointer <= ready_pointer THEN ready_pointer - sent_pointer
  ELSE BufferSize - (sent_pointer - ready_pointer)

\* a reference to the bytes that go out next
Leading(r) == r.start = sent_pointer /\ r.size > 0
              /\ r.size <= NextData(sent_pointer, ready_pointer).size

Holds(t) == pc[t] \in {"assign", "transmit"}

\* what has not gone out is in the ring
Kept ==
  /\ appended = wire + Used
  /\ \A c \in Cells : Offset(sent_pointer, c) < Used =>
       buffer[c] = wire + 1 + Offset(sent_pointer, c)

\* the flag sending belongs to one task or to the DMA, with the leading bytes
Owned ==
  /\ dma.size > 0 => sending /\ Leading(dma) /\ sendingReference = dma
                      /\ \A t \in Tasks : ~Holds(t)
  /\ \A t \in Tasks : Holds(t) =>
       /\ sending /\ dma.size = 0
       /\ \A u \in Tasks : Holds(u) => u = t
       /\ Leading(IF pc[t] = "assign" THEN temp_reference[t] ELSE sendingReference)

OrderInv == Kept /\ Owned

\* NextData's reference is within what is in the ring and does not wrap around.
LEMMA LeadingInRing ==
  ASSUME TypeOK, NEW r \in References, Leading(r)
  PROVE  /\ r.size <= Used
         /\ r.start + r.size <= BufferSize
         /\ \A i \in 0 .. r.size - 1 :
              /\ Plus(r.start, i) = r.start + i
              /\ r.start + i \in Cells
              /\ Offset(sent_pointer, r.start + i) = i
<1>1. r.start = sent_pointer /\ r.size \in 0 .. BufferSize /\ r.size > 0
  BY DEF Leading, References
<1>2. sent_pointer \in Cells /\ ready_pointer \in Cells
  BY DEF TypeOK
<1>3. r.size <= IF ready_pointer >= sent_pointer THEN ready_pointer - sent_pointer
                ELSE BufferSize - sent_pointer
  BY DEF Leading, NextData
<1>4. r.size <= Used /\ r.start + r.size <= BufferSize
  BY <1>1, <1>2, <1>3, UartAssumption DEF Used, Cells
<1>5. ASSUME NEW i \in 0 .. r.size - 1
      PROVE  /\ Plus(r.start, i) = r.start + i
             /\ r.start + i \in Cells
             /\ Offset(sent_pointer, r.start + i) = i
  BY <1>1, <1>2, <1>4, UartAssumption DEF Plus, Cells, Offset
<1> QED
  BY <1>4, <1>5

LEMMA InitOrdered == Init => OrderInv
<1> SUFFICES ASSUME Init PROVE OrderInv
  OBVIOUS
<1>1. Used = ResetSize
  BY UartAssumption DEF Init, Used
<1>2. Kept
  BY <1>1, UartAssumption DEF Init, Kept, Cells, Offset
<1>3. Owned
  BY UartAssumption DEF Init, Owned, Leading, NextData, Holds
<1> QED
  BY <1>2, <1>3 DEF OrderInv

\* An append that leaves a cell free keeps all that was in the ring and adds to it.
LEMMA AppendKeeps ==
  ASSUME TypeOK, OrderInv, NEW n \in 1 .. BufferSize, n < SpaceLeft, AppendUnsafe(n),
         sent_pointer' = sent_pointer, wire' = wire
  PROVE  /\ Kept'
         /\ \A r \in References : Leading(r) => Leading(r)'
<1> USE DEF TypeOK, OrderInv
<1>1. ready_pointer' = Plus(ready_pointer, n) /\ ready_pointer' \in Cells
  BY PlusInCells DEF AppendUnsafe
<1>2. Used' = Used + n
  BY <1>1, UartAssumption DEF Used, SpaceLeft, Plus, Cells
<1>3. appended' = wire' + Used'
  BY <1>2, UartAssumption DEF AppendUnsafe, Kept, Used, Cells
<1>4. ASSUME NEW c \in Cells, Offset(sent_pointer, c)' < Used'
      PROVE  buffer'[c] = wire' + 1 + Offset(sent_pointer, c)'
  <2>1. Offset(sent_pointer, c)' = Offset(sent_pointer, c)
    BY DEF Offset
  <2>2. buffer'[c] = IF Offset(ready_pointer, c) < n
                     THEN appended + 1 + Offset(ready_pointer, c) ELSE buffer[c]
    BY DEF AppendUnsafe, Copied
  <2>3. CASE Offset(sent_pointer, c) < Used
    <3>1. ~(Offset(ready_pointer, c) < n)
      BY <2>3, UartAssumption DEF Offset, Used, SpaceLeft, Cells
    <3> QED
      BY <2>1, <2>2, <2>3, <3>1 DEF Kept
  <2>4. CASE ~(Offset(sent_pointer, c) < Used)
    <3>1. /\ Offset(ready_pointer, c) < n
          /\ Offset(sent_pointer, c) = Used + Offset(ready_pointer, c)
      BY <1>2, <1>4, <2>1, <2>4, UartAssumption DEF Offset, Used, SpaceLeft, Cells
    <3>2. appended = wire + Used
      BY DEF Kept
    <3>3. Used \in Int /\ Offset(ready_pointer, c) \in Int
      BY UartAssumption DEF Used, Offset, Cells
    <3> QED
      BY <2>1, <2>2, <3>1, <3>2, <3>3
  <2> QED
    BY <2>3, <2>4
<1>5. ASSUME NEW r \in References, Leading(r) PROVE Leading(r)'
  <2> DEFINE ahead(ready) == IF ready >= sent_pointer THEN ready - sent_pointer
                             ELSE BufferSize - sent_pointer
  <2>1. ahead(ready_pointer) <= ahead(ready_pointer')
    BY <1>1, UartAssumption DEF SpaceLeft, Plus, Cells
  <2>2. r.start = sent_pointer /\ r.size \in Nat /\ r.size > 0 /\ r.size <= ahead(ready_pointer)
    BY <1>5 DEF Leading, References, NextData
  <2>3. ahead(ready_pointer) \in Int /\ ahead(ready_pointer') \in Int
    BY <1>1, UartAssumption DEF Cells
  <2>4. r.size <= ahead(ready_pointer')
    BY <2>1, <2>2, <2>3
  <2>5. NextData(sent_pointer', ready_pointer').size = ahead(ready_pointer')
    BY DEF NextData
  <2> QED
    BY <2>2, <2>4, <2>5 DEF Leading
<1> QED
  BY <1>3, <1>4, <1>5 DEF Kept

\* The completion of a transfer takes the bytes it has sent out of the ring.
LEMMA CompleteKeeps ==
  ASSUME TypeOK, OrderInv, CompleteCallback
  PROVE  Kept'
<1> USE DEF TypeOK, OrderInv
<1>1. dma.size > 0 /\ Leading(dma) /\ sendingReference = dma
  BY DEF CompleteCallback, Owned
<1> DEFINE k == dma.size
<1>2. k \in Nat /\ k <= Used /\ sent_pointer + k <= BufferSize
  BY <1>1, LeadingInRing DEF Leading, References
<1>3. sent_pointer' = IF sent_pointer + k = BufferSize THEN 0 ELSE sent_pointer + k
  <2>1. sent_pointer' = IF sent_pointer + k >= BufferSize THEN 0 ELSE sent_pointer + k
    BY <1>1 DEF CompleteCallback, ClearedUpTo
  <2> HIDE DEF k
  <2> QED
    BY <1>2, <2>1, UartAssumption DEF Cells
<1>4. UNCHANGED <<buffer, ready_pointer, appended>> /\ wire' = wire + k
  BY DEF CompleteCallback
<1>5. k <= NextData(sent_pointer, ready_pointer).size
  BY <1>1 DEF Leading
<1> HIDE DEF k
<1>6. Used' = Used - k
  BY <1>2, <1>3, <1>4, <1>5, UartAssumption DEF Used, Cells, NextData
<1>7. Used \in Int
  BY UartAssumption DEF Used, Cells
<1>8. appended' = wire' + Used'
  BY <1>2, <1>4, <1>6, <1>7 DEF Kept
<1>9. ASSUME NEW c \in Cells, Offset(sent_pointer', c) < Used'
      PROVE  buffer'[c] = wire' + 1 + Offset(sent_pointer', c)
  <2>1. Offset(sent_pointer, c) = Offset(sent_pointer', c) + k
    BY <1>2, <1>3, <1>6, <1>9, UartAssumption DEF Offset, Cells, Used
  <2>2. Offset(sent_pointer', c) \in Int
    BY <1>2, <1>3, UartAssumption DEF Offset, Cells
  <2>3. Offset(sent_pointer, c) < Used
    BY <1>2, <1>6, <1>7, <1>9, <2>1, <2>2
  <2> QED
    BY <1>2, <1>4, <2>1, <2>2, <2>3 DEF Kept
<1>10. \A c \in Cells : Offset(sent_pointer, c)' = Offset(sent_pointer', c)
  BY DEF Offset
<1> QED
  BY <1>8, <1>9, <1>10 DEF Kept

\* In an interrupt, the transfer that is started carries the leading bytes.
LEMMA SendNextOwns ==
  ASSUME TypeOK, NEW sent \in Cells, NEW ready \in Cells,
         sent_pointer' = sent, ready_pointer' = ready,
         SendNext(NextData(sent, ready), NoReference)
  PROVE  /\ dma'.size > 0 => sending' /\ Leading(dma)' /\ sendingReference' = dma'
         /\ dma'.size > 0 \/ dma'.size = 0
<1> DEFINE next == NextData(sent, ready)
<1>1. next \in References /\ next.start = sent
  BY NextDataIsReference DEF NextData
<1>2. next = NextData(sent_pointer', ready_pointer')
  OBVIOUS
<1>3. SendNext(next, NoReference)
  OBVIOUS
<1> HIDE DEF next
<1>4. CASE next.size > 0
  <2>1. sending' /\ sendingReference' = next /\ dma' = next
    BY <1>3, <1>4 DEF SendNext, Transmit, NoReference
  <2>2. next.size <= next.size
    BY <1>1 DEF References
  <2> QED
    BY <1>1, <1>2, <1>4, <2>1, <2>2 DEF Leading
<1>5. CASE ~(next.size > 0)
  BY <1>3, <1>5 DEF SendNext, NoReference
<1> QED
  BY <1>4, <1>5

\* Every step without errors and exact fills keeps the order.
LEMMA NextOrdered ==
  ASSUME ~LineErrors, ~ExactFill
  PROVE  TypeOK /\ OrderInv /\ [Next]_vars => OrderInv'
<1> SUFFICES ASSUME TypeOK, OrderInv, [Next]_vars PROVE OrderInv'
  OBVIOUS
<1>0. TypeOK'
  BY NextTyped
<1>1. ASSUME NEW t \in Tasks, Append(t) PROVE OrderInv'
  <2>1. PICK n \in FrameSizes : n <= SpaceLeft /\ n # SpaceLeft /\ AppendUnsafe(n)
    BY <1>1 DEF Append
  <2>2. n \in 1 .. BufferSize /\ n < SpaceLeft
    BY <2>1, UartAssumption DEF SpaceLeft, TypeOK, Cells
  <2>3. UNCHANGED <<sent_pointer, wire, sending, sendingReference, temp_reference, dma>>
    BY <1>1 DEF Append
  <2>4. pc[t] = "idle" /\ pc' = [pc EXCEPT ![t] = "next"]
    BY <1>1 DEF Append
  <2>5. Kept' /\ \A r \in References : Leading(r) => Leading(r)'
    BY <2>1, <2>2, <2>3, AppendKeeps
  <2>6. \A u \in Tasks : (Holds(u)' <=> Holds(u)) /\ (Holds(u) => pc'[u] = pc[u])
    BY <2>4 DEF TypeOK, Holds
  <2>7. dma' \in References /\ dma' = dma
    BY <2>3 DEF TypeOK
  <2>8. Leading(dma) => Leading(dma)'
    BY <2>5, <2>7 DEF Leading
  <2>9. ASSUME NEW u \in Tasks
        PROVE  /\ Leading(temp_reference[u]) => Leading(temp_reference[u])'
               /\ Leading(sendingReference) => Leading(sendingReference)'
    BY <2>3, <2>5 DEF TypeOK, Leading
  <2>10. dma'.size > 0 => sending' /\ Leading(dma)' /\ sendingReference' = dma'
                          /\ \A u \in Tasks : ~Holds(u)'
    BY <2>3, <2>6, <2>7, <2>8 DEF OrderInv, Owned
  <2>11. ASSUME NEW u \in Tasks, Holds(u)'
         PROVE  /\ sending' /\ dma'.size = 0
                /\ \A v \in Tasks : Holds(v)' => v = u
                /\ Leading(IF pc[u] = "assign" THEN temp_reference[u] ELSE sendingReference)'
    BY <2>3, <2>6, <2>9, <2>11 DEF OrderInv, Owned
  <2> QED
    BY <2>5, <2>10, <2>11 DEF OrderInv, Owned
<1>2. ASSUME NEW t \in Tasks, TakeNext(t) PROVE OrderInv'
  <2> DEFINE next == NextData(sent_pointer, ready_pointer)
  <2>1. UNCHANGED <<buffer, sent_pointer, ready_pointer, sendingReference, dma, appended, wire>>
    BY <1>2 DEF TakeNext, ring
  <2>2. Kept'
    BY <2>1 DEF OrderInv, Kept, Used, Offset
  <2>3. \A r : Leading(r)' <=> Leading(r')
    BY <2>1 DEF Leading
  <2>4. CASE ~sending /\ next.size > 0
    <3>1. dma.size = 0 /\ \A u \in Tasks : ~Holds(u)
      BY <2>4 DEF OrderInv, Owned, TypeOK, References
    <3>2. sending' /\ temp_reference' = [temp_reference EXCEPT ![t] = next]
          /\ pc' = [pc EXCEPT ![t] = "assign"]
      BY <1>2, <2>4 DEF TakeNext
    <3>3. pc'[t] = "assign" /\ temp_reference'[t] = next
          /\ \A u \in Tasks : Holds(u)' => u = t
      BY <3>1, <3>2 DEF TypeOK, Holds
    <3>4. next.size \in Nat /\ next.start = sent_pointer
      BY NextDataIsReference DEF TypeOK, References, NextData
    <3>5. Leading(next)'
      BY <2>1, <2>4, <3>4 DEF Leading
    <3>6. Leading(temp_reference[t])'
      BY <2>1, <2>4, <3>3, <3>4 DEF Leading
    <3> QED
      BY <2>1, <2>2, <3>1, <3>2, <3>3, <3>6 DEF OrderInv, Owned
  <2>5. CASE ~(~sending /\ next.size > 0)
    <3>1. UNCHANGED <<sending, temp_reference>> /\ pc[t] = "next" /\ pc' = [pc EXCEPT ![t] = "idle"]
      BY <1>2, <2>5 DEF TakeNext
    <3>2. \A u \in Tasks : (Holds(u)' <=> Holds(u)) /\ (Holds(u) => pc'[u] = pc[u])
      BY <3>1 DEF TypeOK, Holds
    <3> QED
      BY <2>1, <2>2, <3>1, <3>2 DEF OrderInv, Owned, Leading
  <2> QED
    BY <2>4, <2>5
<1>3. ASSUME NEW t \in Tasks, AssignReference(t) PROVE OrderInv'
  <2>1. UNCHANGED <<buffer, sent_pointer, ready_pointer, sending, temp_reference, dma, appended, wire>>
    BY <1>3 DEF AssignReference, ring
  <2>2. Kept'
    BY <2>1 DEF OrderInv, Kept, Used, Offset
  <2>3. pc[t] = "assign" /\ pc' = [pc EXCEPT ![t] = "transmit"] /\ sendingReference' = temp_reference[t]
    BY <1>3 DEF AssignReference
  <2>4. \A u \in Tasks : Holds(u)' <=> Holds(u)
    BY <2>3 DEF TypeOK, Holds
  <2>5. Holds(t) /\ Leading(temp_reference[t]) /\ pc'[t] = "transmit"
    BY <2>3 DEF OrderInv, Owned, Holds, TypeOK
  <2>6. Leading(sendingReference)'
    BY <2>1, <2>3, <2>5 DEF Leading
  <2> QED
    BY <2>1, <2>2, <2>4, <2>5, <2>6 DEF OrderInv, Owned
<1>4. ASSUME NEW t \in Tasks, StartTransmit(t) PROVE OrderInv'
  <2>1. UNCHANGED <<buffer, sent_pointer, ready_pointer, sending, sendingReference, temp_reference, appended, wire>>
    BY <1>4 DEF StartTransmit, ring
  <2>2. Kept'
    BY <2>1 DEF OrderInv, Kept, Used, Offset
  <2>3. pc[t] = "transmit" /\ pc' = [pc EXCEPT ![t] = "idle"] /\ dma' = Transmit(dma, sendingReference)
    BY <1>4 DEF StartTransmit
  <2>4. Holds(t) /\ sending /\ dma.size = 0 /\ Leading(sendingReference)
        /\ \A u \in Tasks : Holds(u) => u = t
    BY <2>3 DEF OrderInv, Owned, Holds
  <2>5. dma' = sendingReference /\ \A u \in Tasks : ~Holds(u)'
    BY <2>3, <2>4 DEF Transmit, Holds, TypeOK
  <2>6. Leading(dma)'
    BY <2>1, <2>4, <2>5 DEF Leading
  <2> QED
    BY <2>1, <2>2, <2>4, <2>5, <2>6 DEF OrderInv, Owned
<1>5. CASE CompleteCallback
  <2>1. Kept'
    BY <1>5, CompleteKeeps
  <2>2. \A t \in Tasks : ~Holds(t)
    BY <1>5 DEF OrderInv, Owned, CompleteCallback
  <2>3. \A t \in Tasks : ~Holds(t)'
    BY <1>5, <2>2 DEF CompleteCallback, Holds
  <2>4. sent_pointer' \in Cells /\ ready_pointer \in Cells /\ ready_pointer' = ready_pointer
    BY <1>0, <1>5 DEF TypeOK, CompleteCallback
  <2>5. SendNext(NextData(sent_pointer', ready_pointer), NoReference)
    BY <1>5 DEF CompleteCallback
  <2>6. dma'.size > 0 => sending' /\ Leading(dma)' /\ sendingReference' = dma'
    BY <2>4, <2>5, SendNextOwns
  <2> QED
    BY <2>1, <2>3, <2>6 DEF OrderInv, Owned
<1>6. CASE ErrorCallback
  BY <1>6 DEF ErrorCallback
<1>7. CASE UNCHANGED vars
  BY <1>7 DEF vars, ring, OrderInv, Kept, Used, Offset, Owned, Leading, Holds
<1> QED
  BY <1>1, <1>2, <1>3, <1>4, <1>5, <1>6, <1>7 DEF Next, Finish

\* A transfer that completes has sent exactly the bytes that come next.
LEMMA CompleteInOrder ==
  ASSUME TypeOK, OrderInv, CompleteCallback
  PROVE  /\ \A i \in 0 .. dma.size - 1 : buffer[Plus(dma.start, i)] = wire + 1 + i
         /\ wire' \in wire + 1 .. appended
<1>1. Leading(dma) /\ dma \in References
  BY DEF CompleteCallback, OrderInv, Owned, TypeOK
<1>2. dma.size <= Used /\ dma.size \in Nat /\ dma.size > 0 /\ wire' = wire + dma.size
  BY <1>1, LeadingInRing DEF Leading, References, CompleteCallback
<1>3. Used \in Int /\ appended = wire + Used /\ wire \in Nat
  BY UartAssumption DEF Used, TypeOK, Cells, OrderInv, Kept
<1>4. ASSUME NEW i \in 0 .. dma.size - 1
      PROVE  buffer[Plus(dma.start, i)] = wire + 1 + i
  <2>1. /\ Plus(dma.start, i) \in Cells
        /\ Offset(sent_pointer, Plus(dma.start, i)) = i
    BY <1>1, LeadingInRing
  <2>2. i < Used
    BY <1>2, <1>3
  <2> QED
    BY <2>1, <2>2 DEF OrderInv, Kept
<1> QED
  BY <1>2, <1>3, <1>4

\* Every step that is not the completion of a transfer leaves the line alone.
LEMMA OnlyCompleteSends ==
  [Next]_vars => CompleteCallback \/ wire' = wire
BY DEF Next, Finish, Append, TakeNext, AssignReference, StartTransmit, ErrorCallback,
       vars, ring

\* Without errors of the line and when no frame fills the ring to its last byte,
\* everything the DMA sends is, byte for byte, what the tasks appended, in order
\* and once, for every number of tasks and every size of ring and frames.
THEOREM SentInOrder ==
  ASSUME ~LineErrors, ~ExactFill
  PROVE  Spec => InOrder
<1>1. Init => TypeOK /\ OrderInv
  BY InitTyped, InitOrdered
<1>2. TypeOK /\ OrderInv /\ [Next]_vars => (TypeOK /\ OrderInv)'
  BY NextTyped, NextOrdered
<1>3. TypeOK /\ OrderInv /\ [Next]_vars =>
        [wire' # wire =>
           \A i \in 0 .. dma.size - 1 : buffer[Plus(dma.start, i)] = wire + 1 + i]_vars
  BY OnlyCompleteSends, CompleteInOrder
<1> QED
  BY <1>1, <1>2, <1>3, PTL DEF Spec, InOrder

\* Under the same conditions the path implements the byte stream: it starts as
\* one, and each of its steps accepts bytes, delivers accepted ones or neither.
THEOREM ImplementsByteStream ==
  ASSUME ~LineErrors, ~ExactFill
  PROVE  Spec => Stream!Init /\ [][Stream!Next]_<<appended, wire>>
<1>1. Init => TypeOK /\ OrderInv
  BY InitTyped, InitOrdered
<1>2. Init => Stream!Init
  BY UartAssumption DEF Init, Stream!Init
<1>3. TypeOK /\ OrderInv /\ [Next]_vars => (TypeOK /\ OrderInv)'
  BY NextTyped, NextOrdered
<1>4. TypeOK /\ OrderInv /\ [Next]_vars => [Stream!Next]_<<appended, wire>>
  <2> SUFFICES ASSUME TypeOK, OrderInv, [Next]_vars PROVE [Stream!Next]_<<appended, wire>>
    OBVIOUS
  <2>1. ASSUME NEW t \in Tasks, Append(t) PROVE Stream!Accept
    BY <2>1, UartAssumption DEF Append, AppendUnsafe, Stream!Accept, TypeOK
  <2>2. ASSUME NEW t \in Tasks, Finish(t) PROVE UNCHANGED <<appended, wire>>
    BY <2>2 DEF Finish, TakeNext, AssignReference, StartTransmit
  <2>3. CASE CompleteCallback
    <3>1. wire' \in wire + 1 .. appended /\ appended' = appended
      BY <2>3, CompleteInOrder DEF CompleteCallback
    <3> QED
      BY <3>1 DEF Stream!Next, Stream!Deliver
  <2>4. CASE ErrorCallback
    BY <2>4 DEF ErrorCallback
  <2>5. CASE UNCHANGED vars
    BY <2>5 DEF vars
  <2> QED
    BY <2>1, <2>2, <2>3, <2>4, <2>5 DEF Next, Stream!Next
<1> QED
  BY <1>1, <1>2, <1>3, <1>4, PTL DEF Spec
=============================================================================
