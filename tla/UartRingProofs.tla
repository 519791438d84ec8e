---------------------------- MODULE UartRingProofs ----------------------------
(***************************************************************************)
(* The ring implements the bounded queue for every buffer size and every   *)
(* interleaving of the interrupt with the reader.  The invariant says what *)
(* the reader's copies are still worth: the byte it is about to return is  *)
(* the oldest one, and a flush never skips past the head.                  *)
(***************************************************************************)
EXTENDS UartRing, TLAPS

Inv == /\ TypeOK
       /\ main \in {"check", "load", "advance"} => tail = rx_tail
       /\ main \in {"load", "advance"} => rx_head # rx_tail
       /\ main = "advance" => byte = rx_buf[rx_tail]
       /\ main = "flush" => Distance(tail, rx_tail) <= Available

-----------------------------------------------------------------------------
(* Indices *)

LEMMA IndexFacts ==
  ASSUME TypeOK
  PROVE  /\ rx_head \in Index /\ rx_tail \in Index /\ tail \in Index
         /\ Succ(rx_head) \in Index /\ Succ(tail) \in Index
         /\ Available \in 0..(Size - 1)
         /\ \A i \in 1..Size : Wrap(rx_tail + i - 1) \in Index
  BY RingAssumption DEF TypeOK, Index, Succ, Available, Wrap

LEMMA AvailableGrows ==
  ASSUME rx_head \in Index, rx_tail \in Index, ~BufferFull, rx_head' = Succ(rx_head), rx_tail' = rx_tail
  PROVE  Available' = Available + 1 /\ Available < Size - 1
<1>1. /\ Size \in Nat /\ rx_head \in Nat /\ rx_head < Size /\ rx_tail \in Nat /\ rx_tail < Size
  BY RingAssumption DEF Index
<1>2. CASE rx_head = Size - 1
  <2>1. rx_head' = 0 /\ rx_tail # 0
    BY <1>2 DEF Succ, BufferFull
  <2>2. QED
    BY <1>1, <1>2, <2>1 DEF Available
<1>3. CASE rx_head # Size - 1
  <2>1. rx_head' = rx_head + 1 /\ rx_tail # rx_head + 1
    BY <1>3 DEF Succ, BufferFull
  <2>2. QED
    BY <1>1, <1>3, <2>1 DEF Available
<1>4. QED
  BY <1>2, <1>3

LEMMA PendingLen == TypeOK => Pending \in Seq(Byte) /\ Len(Pending) = Available
<1> SUFFICES ASSUME TypeOK PROVE Pending \in Seq(Byte) /\ Len(Pending) = Available
  OBVIOUS
<1>1. Available \in Nat /\ \A i \in 1..Available : Wrap(rx_tail + i - 1) \in Index
  BY IndexFacts, RingAssumption
<1>2. \A i \in 1..Available : rx_buf[Wrap(rx_tail + i - 1)] \in Byte
  BY <1>1 DEF TypeOK
<1>3. Pending \in [1..Available -> Byte]
  BY <1>2 DEF Pending
<1>4. QED
  BY <1>1, <1>3

\* The same in the next state.
LEMMA PendingLenNext == TypeOK' => (Pending \in Seq(Byte) /\ Len(Pending) = Available)'
  BY PendingLen, PTL

-----------------------------------------------------------------------------
(* The invariant *)

LEMMA InitInv == Init => Inv
<1>1. 0 \in Index
  BY RingAssumption DEF Index
<1>2. Init => TypeOK
  BY <1>1 DEF Init, TypeOK
<1>3. QED
  BY <1>2 DEF Init, Inv

LEMMA IsrInv == ASSUME Inv, uart_isr PROVE Inv'
<1> USE DEF Inv
<1>1. CASE UNCHANGED <<rx_buf, rx_head>>
  BY <1>1 DEF uart_isr, TypeOK, Available, reader
<1>2. CASE /\ rdr # <<>> /\ ~BufferFull
           /\ rx_buf' = [rx_buf EXCEPT ![rx_head] = rdr[1]]
           /\ rx_head' = Succ(rx_head)
  <2>1. rdr[1] \in Byte
    BY <1>2 DEF TypeOK
  <2>2. TypeOK'
    BY <1>2, <2>1, IndexFacts DEF uart_isr, TypeOK, reader
  <2>3. rx_head' # rx_tail
    BY <1>2 DEF BufferFull
  <2>4. rx_head # rx_tail => rx_buf'[rx_tail] = rx_buf[rx_tail]
    BY <1>2, IndexFacts DEF TypeOK
  <2>5. Available' = Available + 1
    BY <1>2, IndexFacts, AvailableGrows DEF uart_isr
  <2>6. Distance(tail, rx_tail) <= Available => Distance(tail', rx_tail') <= Available'
    BY <2>5, IndexFacts, RingAssumption DEF uart_isr, reader, Distance, Index
  <2>7. QED
    BY <1>2, <2>2, <2>3, <2>4, <2>6 DEF uart_isr, reader
<1>3. QED
  BY <1>1, <1>2 DEF uart_isr

LEMMA InvStep == Inv /\ [Next]_vars => Inv'
<1> SUFFICES ASSUME Inv, [Next]_vars PROVE Inv'
  OBVIOUS
<1> USE DEF Inv
<1>1. CASE uart_isr
  BY <1>1, IsrInv
<1>2. CASE Getc
  <2>1. CASE GetcTail \/ GetcCheck \/ GetcLoad
    BY <2>1, IndexFacts DEF GetcTail, GetcCheck, GetcLoad, TypeOK, Available, hardware, ring
  <2>2. CASE GetcAdvance
    BY <2>2, IndexFacts DEF GetcAdvance, TypeOK, hardware
  <2>3. QED
    BY <1>2, <2>1, <2>2 DEF Getc
<1>3. CASE Flush
  BY <1>3, IndexFacts DEF Flush, FlushLoad, FlushStore, TypeOK, Distance, Available, hardware, ring
<1>4. ASSUME NEW b \in Byte, Arrive(b) PROVE Inv'
  BY <1>4 DEF Arrive, TypeOK, Available, Distance, ring, reader
<1>5. CASE UNCHANGED vars
  BY <1>5 DEF vars, TypeOK, Available, Distance, hardware, ring, reader
<1>6. QED
  BY <1>1, <1>2, <1>3, <1>4, <1>5 DEF Next

THEOREM RingInvariant == Spec => []Inv
  BY InitInv, InvStep, PTL DEF Spec

\* rx_head, rx_tail and the reader's copies of them stay inside the ring whatever the
\* interrupt does between two accesses of uart_getc() and uart_rx_flush().
THEOREM TypeCorrect == Spec => []TypeOK
<1>1. Inv => TypeOK
  BY DEF Inv
<1>2. QED
  BY <1>1, RingInvariant, PTL

-----------------------------------------------------------------------------
(* The refinement *)

LEMMA PutStep ==
  ASSUME Inv, uart_isr, rdr # <<>>, ~BufferFull
  PROVE  rdr[1] \in Byte /\ Fifo!Put(rdr[1])
<1> USE DEF Inv
<1>1. rdr[1] \in Byte /\ TypeOK'
  BY IsrInv DEF TypeOK
<1>2. Available' = Available + 1 /\ Available < Size - 1
  <2>1. rx_head' = Succ(rx_head) /\ rx_tail' = rx_tail
    BY DEF uart_isr
  <2>2. QED
    BY <2>1, IndexFacts, AvailableGrows
<1>3. Wrap(rx_tail + Available) = rx_head
  BY IndexFacts, RingAssumption DEF Wrap, Available, Index
<1>4. \A i \in 1..Available : Wrap(rx_tail + i - 1) # rx_head
  BY IndexFacts, RingAssumption DEF Wrap, Available, Index
<1>5. \A i \in 1..Available : rx_buf'[Wrap(rx_tail + i - 1)] = rx_buf[Wrap(rx_tail + i - 1)]
  BY <1>4, IndexFacts, RingAssumption DEF uart_isr, TypeOK
<1>6. rx_buf'[rx_head] = rdr[1]
  BY IndexFacts DEF uart_isr, TypeOK
<1>7. /\ Pending \in Seq(Byte) /\ Len(Pending) = Available
      /\ Pending' \in Seq(Byte) /\ Len(Pending') = Available + 1
  BY <1>1, <1>2, PendingLen, PendingLenNext
<1>8. \A i \in 1..(Available + 1) : Pending'[i] = Append(Pending, rdr[1])[i]
  <2> TAKE i \in 1..(Available + 1)
  <2>1. Available \in Nat /\ rx_tail' = rx_tail
    BY IndexFacts DEF uart_isr
  <2>2. Pending'[i] = rx_buf'[Wrap(rx_tail + i - 1)]
    BY <1>2, <2>1 DEF Pending, Wrap
  <2>3. CASE i = Available + 1
    BY <1>1, <1>3, <1>6, <1>7, <2>1, <2>2, <2>3, IndexFacts DEF Index
  <2>4. CASE i \in 1..Available
    <3>1. Pending[i] = rx_buf[Wrap(rx_tail + i - 1)]
      BY <2>4 DEF Pending
    <3>2. Append(Pending, rdr[1])[i] = Pending[i]
      BY <1>1, <1>7, <2>1, <2>4
    <3>3. QED
      BY <1>5, <2>2, <2>4, <3>1, <3>2
  <2>5. i = Available + 1 \/ i \in 1..Available
    BY <2>1
  <2>6. QED
    BY <2>3, <2>4, <2>5
<1>9. Pending' = Append(Pending, rdr[1])
  BY <1>1, <1>7, <1>8
<1>10. QED
  BY <1>1, <1>2, <1>7, <1>9 DEF Fifo!Put, Doomed, Distance, uart_isr, reader

\* The oldest n bytes leave the queue when the tail moves n cells on.
LEMMA TailMoves ==
  ASSUME Inv, TypeOK', NEW n \in 0..Available,
         rx_tail' = Wrap(rx_tail + n), rx_head' = rx_head, rx_buf' = rx_buf
  PROVE  Pending' = SubSeq(Pending, n + 1, Len(Pending))
<1> USE DEF Inv
<1>1. Available' = Available - n
  BY IndexFacts, RingAssumption DEF Wrap, Available, Index
<1>2. \A i \in 1..(Available - n) :
         Wrap(rx_tail' + i - 1) = Wrap(rx_tail + (i + n) - 1)
  BY IndexFacts, RingAssumption DEF Wrap, Available, Index
<1>3. /\ Pending \in Seq(Byte) /\ Len(Pending) = Available
      /\ Pending' \in Seq(Byte) /\ Len(Pending') = Available - n
  BY <1>1, PendingLen, PendingLenNext
<1>4. \A i \in 1..(Available - n) : Pending'[i] = Pending[i + n]
  <2> TAKE i \in 1..(Available - n)
  <2>1. i + n \in 1..Available
    BY IndexFacts
  <2>2. Pending'[i] = rx_buf'[Wrap(rx_tail' + i - 1)]
    BY <1>1 DEF Pending, Wrap
  <2>3. Pending[i + n] = rx_buf[Wrap(rx_tail + (i + n) - 1)]
    BY <2>1 DEF Pending
  <2>4. QED
    BY <1>2, <2>2, <2>3
<1>5. QED
  BY <1>3, <1>4, IndexFacts

LEMMA GetStep ==
  ASSUME Inv, GetcAdvance
  PROVE  Fifo!Get
<1> USE DEF Inv
<1>1. TypeOK' /\ tail = rx_tail /\ Available \in 1..(Size - 1)
  <2>1. TypeOK'
    BY InvStep DEF Next, Getc
  <2>2. tail = rx_tail /\ rx_head # rx_tail
    BY DEF GetcAdvance
  <2>3. QED
    BY <2>1, <2>2, IndexFacts, RingAssumption DEF Available, Index
<1>2. rx_tail' = Wrap(rx_tail + 1)
  BY <1>1, IndexFacts, RingAssumption DEF GetcAdvance, Succ, Wrap, Index
<1>3. Pending' = SubSeq(Pending, 1 + 1, Len(Pending))
  BY <1>1, <1>2, TailMoves DEF GetcAdvance
<1>4. Pending \in Seq(Byte) /\ Len(Pending) = Available /\ Pending # <<>>
  BY <1>1, PendingLen
<1>5. Pending[1] = rx_buf[rx_tail]
  <2>1. 1 \in 1..Available /\ Wrap(rx_tail + 1 - 1) = rx_tail
    BY <1>1, IndexFacts, RingAssumption DEF Wrap, Index
  <2>2. QED
    BY <2>1 DEF Pending
<1>6. Tail(Pending) = SubSeq(Pending, 2, Len(Pending)) /\ Head(Pending) = Pending[1]
  BY <1>4
<1>7. QED
  BY <1>3, <1>4, <1>5, <1>6 DEF Fifo!Get, Doomed, GetcAdvance

LEMMA FlushStep ==
  ASSUME Inv, FlushStore
  PROVE  Fifo!FlushEnds
<1> USE DEF Inv
<1> DEFINE n == Distance(tail, rx_tail)
<1>1. n \in 0..Available /\ rx_tail' = Wrap(rx_tail + n) /\ TypeOK'
  BY IndexFacts, RingAssumption, InvStep DEF FlushStore, Flush, Next, Distance, Wrap, Index
<1> HIDE DEF n
<1>2. Pending' = SubSeq(Pending, n + 1, Len(Pending))
  BY <1>1, TailMoves DEF FlushStore
<1>3. Doomed = n /\ Doomed' = 0
  BY DEF Doomed, FlushStore, n
<1>4. QED
  BY <1>2, <1>3 DEF Fifo!FlushEnds, FlushStore

LEMMA FlushBegin ==
  ASSUME Inv, FlushLoad
  PROVE  Fifo!FlushBegins
<1> USE DEF Inv
<1>1. /\ main = "idle" /\ main' = "flush" /\ tail' = rx_head
      /\ UNCHANGED <<rx_buf, rx_head, rx_tail, out>>
  BY DEF FlushLoad, ring
<1>2. Pending' = Pending
  BY <1>1 DEF Pending, Available, Wrap
<1>3. Doomed' = Len(Pending)
  BY <1>1, PendingLen DEF Doomed, Distance, Available
<1>4. QED
  BY <1>1, <1>2, <1>3 DEF Fifo!FlushBegins

\* Every interleaving of the interrupt handler and the reader is a history of a queue
\* that keeps the order, repeats nothing, and drops only what arrives when it is full.
THEOREM RingRefines == Spec => RefinesFifo
<1>1. Init => Fifo!Init
  <2> SUFFICES ASSUME Init PROVE Fifo!Init
    OBVIOUS
  <2>1. Available = 0
    BY DEF Init, Available
  <2>2. QED
    BY <2>1 DEF Init, Fifo!Init, Pending, Doomed
<1>2. Inv /\ [Next]_vars => [Fifo!Next]_Fifo!vars
  <2> SUFFICES ASSUME Inv, [Next]_vars PROVE [Fifo!Next]_Fifo!vars
    OBVIOUS
  <2>1. CASE uart_isr
    <3>1. CASE rdr # <<>> /\ ~BufferFull
      BY <2>1, <3>1, PutStep DEF Fifo!Next
    <3>2. CASE ~(rdr # <<>> /\ ~BufferFull)
      BY <2>1, <3>2 DEF uart_isr, reader, Fifo!vars, Pending, Available, Wrap, Doomed, Distance
    <3>3. QED
      BY <3>1, <3>2
  <2>2. CASE GetcAdvance
    BY <2>2, GetStep DEF Fifo!Next
  <2>3. CASE FlushStore
    BY <2>3, FlushStep DEF Fifo!Next
  <2>4. CASE GetcTail \/ GetcCheck \/ GetcLoad \/ UNCHANGED vars
    BY <2>4 DEF GetcTail, GetcCheck, GetcLoad, vars, ring, reader, Fifo!vars, Pending,
       Available, Wrap, Doomed, Distance
  <2>5. CASE \E b \in Byte : Arrive(b)
    BY <2>5 DEF Arrive, ring, reader, Fifo!vars, Pending, Available, Wrap, Doomed, Distance
  <2>6. CASE FlushLoad
    BY <2>6, FlushBegin DEF Fifo!Next
  <2>7. QED
    BY <2>1, <2>2, <2>3, <2>4, <2>5, <2>6 DEF Next, Getc, Flush
<1>3. QED
  BY <1>1, <1>2, RingInvariant, PTL DEF Spec, RefinesFifo, Fifo!Spec
=============================================================================
