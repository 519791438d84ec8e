------------------------------ MODULE UartRing ------------------------------
(***************************************************************************)
(* bootloader/src/uart.c: the receive path.  The interrupt handler         *)
(* uart_isr() writes rx_head and the buffer, the main context writes       *)
(* rx_tail, and there is no critical section: every access of the main     *)
(* context to shared memory is a step of its own here, and the interrupt   *)
(* may come between any two of them.                                       *)
(*                                                                         *)
(* The USART in front of it has one data register.  A byte that arrives    *)
(* while it is full is lost and raises ORE, and with ORE raised nothing is *)
(* received any more.                                                      *)
(***************************************************************************)
EXTENDS Naturals, Sequences

CONSTANTS Byte,
          Size      \* UART_RX_BUFFER_SIZE, a power of two

ASSUME RingAssumption == Size \in Nat /\ Size > 1 /\ Byte # {}

VARIABLES rdr,               \* the data register: at most one byte
          ore,               \* the overrun flag
          rx_buf, rx_head, rx_tail,
          main,              \* where the main context is in the driver
          tail,              \* uart_getc()'s copy of rx_tail; the head read by a flush
          byte,              \* the byte it has loaded
          out                \* the byte it returned last

hardware == <<rdr, ore>>
ring == <<rx_buf, rx_head, rx_tail>>
reader == <<main, tail, byte, out>>
vars == <<hardware, ring, reader>>

Index == 0..(Size - 1)

\* (i + 1) & rx_mask
Succ(i) == IF i = Size - 1 THEN 0 ELSE i + 1

\* i & rx_mask, for the sum of two indices
Wrap(i) == IF i >= Size THEN i - Size ELSE i

\* uart_available(): (head - tail) & rx_mask
Available == IF rx_head >= rx_tail THEN rx_head - rx_tail ELSE rx_head + Size - rx_tail

Init == /\ rdr = <<>> /\ ore = FALSE
        /\ rx_buf \in [Index -> Byte] /\ rx_head = 0 /\ rx_tail = 0
        /\ main = "idle" /\ tail = 0 /\ byte \in Byte /\ out \in Byte

-----------------------------------------------------------------------------
(* The USART *)

Arrive(b) == /\ rdr' = IF rdr = <<>> /\ ~ore THEN <<b>> ELSE rdr
             /\ ore' = (ore \/ rdr # <<>>)
             /\ UNCHANGED <<ring, reader>>

-----------------------------------------------------------------------------
(* The interrupt *)

\* Mutant of BufferFull: no cell is sacrificed.
BufferFullNever == FALSE

BufferFull == Succ(rx_head) = rx_tail

\* Mutant of uart_isr: the overrun flag is not cleared.
uart_isr_no_icr == /\ rdr # <<>>
                   /\ rdr' = <<>>
                   /\ UNCHANGED <<ore, ring, reader>>

\* ORE is cleared, and the register is read even when the byte has to be dropped.
uart_isr == /\ rdr # <<>> \/ ore
            /\ ore' = FALSE
            /\ rdr' = <<>>
            /\ IF rdr # <<>> /\ ~BufferFull
               THEN /\ rx_buf' = [rx_buf EXCEPT ![rx_head] = rdr[1]]
                    /\ rx_head' = Succ(rx_head)
               ELSE UNCHANGED <<rx_buf, rx_head>>
            /\ UNCHANGED <<rx_tail, reader>>

-----------------------------------------------------------------------------
(* The main context *)

\* uart_getc(): tail = rx_tail
GetcTail == /\ main = "idle"
            /\ tail' = rx_tail
            /\ main' = "check"
            /\ UNCHANGED <<hardware, ring, byte, out>>

\* rx_head == tail: nothing to read
GetcCheck == /\ main = "check"
             /\ main' = IF rx_head = tail THEN "idle" ELSE "load"
             /\ UNCHANGED <<hardware, ring, tail, byte, out>>

GetcLoad == /\ main = "load"
            /\ byte' = rx_buf[tail]
            /\ main' = "advance"
            /\ UNCHANGED <<hardware, ring, tail, out>>

GetcAdvance == /\ main = "advance"
               /\ rx_tail' = Succ(tail)
               /\ out' = byte
               /\ main' = "idle"
               /\ UNCHANGED <<hardware, rx_buf, rx_head, tail, byte>>

\* uart_rx_flush(): rx_tail = rx_head, a load and a store
FlushLoad == /\ main = "idle"
             /\ tail' = rx_head
             /\ main' = "flush"
             /\ UNCHANGED <<hardware, ring, byte, out>>

FlushStore == /\ main = "flush"
              /\ rx_tail' = tail
              /\ main' = "idle"
              /\ UNCHANGED <<hardware, rx_buf, rx_head, tail, byte, out>>

Getc == GetcTail \/ GetcCheck \/ GetcLoad \/ GetcAdvance
Flush == FlushLoad \/ FlushStore

Next == uart_isr \/ Getc \/ Flush \/ \E b \in Byte : Arrive(b)

Spec == Init /\ [][Next]_vars

\* The interrupt is taken when it is pending; nothing masks it for ever.
FairSpec == Spec /\ WF_vars(uart_isr)
-----------------------------------------------------------------------------
(* Properties *)

TypeOK == /\ rdr \in {<<>>} \cup {<<b>> : b \in Byte}
          /\ ore \in BOOLEAN
          /\ rx_buf \in [Index -> Byte]
          /\ rx_head \in Index /\ rx_tail \in Index /\ tail \in Index
          /\ main \in {"idle", "check", "load", "advance", "flush"}
          /\ byte \in Byte /\ out \in Byte

\* The bytes between the indices, oldest first.
Pending == [i \in 1..Available |-> rx_buf[Wrap(rx_tail + i - 1)]]

\* Cells from index t up to index h.
Distance(h, t) == IF h >= t THEN h - t ELSE h + Size - t

\* The bytes a flush under way has still to throw away.
Doomed == IF main = "flush" THEN Distance(tail, rx_tail) ELSE 0

\* uart.h:73-78, no critical section is needed: the ring implements a bounded queue,
\* wherever the interrupt comes between the reader's accesses; a flush takes what it found
\* and never a byte that arrived after it began.
Fifo == INSTANCE ByteFifo WITH queue <- Pending, Capacity <- Size - 1,
                               flushing <- (main = "flush"), doomed <- Doomed
RefinesFifo == Fifo!Spec

\* uart.c:184-187, a driver that ignores ORE goes deaf: the USART always recovers.
NeverDeaf == ore ~> ~ore
=============================================================================
