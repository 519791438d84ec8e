------------------------------ MODULE ByteFifo ------------------------------
(***************************************************************************)
(* What the receive path of bootloader/src/uart.c promises its reader: a   *)
(* bounded queue.  Bytes come out in the order they went in, each of them  *)
(* once; when the queue is full it is the byte that arrives that is lost.  *)
(* The reader may empty the queue: exactly what was in it when the flush   *)
(* began goes, what arrives during the flush stays.                        *)
(***************************************************************************)
EXTENDS Naturals, Sequences

CONSTANTS Byte, Capacity

VARIABLES queue,    \* bytes received and not read yet
          out,      \* the byte uart_getc() returned last
          flushing, \* a flush has begun
          doomed    \* the number of bytes it found

vars == <<queue, out, flushing, doomed>>

Init == queue = <<>> /\ out \in Byte /\ flushing = FALSE /\ doomed = 0

Put(b) == /\ Len(queue) < Capacity
          /\ queue' = Append(queue, b)
          /\ UNCHANGED <<out, flushing, doomed>>

Get == /\ ~flushing
       /\ queue # <<>>
       /\ queue' = Tail(queue)
       /\ out' = Head(queue)
       /\ UNCHANGED <<flushing, doomed>>

FlushBegins == /\ ~flushing
               /\ flushing' = TRUE
               /\ doomed' = Len(queue)
               /\ UNCHANGED <<queue, out>>

FlushEnds == /\ flushing
             /\ queue' = SubSeq(queue, doomed + 1, Len(queue))
             /\ flushing' = FALSE
             /\ doomed' = 0
             /\ UNCHANGED out

Next == Get \/ (\E b \in Byte : Put(b)) \/ FlushBegins \/ FlushEnds

Spec == Init /\ [][Next]_vars
=============================================================================
