---------------------------- MODULE HostToolsProofs ----------------------------
(***************************************************************************)
(* The two tools of the host that change a board: the transfer over the    *)
(* serial link (HostTransfer) and the description of an image flashed over *)
(* SWD (WriteMetadata).                                                    *)
(*                                                                         *)
(* Whatever the link does and however long the image is, the board writes  *)
(* the blocks of the image in order and each of them once.  The invariant  *)
(* says that while a transfer is open the last number acknowledged is the  *)
(* number of blocks written, which START establishes because every START   *)
(* on its way carries 0.                                                   *)
(*                                                                         *)
(* Success is an installed image as long as no wait is given up early:     *)
(* then at most one frame is on its way, and it belongs to the request     *)
(* under way.                                                              *)
(*                                                                         *)
(* The record write_metadata.py leaves is the one the board reads next,    *)
(* because no older copy survives it, and it says of the other slot what   *)
(* the record in force said when both pages could be read.                 *)
(***************************************************************************)
EXTENDS HostTransfer, WriteMetadata, SequenceTheorems, TLAPS

FramesOK(q) == q \in Seq(FrameSet)
                 /\ \A i \in 1..Len(q) : q[i].cmd = "START_UPDATE" => q[i].seq = 0

BoardOK == /\ state \in {"IDLE", "RECEIVING", "COMPLETE"}
           /\ written \in Seq(Int)
           /\ last_seq \in Int
           /\ state = "RECEIVING" => last_seq = Len(written)

Inv == request \in Requests /\ FramesOK(toBoard) /\ BoardOK /\ InOrder

-----------------------------------------------------------------------------
(* Frames on their way *)

LEMMA RequestFrame ==
  ASSUME NEW r \in Requests
  PROVE  /\ Frame(r) \in FrameSet
         /\ Frame(r).cmd = "START_UPDATE" => Frame(r).seq = 0
  BY TransferAssumption DEF Requests, GetInfo, Start, End, Frame, FrameSet, CommandOf, SeqOf

LEMMA FramesAppend ==
  ASSUME NEW q, FramesOK(q), NEW r \in Requests
  PROVE  FramesOK(Append(q, Frame(r)))
  BY RequestFrame DEF FramesOK

LEMMA FramesTail ==
  ASSUME NEW q, FramesOK(q), q # <<>>
  PROVE  FramesOK(Tail(q)) /\ Head(q) \in FrameSet /\ (Head(q).cmd = "START_UPDATE" => Head(q).seq = 0)
  BY DEF FramesOK

LEMMA FramesSuffix ==
  ASSUME NEW q, FramesOK(q), NEW n \in 0..Len(q)
  PROVE  FramesOK(SubSeq(q, n + 1, Len(q)))
<1>1. SubSeq(q, n + 1, Len(q)) \in Seq(FrameSet)
  BY DEF FramesOK
<1>2. QED
  BY <1>1 DEF FramesOK

LEMMA FramesDamaged ==
  ASSUME NEW q, FramesOK(q), q # <<>>
  PROVE  FramesOK([q EXCEPT ![1].cmd = "DAMAGED"])
<1>1. q[1] \in FrameSet /\ 1 \in 1..Len(q) /\ q \in Seq(FrameSet)
  BY DEF FramesOK
<1>2. [q[1] EXCEPT !.cmd = "DAMAGED"] \in FrameSet
  BY <1>1 DEF FrameSet
<1> DEFINE d == [q EXCEPT ![1] = [q[1] EXCEPT !.cmd = "DAMAGED"]]
<1>3. d \in Seq(FrameSet) /\ Len(d) = Len(q)
  BY <1>1, <1>2
<1>4. \A i \in 1..Len(q) : d[i].cmd = "START_UPDATE" => d[i].seq = 0
  BY <1>1, <1>2 DEF FramesOK, FrameSet
<1>5. d = [q EXCEPT ![1].cmd = "DAMAGED"]
  OBVIOUS
<1> HIDE DEF d
<1>6. QED
  BY <1>3, <1>4, <1>5 DEF FramesOK

-----------------------------------------------------------------------------
(* The board *)

LEMMA DroppedOK ==
  ASSUME Inv, NoTransfer
  PROVE  BoardOK' /\ InOrder'
  BY DEF NoTransfer, BoardOK, InOrder

LEMMA DispatchOK ==
  ASSUME Inv, Dispatch
  PROVE  BoardOK' /\ InOrder'
<1> DEFINE f == Head(toBoard)
<1>1. f.seq \in Int /\ (f.cmd = "START_UPDATE" => f.seq = 0)
  BY FramesTail DEF Inv, Dispatch, FrameSet
<1>2. OnStart(f) \/ OnData(f) \/ OnEnd(f) \/ OnInfo(f) \/ OnDamaged(f)
  BY DEF Dispatch
<1> HIDE DEF f
<1>3. CASE UNCHANGED boardVars
  BY <1>3 DEF Inv, boardVars, BoardOK, InOrder
<1>4. CASE NoTransfer
  BY <1>4, DroppedOK
<1>5. CASE OnStart(f)
  <2>1. ASSUME state' = "RECEIVING", last_seq' = f.seq, written' = <<>>, f.seq = 0
        PROVE  BoardOK' /\ InOrder'
    BY <2>1 DEF BoardOK, InOrder
  <2>2. QED
    BY <1>1, <1>3, <1>5, <2>1 DEF OnStart
<1>6. CASE OnData(f)
  <2>1. ASSUME state = "RECEIVING", InSequence(f), last_seq' = f.seq,
               written' = Append(written, f.seq), UNCHANGED state
        PROVE  BoardOK' /\ InOrder'
    BY <1>1, <2>1 DEF Inv, InSequence, BoardOK, InOrder
  <2>2. QED
    BY <1>3, <1>4, <1>6, <2>1 DEF OnData
<1>7. CASE OnEnd(f)
  <2>1. CASE UNCHANGED <<last_seq, written>> /\ state' = "COMPLETE"
    BY <2>1 DEF Inv, BoardOK, InOrder
  <2>2. QED
    BY <1>3, <1>4, <1>7, <2>1 DEF OnEnd
<1>8. QED
  BY <1>2, <1>3, <1>5, <1>6, <1>7 DEF OnInfo, OnDamaged

LEMMA InvInit == Init => Inv
  BY TransferAssumption DEF Init, Inv, Requests, GetInfo, Start, End, FramesOK, BoardOK, InOrder

LEMMA InvStep == Inv /\ [Next]_vars => Inv'
<1> SUFFICES ASSUME Inv, [Next]_vars PROVE Inv'
  OBVIOUS
<1> USE DEF Inv
<1>1. CASE Send
  BY <1>1, FramesAppend DEF Send, boardVars, BoardOK, InOrder
<1>2. CASE Receive
  <2>1. request' \in Requests
    BY <1>2, TransferAssumption DEF Receive, TryAgain, Proceed, Requests, GetInfo, Start, End
  <2>2. QED
    BY <1>2, <2>1 DEF Receive, boardVars, BoardOK, InOrder
<1>3. CASE GiveUp
  BY <1>3 DEF GiveUp, TryAgain, boardVars, BoardOK, InOrder
<1>4. CASE Dispatch
  BY <1>4, DispatchOK, FramesTail DEF Dispatch, hostVars
<1>5. CASE Reboot
  BY <1>5, DroppedOK, FramesSuffix DEF Reboot, hostVars
<1>6. CASE Abort
  BY <1>6, DroppedOK DEF Abort, hostVars
<1>7. CASE Lose
  BY <1>7, FramesTail DEF Lose, hostVars, boardVars, BoardOK, InOrder
<1>8. CASE Damage
  BY <1>8, FramesDamaged DEF Damage, hostVars, boardVars, BoardOK, InOrder
<1>9. CASE Rest \/ UNCHANGED vars
  BY <1>9 DEF Rest, vars, hostVars, boardVars, BoardOK, InOrder
<1>10. QED
  BY <1>1, <1>2, <1>3, <1>4, <1>5, <1>6, <1>7, <1>8, <1>9 DEF Next

THEOREM Invariance == Spec => []Inv
  BY InvInit, InvStep, PTL DEF Spec

\* Whatever is lost, repeated, damaged or late, the slot holds the image's first blocks.
THEOREM InOrderHolds == Spec => []InOrder
<1>1. Inv => InOrder
  BY DEF Inv
<1>2. QED
  BY <1>1, Invariance, PTL

-----------------------------------------------------------------------------
(* Success *)

\* What is on its way while the host waits: nothing, its request, or the answer to it.
Outstanding ==
    \/ toBoard = <<>> /\ toHost = <<>>
    \/ /\ toHost = <<>>
       /\ \E f \in FrameSet : toBoard = <<f>> /\ f.cmd \in {CommandOf(request), "DAMAGED"}
    \/ /\ toBoard = <<>>
       /\ \E r \in [cmd : {"INFO", "ACK", "NACK", "DAMAGED"}, seq : 0..(Blocks + 1)] :
            /\ toHost = <<r>>
            /\ request = End => installed \/ r.cmd \in {"NACK", "DAMAGED"}

Matched == \/ host = "failed"
           \/ host = "send" /\ toBoard = <<>> /\ toHost = <<>>
           \/ host = "wait" /\ Outstanding
           \/ host = "done" /\ installed

DoneInv == early \in Nat /\ (early = 0 => Matched)

LEMMA InstalledStays == [Next]_vars => (installed => installed')
  BY DEF Next, vars, hostVars, boardVars, Send, Receive, GiveUp, Dispatch, OnStart, OnData, OnEnd,
     OnInfo, OnDamaged, Reboot, Abort, NoTransfer, Lose, Damage, Rest

LEMMA DoneInit == Init => DoneInv
  BY DEF Init, DoneInv, Matched

LEMMA MatchedDispatch ==
  ASSUME Inv, host = "wait", Outstanding, Dispatch
  PROVE  Outstanding'
<1>1. PICK f \in FrameSet : /\ toBoard = <<f>> /\ toHost = <<>>
                            /\ f.cmd \in {CommandOf(request), "DAMAGED"}
  BY DEF Dispatch, Outstanding
<1>2. toBoard' = <<>> /\ request' = request /\ Head(toBoard) = f
  BY <1>1 DEF Dispatch, hostVars
<1>3. /\ OnStart(f) \/ OnData(f) \/ OnEnd(f) \/ OnInfo(f) \/ OnDamaged(f)
      /\ f.cmd \in {"GET_INFO", "START_UPDATE", "DATA", "END_UPDATE", "DAMAGED"}
      /\ f.seq \in 0..(Blocks + 1)
  BY <1>1, <1>2 DEF Dispatch, FrameSet
<1>4. ASSUME NEW c \in {"INFO", "ACK", "NACK"}, Answer(c, f.seq),
             request = End => installed' \/ c = "NACK"
      PROVE  Outstanding'
  <2>1. toHost' = <<[cmd |-> c, seq |-> f.seq]>>
    BY <1>1, <1>4 DEF Answer, Reply
  <2>2. QED
    BY <1>2, <1>3, <1>4, <2>1 DEF Outstanding, End
<1>5. request = End => f.cmd \in {"END_UPDATE", "DAMAGED"}
  BY <1>1, TransferAssumption DEF CommandOf, End, GetInfo, Start
<1>6. CASE OnStart(f)
  BY <1>4, <1>5, <1>6 DEF OnStart
<1>7. CASE OnData(f)
  BY <1>4, <1>5, <1>7 DEF OnData
<1>8. CASE OnEnd(f)
  BY <1>4, <1>8 DEF OnEnd
<1>9. CASE OnInfo(f)
  BY <1>4, <1>5, <1>9 DEF OnInfo
<1>10. CASE OnDamaged(f)
  <2>1. CASE UNCHANGED toHost
    BY <1>1, <1>2, <2>1 DEF Outstanding
  <2>2. QED
    BY <1>4, <1>10, <2>1 DEF OnDamaged
<1>11. QED
  BY <1>3, <1>6, <1>7, <1>8, <1>9, <1>10

LEMMA MatchedReceive ==
  ASSUME Inv, host = "wait", Outstanding, Receive
  PROVE  Matched'
<1>1. PICK r : /\ toHost = <<r>> /\ toBoard = <<>>
               /\ request = End => installed \/ r.cmd \in {"NACK", "DAMAGED"}
  BY DEF Receive, Outstanding
<1>2. /\ Head(toHost) = r /\ Tail(toHost) = <<>>
      /\ toBoard' = <<>> /\ installed' = installed
  BY <1>1 DEF Receive, boardVars
<1>3. CASE TryAgain(<<>>)
  <2>1. \A n \in 0..Len(<<>>) : SubSeq(<<>>, n + 1, Len(<<>>)) = <<>>
    OBVIOUS
  <2>2. QED
    BY <1>2, <1>3, <2>1 DEF TryAgain, Matched
<1>4. CASE r.cmd = "DAMAGED" /\ host' = "failed"
  BY <1>4 DEF Matched
<1>5. CASE r.cmd # "DAMAGED" /\ toHost' = <<>> /\ Refused(r) /\ host' = "failed"
  BY <1>5 DEF Matched
<1>6. CASE r.cmd # "DAMAGED" /\ toHost' = <<>> /\ ~Refused(r) /\ Proceed
  <2>1. CASE request = End
    <3>1. request # GetInfo
      BY <2>1, TransferAssumption DEF End, GetInfo
    <3>2. QED
      BY <1>1, <1>2, <1>6, <2>1, <3>1 DEF Refused, Proceed, Matched
  <2>2. CASE request # End
    BY <1>2, <1>6, <2>2 DEF Proceed, Matched
  <2>3. QED
    BY <2>1, <2>2
<1>7. QED
  BY <1>2, <1>3, <1>4, <1>5, <1>6 DEF Receive

LEMMA MatchedFaults ==
  ASSUME Inv, host = "wait", Outstanding, Reboot \/ Abort \/ Lose \/ Damage
  PROVE  Outstanding'
<1>1. UNCHANGED request /\ UNCHANGED installed
  BY DEF Reboot, Abort, NoTransfer, Lose, Damage, hostVars, boardVars
<1>2. CASE Abort
  BY <1>1, <1>2 DEF Abort, Outstanding
<1>3. CASE Reboot
  <2>1. PICK n \in 0..Len(toBoard) : toBoard' = SubSeq(toBoard, n + 1, Len(toBoard))
    BY <1>3 DEF Reboot
  <2>2. CASE toBoard = <<>>
    BY <1>1, <1>3, <2>1, <2>2 DEF Reboot, Outstanding
  <2>3. ASSUME NEW f, toBoard = <<f>> PROVE toBoard' \in {<<>>, <<f>>}
    <3>1. Len(toBoard) = 1 /\ toBoard \in Seq({f}) /\ n \in {0, 1}
      BY <2>3
    <3>2. CASE n = 0
      <4>1. SubSeq(toBoard, 1, Len(toBoard)) = toBoard
        BY <3>1, SubSeqFull
      <4>2. toBoard' = toBoard
        BY <2>1, <3>2, <4>1
      <4>3. QED
        BY <2>3, <4>2
    <3>3. CASE n = 1
      <4>1. SubSeq(toBoard, 2, 1) = <<>>
        BY SubSeqEmpty
      <4>2. QED
        BY <2>1, <3>1, <3>3, <4>1
    <3>4. QED
      BY <3>1, <3>2, <3>3
  <2>4. QED
    BY <1>1, <1>3, <2>2, <2>3 DEF Reboot, Outstanding
<1>4. CASE Lose
  <2>1. toBoard' = <<>> /\ toHost' = <<>>
    <3>1. \A x : Tail(<<x>>) = <<>>
      OBVIOUS
    <3>2. QED
      BY <1>4, <3>1 DEF Lose, Outstanding
  <2>2. QED
    BY <2>1 DEF Outstanding
<1>5. CASE Damage
  <2>1. CASE toBoard # <<>> /\ toBoard' = [toBoard EXCEPT ![1].cmd = "DAMAGED"] /\ UNCHANGED toHost
    <3>1. PICK f \in FrameSet : toBoard = <<f>> /\ toHost = <<>>
      BY <2>1 DEF Outstanding
    <3>2. toBoard' = <<[f EXCEPT !.cmd = "DAMAGED"]>>
      BY <2>1, <3>1
    <3>3. [f EXCEPT !.cmd = "DAMAGED"] \in FrameSet /\ [f EXCEPT !.cmd = "DAMAGED"].cmd = "DAMAGED"
      BY DEF FrameSet
    <3>4. QED
      BY <1>1, <2>1, <3>1, <3>2, <3>3 DEF Outstanding
  <2>2. CASE toHost # <<>> /\ toHost' = [toHost EXCEPT ![1].cmd = "DAMAGED"] /\ UNCHANGED toBoard
    <3> DEFINE Answers == [cmd : {"INFO", "ACK", "NACK", "DAMAGED"}, seq : 0..(Blocks + 1)]
    <3>1. PICK r \in Answers : toHost = <<r>> /\ toBoard = <<>>
      BY <2>2 DEF Outstanding
    <3>2. toHost' = <<[r EXCEPT !.cmd = "DAMAGED"]>>
      BY <2>2, <3>1
    <3>3. [r EXCEPT !.cmd = "DAMAGED"] \in Answers /\ [r EXCEPT !.cmd = "DAMAGED"].cmd = "DAMAGED"
      OBVIOUS
    <3>4. QED
      BY <1>1, <2>2, <3>1, <3>2, <3>3 DEF Outstanding
  <2>3. QED
    BY <1>5, <2>1, <2>2 DEF Damage
<1>6. QED
  BY <1>2, <1>3, <1>4, <1>5

LEMMA MatchedGiveUp ==
  ASSUME host = "wait", GiveUp, early' = early, early \in Nat
  PROVE  Matched'
<1>1. toBoard = <<>> /\ toHost = <<>> /\ toBoard' = <<>> /\ TryAgain(<<>>)
  BY DEF GiveUp
<1>2. \A n \in 0..Len(<<>>) : SubSeq(<<>>, n + 1, Len(<<>>)) = <<>>
  OBVIOUS
<1>3. QED
  BY <1>1, <1>2 DEF TryAgain, Matched

LEMMA DoneStep == Inv /\ DoneInv /\ [Next]_vars => DoneInv'
<1> SUFFICES ASSUME Inv, DoneInv, [Next]_vars PROVE DoneInv'
  OBVIOUS
<1>1. early' \in Nat /\ (early' = 0 => early = 0 /\ early' = early)
  BY DEF DoneInv, Next, vars, faults, Send, Receive, GiveUp, Dispatch, Reboot, Abort, Lose, Damage, Rest
<1>2. SUFFICES ASSUME early = 0, early' = early PROVE Matched'
  BY <1>1 DEF DoneInv
<1>3. Matched
  BY <1>2 DEF DoneInv
<1>4. CASE host \in {"failed", "done"}
  <2>1. host' = host
    BY <1>4 DEF Next, vars, hostVars, Send, Receive, GiveUp, Dispatch, Reboot, Abort, Lose, Damage,
       Rest
  <2>2. QED
    BY <1>3, <1>4, <2>1, InstalledStays DEF Matched
<1>5. CASE Send
  <2>1. Frame(request) \in FrameSet /\ Frame(request).cmd = CommandOf(request)
    BY RequestFrame DEF Inv, Frame
  <2>2. toBoard' = <<Frame(request)>> /\ toHost' = <<>> /\ request' = request /\ host' = "wait"
    BY <1>3, <1>5 DEF Send, Matched
  <2>3. QED
    BY <2>1, <2>2 DEF Matched, Outstanding
<1>6. CASE host = "wait" /\ Receive
  BY <1>3, <1>6, MatchedReceive DEF Matched
<1>7. CASE host = "wait" /\ GiveUp
  BY <1>2, <1>7, MatchedGiveUp
<1>8. CASE host = "wait" /\ Dispatch
  BY <1>3, <1>8, MatchedDispatch DEF Matched, Dispatch, hostVars
<1>9. CASE host = "wait" /\ (Reboot \/ Abort \/ Lose \/ Damage)
  BY <1>3, <1>9, MatchedFaults DEF Matched, Reboot, Abort, Lose, Damage, hostVars
<1>10. CASE host = "send" /\ ~Send
  <2>1. toBoard = <<>> /\ toHost = <<>>
    BY <1>3, <1>10 DEF Matched
  <2>2. host' = "send" /\ toBoard' = <<>> /\ toHost' = <<>>
    BY <1>10, <2>1 DEF Next, vars, hostVars, Receive, GiveUp, Dispatch, Reboot, Abort, Lose, Damage,
       Rest, Finished
  <2>3. QED
    BY <2>2 DEF Matched
<1>11. CASE UNCHANGED vars
  BY <1>3, <1>11 DEF vars, hostVars, boardVars, Matched, Outstanding
<1>12. host = "wait" /\ ~Receive /\ ~GiveUp /\ ~Dispatch /\ ~(Reboot \/ Abort \/ Lose \/ Damage)
          => UNCHANGED vars
  BY DEF Next, Send, Rest
<1>13. QED
  BY <1>3, <1>4, <1>5, <1>6, <1>7, <1>8, <1>9, <1>10, <1>11, <1>12 DEF Matched

\* flash.py:303-304: when the board always answers in time, success is only reported for an
\* image that is installed, however many frames are lost or damaged and transfers dropped.
THEOREM DoneMeansInstalledHolds == Spec => []DoneMeansInstalled
<1>1. DoneInv => DoneMeansInstalled
  BY DEF DoneInv, Matched, DoneMeansInstalled
<1>2. QED
  BY <1>1, DoneInit, DoneStep, Invariance, PTL DEF Spec

-----------------------------------------------------------------------------
(* Types *)

TypeInv == TypeOK /\ (host = "send" => attempts < RetriesOf(request))

LEMMA RetriesRange == \A r : RetriesOf(r) \in 1..Retries /\ RetriesOf(r) \in Nat
  BY TransferAssumption DEF RetriesOf

LEMMA TypeInit == Init => TypeInv
<1> SUFFICES ASSUME Init PROVE TypeInv
  OBVIOUS
<1>1. 0 \in Requests /\ 0 \in 0..Retries /\ -1 \in -1..(Blocks + 1)
  BY TransferAssumption DEF Requests, GetInfo, End
<1>2. 0 \in 0..MaxLost /\ 0 \in 0..MaxDamaged /\ 0 \in 0..MaxEarly /\ 0 \in 0..MaxAborts
  BY TransferAssumption
<1>3. attempts < RetriesOf(request)
  BY RetriesRange DEF Init
<1>4. <<>> \in Seq(FrameSet) /\ <<>> \in Seq(ReplySet) /\ <<>> \in Seq(1..Blocks)
  OBVIOUS
<1>5. QED
  BY <1>1, <1>2, <1>3, <1>4, Zenon DEF Init, TypeInv, TypeOK, GetInfo

LEMMA RepliesSuffix ==
  ASSUME NEW q \in Seq(ReplySet), NEW n \in 0..Len(q)
  PROVE  SubSeq(q, n + 1, Len(q)) \in Seq(ReplySet)
  OBVIOUS

LEMMA RepliesDamaged ==
  ASSUME NEW q \in Seq(ReplySet), q # <<>>
  PROVE  [q EXCEPT ![1].cmd = "DAMAGED"] \in Seq(ReplySet)
<1>1. q[1] \in ReplySet /\ 1 \in 1..Len(q)
  OBVIOUS
<1>2. [q[1] EXCEPT !.cmd = "DAMAGED"] \in ReplySet
  BY <1>1 DEF ReplySet
<1>3. [q EXCEPT ![1] = [q[1] EXCEPT !.cmd = "DAMAGED"]] \in Seq(ReplySet)
  BY <1>1, <1>2
<1>4. QED
  BY <1>3

LEMMA TypeTryAgain ==
  ASSUME TypeInv, NEW q \in Seq(ReplySet), TryAgain(q)
  PROVE  /\ toHost' \in Seq(ReplySet) /\ request' = request /\ attempts' = attempts
         /\ host' \in {"send", "failed"} /\ (host' = "send" => attempts' < RetriesOf(request'))
<1> attempts \in Nat /\ RetriesOf(request) \in Nat
  BY RetriesRange, TransferAssumption DEF TypeInv, TypeOK
<1>1. CASE attempts < RetriesOf(request)
  BY <1>1, RepliesSuffix DEF TryAgain
<1>2. CASE ~(attempts < RetriesOf(request))
  BY <1>2 DEF TryAgain
<1>3. QED
  BY <1>1, <1>2

LEMMA TypeReceive == ASSUME Inv, TypeInv, Receive PROVE TypeInv'
<1>1. Head(toHost) \in ReplySet /\ Tail(toHost) \in Seq(ReplySet)
  BY DEF Receive, TypeInv, TypeOK
<1>2. UNCHANGED <<toBoard, boardVars, faults>>
  BY DEF Receive
<1>3. CASE TryAgain(Tail(toHost))
  BY <1>1, <1>2, <1>3, TypeTryAgain DEF TypeInv, TypeOK, boardVars, faults
<1>4. CASE toHost' = Tail(toHost) /\ host' = "failed" /\ UNCHANGED <<request, attempts>>
  BY <1>1, <1>2, <1>4 DEF TypeInv, TypeOK, boardVars, faults
<1>5. CASE toHost' = Tail(toHost) /\ Proceed
  <2>1. /\ request' \in Requests /\ attempts' = 0 /\ host' \in {"send", "done"}
        /\ 0 < RetriesOf(request') /\ 0 \in 0..Retries
    BY <1>5, TransferAssumption DEF Proceed, TypeInv, TypeOK, Requests, GetInfo, Start, End, RetriesOf
  <2>2. QED
    BY <1>1, <1>2, <1>5, <2>1 DEF TypeInv, TypeOK, boardVars, faults
<1>6. QED
  BY <1>3, <1>4, <1>5 DEF Receive

LEMMA TypeNoTransfer ==
  ASSUME TypeInv, NoTransfer
  PROVE  /\ state' \in {"IDLE", "RECEIVING", "COMPLETE"} /\ last_seq' \in -1..(Blocks + 1)
         /\ written' \in Seq(1..Blocks) /\ installed' \in BOOLEAN
  BY TransferAssumption DEF NoTransfer, TypeInv, TypeOK

LEMMA TypeDispatch == ASSUME Inv, TypeInv, Dispatch PROVE TypeInv'
<1> DEFINE f == Head(toBoard)
           BoardTypes == /\ state' \in {"IDLE", "RECEIVING", "COMPLETE"}
                         /\ last_seq' \in -1..(Blocks + 1)
                         /\ written' \in Seq(1..Blocks) /\ installed' \in BOOLEAN
<1>1. /\ OnStart(f) \/ OnData(f) \/ OnEnd(f) \/ OnInfo(f) \/ OnDamaged(f)
      /\ f \in FrameSet /\ f.seq \in 0..(Blocks + 1)
      /\ toBoard' \in Seq(FrameSet) /\ UNCHANGED <<hostVars, lost, damaged, early>>
      /\ aborts' \in 0..MaxAborts
  <2>1. toBoard \in Seq(FrameSet) /\ toBoard # <<>>
    BY DEF Dispatch, TypeInv, TypeOK
  <2>2. f \in FrameSet /\ Tail(toBoard) \in Seq(FrameSet)
    BY <2>1
  <2>3. f.seq \in 0..(Blocks + 1)
    BY <2>2 DEF FrameSet
  <2>4. aborts' = aborts \/ (aborts < MaxAborts /\ aborts' = aborts + 1)
    BY DEF Dispatch, OnStart
  <2>5. aborts' \in 0..MaxAborts
    BY <2>4, TransferAssumption DEF TypeInv, TypeOK
  <2>6. QED
    BY <2>2, <2>3, <2>5 DEF Dispatch
<1> HIDE DEF f
<1>2. ASSUME NEW c \in {"INFO", "ACK", "NACK"}, Answer(c, f.seq) PROVE toHost' \in Seq(ReplySet)
  <2>1. [cmd |-> c, seq |-> f.seq] \in ReplySet
    BY <1>1 DEF ReplySet
  <2>2. QED
    BY <1>2, <2>1 DEF Answer, Reply, TypeInv, TypeOK
<1>3. toHost' \in Seq(ReplySet)
  <2>1. CASE UNCHANGED toHost
    BY <2>1 DEF TypeInv, TypeOK
  <2>2. CASE OnStart(f) \/ OnInfo(f)
    BY <1>2, <2>2 DEF OnStart, OnInfo
  <2>3. CASE OnData(f)
    BY <1>2, <2>3 DEF OnData
  <2>4. CASE OnEnd(f)
    BY <1>2, <2>4 DEF OnEnd
  <2>5. CASE OnDamaged(f)
    BY <1>2, <2>1, <2>5 DEF OnDamaged
  <2>6. QED
    BY <1>1, <2>2, <2>3, <2>4, <2>5
<1>4. BoardTypes
  <2>1. CASE UNCHANGED boardVars
    BY <2>1 DEF boardVars, TypeInv, TypeOK
  <2>2. CASE NoTransfer
    BY <2>2, TypeNoTransfer
  <2>3. CASE OnStart(f)
    <3>1. ASSUME state' = "RECEIVING", last_seq' = f.seq, written' = <<>>, installed' = installed
          PROVE  BoardTypes
      BY <1>1, <3>1 DEF TypeInv, TypeOK
    <3>2. QED
      BY <2>1, <2>3, <3>1 DEF OnStart
  <2>4. ASSUME state = "RECEIVING", InSequence(f), Len(written) < Blocks, last_seq' = f.seq,
               written' = Append(written, f.seq), UNCHANGED <<state, installed>>
        PROVE  BoardTypes
    <3>1. f.seq = Len(written) + 1 /\ f.seq \in 1..Blocks
      BY <1>1, <2>4, TransferAssumption DEF Inv, BoardOK, InSequence
    <3>2. QED
      BY <1>1, <2>4, <3>1 DEF TypeInv, TypeOK
  <2>5. CASE OnData(f)
    BY <2>1, <2>2, <2>4, <2>5 DEF OnData
  <2>6. CASE OnEnd(f)
    <3>1. CASE state' = "COMPLETE" /\ installed' = TRUE /\ UNCHANGED <<last_seq, written>>
      BY <3>1 DEF TypeInv, TypeOK
    <3>2. QED
      BY <2>1, <2>2, <2>6, <3>1 DEF OnEnd
  <2>7. CASE OnInfo(f) \/ OnDamaged(f)
    BY <2>1, <2>7 DEF OnInfo, OnDamaged
  <2>8. QED
    BY <1>1, <2>3, <2>5, <2>6, <2>7
<1>5. QED
  BY <1>1, <1>3, <1>4 DEF TypeInv, TypeOK, hostVars, faults

LEMMA TypeStep == Inv /\ TypeInv /\ [Next]_vars => TypeInv'
<1> SUFFICES ASSUME Inv, TypeInv, [Next]_vars PROVE TypeInv'
  OBVIOUS
<1>1. CASE Send
  <2>1. Frame(request) \in FrameSet
    BY RequestFrame DEF Inv
  <2>2. attempts + 1 \in 0..Retries
    BY <1>1, TransferAssumption DEF Send, TypeInv, TypeOK, RetriesOf
  <2>3. QED
    BY <1>1, <2>1, <2>2 DEF Send, TypeInv, TypeOK, boardVars, faults
<1>2. CASE Receive
  BY <1>2, TypeReceive
<1>3. CASE GiveUp
  <2>1. early' \in 0..MaxEarly /\ UNCHANGED <<toBoard, boardVars, lost, damaged, aborts>>
    BY <1>3, TransferAssumption DEF GiveUp, TypeInv, TypeOK
  <2>2. TryAgain(toHost) /\ toHost \in Seq(ReplySet)
    BY <1>3 DEF GiveUp, TypeInv, TypeOK
  <2>3. QED
    BY <2>1, <2>2, TypeTryAgain DEF TypeInv, TypeOK, boardVars
<1>4. CASE Dispatch
  BY <1>4, TypeDispatch
<1>5. CASE Reboot
  <2>1. toBoard' \in Seq(FrameSet)
    BY <1>5, FramesSuffix DEF Reboot, Inv, FramesOK
  <2>2. QED
    BY <1>5, <2>1, TypeNoTransfer DEF Reboot, TypeInv, TypeOK, hostVars, faults
<1>6. CASE Abort
  BY <1>6, TypeNoTransfer, TransferAssumption DEF Abort, TypeInv, TypeOK, hostVars
<1>7. CASE Lose
  <2>1. lost' \in 0..MaxLost /\ toBoard' \in Seq(FrameSet) /\ toHost' \in Seq(ReplySet)
    <3>1. /\ toBoard \in Seq(FrameSet) /\ toHost \in Seq(ReplySet)
          /\ toBoard # <<>> => Tail(toBoard) \in Seq(FrameSet)
          /\ toHost # <<>> => Tail(toHost) \in Seq(ReplySet)
      BY DEF TypeInv, TypeOK
    <3>2. lost \in 0..MaxLost
      BY DEF TypeInv, TypeOK
    <3>3. lost' \in 0..MaxLost
      BY <1>7, <3>2, TransferAssumption DEF Lose
    <3>4. QED
      BY <1>7, <3>1, <3>3 DEF Lose
  <2>2. QED
    BY <1>7, <2>1 DEF Lose, TypeInv, TypeOK, hostVars, boardVars
<1>8. CASE Damage
  <2>1. toBoard' \in Seq(FrameSet) /\ toHost' \in Seq(ReplySet)
    BY <1>8, FramesDamaged, RepliesDamaged DEF Damage, TypeInv, TypeOK, Inv, FramesOK
  <2>2. damaged' \in 0..MaxDamaged
    <3>1. damaged \in 0..MaxDamaged
      BY DEF TypeInv, TypeOK
    <3>2. QED
      BY <1>8, <3>1, TransferAssumption DEF Damage
  <2>3. QED
    BY <1>8, <2>1, <2>2 DEF Damage, TypeInv, TypeOK, hostVars, boardVars
<1>9. CASE Rest \/ UNCHANGED vars
  BY <1>9 DEF Rest, vars, hostVars, boardVars, faults, TypeInv, TypeOK
<1>10. QED
  BY <1>1, <1>2, <1>3, <1>4, <1>5, <1>6, <1>7, <1>8, <1>9 DEF Next

\* Every field of the session stays in its range: no request is transmitted more often than
\* exchange() allows, and no block number or slot index runs past the image.
THEOREM TypeCorrect == Spec => []TypeOK
<1>1. TypeInv => TypeOK
  BY DEF TypeInv
<1>2. QED
  BY <1>1, TypeInit, TypeStep, Invariance, PTL DEF Spec

-----------------------------------------------------------------------------
(* Losses *)

Sound == damaged = 0 /\ early = 0 /\ aborts = 0

\* The board's transfer before it has seen the request under way, or seen it without the
\* host knowing; and after.
BoardAt == /\ state # "COMPLETE"
           /\ request > Start => state = "RECEIVING" /\ last_seq \in {request - 2, request - 1}

BoardAfter == /\ state # "COMPLETE"
              /\ request >= Start => state = "RECEIVING" /\ last_seq = request - 1

\* Every transmission but the last has cost a loss.
Pursued ==
    \/ /\ host \in {"send", "wait"} /\ toBoard = <<>> /\ toHost = <<>>
       /\ attempts <= lost /\ BoardAt
    \/ /\ host = "wait" /\ toHost = <<>> /\ toBoard = <<Frame(request)>>
       /\ attempts <= lost + 1 /\ BoardAt
    \/ /\ host = "wait" /\ toBoard = <<>>
       /\ \E r \in ReplySet : /\ toHost = <<r>>
                             /\ r.cmd = IF request = GetInfo THEN "INFO" ELSE "ACK"
       /\ attempts <= lost + 1 /\ BoardAfter

LossInv == Sound => \/ request = End
                    \/ host = "failed" /\ lost >= Retries
                    \/ request # End /\ Pursued

Numbers == /\ request \in 0..(Blocks + 2) /\ attempts \in Nat /\ last_seq \in Int
           /\ {lost, damaged, early, aborts} \subseteq Nat
           /\ Blocks \in Nat /\ Retries \in Nat /\ Retries > 0

LEMMA NumbersFromTypes == TypeInv => Numbers
  BY TransferAssumption DEF TypeInv, TypeOK, Numbers, Requests, GetInfo, End

LEMMA LossInit == Init => LossInv
  BY TransferAssumption DEF Init, LossInv, Pursued, BoardAt, GetInfo, Start, End

LEMMA PursuedDispatch ==
  ASSUME Inv, Numbers, request # End, Pursued, Dispatch, aborts' = aborts
  PROVE  Pursued'
<1> DEFINE f == Frame(request)
<1>1. /\ host = "wait" /\ toHost = <<>> /\ toBoard = <<f>>
      /\ attempts <= lost + 1 /\ BoardAt
  BY DEF Dispatch, Pursued
<1>2. /\ toBoard' = <<>> /\ UNCHANGED <<hostVars, faults>>
      /\ OnStart(f) \/ OnData(f) \/ OnEnd(f) \/ OnInfo(f) \/ OnDamaged(f)
  BY <1>1 DEF Dispatch, faults
<1>3. f \in FrameSet /\ f.cmd = CommandOf(request) /\ f.seq = SeqOf(request)
  BY RequestFrame DEF Inv, Frame
<1> HIDE DEF f
<1>4. ASSUME NEW c \in {"INFO", "ACK"}, Answer(c, f.seq), BoardAfter',
             c = IF request = GetInfo THEN "INFO" ELSE "ACK"
      PROVE  Pursued'
  <2>1. [cmd |-> c, seq |-> f.seq] \in ReplySet
    BY <1>3 DEF FrameSet, ReplySet
  <2>2. toHost' = <<[cmd |-> c, seq |-> f.seq]>>
    BY <1>1, <1>4 DEF Answer, Reply
  <2>3. QED
    BY <1>1, <1>2, <1>4, <2>1, <2>2 DEF Pursued, hostVars, faults
<1>5. CASE request = GetInfo
  <2>1. OnInfo(f)
    BY <1>2, <1>3, <1>5 DEF CommandOf, OnStart, OnData, OnEnd, OnDamaged
  <2>2. BoardAfter'
    BY <1>1, <1>2, <1>5, <2>1 DEF OnInfo, BoardAt, BoardAfter, boardVars, hostVars, GetInfo, Start
  <2>3. QED
    BY <1>4, <1>5, <2>1, <2>2 DEF OnInfo
<1>6. CASE request = Start
  <2>1. OnStart(f) /\ f.seq = 0
    BY <1>2, <1>3, <1>6 DEF CommandOf, SeqOf, GetInfo, Start, OnInfo, OnData, OnEnd, OnDamaged
  <2>0. aborts' # aborts + 1
    BY DEF Numbers
  <2>2. BoardAfter'
    BY <1>2, <1>6, <2>1, <2>0 DEF OnStart, BoardAfter, hostVars, Start
  <2>3. QED
    BY <1>4, <1>6, <2>1, <2>2, <2>0 DEF OnStart, GetInfo, Start
<1>7. CASE request # GetInfo /\ request # Start
  <2>1. OnData(f) /\ f.seq = request - 1 /\ request - 1 \in 1..Blocks
    BY <1>2, <1>3, <1>7 DEF CommandOf, SeqOf, GetInfo, Start, End, Numbers, OnInfo, OnStart, OnEnd,
       OnDamaged
  <2>2. /\ state = "RECEIVING" /\ last_seq \in {request - 2, request - 1}
        /\ last_seq = Len(written)
    BY <1>1, <1>7 DEF BoardAt, Numbers, GetInfo, Start, Inv, BoardOK
  <2>3. CASE last_seq = request - 1
    <3>1. UNCHANGED boardVars /\ Answer("ACK", f.seq)
      BY <2>1, <2>2, <2>3 DEF OnData
    <3>2. BoardAfter'
      BY <1>2, <2>2, <2>3, <3>1 DEF BoardAfter, boardVars, hostVars
    <3>3. QED
      BY <1>4, <1>7, <3>1, <3>2
  <2>4. CASE last_seq = request - 2
    <3>1. f.seq # last_seq /\ InSequence(f) /\ Len(written) < Blocks
      BY <2>1, <2>2, <2>4 DEF InSequence, Numbers
    <3>2. state' = state /\ last_seq' = f.seq /\ Answer("ACK", f.seq)
      BY <2>1, <2>2, <3>1 DEF OnData, Numbers
    <3>3. BoardAfter'
      BY <1>2, <2>1, <2>2, <3>2 DEF BoardAfter, hostVars
    <3>4. QED
      BY <1>4, <1>7, <3>2, <3>3
  <2>5. QED
    BY <2>2, <2>3, <2>4
<1>8. QED
  BY <1>5, <1>6, <1>7

LEMMA PursuedReceive ==
  ASSUME Numbers, request # End, Pursued, Receive, Numbers'
  PROVE  request' = End \/ Pursued'
<1>1. PICK r \in ReplySet : /\ host = "wait" /\ toBoard = <<>> /\ toHost = <<r>>
                            /\ r.cmd = IF request = GetInfo THEN "INFO" ELSE "ACK"
                            /\ BoardAfter
  BY DEF Receive, Pursued
<1>2. Head(toHost) = r /\ Tail(toHost) = <<>> /\ r.cmd # "DAMAGED" /\ ~Refused(r)
  BY <1>1 DEF Refused
<1>3. toHost' = <<>> /\ toBoard' = <<>> /\ Proceed /\ UNCHANGED <<boardVars, faults>>
  BY <1>1, <1>2 DEF Receive
<1>4. request' = request + 1 /\ host' = "send" /\ attempts' = 0
  BY <1>3 DEF Proceed
<1>5. BoardAt'
  BY <1>1, <1>3, <1>4 DEF BoardAt, BoardAfter, boardVars, Numbers, Start
<1>6. QED
  BY <1>3, <1>4, <1>5 DEF Pursued, faults, Numbers

LEMMA PursuedGiveUp ==
  ASSUME Numbers, request # End, Pursued, GiveUp, early' = early
  PROVE  (host' = "failed" /\ lost' >= Retries) \/ Pursued'
<1>1. toBoard = <<>> /\ toHost = <<>> /\ TryAgain(<<>>) /\ UNCHANGED <<toBoard, boardVars, lost>>
  BY DEF GiveUp, Numbers
<1>2. attempts <= lost /\ BoardAt /\ RetriesOf(request) = Retries
  BY <1>1 DEF Pursued, RetriesOf
<1>3. UNCHANGED <<request, attempts>> /\ BoardAt'
  BY <1>1, <1>2 DEF TryAgain, BoardAt, boardVars
<1>4. CASE attempts < Retries
  <2>1. \A n \in 0..Len(<<>>) : SubSeq(<<>>, n + 1, Len(<<>>)) = <<>>
    OBVIOUS
  <2>2. host' = "send" /\ toHost' = <<>>
    BY <1>1, <1>2, <1>4, <2>1 DEF TryAgain, Numbers
  <2>3. QED
    BY <1>1, <1>2, <1>3, <2>2 DEF Pursued
<1>5. CASE ~(attempts < Retries)
  BY <1>1, <1>2, <1>5 DEF TryAgain, Numbers
<1>6. QED
  BY <1>4, <1>5

LEMMA PursuedLose ==
  ASSUME Numbers, Pursued, Lose
  PROVE  Pursued'
<1>1. /\ lost' = lost + 1 /\ UNCHANGED <<request, host, attempts, state, last_seq>>
  BY DEF Lose, hostVars, boardVars
<1>2. \A x : Tail(<<x>>) = <<>>
  OBVIOUS
<1>3. toBoard' = <<>> /\ toHost' = <<>> /\ host = "wait"
  BY <1>2 DEF Lose, Pursued
<1>4. attempts <= lost + 1 /\ BoardAt
  BY DEF Pursued, BoardAt, BoardAfter, Numbers, Start
<1>5. QED
  BY <1>1, <1>3, <1>4 DEF Pursued, BoardAt

LEMMA LossStep == Inv /\ TypeInv /\ TypeInv' /\ LossInv /\ [Next]_vars => LossInv'
<1> SUFFICES ASSUME Inv, TypeInv, TypeInv', LossInv, [Next]_vars, Sound' PROVE LossInv'
  BY DEF LossInv
<1>1. Numbers /\ Numbers'
  BY NumbersFromTypes, PTL
<1>2. Sound /\ UNCHANGED <<damaged, early, aborts>> /\ ~Damage /\ ~Abort
  <2>1. CASE Dispatch
    <3>1. UNCHANGED <<damaged, early>> /\ (aborts' = aborts \/ aborts' = aborts + 1)
      BY <2>1 DEF Dispatch, OnStart
    <3>2. Sound /\ UNCHANGED <<damaged, early, aborts>>
      BY <1>1, <3>1 DEF Sound, Numbers
    <3>3. QED
      BY <1>1, <3>2 DEF Damage, Abort, Numbers
  <2>2. CASE ~Dispatch
    BY <1>1, <2>2 DEF Sound, Numbers, Next, vars, faults, Send, Receive, GiveUp, Reboot, Abort,
       Lose, Damage, Rest
  <2>3. QED
    BY <2>1, <2>2
<1>3. CASE request = End
  <2>1. request' = End
    BY <1>3 DEF Next, vars, hostVars, Send, Receive, Proceed, GiveUp, TryAgain, Dispatch, Reboot,
       Abort, Lose, Damage, Rest, End
  <2>2. QED
    BY <2>1 DEF LossInv, End
<1>4. CASE host = "failed" /\ lost >= Retries
  <2>1. host' = "failed"
    BY <1>4 DEF Next, vars, hostVars, Send, Receive, GiveUp, Dispatch, Reboot, Abort, Lose, Damage,
       Rest
  <2>2. lost' = lost \/ lost' = lost + 1
    BY DEF Next, vars, faults, Send, Receive, GiveUp, Dispatch, Reboot, Abort, Lose, Damage, Rest
  <2>3. lost' >= Retries
    BY <1>1, <1>4, <2>2 DEF Numbers
  <2>4. QED
    BY <2>1, <2>3 DEF LossInv
<1>5. CASE request # End /\ Pursued
  <2> SUFFICES request' = End \/ Pursued' \/ (host' = "failed" /\ lost' >= Retries)
    BY DEF LossInv, End
  <2>1. CASE Send
    BY <1>1, <1>5, <2>1 DEF Send, Pursued, BoardAt, boardVars, faults, Numbers
  <2>2. CASE Receive
    BY <1>1, <1>5, <2>2, PursuedReceive DEF End
  <2>3. CASE GiveUp
    BY <1>1, <1>2, <1>5, <2>3, PursuedGiveUp
  <2>4. CASE Dispatch
    BY <1>1, <1>2, <1>5, <2>4, PursuedDispatch
  <2>5. CASE Reboot
    BY <1>5, <2>5 DEF Reboot, Pursued, BoardAt, BoardAfter
  <2>6. CASE Lose
    BY <1>1, <1>5, <2>6, PursuedLose
  <2>7. CASE Rest \/ UNCHANGED vars
    <3>1. UNCHANGED <<request, host, attempts, toBoard, toHost, state, last_seq, lost>>
      BY <2>7 DEF Rest, vars, hostVars, boardVars, faults
    <3>2. Pursued'
      BY <1>5, <3>1 DEF Pursued, BoardAt, BoardAfter
    <3>3. QED
      BY <3>2
  <2>8. QED
    BY <1>2, <2>1, <2>2, <2>3, <2>4, <2>5, <2>6, <2>7 DEF Next
<1>6. QED
  BY <1>2, <1>3, <1>4, <1>5 DEF LossInv

\* PROTOCOL.md:278: on a link that only loses frames, fewer losses than transmissions never
\* end a session before its last request, for images of any size.
THEOREM LossesRecoveredHolds == Spec => []LossesRecovered
<1>1. TypeInv /\ LossInv => LossesRecovered
  <2> SUFFICES ASSUME TypeInv, LossInv, host = "failed", lost < Retries,
                      damaged + early + aborts = 0
               PROVE  request = End
    BY DEF LossesRecovered
  <2>1. Numbers
    BY NumbersFromTypes
  <2>2. Sound
    BY <2>1 DEF Numbers, Sound
  <2>3. QED
    BY <2>1, <2>2 DEF LossInv, Pursued, Numbers
<1>2. QED
  BY <1>1, TypeInit, TypeStep, LossInit, LossStep, Invariance, PTL DEF Spec

-----------------------------------------------------------------------------
(* A session is finite *)

\* What is left of a session: transmissions, frames and answers on their way, the restart
\* after an update, the wait under way, and the faults still to come.
TransmissionsLeft == IF Finished THEN 0 ELSE (End - request) * Retries + (Retries - attempts)
BoardLeft == IF state = "COMPLETE" THEN 1 ELSE 0
HostLeft == IF host = "wait" THEN 1 ELSE 0
FaultsLeft == (MaxLost - lost) + (MaxDamaged - damaged) + (MaxAborts - aborts)
Left == 5 * TransmissionsLeft + 3 * Len(toBoard) + Len(toHost) + BoardLeft + HostLeft + FaultsLeft

\* Every step uses something up, and what is left is never less than nothing.
SessionShrinks == [][Left' < Left /\ Left' \in Nat]_vars

LeftOK == /\ TransmissionsLeft \in Nat /\ Len(toBoard) \in Nat /\ Len(toHost) \in Nat
          /\ BoardLeft \in 0..1 /\ HostLeft \in 0..1 /\ FaultsLeft \in Nat
          /\ Left \in Nat

LEMMA LeftNat == TypeInv => LeftOK
<1> SUFFICES ASSUME TypeInv PROVE LeftOK
  OBVIOUS
<1>1. TransmissionsLeft \in Nat
  <2>1. End - request \in Nat /\ Retries \in Nat /\ Retries - attempts \in Nat
    BY TransferAssumption DEF TypeInv, TypeOK, Requests, End, GetInfo
  <2>2. \A m, n \in Nat : m * n \in Nat
    OBVIOUS
  <2>3. (End - request) * Retries \in Nat
    BY <2>1, <2>2
  <2>4. QED
    BY <2>1, <2>3 DEF TransmissionsLeft
<1>2. Len(toBoard) \in Nat /\ Len(toHost) \in Nat /\ BoardLeft \in 0..1 /\ HostLeft \in 0..1
  BY DEF TypeInv, TypeOK, BoardLeft, HostLeft
<1>3. FaultsLeft \in Nat
  BY TransferAssumption DEF TypeInv, TypeOK, FaultsLeft
<1>4. QED
  BY <1>1, <1>2, <1>3 DEF Left, LeftOK

LEMMA LeftNatNext == TypeInv' => LeftOK'
  BY LeftNat, PTL

LEMMA Shorter ==
  ASSUME NEW q, NEW S, q \in Seq(S)
  PROVE  /\ Len(q) \in Nat
         /\ q # <<>> => Len(Tail(q)) = Len(q) - 1
         /\ \A n \in 0..Len(q) : Len(SubSeq(q, n + 1, Len(q))) <= Len(q)
                                 /\ Len(SubSeq(q, n + 1, Len(q))) \in Nat
  OBVIOUS

\* An answer brings the next request, with transmissions of its own, for those this one has
\* not needed.
LEMMA ProceedLeft ==
  ASSUME TypeInv, host = "wait", Proceed
  PROVE  host' \in {"send", "done"} /\ TransmissionsLeft' <= TransmissionsLeft
<1>1. /\ End - request \in Nat /\ Retries \in Nat /\ attempts \in Nat /\ Retries - attempts \in Nat
      /\ End \in Nat /\ request \in Nat
  BY TransferAssumption DEF TypeInv, TypeOK, Requests, End, GetInfo
<1>2. TransmissionsLeft = (End - request) * Retries + (Retries - attempts)
  BY DEF TransmissionsLeft, Finished
<1>3. CASE request = End
  <2>1. host' = "done" /\ TransmissionsLeft' = 0
    BY <1>3 DEF Proceed, TransmissionsLeft, Finished
  <2>2. QED
    BY <2>1, LeftNat DEF LeftOK
<1>4. CASE request # End
  <2>1. host' = "send" /\ request' = request + 1 /\ attempts' = 0
    BY <1>4 DEF Proceed
  <2>2. TransmissionsLeft' = (End - (request + 1)) * Retries + Retries
    BY <1>1, <2>1 DEF TransmissionsLeft, Finished, End
  <2>3. \A m, n \in Nat : (m - 1) * n + n = m * n
    OBVIOUS
  <2>4. (End - (request + 1)) * Retries + Retries = (End - request) * Retries
    <3>1. End - (request + 1) = (End - request) - 1
      BY <1>1
    <3>2. QED
      BY <1>1, <2>3, <3>1
  <2>5. (End - request) * Retries \in Nat
    BY <1>1
  <2>6. QED
    BY <1>1, <1>2, <2>1, <2>2, <2>4, <2>5
<1>5. QED
  BY <1>3, <1>4

LEMMA TryAgainLeft ==
  ASSUME TypeInv, host = "wait", NEW q \in Seq(ReplySet), TryAgain(q)
  PROVE  /\ host' \in {"send", "failed"} /\ TransmissionsLeft' <= TransmissionsLeft
         /\ Len(toHost') <= Len(q)
<1>1. host' \in {"send", "failed"} /\ request' = request /\ attempts' = attempts
  BY DEF TryAgain
<1>2. TransmissionsLeft' \in {0, TransmissionsLeft}
  BY <1>1 DEF TransmissionsLeft, Finished, End
<1>3. Len(toHost') <= Len(q)
  BY Shorter DEF TryAgain
<1>4. QED
  BY <1>1, <1>2, <1>3, LeftNat DEF LeftOK

LEMMA LeftStep ==
  ASSUME TypeInv, TypeInv', [Next]_vars, vars' # vars
  PROVE  Left' < Left /\ Left' \in Nat
<1>1. LeftOK /\ LeftOK'
  BY LeftNat, LeftNatNext
<1>2. toBoard \in Seq(FrameSet) /\ toHost \in Seq(ReplySet)
  BY DEF TypeInv, TypeOK
<1>3. /\ lost \in Nat /\ damaged \in Nat /\ aborts \in Nat
      /\ MaxLost \in Nat /\ MaxDamaged \in Nat /\ MaxAborts \in Nat
  BY TransferAssumption DEF TypeInv, TypeOK
<1> DEFINE Kept == host' = host /\ request' = request /\ attempts' = attempts
<1>4. Kept => TransmissionsLeft' = TransmissionsLeft /\ HostLeft' = HostLeft
  BY DEF TransmissionsLeft, HostLeft, Finished, End
<1>5. UNCHANGED faults => FaultsLeft' = FaultsLeft
  BY DEF faults, FaultsLeft
<1>6. UNCHANGED boardVars => BoardLeft' = BoardLeft
  BY DEF boardVars, BoardLeft
<1> USE DEF LeftOK
<1>7. CASE Send
  <2>1. TransmissionsLeft' = TransmissionsLeft - 1
    <3>1. /\ End - request \in Nat /\ Retries \in Nat /\ attempts \in Nat
          /\ (End - request) * Retries \in Nat
      BY TransferAssumption DEF TypeInv, TypeOK, Requests, End, GetInfo
    <3>2. /\ TransmissionsLeft = (End - request) * Retries + (Retries - attempts)
          /\ TransmissionsLeft' = (End - request) * Retries + (Retries - (attempts + 1))
      BY <1>7 DEF Send, TransmissionsLeft, Finished, End
    <3>3. QED
      BY <3>1, <3>2
  <2>2. Len(toBoard') = Len(toBoard) + 1 /\ toHost' = toHost
    BY <1>2, <1>7 DEF Send
  <2>3. HostLeft = 0 /\ HostLeft' = 1 /\ BoardLeft' = BoardLeft /\ FaultsLeft' = FaultsLeft
    BY <1>5, <1>6, <1>7 DEF Send, HostLeft
  <2>4. QED
    BY <1>1, <2>1, <2>2, <2>3 DEF Left
<1>8. CASE Receive \/ GiveUp
  <2>1. /\ host = "wait" /\ host' # "wait"
        /\ TransmissionsLeft' <= TransmissionsLeft /\ Len(toHost') <= Len(toHost)
    <3>1. CASE GiveUp
      BY <1>2, <3>1, TryAgainLeft DEF GiveUp
    <3>2. CASE Receive
      <4>1. host = "wait" /\ Tail(toHost) \in Seq(ReplySet) /\ Len(Tail(toHost)) = Len(toHost) - 1
        BY <1>2, <3>2, Shorter DEF Receive
      <4>2. CASE TryAgain(Tail(toHost))
        <5>1. /\ host' \in {"send", "failed"} /\ TransmissionsLeft' <= TransmissionsLeft
              /\ Len(toHost') <= Len(Tail(toHost))
          BY <4>1, <4>2, TryAgainLeft
        <5>2. QED
          BY <1>1, <4>1, <5>1
      <4>3. CASE /\ toHost' = Tail(toHost) /\ host' = "failed"
        BY <1>1, <4>1, <4>3 DEF TransmissionsLeft, Finished
      <4>4. CASE toHost' = Tail(toHost) /\ Proceed
        BY <1>1, <4>1, <4>4, ProceedLeft
      <4>5. QED
        BY <3>2, <4>2, <4>3, <4>4 DEF Receive
    <3>3. QED
      BY <1>8, <3>1, <3>2
  <2>2. HostLeft = 1 /\ HostLeft' = 0
    BY <2>1 DEF HostLeft
  <2>3. Len(toBoard') = Len(toBoard) /\ BoardLeft' = BoardLeft /\ FaultsLeft' = FaultsLeft
    BY <1>6, <1>8 DEF Receive, GiveUp, FaultsLeft, faults
  <2>4. TransmissionsLeft' <= TransmissionsLeft /\ Len(toHost') <= Len(toHost)
    BY <2>1
  <2> DEFINE t == TransmissionsLeft
             u == TransmissionsLeft'
             h == Len(toHost)
             k == Len(toHost')
             b == Len(toBoard)
             c == BoardLeft
             f == FaultsLeft
  <2>5. Left = 5 * t + 3 * b + h + c + HostLeft + f /\ Left' = 5 * u + 3 * b + k + c + HostLeft' + f
    BY <2>3 DEF Left
  <2>6. t \in Nat /\ u \in Nat /\ h \in Nat /\ k \in Nat /\ u <= t /\ k <= h
    BY <1>1, <2>4
  <2>7. b \in Nat /\ c \in Nat /\ f \in Nat
    BY <1>1
  <2> HIDE DEF t, u, h, k, b, c, f
  <2>8. 5 * u + 3 * b + k + c + 0 + f < 5 * t + 3 * b + h + c + 1 + f
    BY <2>6, <2>7
  <2>9. QED
    BY <1>1, <2>2, <2>5, <2>8
<1>9. CASE Dispatch
  <2>1. Len(toBoard') = Len(toBoard) - 1
    BY <1>2, <1>9, Shorter DEF Dispatch
  <2>2. Len(toHost') <= Len(toHost) + 1
    BY <1>2, <1>9 DEF Dispatch, OnStart, OnData, OnEnd, OnInfo, OnDamaged, Answer, Reply
  <2>3. Kept /\ FaultsLeft' <= FaultsLeft
    <3>1. aborts' = aborts \/ aborts' = aborts + 1
      BY <1>9 DEF Dispatch, OnStart
    <3>2. Kept /\ UNCHANGED <<lost, damaged, early>>
      BY <1>9 DEF Dispatch, hostVars
    <3>3. /\ {MaxLost, MaxDamaged, MaxAborts} \subseteq Nat
          /\ {lost, damaged, aborts, aborts'} \subseteq Int
      BY <3>1, TransferAssumption DEF TypeInv, TypeOK
    <3>4. FaultsLeft' <= FaultsLeft
      BY <3>1, <3>2, <3>3 DEF FaultsLeft
    <3>5. QED
      BY <3>2, <3>4
  <2>4. QED
    BY <1>1, <1>4, <1>5, <2>1, <2>2, <2>3 DEF Left
<1>10. CASE Reboot
  <2>1. BoardLeft = 1 /\ BoardLeft' = 0
    BY <1>10 DEF Reboot, NoTransfer, BoardLeft
  <2>2. Len(toBoard') <= Len(toBoard) /\ toHost' = toHost
    BY <1>2, <1>10, Shorter DEF Reboot
  <2>3. Kept /\ UNCHANGED faults
    BY <1>10 DEF Reboot, hostVars
  <2>4. QED
    BY <1>1, <1>4, <1>5, <2>1, <2>2, <2>3 DEF Left
<1>11. CASE Abort
  <2>1. BoardLeft = 0 /\ BoardLeft' = 0
    BY <1>11 DEF Abort, NoTransfer, BoardLeft
  <2>2. FaultsLeft' = FaultsLeft - 1
    BY <1>3, <1>11 DEF Abort, FaultsLeft
  <2>3. Kept /\ toBoard' = toBoard /\ toHost' = toHost
    BY <1>11 DEF Abort, hostVars
  <2>4. QED
    BY <1>1, <1>4, <2>1, <2>2, <2>3 DEF Left
<1>12. CASE Lose \/ Damage
  <2>1. Len(toBoard') <= Len(toBoard) /\ Len(toHost') <= Len(toHost)
    BY <1>1, <1>2, <1>12, Shorter DEF Lose, Damage
  <2>2. FaultsLeft' = FaultsLeft - 1
    BY <1>3, <1>12 DEF Lose, Damage, FaultsLeft
  <2>3. Kept /\ UNCHANGED boardVars
    BY <1>12 DEF Lose, Damage, hostVars
  <2>4. QED
    BY <1>1, <1>4, <1>6, <2>1, <2>2, <2>3 DEF Left
<1>13. CASE Rest \/ UNCHANGED vars
  BY <1>13 DEF Rest
<1>14. QED
  BY <1>7, <1>8, <1>9, <1>10, <1>11, <1>12, <1>13 DEF Next

\* However long the image, however many faults: a session has no more steps than Left counts
\* when it begins, and cannot go on for ever (flash.py:214-304, SessionEnds).
THEOREM SessionShrinksHolds == Spec => SessionShrinks
<1>1. TypeInv /\ TypeInv' /\ [Next]_vars => [Left' < Left /\ Left' \in Nat]_vars
  BY LeftStep
<1>2. Spec => []TypeInv
  BY Invariance, TypeInit, TypeStep, PTL DEF Spec
<1>3. QED
  BY <1>1, <1>2, PTL DEF Spec, SessionShrinks

-----------------------------------------------------------------------------
(* The record write_metadata.py leaves *)

\* The values of the variables; while the tool runs its slot holds the image just flashed.
ToolTypeOK ==
    /\ page \in [Slot -> Page \cup {NoRecord}] /\ dump \in [Slot -> Page \cup {NoRecord}]
    /\ contents \in [Slot -> Image \cup {Junk}]
    /\ step \in {"idle", "dump A", "dump B", "write", "done"}
    /\ slot \in Slot /\ failed \in BOOLEAN /\ existing \in Info
    /\ step # "idle" => contents[slot] \in Image

\* Until the tool writes, the pages are as it found them.
AsFound == step \in {"dump A", "dump B", "write"} =>
    /\ existing = InForce.slot[Other(slot)]
    /\ \A i \in Slot : page[i] # NoRecord => page[i].counter <= MaxCounter

\* It knows of a page what the page says, or nothing; and nothing only after a failure.
Dumped == step \in {"dump A", "dump B", "write"} =>
    /\ \A i \in Slot : dump[i] \in {NoRecord, page[i]}
    /\ ~failed => /\ step \in {"dump B", "write"} => dump[0] = page[0]
                  /\ step = "write" => dump[1] = page[1]

OtherKept(s) == Preserved(s).image = IF existing.state = "EMPTY" THEN NoImage ELSE existing.image

\* The only copy it leaves is its own record, and that says of the other slot what it should.
Recorded == step = "done" => /\ page = [i \in Slot |-> IF i = 0 THEN Built(slot) ELSE NoRecord]
                             /\ Built(slot) \in Page
                             /\ ~failed => OtherKept(Other(slot))

ToolInv == ToolTypeOK /\ AsFound /\ Dumped /\ Recorded

LEMMA SlotFacts == /\ 0 \in Slot /\ 1 \in Slot
                   /\ \A s \in Slot : Other(s) \in Slot /\ (s = 0 \/ s = 1)
  BY DEF Slot, Other

LEMMA EmptyInfo == EmptySlot \in Info /\ EmptySlot.image = NoImage /\ EmptySlot.state = "EMPTY"
  BY DEF EmptySlot, Info

\* The record in force is one of those on the pages, and the last written of them.
LEMMA CurrentFacts ==
  ASSUME page \in [Slot -> Page \cup {NoRecord}]
  PROVE  /\ Current \in Page \cup {NoRecord}
         /\ Current # NoRecord => Current.counter \in 1..MaxCounter + 1 /\ Current.record \in Record
         /\ \A i \in Slot : page[i] # NoRecord =>
               /\ Current # NoRecord
               /\ page[i].counter \in Nat /\ page[i].counter <= Current.counter
         /\ InForce \in Record
<1>1. page[0] \in Page \cup {NoRecord} /\ page[1] \in Page \cup {NoRecord}
  BY SlotFacts
<1>2. Current \in {page[0], page[1]}
  BY DEF Current
<1>3. \A r \in Page : r.counter \in 1..MaxCounter + 1 /\ r.counter \in Nat /\ r.record \in Record
  BY ToolAssumption DEF Page
<1>4. ASSUME NEW i \in Slot, page[i] # NoRecord
      PROVE  Current # NoRecord /\ page[i].counter \in Nat /\ page[i].counter <= Current.counter
  BY <1>1, <1>3, <1>4, SlotFacts DEF Current
<1>5. InForce \in Record
  <2>1. CASE Current = NoRecord
    BY <2>1, EmptyInfo, SlotFacts DEF InForce, Record
  <2>2. CASE Current # NoRecord
    BY <1>1, <1>2, <1>3, <2>2 DEF InForce
  <2>3. QED
    BY <2>1, <2>2
<1>6. QED
  BY <1>1, <1>2, <1>3, <1>4, <1>5

LEMMA BestFacts ==
  ASSUME dump \in [Slot -> Page \cup {NoRecord}]
  PROVE  Best(dump) \in {dump[0], dump[1]} /\ Best(dump) \in Page \cup {NoRecord}
<1>1. dump[0] \in Page \cup {NoRecord} /\ dump[1] \in Page \cup {NoRecord}
  BY SlotFacts
<1>2. QED
  BY <1>1 DEF Best

LEMMA PreservedFacts ==
  ASSUME dump \in [Slot -> Page \cup {NoRecord}], NEW s \in Slot
  PROVE  Preserved(s) \in Info
<1>1. CASE Best(dump) = NoRecord
  BY <1>1, EmptyInfo DEF Preserved
<1>2. CASE Best(dump) # NoRecord
  <2>1. Best(dump).record.slot[s] \in Info
    BY <1>2, BestFacts DEF Page, Record
  <2>2. [Best(dump).record.slot[s] EXCEPT !.state = "VALID"] \in Info
    BY <2>1 DEF Info
  <2>3. QED
    BY <2>2, EmptyInfo DEF Preserved
<1>3. QED
  BY <1>1, <1>2

\* What the tool builds is a record, and its counter does not run over.
LEMMA BuiltFacts ==
  ASSUME ToolTypeOK, AsFound, Dumped, step = "write"
  PROVE  Built(slot) \in Page
<1>1. NextCounter \in 1..MaxCounter + 1
  <2>1. CASE Best(dump) = NoRecord
    BY <2>1, ToolAssumption DEF NextCounter
  <2>2. CASE Best(dump) # NoRecord
    <3>1. PICK i \in Slot : Best(dump) = dump[i]
      BY BestFacts, SlotFacts DEF ToolTypeOK
    <3>2. Best(dump) = page[i] /\ page[i] # NoRecord
      BY <2>2, <3>1 DEF Dumped
    <3>3. Best(dump).counter \in 1..MaxCounter + 1 /\ Best(dump).counter <= MaxCounter
      BY <2>2, <3>2, BestFacts DEF ToolTypeOK, AsFound, Page
    <3>4. QED
      BY <2>2, <3>3, ToolAssumption DEF NextCounter
  <2>3. QED
    BY <2>1, <2>2
<1>2. [image |-> contents[slot], state |-> "VALID"] \in Info
  BY DEF ToolTypeOK, Info
<1>3. \A t \in Slot : Preserved(t) \in Info
  BY PreservedFacts DEF ToolTypeOK
<1>4. [t \in Slot |-> IF t = slot THEN [image |-> contents[slot], state |-> "VALID"]
                                  ELSE Preserved(t)] \in [Slot -> Info]
  BY <1>2, <1>3
<1>5. QED
  BY <1>1, <1>4 DEF Built, Page, Record, ToolTypeOK

\* When both pages were read the tool chooses the record metadata_read() chooses.
LEMMA KeptFacts ==
  ASSUME ToolTypeOK, AsFound, Dumped, step = "write", ~failed
  PROVE  OtherKept(Other(slot))
<1> DEFINE s == Other(slot)
<1>1. Best(dump) = Current
  BY DEF Dumped, Best, Current
<1>2. s \in Slot /\ existing = InForce.slot[s] /\ existing \in Info
  BY SlotFacts DEF ToolTypeOK, AsFound
<1>3. CASE Current = NoRecord
  <2>1. existing = EmptySlot
    BY <1>2, <1>3 DEF InForce
  <2>2. QED
    BY <1>1, <1>3, <2>1, EmptyInfo DEF Preserved, OtherKept
<1>4. CASE Current # NoRecord
  <2>1. existing = Best(dump).record.slot[s]
    BY <1>1, <1>2, <1>4 DEF InForce
  <2>2. [existing EXCEPT !.state = "VALID"].image = existing.image
    BY <1>2 DEF Info
  <2>3. QED
    BY <1>1, <1>4, <2>1, <2>2, EmptyInfo DEF Preserved, OtherKept
<1>5. QED
  BY <1>3, <1>4

LEMMA ToolInitInv == ToolInit => ToolInv
<1> SUFFICES ASSUME ToolInit PROVE ToolInv
  OBVIOUS
<1>1. ToolTypeOK
  BY EmptyInfo, SlotFacts DEF ToolInit, ToolTypeOK
<1>2. QED
  BY <1>1 DEF ToolInit, ToolInv, AsFound, Dumped, Recorded

\* The board writes records.
LEMMA BoardType ==
  ASSUME ToolTypeOK, Board
  PROVE  ToolTypeOK' /\ step' = "idle"
<1>1. InForce \in Record /\ Active \in Slot /\ Other(Active) \in Slot
  BY CurrentFacts, SlotFacts DEF ToolTypeOK, Active, Record
<1>2. ASSUME NEW r \in Record, BoardWrites(r), contents' \in [Slot -> Image \cup {Junk}]
      PROVE  ToolTypeOK' /\ step' = "idle"
  <2> DEFINE n == IF Current = NoRecord THEN 1 ELSE Current.counter + 1
             i == IF Current # NoRecord /\ Current = page[0] THEN 1 ELSE 0
  <2>1. n \in 1..MaxCounter + 1 /\ i \in Slot
    BY <1>2, CurrentFacts, SlotFacts, ToolAssumption DEF ToolTypeOK, BoardWrites
  <2>2. [counter |-> n, record |-> r] \in Page
    BY <2>1 DEF Page
  <2>3. page' = [page EXCEPT ![i] = [counter |-> n, record |-> r]]
    BY <1>2 DEF BoardWrites
  <2>4. page' \in [Slot -> Page \cup {NoRecord}]
    BY <2>1, <2>2, <2>3 DEF ToolTypeOK
  <2>5. QED
    BY <1>2, <2>4 DEF BoardWrites, ToolTypeOK, tool
<1>3. \A s, t \in Slot, x \in Info : [InForce EXCEPT !.active_slot = t, !.slot[s] = x] \in Record
                                     /\ [InForce EXCEPT !.slot[s] = x] \in Record
  BY <1>1 DEF Record
<1>4. \A s \in Slot : InForce.slot[s] \in Info
  BY <1>1 DEF Record
<1>5. ASSUME NEW s \in Slot, NEW st \in {"TESTING", "VALID", "EMPTY"}
      PROVE  /\ [InForce EXCEPT !.slot[s].state = st] \in Record
             /\ \A t \in Slot : [InForce EXCEPT !.active_slot = t, !.slot[s].state = st] \in Record
  <2>1. [InForce.slot[s] EXCEPT !.state = st] \in Info
    BY <1>4 DEF Info
  <2>2. QED
    BY <1>3, <2>1
<1>6. CASE \E img \in Image : Transfer(img)
  <2>1. PICK img \in Image : Transfer(img)
    BY <1>6
  <2>2. [image |-> img, state |-> "IN_PROGRESS"] \in Info
    BY DEF Info
  <2>3. contents' \in [Slot -> Image \cup {Junk}]
    BY <1>1, <2>1 DEF Transfer, ToolTypeOK
  <2>4. QED
    BY <1>1, <1>2, <1>3, <2>1, <2>2, <2>3 DEF Transfer
<1>7. CASE Install
  BY <1>1, <1>2, <1>5, <1>7 DEF Install, ToolTypeOK
<1>8. CASE Confirm
  BY <1>1, <1>2, <1>5, <1>8 DEF Confirm, ToolTypeOK
<1>9. CASE RollBack
  BY <1>1, <1>2, <1>5, <1>9 DEF RollBack, ToolTypeOK
<1>10. QED
  BY <1>6, <1>7, <1>8, <1>9 DEF Board

LEMMA ToolStep == ToolInv /\ [ToolNext]_all => ToolInv'
<1> SUFFICES ASSUME ToolInv, [ToolNext]_all PROVE ToolInv'
  OBVIOUS
<1> USE DEF ToolInv
<1>1. CASE Board
  BY <1>1, BoardType DEF AsFound, Dumped, Recorded
<1>2. ASSUME NEW s \in Slot, NEW img \in Image, Begin(s, img) PROVE ToolInv'
  <2>1. existing' \in Info
    BY <1>2, CurrentFacts, SlotFacts DEF Begin, ToolTypeOK, Record
  <2>2. ToolTypeOK'
    BY <1>2, <2>1, SlotFacts DEF Begin, ToolTypeOK
  <2>3. InForce' = InForce
    BY <1>2 DEF Begin, InForce, Current
  <2>4. ASSUME NEW i \in Slot, page[i] # NoRecord PROVE page[i].counter <= MaxCounter
    <3>1. /\ Current # NoRecord /\ Current.counter \in 1..MaxCounter + 1
          /\ page[i].counter \in Nat /\ page[i].counter <= Current.counter
      BY <2>4, CurrentFacts DEF ToolTypeOK
    <3>2. Current.counter <= MaxCounter
      BY <1>2, <3>1 DEF Begin
    <3>3. QED
      BY <3>1, <3>2, ToolAssumption
  <2>5. AsFound'
    BY <1>2, <2>3, <2>4 DEF Begin, AsFound
  <2>6. QED
    BY <1>2, <2>2, <2>5 DEF Begin, Dumped, Recorded
<1>3. ASSUME NEW i, NEW here, NEW next, Dump(i, here, next),
             \/ i = 0 /\ here = "dump A" /\ next = "dump B"
             \/ i = 1 /\ here = "dump B" /\ next = "write"
      PROVE  ToolInv'
  <2> i \in Slot
    BY <1>3, SlotFacts
  <2>1. dump'[i] \in {dump[i], page[i]} /\ \A j \in Slot \ {i} : dump'[j] = dump[j]
    BY <1>3 DEF Dump, ToolTypeOK
  <2>2. ~failed' => ~failed /\ dump'[i] = page[i]
    BY <1>3 DEF Dump, ToolTypeOK
  <2>3. dump' \in [Slot -> Page \cup {NoRecord}]
    BY <1>3 DEF Dump, ToolTypeOK
  <2>4. ToolTypeOK'
    BY <1>3, <2>3 DEF Dump, ToolTypeOK
  <2>5. InForce' = InForce
    BY <1>3 DEF Dump, InForce, Current
  <2>6. AsFound'
    BY <1>3, <2>5 DEF Dump, AsFound
  <2>7. Dumped'
    BY <1>3, <2>1, <2>2, SlotFacts DEF Dump, Dumped
  <2>8. QED
    BY <1>3, <2>4, <2>6, <2>7 DEF Dump, Recorded
<1>4. CASE TimedOut \/ ResetRun
  BY <1>4 DEF TimedOut, ResetRun, tool, ToolTypeOK, AsFound, Dumped, Recorded
<1>5. CASE WriteRecord
  <2>1. page' = [i \in Slot |-> IF i = 0 THEN Built(slot) ELSE NoRecord]
    BY <1>5 DEF WriteRecord, Erased
  <2>2. Built(slot) \in Page
    BY <1>5, BuiltFacts DEF WriteRecord
  <2>3. ToolTypeOK'
    BY <1>5, <2>1, <2>2 DEF WriteRecord, tool, ToolTypeOK
  <2>4. Built(slot)' = Built(slot) /\ OtherKept(Other(slot))' = OtherKept(Other(slot))
    BY <1>5 DEF WriteRecord, tool, Built, NextCounter, Preserved, OtherKept
  <2>5. ~failed => OtherKept(Other(slot))
    BY <1>5, KeptFacts DEF WriteRecord
  <2>6. Recorded'
    BY <1>5, <2>1, <2>2, <2>4, <2>5 DEF WriteRecord, tool, Recorded
  <2>7. QED
    BY <1>5, <2>3, <2>6 DEF WriteRecord, AsFound, Dumped
<1>6. CASE WriteFails
  <2>1. Built(slot) \in Page
    BY <1>6, BuiltFacts DEF WriteFails
  <2>2. page' \in [Slot -> Page \cup {NoRecord}]
    BY <1>6, <2>1 DEF WriteFails, Erased, ToolTypeOK
  <2>3. QED
    BY <1>6, <2>2 DEF WriteFails, tool, ToolTypeOK, AsFound, Dumped, Recorded
<1>7. CASE UNCHANGED all
  <2>1. InForce' = InForce /\ Built(slot)' = Built(slot) /\ OtherKept(Other(slot))' = OtherKept(Other(slot))
    BY <1>7 DEF all, InForce, Current, Built, NextCounter, Preserved, OtherKept
  <2>2. QED
    BY <1>7, <2>1 DEF all, ToolTypeOK, AsFound, Dumped, Recorded
<1>8. CASE Dump(0, "dump A", "dump B") \/ Dump(1, "dump B", "write")
  <2>1. CASE Dump(0, "dump A", "dump B")
    BY <1>3, <2>1, Zenon
  <2>2. CASE Dump(1, "dump B", "write")
    BY <1>3, <2>2, Zenon
  <2>3. QED
    BY <1>8, <2>1, <2>2
<1>9. QED
  BY <1>1, <1>2, <1>4, <1>5, <1>6, <1>7, <1>8 DEF ToolNext

\* In every reachable state the parts above hold, whatever openocd could read and wherever a
\* run of it was cut off.
THEOREM ToolInvariance == ToolSpec => []ToolInv
<1>1. QED
  BY ToolInitInv, ToolStep, PTL DEF ToolSpec

\* After the tool (write_metadata.py:206) the board reads the tool's record, for any number
\* of images and any counters: no copy that was there before wins over it.
THEOREM WrittenIsReadHolds == ToolSpec => []WrittenIsRead
<1>1. ToolInv => WrittenIsRead
  <2> SUFFICES ASSUME ToolInv, step = "done"
               PROVE  /\ Current # NoRecord /\ Current.record.active_slot = slot
                      /\ Current.record.slot[slot] = [image |-> contents[slot], state |-> "VALID"]
    BY DEF WrittenIsRead
  <2>1. Current = Built(slot) /\ Current # NoRecord
    BY SlotFacts, NoRecordAssumption DEF ToolInv, Recorded, Current
  <2>2. QED
    BY <2>1 DEF Built, ToolInv, ToolTypeOK
<1>2. QED
  BY <1>1, ToolInvariance, PTL

\* When openocd could read both pages (write_metadata.py:91), the record keeps the other
\* slot's image and invents none.
THEOREM OtherSlotKeptHolds == ToolSpec => []OtherSlotKept
<1>1. ToolInv => OtherSlotKept
  <2> SUFFICES ASSUME ToolInv, step = "done", ~failed
               PROVE  Current.record.slot[Other(slot)].image =
                        IF existing.state = "EMPTY" THEN NoImage ELSE existing.image
    BY DEF OtherSlotKept
  <2>1. Current = Built(slot)
    BY SlotFacts, NoRecordAssumption DEF ToolInv, Recorded, Current
  <2>2. Other(slot) \in Slot /\ Other(slot) # slot
    BY DEF ToolInv, ToolTypeOK, Slot, Other
  <2>3. Current.record.slot[Other(slot)] = Preserved(Other(slot))
    BY <2>1, <2>2 DEF Built
  <2>4. QED
    BY <2>3 DEF ToolInv, Recorded, OtherKept
<1>2. QED
  BY <1>1, ToolInvariance, PTL
=============================================================================
