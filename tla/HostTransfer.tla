---------------------------- MODULE HostTransfer ----------------------------
(***************************************************************************)
(* One update session: tools/flash.py and the stop-and-wait exchange of    *)
(* tools/transport.py on one side, the handlers of                         *)
(* bootloader/src/protocol_mgr.c on the other, and between them a link     *)
(* that loses, damages and delays frames but never reorders them.          *)
(*                                                                         *)
(* Frames are whole here.  A frame that arrives damaged is answered with   *)
(* ERR_CRC, or dropped unanswered when its LENGTH is implausible; what the *)
(* slot holds is the list of blocks written to it.  How often the link     *)
(* misbehaves is bounded by the constants, so that the runs can ask what a *)
(* given number of faults may cost.  The session of a board that already   *)
(* listens: main()'s detour through trigger_ota() is not modelled.         *)
(***************************************************************************)
EXTENDS Integers, Sequences

CONSTANTS Blocks,     \* blocks of the image: CMD_DATA frames of a transfer
          Retries,    \* exchange(): transmissions of a request (3)
          EndRetries, \* the same for CMD_END_UPDATE (1)
          MaxLost,    \* frames lost, either way
          MaxDamaged, \* frames damaged, either way
          MaxEarly,   \* waits given up while the answer is still on its way
          MaxAborts   \* transfers dropped or refused by the board: timer, flash, power, START's
                      \* checks

ASSUME TransferAssumption ==
    /\ Blocks \in Nat \ {0} /\ Retries \in Nat \ {0} /\ EndRetries \in 1..Retries
    /\ MaxLost \in Nat /\ MaxDamaged \in Nat /\ MaxEarly \in Nat /\ MaxAborts \in Nat

VARIABLES
    request,   \* number of the request under way: GET_INFO, START, DATA..., END
    host,      \* what exchange() does with it
    attempts,  \* transmissions of it so far
    toBoard, toHost,           \* frames on their way
    state, last_seq, written,  \* the board's transfer, and the blocks it wrote
    installed,                 \* END was accepted: the image is marked TESTING
    lost, damaged, early, aborts

hostVars == <<request, host, attempts>>
boardVars == <<state, last_seq, written, installed>>
faults == <<lost, damaged, early, aborts>>
vars == <<hostVars, toBoard, toHost, boardVars, faults>>

-----------------------------------------------------------------------------
(* The requests of main() and send_firmware(), in order *)

GetInfo == 0
Start == 1
End == Blocks + 2
Requests == GetInfo..End

\* GET_INFO and START both carry 0, the blocks 1, 2, ..., END the next number.
SeqOf(r) == IF r = GetInfo THEN 0 ELSE r - 1
CommandOf(r) == IF r = GetInfo THEN "GET_INFO" ELSE IF r = Start THEN "START_UPDATE"
                ELSE IF r = End THEN "END_UPDATE" ELSE "DATA"

Frame(r) == [cmd |-> CommandOf(r), seq |-> SeqOf(r)]
Reply(cmd, seq) == [cmd |-> cmd, seq |-> seq]

Init == /\ request = GetInfo /\ host = "send" /\ attempts = 0
        /\ toBoard = <<>> /\ toHost = <<>>
        /\ state = "IDLE" /\ last_seq = -1 /\ written = <<>> /\ installed = FALSE
        /\ lost = 0 /\ damaged = 0 /\ early = 0 /\ aborts = 0

-----------------------------------------------------------------------------
(* The host *)

RetriesOf(r) == IF r = End THEN EndRetries ELSE Retries

\* exchange(): one transmission.
Send == /\ host = "send"
        /\ toBoard' = Append(toBoard, Frame(request))
        /\ attempts' = attempts + 1
        /\ host' = "wait"
        /\ UNCHANGED <<request, toHost, boardVars, faults>>

\* Timeout, BadCRC: transmit again unless all transmissions are used up.  What has
\* already arrived is flushed, what is still on its way is not.
TryAgain(replies) ==
    /\ UNCHANGED <<request, attempts>>
    /\ \/ /\ attempts < RetriesOf(request)
          /\ host' = "send"
          /\ \E n \in 0..Len(replies) : toHost' = SubSeq(replies, n + 1, Len(replies))
       \/ /\ attempts >= RetriesOf(request)
          /\ host' = "failed"
          /\ toHost' = replies

\* receive() gives up.  Unless it is early, neither the request nor an answer is left.
GiveUp == /\ host = "wait"
          /\ \/ toBoard = <<>> /\ toHost = <<>> /\ UNCHANGED early
             \/ early < MaxEarly /\ early' = early + 1
          /\ TryAgain(toHost)
          /\ UNCHANGED <<toBoard, boardVars, lost, damaged, aborts>>

\* What the callers of exchange() make of an answer; nobody looks at its seq.
Refused(reply) == IF request = GetInfo THEN reply.cmd # "INFO" ELSE reply.cmd = "NACK"

\* Mutant of Proceed: the same request again.
ProceedSame == /\ attempts' = 0
               /\ host' = "send"
               /\ UNCHANGED request

Proceed == /\ attempts' = 0
           /\ IF request = End
              THEN host' = "done" /\ UNCHANGED request
              ELSE host' = "send" /\ request' = request + 1

Receive == /\ host = "wait" /\ toHost # <<>>
           /\ \/ Head(toHost).cmd = "DAMAGED" /\ TryAgain(Tail(toHost))
              \/ /\ Head(toHost).cmd = "DAMAGED"        \* "abnormal LENGTH" is not caught
                 /\ toHost' = Tail(toHost)
                 /\ host' = "failed" /\ UNCHANGED <<request, attempts>>
              \/ /\ Head(toHost).cmd # "DAMAGED"
                 /\ toHost' = Tail(toHost)
                 /\ IF Refused(Head(toHost))
                    THEN host' = "failed" /\ UNCHANGED <<request, attempts>>
                    ELSE Proceed
           /\ UNCHANGED <<toBoard, boardVars, faults>>

-----------------------------------------------------------------------------
(* The board *)

Answer(cmd, seq) == toHost' = Append(toHost, Reply(cmd, seq))

NoTransfer == /\ state' = "IDLE"
              /\ last_seq' = -1
              /\ written' = <<>>
              /\ UNCHANGED installed

\* Refused (slot, size, ERR_FLASH) the transfer under way goes on.
OnStart(f) ==
    /\ f.cmd = "START_UPDATE"
    /\ \/ /\ state' = "RECEIVING"
          /\ last_seq' = f.seq
          /\ written' = <<>>
          /\ UNCHANGED <<installed, aborts>>
          /\ Answer("ACK", f.seq)
       \/ /\ aborts < MaxAborts /\ aborts' = aborts + 1
          /\ UNCHANGED boardVars
          /\ Answer("NACK", f.seq)

\* Mutant of InSequence: only a block older than the last one is refused.
InSequenceAhead(f) == f.seq > last_seq

InSequence(f) == f.seq = last_seq + 1

\* Mutant of OnData: a repeated block is out of sequence.
OnDataNoRepeat(f) ==
    /\ f.cmd = "DATA"
    /\ \/ /\ state # "RECEIVING"
          /\ UNCHANGED boardVars
          /\ Answer("NACK", f.seq)
       \/ /\ state = "RECEIVING" /\ ~InSequence(f)
          /\ NoTransfer
          /\ Answer("NACK", f.seq)
       \/ /\ state = "RECEIVING" /\ InSequence(f)
          /\ last_seq' = f.seq
          /\ written' = Append(written, f.seq)
          /\ UNCHANGED <<state, installed>>
          /\ Answer("ACK", f.seq)

OnData(f) ==
    /\ f.cmd = "DATA"
    /\ \/ /\ state # "RECEIVING"
          /\ UNCHANGED boardVars
          /\ Answer("NACK", f.seq)
       \/ /\ state = "RECEIVING" /\ f.seq = last_seq    \* the ACK was lost
          /\ UNCHANGED boardVars
          /\ Answer("ACK", f.seq)
       \/ /\ state = "RECEIVING" /\ f.seq # last_seq /\ ~InSequence(f)
          /\ NoTransfer
          /\ Answer("NACK", f.seq)
       \/ /\ state = "RECEIVING" /\ f.seq # last_seq /\ InSequence(f)
          /\ Len(written) < Blocks
          /\ last_seq' = f.seq
          /\ written' = Append(written, f.seq)
          /\ UNCHANGED <<state, installed>>
          /\ Answer("ACK", f.seq)
       \/ /\ state = "RECEIVING" /\ f.seq # last_seq /\ InSequence(f)
          /\ Len(written) >= Blocks                     \* ERR_SIZE
          /\ NoTransfer
          /\ Answer("NACK", f.seq)

\* The size announced, and the CRC of the image.
Complete == written = [i \in 1..Blocks |-> i]

\* Mutant of OnEnd: acknowledged, but never recorded.
OnEndUnrecorded(f) == /\ f.cmd = "END_UPDATE"
                      /\ NoTransfer
                      /\ Answer("ACK", f.seq)

OnEnd(f) == /\ f.cmd = "END_UPDATE"
            /\ \/ /\ state # "RECEIVING"
                  /\ UNCHANGED boardVars
                  /\ Answer("NACK", f.seq)
               \/ /\ state = "RECEIVING" /\ Complete
                  /\ state' = "COMPLETE"
                  /\ installed' = TRUE
                  /\ UNCHANGED <<last_seq, written>>
                  /\ Answer("ACK", f.seq)
               \/ /\ state = "RECEIVING" /\ ~Complete
                  /\ NoTransfer
                  /\ Answer("NACK", f.seq)

OnInfo(f) == /\ f.cmd = "GET_INFO"
             /\ UNCHANGED boardVars
             /\ Answer("INFO", f.seq)

OnDamaged(f) == /\ f.cmd = "DAMAGED"
                /\ UNCHANGED boardVars
                /\ \/ Answer("NACK", f.seq)             \* ERR_CRC
                   \/ UNCHANGED toHost                  \* LENGTH above MAX_PAYLOAD_SIZE

\* feed() has assembled a frame and dispatches it.
Dispatch == /\ toBoard # <<>>
            /\ LET f == Head(toBoard)
               IN  \/ OnStart(f)
                   \/ (OnData(f) \/ OnEnd(f) \/ OnInfo(f) \/ OnDamaged(f)) /\ UNCHANGED aborts
            /\ toBoard' = Tail(toBoard)
            /\ UNCHANGED <<hostVars, lost, damaged, early>>

\* update_mode() resets the board; what the ring buffer held is gone.
Reboot == /\ state = "COMPLETE"
          /\ NoTransfer
          /\ \E n \in 0..Len(toBoard) : toBoard' = SubSeq(toBoard, n + 1, Len(toBoard))
          /\ UNCHANGED <<hostVars, toHost, faults>>

\* The inactivity timer, a flash error or a power cut ends the transfer.
Abort == /\ aborts < MaxAborts /\ aborts' = aborts + 1
         /\ state = "RECEIVING"
         /\ NoTransfer
         /\ UNCHANGED <<hostVars, toBoard, toHost, lost, damaged, early>>

-----------------------------------------------------------------------------
(* The link: a fault is charged to the frame that would be read next *)

Lose == /\ lost < MaxLost /\ lost' = lost + 1
        /\ \/ toBoard # <<>> /\ toBoard' = Tail(toBoard) /\ UNCHANGED toHost
           \/ toHost # <<>> /\ toHost' = Tail(toHost) /\ UNCHANGED toBoard
        /\ UNCHANGED <<hostVars, boardVars, damaged, early, aborts>>

Damage == /\ damaged < MaxDamaged /\ damaged' = damaged + 1
          /\ \/ toBoard # <<>> /\ toBoard' = [toBoard EXCEPT ![1].cmd = "DAMAGED"] /\ UNCHANGED toHost
             \/ toHost # <<>> /\ toHost' = [toHost EXCEPT ![1].cmd = "DAMAGED"] /\ UNCHANGED toBoard
          /\ UNCHANGED <<hostVars, boardVars, lost, early, aborts>>

-----------------------------------------------------------------------------
Finished == host \in {"done", "failed"}

\* The program has ended and the board has nothing left to do.
Rest == Finished /\ toBoard = <<>> /\ state # "COMPLETE" /\ UNCHANGED vars

Next == \/ Send \/ Receive \/ GiveUp
        \/ Dispatch \/ Reboot \/ Abort
        \/ Lose \/ Damage
        \/ Rest

Spec == Init /\ [][Next]_vars

\* The program and the board run; receive() has a deadline; frames get through.
Fairness == WF_vars(Send) /\ WF_vars(Receive) /\ WF_vars(GiveUp) /\ WF_vars(Dispatch) /\ WF_vars(Reboot)

FairSpec == Spec /\ Fairness
-----------------------------------------------------------------------------
(* Properties *)

FrameSet == [cmd : {"GET_INFO", "START_UPDATE", "DATA", "END_UPDATE", "DAMAGED"}, seq : 0..(Blocks + 1)]
ReplySet == [cmd : {"INFO", "ACK", "NACK", "DAMAGED"}, seq : 0..(Blocks + 1)]

TypeOK == /\ request \in Requests
          /\ host \in {"send", "wait", "done", "failed"}
          /\ attempts \in 0..Retries
          /\ toBoard \in Seq(FrameSet) /\ toHost \in Seq(ReplySet)
          /\ state \in {"IDLE", "RECEIVING", "COMPLETE"}
          /\ last_seq \in -1..(Blocks + 1)
          /\ written \in Seq(1..Blocks)
          /\ installed \in BOOLEAN
          /\ lost \in 0..MaxLost /\ damaged \in 0..MaxDamaged
          /\ early \in 0..MaxEarly /\ aborts \in 0..MaxAborts

\* PROTOCOL.md section 6, idempotence: whatever is lost, repeated, damaged or late,
\* the slot holds the image's first blocks, each once and in order.
InOrder == \A i \in 1..Len(written) : written[i] = i

\* flash.py:303-304, "global CRC verified ... image marked TESTING": as long as the board
\* answers within the host's timeout, success is only reported for an image that is
\* installed, whatever else is lost, damaged or dropped.
DoneMeansInstalled == host = "done" /\ early = 0 => installed

\* PROTOCOL.md:278, "the host retransmits up to three times before giving up": fewer lost
\* frames than that, on a link that is otherwise sound, do not end a transfer before its
\* last request.
LossesRecovered ==
    host = "failed" /\ lost < Retries /\ damaged + early + aborts = 0 => request = End

\* The session always ends.
SessionEnds == <>Finished
=============================================================================
