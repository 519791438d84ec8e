----------------------------- MODULE FrameParser -----------------------------
(***************************************************************************)
(* bootloader/src/protocol_mgr.c: feed(), which assembles frames out of    *)
(* the bytes of the serial link, behind a link that loses, damages and     *)
(* inserts bytes.  The host writes one frame after the other; nothing but  *)
(* the bytes themselves says where a frame begins.                         *)
(*                                                                         *)
(* LENGTH and SEQ are one byte each here.  A byte of a CRC trailer has a   *)
(* value like any other byte and names the frame it was computed over: a   *)
(* check succeeds on exactly that frame (no CRC collision).                *)
(***************************************************************************)
EXTENDS Integers, Sequences

CONSTANTS Byte,              \* values of a byte
          FRAME_MAGIC_0, FRAME_MAGIC_1,
          Command,           \* the commands among them
          MAX_PAYLOAD_SIZE,
          FRAME_CRC_SIZE,
          DATA_BLOCK_SIZE,   \* data bytes in the longest frame the host sends
          Frames,            \* frames the host sends
          NoFrame,
          MaxFaults          \* bytes lost, damaged or inserted

Frame == [cmd : Command, seq : Byte, data : Seq(Byte)]

ASSUME ParserAssumption ==
    /\ Byte \subseteq Nat /\ Command \subseteq Byte
    /\ FRAME_MAGIC_0 \in Byte /\ FRAME_MAGIC_1 \in Byte /\ FRAME_MAGIC_0 # FRAME_MAGIC_1
    /\ MAX_PAYLOAD_SIZE \in Nat /\ FRAME_CRC_SIZE \in Nat \ {0}
    /\ Frames \subseteq Frame
    /\ DATA_BLOCK_SIZE \in Nat /\ DATA_BLOCK_SIZE <= MAX_PAYLOAD_SIZE
    /\ \A f \in Frames : Len(f.data) \in Byte /\ Len(f.data) <= DATA_BLOCK_SIZE
    /\ MaxFaults \in Nat

ASSUME NoFrameAssumption == NoFrame \notin Frame

\* A byte of a trailer says which part of the CRC of which frame it is, any other none.
CrcPart == [part : 1..FRAME_CRC_SIZE, of : Frames]
Item == [val : Byte, crc : SUBSET CrcPart]
Plain(b) == [val |-> b, crc |-> {}]

VARIABLES
    rx_state, rx_frame, rx_expected,   \* the assembly; rx_index is Len(rx_frame)
    wire,      \* the rest of the transmission under way
    current,   \* the frame it carries
    sent,      \* history: frames transmitted so far
    got,       \* history: dispatched since the transmission began
    refused,   \* history: ERR_CRC answered since the transmission began
    clean,     \* history: it met a parser that was hunting, and no fault since
    deaf,      \* history: bytes read since the last fault, or since the last frame
    faults

parser == <<rx_state, rx_frame, rx_expected>>
vars == <<parser, wire, current, sent, got, refused, clean, deaf, faults>>

-----------------------------------------------------------------------------
(* The wire format *)

FRAME_HEADER_SIZE == 5    \* MAGIC MAGIC CMD LENGTH SEQ
OffCmd == 3
OffLength == 4
OffSeq == 5
FRAME_OVERHEAD == FRAME_HEADER_SIZE + FRAME_CRC_SIZE
MAX_FRAME_SIZE == MAX_PAYLOAD_SIZE + FRAME_OVERHEAD

Header(f) == <<Plain(FRAME_MAGIC_0), Plain(FRAME_MAGIC_1),
               Plain(f.cmd), Plain(Len(f.data)), Plain(f.seq)>>

\* encode(); whatever values the bytes of the CRC have.
Encode(f, values) ==
    Header(f) \o [i \in 1..Len(f.data) |-> Plain(f.data[i])]
              \o [k \in 1..FRAME_CRC_SIZE |-> [val |-> values[k], crc |-> {[part |-> k, of |-> f]}]]

-----------------------------------------------------------------------------
(* feed() *)

rx_reset == /\ rx_state' = "RX_MAGIC0"
            /\ rx_frame' = <<>>
            /\ rx_expected' = 0

Quiet == UNCHANGED <<got, refused>>

FeedMagic0(item) == /\ rx_state = "RX_MAGIC0"
                    /\ IF item.val = FRAME_MAGIC_0
                       THEN rx_state' = "RX_MAGIC1" /\ rx_frame' = <<item>>
                       ELSE UNCHANGED <<rx_state, rx_frame>>
                    /\ UNCHANGED rx_expected
                    /\ Quiet

\* Mutant of FeedMagic1: a second MAGIC_0 starts the hunt over.
FeedMagic1Forgets(item) ==
    /\ rx_state = "RX_MAGIC1"
    /\ IF item.val = FRAME_MAGIC_1
       THEN /\ rx_state' = "RX_HEADER"
            /\ rx_frame' = Append(rx_frame, item)
            /\ rx_expected' = FRAME_HEADER_SIZE - 2
       ELSE rx_reset
    /\ Quiet

\* MAGIC_0 MAGIC_0 MAGIC_1: the second MAGIC_0 may be the real start.
FeedMagic1(item) ==
    /\ rx_state = "RX_MAGIC1"
    /\ \/ /\ item.val = FRAME_MAGIC_1
          /\ rx_state' = "RX_HEADER"
          /\ rx_frame' = Append(rx_frame, item)
          /\ rx_expected' = FRAME_HEADER_SIZE - 2
       \/ /\ item.val = FRAME_MAGIC_0
          /\ rx_frame' = <<item>>
          /\ UNCHANGED <<rx_state, rx_expected>>
       \/ /\ item.val \notin {FRAME_MAGIC_0, FRAME_MAGIC_1}
          /\ rx_reset
    /\ Quiet

\* One more byte is stored; with the last one expected the next part begins.
Store(item, next, count) ==
    /\ rx_frame' = Append(rx_frame, item)
    /\ IF rx_expected = 1
       THEN rx_expected' = count /\ rx_state' = next
       ELSE rx_expected' = rx_expected - 1 /\ UNCHANGED rx_state

Length(frame) == frame[OffLength].val

\* Mutant of Plausible: LENGTH is not checked.
PlausibleAnything(len) == TRUE

\* Checked before anything more is stored.
Plausible(len) == len <= MAX_PAYLOAD_SIZE

FeedHeader(item) ==
    /\ rx_state = "RX_HEADER"
    /\ LET len == Length(Append(rx_frame, item))
       IN  IF rx_expected = 1 /\ ~Plausible(len)
           THEN rx_reset
           ELSE IF rx_expected = 1 /\ len = 0
                THEN Store(item, "RX_CRC", FRAME_CRC_SIZE)
                ELSE Store(item, "RX_DATA", IF rx_expected = 1 THEN len ELSE 0)
    /\ Quiet

FeedData(item) == /\ rx_state = "RX_DATA"
                  /\ Store(item, "RX_CRC", FRAME_CRC_SIZE)
                  /\ Quiet

Parsed(frame) == [cmd |-> frame[OffCmd].val,
                  seq |-> frame[OffSeq].val,
                  data |-> [i \in 1..Length(frame) |-> frame[FRAME_HEADER_SIZE + i].val]]

\* Mutant of CrcMatches: whatever has a trailer is dispatched.
CrcMatchesAny(frame) == TRUE

CrcMatches(frame) ==
    \A k \in 1..FRAME_CRC_SIZE :
        frame[FRAME_HEADER_SIZE + Length(frame) + k].crc = {[part |-> k, of |-> Parsed(frame)]}

FeedCrc(item) ==
    /\ rx_state = "RX_CRC"
    /\ LET frame == Append(rx_frame, item)
       IN  IF rx_expected # 1
           THEN Store(item, "RX_CRC", 0) /\ Quiet
           ELSE /\ rx_reset
                /\ IF CrcMatches(frame)
                   THEN got' = Parsed(frame) /\ UNCHANGED refused
                   ELSE refused' = TRUE /\ UNCHANGED got

feed(item) == FeedMagic0(item) \/ FeedMagic1(item) \/ FeedHeader(item) \/ FeedData(item) \/ FeedCrc(item)

-----------------------------------------------------------------------------
(* The link *)

Init == /\ rx_state = "RX_MAGIC0" /\ rx_frame = <<>> /\ rx_expected = 0
        /\ wire = <<>> /\ current = NoFrame /\ sent = {}
        /\ got = NoFrame /\ refused = FALSE /\ clean = FALSE /\ deaf = 0
        /\ faults = 0

\* A frame can look as if another one began inside it.
Ambiguous(w) == \E i \in 2..(Len(w) - 1) : w[i].val = FRAME_MAGIC_0 /\ w[i + 1].val = FRAME_MAGIC_1

Longest == FRAME_OVERHEAD + DATA_BLOCK_SIZE

\* What is left of a frame a fault has hit, what a LENGTH misread at its end can swallow, the
\* rest of the frame this ends in, and one frame.
DeafBound == MAX_FRAME_SIZE + 3 * Longest

Hunting == rx_state \in {"RX_MAGIC0", "RX_MAGIC1"}

\* The host writes a frame, for the first time or again.
Send(f, values) == /\ wire = <<>>
                   /\ wire' = Encode(f, values)
                   /\ current' = f
                   /\ sent' = sent \cup {f}
                   /\ got' = NoFrame
                   /\ refused' = FALSE
                   /\ clean' = Hunting
                   /\ deaf' = IF Ambiguous(wire') THEN 0 ELSE deaf
                   /\ UNCHANGED <<parser, faults>>

Deliver == /\ wire # <<>>
           /\ feed(Head(wire))
           /\ wire' = Tail(wire)
           /\ deaf' = IF got' # got \/ deaf > DeafBound THEN 0 ELSE deaf + 1
           /\ UNCHANGED <<current, sent, clean, faults>>

Fault == /\ faults < MaxFaults
         /\ faults' = faults + 1
         /\ deaf' = 0
         /\ clean' = FALSE
         /\ UNCHANGED <<current, sent>>

Lose == /\ Fault
        /\ wire # <<>>
        /\ wire' = Tail(wire)
        /\ UNCHANGED <<parser, got, refused>>

Damage(b) == /\ Fault
             /\ wire # <<>> /\ b # Head(wire).val
             /\ wire' = [wire EXCEPT ![1] = Plain(b)]
             /\ UNCHANGED <<parser, got, refused>>

Noise(b) == /\ Fault
            /\ feed(Plain(b))
            /\ UNCHANGED wire

Next == \/ \E f \in Frames, values \in [1..FRAME_CRC_SIZE -> Byte] : Send(f, values)
        \/ Deliver
        \/ Lose
        \/ \E b \in Byte : Damage(b) \/ Noise(b)

Spec == Init /\ [][Next]_vars
-----------------------------------------------------------------------------
(* Properties *)

\* protocol_mgr.c:454-457: whatever LENGTH says, the assembly stays inside rx_frame, whose
\* size is MAX_FRAME_SIZE.
InBounds == Len(rx_frame) <= MAX_FRAME_SIZE /\ (~Hunting => Len(rx_frame) + rx_expected <= MAX_FRAME_SIZE)

\* Only frames the host has sent are dispatched, wherever in the stream a frame seems to
\* begin.
OnlySent == got \in sent \cup {NoFrame}

\* A frame that arrives whole, at a parser that waits for one, is dispatched and not
\* refused, whatever noise came before and whatever its bytes look like.
CleanDelivered == clean => ~refused /\ (wire = <<>> => got = current)

\* After a fault the parser finds the frames again: it reads no more than a bounded number
\* of bytes of undamaged frames before it dispatches one.
Resynchronises == deaf <= DeafBound
=============================================================================
