-------------------------- MODULE FrameParserProofs --------------------------
(***************************************************************************)
(* What feed() guarantees for frames of every size and any number of       *)
(* faults on the link.  The invariant ties the bytes still expected to     *)
(* the bytes stored and to the LENGTH among them; the bound on the buffer  *)
(* and the delivery of clean frames follow from that.  DeafInv follows the *)
(* parser from a fault back to a frame boundary: the rest of a transmission*)
(* in which a frame may seem to begin (Tainted), an assembly that swallows *)
(* frames (Swallowing), the hunt through the rest of the frame it ends in  *)
(* (Searching), and the frame that is dispatched (Following).              *)
(***************************************************************************)
EXTENDS FrameParser, SequenceTheorems, TLAPS

\* How far the assembly is, in every state of the parser.
Assembly ==
    /\ rx_state \in {"RX_MAGIC0", "RX_MAGIC1", "RX_HEADER", "RX_DATA", "RX_CRC"}
    /\ rx_frame \in Seq(Item)
    /\ rx_expected \in Nat
    /\ rx_state = "RX_MAGIC0" => Len(rx_frame) = 0
    /\ rx_state = "RX_MAGIC1" => Len(rx_frame) = 1
    /\ ~Hunting => rx_expected > 0 /\ Len(rx_frame) >= 2
    /\ rx_state = "RX_HEADER" => Len(rx_frame) + rx_expected = FRAME_HEADER_SIZE
    /\ rx_state \in {"RX_DATA", "RX_CRC"} => Len(rx_frame) >= FRAME_HEADER_SIZE
                                             /\ Plausible(Length(rx_frame))
    /\ rx_state = "RX_DATA" => Len(rx_frame) + rx_expected = FRAME_HEADER_SIZE + Length(rx_frame)
    /\ rx_state = "RX_CRC" => Len(rx_frame) + rx_expected = FRAME_OVERHEAD + Length(rx_frame)

\* The bytes of a trailer belong to the given frames.
Attributed(items, frames) == \A i \in 1..Len(items) : \A c \in items[i].crc : c.of \in frames

LinkInv == /\ wire \in Seq(Item)
           /\ sent \subseteq Frames
           /\ Attributed(wire, sent) /\ Attributed(rx_frame, sent)
           /\ OnlySent

DataLen(f) == Len(f.data)
FrameLen(f) == FRAME_OVERHEAD + DataLen(f)

\* The i-th byte of a transmission of f.
Carries(f, i, item) ==
    /\ i = 1 => item.val = FRAME_MAGIC_0
    /\ i = 2 => item.val = FRAME_MAGIC_1
    /\ i = OffCmd => item.val = f.cmd
    /\ i = OffLength => item.val = DataLen(f)
    /\ i = OffSeq => item.val = f.seq
    /\ i > FRAME_HEADER_SIZE /\ i <= FRAME_HEADER_SIZE + DataLen(f)
         => item.val = f.data[i - FRAME_HEADER_SIZE]
    /\ i > FRAME_HEADER_SIZE + DataLen(f)
         => item.crc = {[part |-> i - FRAME_HEADER_SIZE - DataLen(f), of |-> f]}

Passed == FrameLen(current) - Len(wire)

\* Until a clean transmission is over, the assembly is what has passed of it.
CleanInv ==
    clean => /\ current \in Frames
             /\ ~refused
             /\ Passed \in Nat
             /\ \A i \in 1..Len(wire) : Carries(current, Passed + i, wire[i])
             /\ Passed = 0 => Hunting
             /\ Passed > 0 /\ wire # <<>> => /\ Len(rx_frame) = Passed
                                             /\ \A i \in 1..Passed : Carries(current, i, rx_frame[i])
             /\ got = IF wire = <<>> THEN current ELSE NoFrame

Inv == Assembly /\ LinkInv /\ CleanInv

-----------------------------------------------------------------------------
(* The wire format *)

LEMMA Sizes ==
  /\ FRAME_HEADER_SIZE = 5 /\ OffCmd = 3 /\ OffLength = 4 /\ OffSeq = 5
  /\ FRAME_CRC_SIZE \in Nat /\ FRAME_CRC_SIZE > 0
  /\ FRAME_OVERHEAD = 5 + FRAME_CRC_SIZE
  /\ MAX_PAYLOAD_SIZE \in Nat /\ MAX_FRAME_SIZE = MAX_PAYLOAD_SIZE + FRAME_OVERHEAD
  BY ParserAssumption DEF FRAME_HEADER_SIZE, OffCmd, OffLength, OffSeq, FRAME_OVERHEAD, MAX_FRAME_SIZE

LEMMA Concat3 ==
  ASSUME NEW S, NEW a \in Seq(S), NEW b \in Seq(S), NEW c \in Seq(S)
  PROVE  /\ a \o b \o c \in Seq(S)
         /\ Len(a \o b \o c) = Len(a) + Len(b) + Len(c)
         /\ \A i \in 1..Len(a \o b \o c) :
               (a \o b \o c)[i] = IF i <= Len(a) THEN a[i]
                                  ELSE IF i <= Len(a) + Len(b) THEN b[i - Len(a)]
                                  ELSE c[i - Len(a) - Len(b)]
<1>1. /\ a \o b \in Seq(S) /\ Len(a \o b) = Len(a) + Len(b)
      /\ \A i \in 1..(Len(a) + Len(b)) : (a \o b)[i] = IF i <= Len(a) THEN a[i] ELSE b[i - Len(a)]
  BY ConcatProperties
<1>2. /\ (a \o b) \o c \in Seq(S) /\ Len((a \o b) \o c) = Len(a \o b) + Len(c)
      /\ \A i \in 1..(Len(a \o b) + Len(c)) :
            ((a \o b) \o c)[i] = IF i <= Len(a \o b) THEN (a \o b)[i] ELSE c[i - Len(a \o b)]
  BY <1>1, ConcatProperties
<1>3. Len(a) \in Nat /\ Len(b) \in Nat /\ Len(c) \in Nat
  OBVIOUS
<1>4. QED
  BY <1>1, <1>2, <1>3

\* Encode() gives a frame's bytes in the order the parser expects them.
LEMMA EncodeFacts ==
  ASSUME NEW f \in Frames, NEW values \in [1..FRAME_CRC_SIZE -> Byte]
  PROVE  /\ Encode(f, values) \in Seq(Item)
         /\ Len(Encode(f, values)) = FrameLen(f)
         /\ \A i \in 1..FrameLen(f) : Carries(f, i, Encode(f, values)[i])
         /\ \A i \in 1..FrameLen(f) : \A c \in Encode(f, values)[i].crc : c.of = f
<1> DEFINE H == Header(f)
           D == [i \in 1..DataLen(f) |-> Plain(f.data[i])]
           T == [k \in 1..FRAME_CRC_SIZE |-> [val |-> values[k], crc |-> {[part |-> k, of |-> f]}]]
<1>1. /\ f.cmd \in Byte /\ f.seq \in Byte /\ DataLen(f) \in Byte /\ DataLen(f) \in Nat
      /\ \A i \in 1..DataLen(f) : f.data[i] \in Byte
  <2>1. f \in Frame /\ Len(f.data) \in Byte /\ Byte \subseteq Nat
    BY ParserAssumption
  <2>2. f.cmd \in Byte /\ f.seq \in Byte /\ f.data \in Seq(Byte)
    BY <2>1, ParserAssumption DEF Frame
  <2>3. \A i \in 1..Len(f.data) : f.data[i] \in Byte
    BY <2>2, ElementOfSeq
  <2>4. QED
    BY <2>1, <2>2, <2>3 DEF DataLen
<1>2. \A b \in Byte : Plain(b) \in Item
  BY DEF Plain, Item
<1>3. H \in Seq(Item) /\ Len(H) = 5
  <2>1. /\ Plain(FRAME_MAGIC_0) \in Item /\ Plain(FRAME_MAGIC_1) \in Item
        /\ Plain(f.cmd) \in Item /\ Plain(DataLen(f)) \in Item /\ Plain(f.seq) \in Item
    BY <1>1, <1>2, ParserAssumption
  <2>2. QED
    BY <2>1 DEF Header, DataLen
<1>4. D \in Seq(Item) /\ Len(D) = DataLen(f)
  BY <1>1, <1>2
<1>5. T \in Seq(Item) /\ Len(T) = FRAME_CRC_SIZE
  <2>1. \A k \in 1..FRAME_CRC_SIZE : T[k] \in Item
    BY DEF Item, CrcPart
  <2>2. QED
    BY <2>1, Sizes
<1>6. Encode(f, values) = H \o D \o T
  BY DEF Encode, DataLen
<1>7. ASSUME NEW i \in 1..5
      PROVE  Carries(f, i, H[i]) /\ H[i].crc = {}
  <2>1. /\ H[i].crc = {} /\ (i = 1 => H[i].val = FRAME_MAGIC_0) /\ (i = 2 => H[i].val = FRAME_MAGIC_1)
        /\ (i = 3 => H[i].val = f.cmd) /\ (i = 4 => H[i].val = DataLen(f))
        /\ (i = 5 => H[i].val = f.seq)
    BY DEF Header, Plain, DataLen
  <2>2. QED
    BY <1>1, <2>1, Sizes DEF Carries
<1>8. ASSUME NEW i \in 1..DataLen(f)
      PROVE  Carries(f, 5 + i, D[i]) /\ D[i].crc = {}
  <2>1. D[i].val = f.data[i] /\ D[i].crc = {}
    BY DEF Plain
  <2>2. 5 + i > 5 /\ 5 + i <= 5 + DataLen(f) /\ (5 + i) - 5 = i
    BY <1>1
  <2>3. QED
    BY <1>1, <2>1, <2>2, Sizes DEF Carries
<1>9. ASSUME NEW k \in 1..FRAME_CRC_SIZE
      PROVE  Carries(f, 5 + DataLen(f) + k, T[k]) /\ T[k].crc = {[part |-> k, of |-> f]}
  <2>1. T[k].crc = {[part |-> k, of |-> f]}
    OBVIOUS
  <2>2. 5 + DataLen(f) + k > 5 + DataLen(f) /\ (5 + DataLen(f) + k) - 5 - DataLen(f) = k
    BY <1>1, Sizes
  <2>3. QED
    BY <1>1, <2>1, <2>2, Sizes DEF Carries
<1> HIDE DEF H, D, T
<1>10. /\ FrameLen(f) = 5 + DataLen(f) + FRAME_CRC_SIZE
       /\ FrameLen(f) \in Nat /\ FRAME_CRC_SIZE \in Nat /\ DataLen(f) \in Nat
  BY <1>1, Sizes DEF FrameLen
<1>11. /\ H \o D \o T \in Seq(Item)
       /\ Len(H \o D \o T) = FrameLen(f)
       /\ \A i \in 1..FrameLen(f) :
            (H \o D \o T)[i] = IF i <= 5 THEN H[i]
                               ELSE IF i <= 5 + DataLen(f) THEN D[i - 5]
                               ELSE T[i - 5 - DataLen(f)]
  <2>1. H \in Seq(Item) /\ D \in Seq(Item) /\ T \in Seq(Item)
    BY <1>3, <1>4, <1>5
  <2>2. /\ H \o D \o T \in Seq(Item)
        /\ Len(H \o D \o T) = Len(H) + Len(D) + Len(T)
        /\ \A i \in 1..Len(H \o D \o T) :
              (H \o D \o T)[i] = IF i <= Len(H) THEN H[i]
                                 ELSE IF i <= Len(H) + Len(D) THEN D[i - Len(H)]
                                 ELSE T[i - Len(H) - Len(D)]
    BY <2>1, Concat3
  <2>3. Len(H) = 5 /\ Len(D) = DataLen(f) /\ Len(T) = FRAME_CRC_SIZE
    BY <1>3, <1>4, <1>5
  <2>4. Len(H \o D \o T) = FrameLen(f)
    BY <1>10, <2>2, <2>3, Zenon
  <2>5. QED
    BY <2>2, <2>3, <2>4, Zenon
<1>12. ASSUME NEW i \in 1..FrameLen(f)
       PROVE  /\ Carries(f, i, (H \o D \o T)[i])
              /\ \A c \in (H \o D \o T)[i].crc : c.of = f
  <2>1. (H \o D \o T)[i] = IF i <= 5 THEN H[i]
                           ELSE IF i <= 5 + DataLen(f) THEN D[i - 5]
                           ELSE T[i - 5 - DataLen(f)]
    BY <1>11
  <2>2. CASE i <= 5
    <3>1. i \in 1..5
      BY <1>10, <2>2
    <3>2. QED
      BY <1>7, <2>1, <2>2, <3>1
  <2>3. CASE i > 5 /\ i <= 5 + DataLen(f)
    <3>1. i - 5 \in 1..DataLen(f) /\ 5 + (i - 5) = i
      BY <1>10, <2>3
    <3>2. QED
      BY <1>8, <1>10, <2>1, <2>3, <3>1
  <2>4. CASE i > 5 + DataLen(f)
    <3>1. i - 5 - DataLen(f) \in 1..FRAME_CRC_SIZE /\ 5 + DataLen(f) + (i - 5 - DataLen(f)) = i
      BY <1>10, <2>4
    <3>2. ~(i <= 5) /\ ~(i <= 5 + DataLen(f))
      BY <1>10, <2>4
    <3>3. QED
      BY <1>9, <2>1, <3>1, <3>2
  <2>5. i <= 5 \/ (i > 5 /\ i <= 5 + DataLen(f)) \/ i > 5 + DataLen(f)
    BY <1>10
  <2>6. QED
    BY <2>2, <2>3, <2>4, <2>5
<1>13. QED
  BY <1>6, <1>11, <1>12

-----------------------------------------------------------------------------
(* The assembly *)

LEMMA LengthNat ==
  ASSUME NEW s \in Seq(Item), Len(s) >= 4
  PROVE  Length(s) \in Nat
<1>1. s[4] \in Item
  BY ElementOfSeq
<1>2. s[4].val \in Nat
  BY <1>1, ParserAssumption DEF Item
<1>3. QED
  BY <1>2 DEF Length, OffLength

LEMMA AppendFacts ==
  ASSUME NEW s \in Seq(Item), NEW item \in Item
  PROVE  /\ Append(s, item) \in Seq(Item)
         /\ Len(Append(s, item)) = Len(s) + 1
         /\ \A i \in 1..Len(s) : Append(s, item)[i] = s[i]
         /\ Append(s, item)[Len(s) + 1] = item
         /\ Len(s) >= 4 => Length(Append(s, item)) = Length(s)
<1>1. /\ Append(s, item) \in Seq(Item)
      /\ Len(Append(s, item)) = Len(s) + 1
      /\ \A i \in 1..Len(s) : Append(s, item)[i] = s[i]
      /\ Append(s, item)[Len(s) + 1] = item
  BY AppendProperties
<1>2. Len(s) >= 4 => Append(s, item)[4] = s[4]
  BY <1>1
<1>3. QED
  BY <1>1, <1>2 DEF Length, OffLength

LEMMA SingleFacts ==
  ASSUME NEW item \in Item
  PROVE  /\ <<item>> \in Seq(Item) /\ Len(<<item>>) = 1 /\ <<item>>[1] = item
         /\ <<>> \in Seq(Item) /\ Len(<<>>) = 0
  OBVIOUS

LEMMA StartAssembly ==
  ASSUME rx_state' = "RX_MAGIC0", rx_frame' = <<>>, rx_expected' = 0
  PROVE  Assembly'
  BY SMT DEF Assembly, Hunting

LEMMA Magic1Assembly ==
  ASSUME NEW item \in Item, rx_state' = "RX_MAGIC1", rx_frame' = <<item>>, rx_expected' \in Nat
  PROVE  Assembly'
  BY SingleFacts DEF Assembly, Hunting

LEMMA HeaderAssembly ==
  ASSUME NEW frame \in Seq(Item), NEW n \in Nat, n > 0,
         rx_state' = "RX_HEADER", rx_frame' = frame, rx_expected' = n,
         Len(frame) >= 2, Len(frame) + n = 5
  PROVE  Assembly'
  BY Sizes DEF Assembly, Hunting

LEMMA DataAssembly ==
  ASSUME NEW frame \in Seq(Item), NEW n \in Nat, n > 0,
         rx_state' = "RX_DATA", rx_frame' = frame, rx_expected' = n,
         Len(frame) >= 5, Plausible(Length(frame)), Len(frame) + n = 5 + Length(frame)
  PROVE  Assembly'
  BY Sizes DEF Assembly, Hunting

LEMMA CrcAssembly ==
  ASSUME NEW frame \in Seq(Item), NEW n \in Nat, n > 0,
         rx_state' = "RX_CRC", rx_frame' = frame, rx_expected' = n,
         Len(frame) >= 5, Plausible(Length(frame)), Len(frame) + n = FRAME_OVERHEAD + Length(frame)
  PROVE  Assembly'
  BY Sizes DEF Assembly, Hunting

LEMMA FeedAssembly ==
  ASSUME Assembly, NEW item \in Item, feed(item)
  PROVE  Assembly'
<1> DEFINE frame == Append(rx_frame, item)
<1>1. /\ rx_frame \in Seq(Item) /\ rx_expected \in Nat /\ Len(rx_frame) \in Nat
      /\ frame \in Seq(Item) /\ Len(frame) = Len(rx_frame) + 1
      /\ Len(rx_frame) >= 4 => Length(frame) = Length(rx_frame) /\ Length(rx_frame) \in Nat
      /\ Len(frame) >= 4 => Length(frame) \in Nat
  <2>1. rx_frame \in Seq(Item) /\ rx_expected \in Nat /\ Len(rx_frame) \in Nat
    BY DEF Assembly
  <2>2. QED
    BY <2>1, AppendFacts, LengthNat
<1> HIDE DEF frame
<1>2. CASE rx_reset
  BY <1>2, StartAssembly DEF rx_reset
<1>3. CASE FeedMagic0(item)
  <2>1. CASE item.val = FRAME_MAGIC_0
    BY <1>1, <1>3, <2>1, Magic1Assembly DEF FeedMagic0
  <2>2. CASE item.val # FRAME_MAGIC_0
    BY <1>3, <2>2 DEF FeedMagic0, Assembly, Hunting
  <2>3. QED
    BY <2>1, <2>2
<1>4. CASE FeedMagic1(item)
  <2>1. CASE item.val = FRAME_MAGIC_1
    <3>1. rx_state = "RX_MAGIC1" /\ Len(rx_frame) = 1
      BY <1>4 DEF FeedMagic1, Assembly
    <3>2. FRAME_MAGIC_0 # FRAME_MAGIC_1
      BY ParserAssumption
    <3>3. rx_state' = "RX_HEADER" /\ rx_frame' = frame /\ rx_expected' = FRAME_HEADER_SIZE - 2
      BY <1>4, <2>1, <3>2, Zenon DEF FeedMagic1, frame
    <3>4. rx_state' = "RX_HEADER" /\ rx_frame' = frame /\ rx_expected' = 3
      BY <3>3, Sizes
    <3>5. frame \in Seq(Item) /\ Len(frame) >= 2 /\ Len(frame) + 3 = 5
      BY <1>1, <3>1
    <3>6. 3 \in Nat /\ 3 > 0
      OBVIOUS
    <3>7. QED
      BY <3>4, <3>5, <3>6, HeaderAssembly
  <2>2. CASE item.val = FRAME_MAGIC_0
    <3>1. /\ rx_state' = "RX_MAGIC1" /\ rx_frame' = <<item>> /\ rx_expected' = rx_expected
      BY <1>4, <2>2, ParserAssumption DEF FeedMagic1, rx_reset
    <3>2. QED
      BY <1>1, <3>1, Magic1Assembly
  <2>3. QED
    BY <1>2, <1>4, <2>1, <2>2 DEF FeedMagic1
<1>5. CASE FeedHeader(item)
  <2>1. /\ rx_state = "RX_HEADER" /\ Len(rx_frame) + rx_expected = 5 /\ Len(rx_frame) >= 2
        /\ rx_expected > 0
    BY <1>5, Sizes DEF FeedHeader, Assembly, Hunting
  <2>2. CASE rx_expected # 1
    <3>1. rx_state' = "RX_HEADER" /\ rx_frame' = frame /\ rx_expected' = rx_expected - 1
      BY <1>5, <2>1, <2>2 DEF FeedHeader, Store, frame
    <3>2. /\ rx_expected - 1 \in Nat /\ rx_expected - 1 > 0
          /\ Len(frame) >= 2 /\ Len(frame) + (rx_expected - 1) = 5
      BY <1>1, <2>1, <2>2
    <3>3. QED
      BY <1>1, <3>1, <3>2, HeaderAssembly
  <2>3. CASE rx_expected = 1 /\ Plausible(Length(frame)) /\ Length(frame) = 0
    <3>1. rx_state' = "RX_CRC" /\ rx_frame' = frame /\ rx_expected' = FRAME_CRC_SIZE
      BY <1>5, <2>1, <2>3 DEF FeedHeader, Store, frame
    <3>2. Len(frame) = 5 /\ Len(frame) + FRAME_CRC_SIZE = FRAME_OVERHEAD + Length(frame)
      BY <1>1, <2>1, <2>3, Sizes
    <3>3. QED
      BY <1>1, <2>3, <3>1, <3>2, Sizes, CrcAssembly
  <2>4. CASE rx_expected = 1 /\ Plausible(Length(frame)) /\ Length(frame) # 0
    <3>1. rx_state' = "RX_DATA" /\ rx_frame' = frame /\ rx_expected' = Length(frame)
      BY <1>5, <2>1, <2>4 DEF FeedHeader, Store, frame
    <3>2. /\ Length(frame) \in Nat /\ Length(frame) > 0
          /\ Len(frame) = 5 /\ Len(frame) + Length(frame) = 5 + Length(frame)
      BY <1>1, <2>1, <2>4
    <3>3. QED
      BY <1>1, <2>4, <3>1, <3>2, DataAssembly
  <2>5. QED
    BY <1>2, <1>5, <2>2, <2>3, <2>4 DEF FeedHeader, frame
<1>6. CASE FeedData(item)
  <2>1. /\ rx_state = "RX_DATA" /\ Len(rx_frame) + rx_expected = 5 + Length(rx_frame)
        /\ Len(rx_frame) >= 5 /\ rx_expected > 0 /\ Plausible(Length(rx_frame))
    BY <1>6, Sizes DEF FeedData, Assembly, Hunting
  <2>2. Len(frame) >= 5 /\ Length(frame) = Length(rx_frame) /\ Plausible(Length(frame))
    BY <1>1, <2>1
  <2>3. CASE rx_expected # 1
    <3>1. rx_state' = "RX_DATA" /\ rx_frame' = frame /\ rx_expected' = rx_expected - 1
      BY <1>6, <2>1, <2>3 DEF FeedData, Store, frame
    <3>2. /\ rx_expected - 1 \in Nat /\ rx_expected - 1 > 0
          /\ Len(frame) + (rx_expected - 1) = 5 + Length(frame)
      BY <1>1, <2>1, <2>2, <2>3
    <3>3. QED
      BY <1>1, <2>2, <3>1, <3>2, DataAssembly
  <2>4. CASE rx_expected = 1
    <3>1. rx_state' = "RX_CRC" /\ rx_frame' = frame /\ rx_expected' = FRAME_CRC_SIZE
      BY <1>6, <2>1, <2>4 DEF FeedData, Store, frame
    <3>2. Len(frame) + FRAME_CRC_SIZE = FRAME_OVERHEAD + Length(frame)
      BY <1>1, <2>1, <2>2, <2>4, Sizes
    <3>3. QED
      BY <1>1, <2>2, <3>1, <3>2, Sizes, CrcAssembly
  <2>5. QED
    BY <2>3, <2>4
<1>7. CASE FeedCrc(item)
  <2>1. /\ rx_state = "RX_CRC" /\ Len(rx_frame) + rx_expected = FRAME_OVERHEAD + Length(rx_frame)
        /\ Len(rx_frame) >= 5 /\ rx_expected > 0 /\ Plausible(Length(rx_frame))
    BY <1>7, Sizes DEF FeedCrc, Assembly, Hunting
  <2>2. CASE rx_expected # 1
    <3>1. rx_state' = "RX_CRC" /\ rx_frame' = frame /\ rx_expected' = rx_expected - 1
      BY <1>7, <2>1, <2>2 DEF FeedCrc, Store, frame
    <3>2. Len(frame) >= 5 /\ Length(frame) = Length(rx_frame) /\ Plausible(Length(frame))
      BY <1>1, <2>1
    <3>3. /\ rx_expected - 1 \in Nat /\ rx_expected - 1 > 0
          /\ Len(frame) + (rx_expected - 1) = FRAME_OVERHEAD + Length(frame)
      BY <1>1, <2>1, <2>2, <3>2, Sizes
    <3>4. QED
      BY <1>1, <3>1, <3>2, <3>3, CrcAssembly
  <2>3. QED
    BY <1>2, <1>7, <2>2 DEF FeedCrc
<1>8. QED
  BY <1>3, <1>4, <1>5, <1>6, <1>7 DEF feed

-----------------------------------------------------------------------------
(* What is dispatched *)

LEMMA TailFacts ==
  ASSUME NEW w \in Seq(Item), w # <<>>
  PROVE  /\ Head(w) = w[1] /\ w[1] \in Item
         /\ Tail(w) \in Seq(Item) /\ Len(Tail(w)) = Len(w) - 1 /\ Len(w) >= 1
         /\ \A i \in 1..Len(Tail(w)) : Tail(w)[i] = w[i + 1]
  BY HeadTailProperties, ElementOfSeq

LEMMA AppendAttributed ==
  ASSUME NEW s \in Seq(Item), NEW item \in Item, NEW S, Attributed(s, S),
         \A c \in item.crc : c.of \in S
  PROVE  Attributed(Append(s, item), S)
  BY AppendFacts DEF Attributed

LEMMA TailAttributed ==
  ASSUME NEW w \in Seq(Item), w # <<>>, NEW S, Attributed(w, S)
  PROVE  Attributed(Tail(w), S) /\ \A c \in w[1].crc : c.of \in S
  BY TailFacts DEF Attributed

\* A frame whose CRC is right is one of those its bytes belong to.
LEMMA MatchAttributed ==
  ASSUME NEW s \in Seq(Item), NEW S, Attributed(s, S), CrcMatches(s),
         Length(s) \in Nat, Len(s) = FRAME_OVERHEAD + Length(s)
  PROVE  Parsed(s) \in S
<1> DEFINE k == FRAME_HEADER_SIZE + Length(s) + 1
<1>1. k \in 1..Len(s) /\ 1 \in 1..FRAME_CRC_SIZE
  BY Sizes
<1>2. s[k].crc = {[part |-> 1, of |-> Parsed(s)]}
  BY <1>1 DEF CrcMatches
<1>3. \A c \in s[k].crc : c.of \in S
  BY <1>1 DEF Attributed
<1>4. QED
  BY <1>2, <1>3

\* Every byte leaves the assembly as it is, drops it, starts it anew or extends it;
\* what is dispatched is a complete assembly whose CRC is right.
LEMMA FeedEffect ==
  ASSUME NEW item, feed(item)
  PROVE  /\ rx_frame' \in {rx_frame, <<>>, <<item>>, Append(rx_frame, item)}
         /\ \/ got' = got
            \/ /\ rx_state = "RX_CRC" /\ rx_expected = 1
               /\ CrcMatches(Append(rx_frame, item))
               /\ got' = Parsed(Append(rx_frame, item))
<1>1. CASE FeedMagic0(item)
  BY <1>1 DEF FeedMagic0, Quiet
<1>2. CASE FeedMagic1(item)
  BY <1>2 DEF FeedMagic1, Quiet, rx_reset
<1>3. CASE FeedHeader(item)
  BY <1>3 DEF FeedHeader, Quiet, rx_reset, Store
<1>4. CASE FeedData(item)
  BY <1>4 DEF FeedData, Quiet, Store
<1>5. CASE FeedCrc(item)
  BY <1>5 DEF FeedCrc, Quiet, rx_reset, Store
<1>6. QED
  BY <1>1, <1>2, <1>3, <1>4, <1>5 DEF feed

LEMMA FeedSent ==
  ASSUME Assembly, LinkInv, NEW item \in Item, \A c \in item.crc : c.of \in sent,
         feed(item), sent' = sent
  PROVE  Attributed(rx_frame, sent)' /\ OnlySent'
<1> DEFINE frame == Append(rx_frame, item)
<1>1. /\ rx_frame \in Seq(Item) /\ frame \in Seq(Item) /\ Attributed(frame, sent)
  BY AppendFacts, AppendAttributed DEF Assembly, LinkInv
<1>2. Attributed(rx_frame, sent)'
  <2>1. Attributed(<<>>, sent) /\ Attributed(<<item>>, sent) /\ Attributed(rx_frame, sent)
    BY SingleFacts DEF Attributed, LinkInv
  <2>2. rx_frame' \in {rx_frame, <<>>, <<item>>, frame}
    BY FeedEffect
  <2>3. \A s \in {rx_frame, <<>>, <<item>>, frame} : Attributed(s, sent)
    BY <1>1, <2>1
  <2>4. QED
    BY <2>2, <2>3 DEF Attributed
<1>3. OnlySent'
  <2>1. CASE got' = got
    BY <2>1 DEF OnlySent, LinkInv
  <2>2. CASE /\ rx_state = "RX_CRC" /\ rx_expected = 1
             /\ CrcMatches(frame) /\ got' = Parsed(frame)
    <3>1. /\ Len(rx_frame) + 1 = FRAME_OVERHEAD + Length(rx_frame)
          /\ Len(rx_frame) >= 5
      BY <2>2, Sizes DEF Assembly
    <3>2. /\ Length(frame) \in Nat /\ Length(frame) = Length(rx_frame)
          /\ Len(frame) = Len(rx_frame) + 1
      BY <1>1, <3>1, AppendFacts, LengthNat
    <3>3. Parsed(frame) \in sent
      BY <1>1, <2>2, <3>1, <3>2, MatchAttributed
    <3>4. QED
      BY <2>2, <3>3 DEF OnlySent
  <2>3. QED
    BY <2>1, <2>2, FeedEffect
<1>4. QED
  BY <1>2, <1>3

-----------------------------------------------------------------------------
(* A clean transmission *)

\* The bytes of a whole transmission of f are parsed as f, and pass the check.
LEMMA ParsedCarries ==
  ASSUME NEW f \in Frames, NEW s \in Seq(Item), Len(s) = FrameLen(f),
         \A i \in 1..Len(s) : Carries(f, i, s[i])
  PROVE  Parsed(s) = f /\ CrcMatches(s)
<1>1. /\ f = [cmd |-> f.cmd, seq |-> f.seq, data |-> f.data]
      /\ f.data \in Seq(Byte) /\ DataLen(f) = Len(f.data)
  BY ParserAssumption DEF Frame, DataLen
<1>2. DataLen(f) \in Nat
  BY <1>1
<1>3. FrameLen(f) = 5 + DataLen(f) + FRAME_CRC_SIZE /\ FRAME_CRC_SIZE \in Nat /\ FRAME_CRC_SIZE > 0
  BY <1>2, Sizes DEF FrameLen
<1>4. 3 \in 1..Len(s) /\ 4 \in 1..Len(s) /\ 5 \in 1..Len(s)
  BY <1>2, <1>3
<1>5. s[3].val = f.cmd /\ s[4].val = DataLen(f) /\ s[5].val = f.seq
  BY <1>4, Sizes DEF Carries
<1>6. Length(s) = DataLen(f)
  BY <1>5, Sizes DEF Length
<1>7. ASSUME NEW i \in 1..DataLen(f)
      PROVE  s[5 + i].val = f.data[i]
  <2>1. 5 + i \in 1..Len(s) /\ 5 + i > 5 /\ 5 + i <= 5 + DataLen(f) /\ (5 + i) - 5 = i
    BY <1>2, <1>3
  <2>2. Carries(f, 5 + i, s[5 + i])
    BY <2>1
  <2>3. QED
    BY <2>1, <2>2, Sizes DEF Carries
<1>8. [i \in 1..DataLen(f) |-> s[5 + i].val] = f.data
  BY <1>1, <1>7
<1>9. Parsed(s) = f
  BY <1>1, <1>5, <1>6, <1>8, Sizes DEF Parsed
<1>10. ASSUME NEW k \in 1..FRAME_CRC_SIZE
       PROVE  s[5 + DataLen(f) + k].crc = {[part |-> k, of |-> f]}
  <2>1. /\ 5 + DataLen(f) + k \in 1..Len(s) /\ 5 + DataLen(f) + k > 5 + DataLen(f)
        /\ (5 + DataLen(f) + k) - 5 - DataLen(f) = k
    BY <1>2, <1>3
  <2>2. Carries(f, 5 + DataLen(f) + k, s[5 + DataLen(f) + k])
    BY <2>1
  <2>3. QED
    BY <2>1, <2>2, Sizes DEF Carries
<1>11. QED
  BY <1>6, <1>9, <1>10, Sizes DEF CrcMatches

\* One byte of a clean transmission, neither its first nor its last.
LEMMA CleanMiddle ==
  ASSUME Assembly, NEW f \in Frames, NEW p \in Nat, p > 0, p + 1 < FrameLen(f),
         NEW item \in Item, feed(item), Carries(f, p + 1, item),
         Len(rx_frame) = p, \A i \in 1..p : Carries(f, i, rx_frame[i])
  PROVE  rx_frame' = Append(rx_frame, item) /\ UNCHANGED <<got, refused>>
<1>1. DataLen(f) \in Nat /\ DataLen(f) <= MAX_PAYLOAD_SIZE
  BY ParserAssumption DEF Frame, DataLen
<1>2. FrameLen(f) = FRAME_OVERHEAD + DataLen(f) /\ FRAME_OVERHEAD = 5 + FRAME_CRC_SIZE
      /\ FRAME_CRC_SIZE \in Nat
  BY Sizes DEF FrameLen
<1>3. /\ rx_frame \in Seq(Item) /\ rx_expected \in Nat
      /\ p >= 4 => Length(rx_frame) = DataLen(f)
      /\ p >= 4 => Length(Append(rx_frame, item)) = DataLen(f)
  <2>1. rx_frame \in Seq(Item) /\ rx_expected \in Nat
    BY DEF Assembly
  <2>2. ASSUME p >= 4 PROVE Length(rx_frame) = DataLen(f)
    <3>1. Carries(f, 4, rx_frame[4])
      BY <2>2
    <3>2. QED
      BY <3>1, Sizes DEF Carries, Length
  <2>3. QED
    BY <2>1, <2>2, AppendFacts
<1>4. CASE rx_state = "RX_MAGIC0"
  BY <1>4 DEF Assembly
<1>5. CASE rx_state = "RX_MAGIC1"
  <2>1. p = 1
    BY <1>5 DEF Assembly
  <2>2. item.val = FRAME_MAGIC_1 /\ FRAME_MAGIC_1 # FRAME_MAGIC_0
    BY <2>1, ParserAssumption DEF Carries
  <2>3. QED
    BY <1>5, <2>2 DEF feed, FeedMagic0, FeedMagic1, FeedHeader, FeedData, FeedCrc, Quiet
<1>6. CASE rx_state = "RX_HEADER"
  <2>1. p + rx_expected = 5 /\ rx_expected > 0
    BY <1>6, Sizes DEF Assembly, Hunting
  <2>2. rx_expected = 1 => Plausible(Length(Append(rx_frame, item)))
    BY <1>1, <1>3, <2>1 DEF Plausible
  <2>3. FeedHeader(item)
    BY <1>6 DEF feed, FeedMagic0, FeedMagic1, FeedData, FeedCrc
  <2>4. QED
    BY <2>2, <2>3 DEF FeedHeader, Store, Quiet
<1>7. CASE rx_state = "RX_DATA"
  BY <1>7 DEF feed, FeedMagic0, FeedMagic1, FeedHeader, FeedData, FeedCrc, Store, Quiet
<1>8. CASE rx_state = "RX_CRC"
  <2>1. p >= 5 /\ p + rx_expected = FRAME_OVERHEAD + Length(rx_frame)
    BY <1>8, Sizes DEF Assembly
  <2>2. rx_expected # 1
    BY <1>1, <1>2, <1>3, <2>1
  <2>3. FeedCrc(item)
    BY <1>8 DEF feed, FeedMagic0, FeedMagic1, FeedHeader, FeedData
  <2>4. QED
    BY <2>2, <2>3 DEF FeedCrc, Store, Quiet
<1>9. QED
  BY <1>4, <1>5, <1>6, <1>7, <1>8 DEF Assembly

\* The first byte of a transmission that meets a hunting parser.
LEMMA CleanFirst ==
  ASSUME Hunting, NEW item, item.val = FRAME_MAGIC_0, feed(item)
  PROVE  rx_frame' = <<item>> /\ UNCHANGED <<got, refused>>
<1>1. FRAME_MAGIC_0 # FRAME_MAGIC_1
  BY ParserAssumption
<1>2. CASE rx_state = "RX_MAGIC0"
  BY <1>2 DEF feed, FeedMagic0, FeedMagic1, FeedHeader, FeedData, FeedCrc, Quiet
<1>3. CASE rx_state = "RX_MAGIC1"
  BY <1>1, <1>3 DEF feed, FeedMagic0, FeedMagic1, FeedHeader, FeedData, FeedCrc, Quiet
<1>4. QED
  BY <1>2, <1>3 DEF Hunting

\* The last byte of a clean transmission dispatches the frame.
LEMMA CleanLast ==
  ASSUME Assembly, NEW f \in Frames, NEW p \in Nat, p + 1 = FrameLen(f),
         NEW item \in Item, feed(item), Carries(f, p + 1, item),
         Len(rx_frame) = p, \A i \in 1..p : Carries(f, i, rx_frame[i])
  PROVE  got' = f /\ refused' = refused
<1> DEFINE frame == Append(rx_frame, item)
<1>1. DataLen(f) \in Nat
  BY ParserAssumption DEF Frame, DataLen
<1>2. FrameLen(f) = FRAME_OVERHEAD + DataLen(f) /\ FRAME_OVERHEAD = 5 + FRAME_CRC_SIZE
      /\ FRAME_CRC_SIZE \in Nat /\ FRAME_CRC_SIZE > 0
  BY Sizes DEF FrameLen
<1>3. p >= 5 + DataLen(f)
  BY <1>1, <1>2
<1>4. rx_frame \in Seq(Item) /\ rx_expected \in Nat /\ Length(rx_frame) = DataLen(f)
  <2>1. Carries(f, 4, rx_frame[4])
    BY <1>1, <1>3
  <2>2. QED
    BY <2>1, Sizes DEF Carries, Length, Assembly
<1>5. rx_state \notin {"RX_MAGIC0", "RX_MAGIC1", "RX_HEADER"}
  BY <1>1, <1>3, Sizes DEF Assembly, Hunting
<1>6. rx_state # "RX_DATA"
  <2>1. SUFFICES ASSUME rx_state = "RX_DATA" PROVE FALSE
    OBVIOUS
  <2>2. p + rx_expected = 5 + Length(rx_frame) /\ rx_expected > 0
    BY <2>1, Sizes DEF Assembly, Hunting
  <2>3. QED
    BY <1>1, <1>3, <1>4, <2>2
<1>7. rx_state = "RX_CRC" /\ rx_expected = 1
  <2>1. rx_state = "RX_CRC"
    BY <1>5, <1>6 DEF Assembly
  <2>2. p + rx_expected = FRAME_OVERHEAD + Length(rx_frame)
    BY <2>1 DEF Assembly
  <2>3. QED
    BY <1>1, <1>2, <1>4, <2>1, <2>2
<1>8. FeedCrc(item)
  BY <1>7 DEF feed, FeedMagic0, FeedMagic1, FeedHeader, FeedData
<1>9. Parsed(frame) = f /\ CrcMatches(frame)
  <2>1. /\ frame \in Seq(Item) /\ Len(frame) = p + 1
        /\ \A i \in 1..p : frame[i] = rx_frame[i]
        /\ frame[p + 1] = item
    BY <1>4, AppendFacts
  <2> HIDE DEF frame
  <2>2. ASSUME NEW i \in 1..(p + 1) PROVE Carries(f, i, frame[i])
    <3>1. CASE i = p + 1
      BY <2>1, <3>1
    <3>2. CASE i \in 1..p
      BY <2>1, <3>2
    <3>3. QED
      BY <3>1, <3>2
  <2>3. QED
    BY <2>1, <2>2, ParsedCarries
<1>10. QED
  BY <1>7, <1>8, <1>9 DEF FeedCrc

LEMMA CleanDeliver ==
  ASSUME Inv, clean, Deliver
  PROVE  CleanInv'
<1> DEFINE f == current
           p == Passed
           item == wire[1]
<1>1. /\ f \in Frames /\ ~refused /\ p \in Nat
      /\ \A i \in 1..Len(wire) : Carries(f, p + i, wire[i])
      /\ p = 0 => Hunting
      /\ p > 0 => Len(rx_frame) = p /\ \A i \in 1..p : Carries(f, i, rx_frame[i])
      /\ got = NoFrame
  BY DEF Inv, CleanInv, Deliver
<1>2. /\ item \in Item /\ feed(item)
      /\ wire' \in Seq(Item) /\ Len(wire') = Len(wire) - 1 /\ Len(wire) >= 1
      /\ \A i \in 1..Len(wire') : wire'[i] = wire[i + 1]
      /\ f' = f
  BY TailFacts DEF Inv, LinkInv, Deliver
<1>3. DataLen(f) \in Nat
  BY <1>1, ParserAssumption DEF Frame, DataLen
<1>4. FrameLen(f) \in Nat /\ FrameLen(f) >= 6
  BY <1>3, Sizes DEF FrameLen
<1>5. p = FrameLen(f) - Len(wire) /\ Len(wire) \in Nat
  BY DEF Passed, Inv, LinkInv
<1>6. p' = p + 1
  <2>1. p' = FrameLen(f) - Len(wire')
    BY <1>2 DEF Passed
  <2>2. QED
    BY <1>2, <1>4, <1>5, <2>1
<1>7. Carries(f, p + 1, item)
  BY <1>1, <1>2
<1> HIDE DEF f, p, item
<1>8. ASSUME NEW i \in 1..Len(wire') PROVE Carries(f, p' + i, wire'[i])
  <2>1. i + 1 \in 1..Len(wire) /\ p + (i + 1) = p' + i
    BY <1>1, <1>2, <1>5, <1>6
  <2>2. Carries(f, p + (i + 1), wire[i + 1])
    BY <1>1, <2>1
  <2>3. QED
    BY <1>2, <2>1, <2>2
<1>9. wire' = <<>> <=> p' = FrameLen(f)
  BY <1>1, <1>2, <1>4, <1>5, <1>6, EmptySeq
<1>10. CASE p = 0
  <2>1. item.val = FRAME_MAGIC_0
    BY <1>7, <1>10 DEF Carries
  <2>2. rx_frame' = <<item>> /\ refused' = refused /\ got' = got
    BY <1>1, <1>2, <1>10, <2>1, CleanFirst
  <2>3. p' = 1 /\ wire' # <<>>
    BY <1>4, <1>6, <1>9, <1>10
  <2>4. Len(rx_frame') = p' /\ \A i \in 1..p' : Carries(f, i, rx_frame'[i])
    BY <1>2, <1>7, <1>10, <2>2, <2>3, SingleFacts
  <2>5. QED
    BY <1>1, <1>2, <1>8, <2>2, <2>3, <2>4 DEF CleanInv, f, p
<1>11. CASE p > 0 /\ p + 1 < FrameLen(f)
  <2>1. rx_frame' = Append(rx_frame, item) /\ refused' = refused /\ got' = got
    BY <1>1, <1>2, <1>7, <1>11, CleanMiddle DEF Inv
  <2>2. /\ rx_frame \in Seq(Item) /\ Len(rx_frame) = p
        /\ Len(rx_frame') = p + 1
        /\ \A i \in 1..p : rx_frame'[i] = rx_frame[i]
        /\ rx_frame'[p + 1] = item
    BY <1>1, <1>2, <1>11, <2>1, AppendFacts DEF Inv, Assembly
  <2>3. ASSUME NEW i \in 1..p' PROVE Carries(f, i, rx_frame'[i])
    <3>1. CASE i = p + 1
      BY <1>7, <2>2, <3>1
    <3>2. CASE i \in 1..p
      BY <1>1, <1>11, <2>2, <3>2
    <3>3. QED
      BY <1>1, <1>6, <3>1, <3>2
  <2>4. wire' # <<>>
    BY <1>6, <1>9, <1>11
  <2>5. /\ f' \in Frames /\ ~refused' /\ got' = NoFrame
        /\ p' \in Nat /\ p' > 0 /\ Len(rx_frame') = p'
    BY <1>1, <1>2, <1>6, <2>1, <2>2
  <2>6. /\ \A i \in 1..Len(wire') : Carries(f', p' + i, wire'[i])
        /\ \A i \in 1..p' : Carries(f', i, rx_frame'[i])
    BY <1>2, <1>8, <2>3
  <2>7. p' # 0
    BY <2>5
  <2>8. QED
    BY <2>4, <2>5, <2>6, <2>7, Zenon DEF CleanInv, f, p
<1>12. CASE p > 0 /\ p + 1 = FrameLen(f)
  <2>1. got' = f /\ refused' = refused
    BY <1>1, <1>2, <1>7, <1>12, CleanLast DEF Inv
  <2>2. wire' = <<>>
    BY <1>6, <1>9, <1>12
  <2>3. QED
    BY <1>1, <1>2, <1>6, <1>8, <1>12, <2>1, <2>2 DEF CleanInv, f, p
<1>13. QED
  BY <1>1, <1>2, <1>4, <1>5, <1>10, <1>11, <1>12

-----------------------------------------------------------------------------
(* The invariant *)

LEMMA InitInv == Init => Inv
<1> SUFFICES ASSUME Init PROVE Inv
  OBVIOUS
<1>1. Assembly
  BY SingleFacts DEF Init, Assembly, Hunting
<1>2. LinkInv
  BY SingleFacts DEF Init, LinkInv, Attributed, OnlySent
<1>3. CleanInv
  BY DEF Init, CleanInv
<1>4. QED
  BY <1>1, <1>2, <1>3 DEF Inv

LEMMA SendInv ==
  ASSUME Inv, NEW f \in Frames, NEW values \in [1..FRAME_CRC_SIZE -> Byte], Send(f, values)
  PROVE  Inv'
<1>1. /\ wire' \in Seq(Item) /\ Len(wire') = FrameLen(f)
      /\ \A i \in 1..FrameLen(f) : Carries(f, i, wire'[i])
      /\ \A i \in 1..FrameLen(f) : \A c \in wire'[i].crc : c.of = f
  BY EncodeFacts DEF Send
<1>2. Assembly'
  BY DEF Inv, Send, parser, Assembly, Hunting
<1>3. LinkInv'
  <2>1. sent' = sent \cup {f} /\ got' = NoFrame /\ rx_frame' = rx_frame
    BY DEF Send, parser
  <2>2. Attributed(wire, sent)'
    BY <1>1, <2>1 DEF Attributed
  <2>3. Attributed(rx_frame, sent)'
    BY <2>1 DEF Inv, LinkInv, Attributed
  <2>4. sent' \subseteq Frames
    BY <2>1 DEF Inv, LinkInv
  <2>5. OnlySent'
    BY <2>1 DEF OnlySent
  <2>6. QED
    BY <1>1, <2>2, <2>3, <2>4, <2>5 DEF LinkInv
<1>4. CleanInv'
  <2>1. /\ current' = f /\ refused' = FALSE /\ clean' = Hunting /\ rx_state' = rx_state
        /\ got' = NoFrame
    BY DEF Send, parser
  <2>2. DataLen(f) \in Nat
    BY ParserAssumption DEF Frame, DataLen
  <2>3. FrameLen(f) \in Nat /\ FrameLen(f) > 0
    BY <2>2, Sizes DEF FrameLen
  <2>4. Passed' = FrameLen(f) - Len(wire')
    BY <2>1 DEF Passed
  <2>5. Passed' = 0 /\ wire' # <<>>
    BY <1>1, <2>3, <2>4, SingleFacts
  <2>6. \A i \in 1..Len(wire') : Carries(f, Passed' + i, wire'[i])
    BY <1>1, <2>3, <2>5
  <2>7. Passed' \in Nat /\ ~(Passed' > 0)
    BY <2>5
  <2>8. ASSUME clean' PROVE Hunting'
    BY <2>1, <2>8 DEF Hunting
  <2>9. refused' = FALSE /\ current' \in Frames
    BY <2>1
  <2>10. \A i \in 1..Len(wire') : Carries(current', Passed' + i, wire'[i])
    BY <2>1, <2>6
  <2>11. QED
    BY <2>1, <2>5, <2>7, <2>8, <2>9, <2>10 DEF CleanInv
<1>5. QED
  BY <1>2, <1>3, <1>4 DEF Inv

LEMMA DeliverInv ==
  ASSUME Inv, Deliver
  PROVE  Inv'
<1>1. /\ wire \in Seq(Item) /\ wire # <<>> /\ wire[1] \in Item /\ feed(wire[1])
      /\ wire' = Tail(wire) /\ wire' \in Seq(Item)
      /\ sent' = sent /\ clean' = clean
  BY TailFacts DEF Inv, LinkInv, Deliver
<1>2. Assembly'
  BY <1>1, FeedAssembly DEF Inv
<1>3. Attributed(wire', sent) /\ \A c \in wire[1].crc : c.of \in sent
  BY <1>1, TailAttributed DEF Inv, LinkInv
<1>4. Attributed(rx_frame, sent)' /\ OnlySent'
  BY <1>1, <1>3, FeedSent DEF Inv
<1>5. LinkInv'
  BY <1>1, <1>3, <1>4 DEF LinkInv, Inv
<1>6. CleanInv'
  <2>1. CASE clean
    BY <2>1, CleanDeliver
  <2>2. CASE ~clean
    BY <1>1, <2>2 DEF CleanInv
  <2>3. QED
    BY <2>1, <2>2
<1>7. QED
  BY <1>2, <1>5, <1>6 DEF Inv

LEMMA PlainFacts ==
  ASSUME NEW b \in Byte
  PROVE  Plain(b) \in Item /\ Plain(b).crc = {}
  BY DEF Plain, Item

LEMMA FaultInv ==
  ASSUME Inv, NEW b \in Byte, Lose \/ Damage(b) \/ Noise(b)
  PROVE  Inv'
<1>1. sent' = sent /\ CleanInv'
  BY DEF Lose, Damage, Noise, Fault, CleanInv
<1>2. CASE Lose
  <2>1. wire' \in Seq(Item) /\ Attributed(wire', sent) /\ UNCHANGED <<parser, got>>
    BY <1>2, TailFacts, TailAttributed DEF Lose, Inv, LinkInv
  <2>2. QED
    BY <1>1, <2>1 DEF Inv, Assembly, LinkInv, Attributed, OnlySent, Hunting, parser
<1>3. CASE Damage(b)
  <2>1. wire' = [wire EXCEPT ![1] = Plain(b)] /\ UNCHANGED <<parser, got>>
        /\ wire \in Seq(Item) /\ wire # <<>> /\ Attributed(wire, sent)
    BY <1>3 DEF Damage, Inv, LinkInv
  <2>2. wire' \in Seq(Item) /\ Len(wire') = Len(wire)
        /\ \A i \in 1..Len(wire) : wire'[i] = IF i = 1 THEN Plain(b) ELSE wire[i]
    BY <2>1, PlainFacts, TailFacts, ExceptSeq
  <2>3. Attributed(wire', sent)
    BY <2>1, <2>2, PlainFacts DEF Attributed
  <2>4. QED
    BY <1>1, <2>1, <2>2, <2>3 DEF Inv, Assembly, LinkInv, Attributed, OnlySent, Hunting, parser
<1>4. CASE Noise(b)
  <2>1. feed(Plain(b)) /\ wire' = wire
    BY <1>4 DEF Noise
  <2>2. Assembly' /\ Attributed(rx_frame, sent)' /\ OnlySent'
    BY <1>1, <2>1, PlainFacts, FeedAssembly, FeedSent DEF Inv
  <2>3. LinkInv'
    BY <1>1, <2>1, <2>2 DEF Inv, LinkInv
  <2>4. QED
    BY <1>1, <2>2, <2>3 DEF Inv
<1>5. QED
  BY <1>2, <1>3, <1>4

LEMMA NextInv == Inv /\ [Next]_vars => Inv'
<1> SUFFICES ASSUME Inv, [Next]_vars PROVE Inv'
  OBVIOUS
<1>1. CASE \E f \in Frames, values \in [1..FRAME_CRC_SIZE -> Byte] : Send(f, values)
  BY <1>1, SendInv
<1>2. CASE Deliver
  BY <1>2, DeliverInv
<1>3. CASE Lose
  BY <1>3, FaultInv, ParserAssumption
<1>4. CASE \E b \in Byte : Damage(b) \/ Noise(b)
  BY <1>4, FaultInv
<1>5. CASE UNCHANGED vars
  BY <1>5 DEF Inv, Assembly, LinkInv, CleanInv, Attributed, OnlySent, Hunting, Passed, vars, parser
<1>6. QED
  BY <1>1, <1>2, <1>3, <1>4, <1>5 DEF Next

LEMMA InvBounds == Inv => InBounds
<1> SUFFICES ASSUME Inv PROVE InBounds
  OBVIOUS
<1>1. /\ rx_frame \in Seq(Item) /\ rx_expected \in Nat /\ Len(rx_frame) \in Nat
      /\ Len(rx_frame) >= 4 => Length(rx_frame) \in Nat
  BY LengthNat DEF Inv, Assembly
<1>2. CASE rx_state \in {"RX_MAGIC0", "RX_MAGIC1", "RX_HEADER"}
  BY <1>1, <1>2, Sizes DEF Inv, Assembly, InBounds, Hunting
<1>3. CASE rx_state = "RX_DATA"
  <2>1. Length(rx_frame) \in Nat /\ Length(rx_frame) <= MAX_PAYLOAD_SIZE
        /\ Len(rx_frame) + rx_expected = 5 + Length(rx_frame)
    BY <1>1, <1>3, Sizes DEF Inv, Assembly, Plausible
  <2>2. QED
    BY <1>1, <2>1, Sizes DEF InBounds
<1>4. CASE rx_state = "RX_CRC"
  <2>1. Length(rx_frame) \in Nat /\ Length(rx_frame) <= MAX_PAYLOAD_SIZE
        /\ Len(rx_frame) + rx_expected = FRAME_OVERHEAD + Length(rx_frame)
    BY <1>1, <1>4, Sizes DEF Inv, Assembly, Plausible
  <2>2. QED
    BY <1>1, <2>1, Sizes DEF InBounds
<1>5. QED
  BY <1>2, <1>3, <1>4 DEF Inv, Assembly

-----------------------------------------------------------------------------
(* Finding the frames again *)

\* No frame seems to begin in w from its k-th byte on.
NoStart(w, k) == \A i \in k..(Len(w) - 1) :
                    ~(w[i].val = FRAME_MAGIC_0 /\ w[i + 1].val = FRAME_MAGIC_1)

\* The rest of a transmission that a fault has hit, or that looks like two frames.
Tainted == deaf + Len(wire) <= Longest

\* An assembly under way, which ends inside a frame.
Swallowing == ~Hunting /\ NoStart(wire, 2) /\ deaf <= Longest + Len(rx_frame)

\* What is left of that frame starts no other.
Searching == /\ Hunting /\ NoStart(wire, 1)
             /\ rx_state = "RX_MAGIC1" /\ wire # <<>> => wire[1].val # FRAME_MAGIC_1
             /\ deaf + Len(wire) <= MAX_FRAME_SIZE + 2 * Longest

Following == clean /\ wire # <<>> /\ deaf + Len(wire) <= DeafBound

DeafInv == /\ deaf \in Nat /\ Len(wire) <= Longest
           /\ Tainted \/ Swallowing \/ Searching \/ Following

LEMMA LongestFacts ==
  /\ Longest \in Nat /\ MAX_FRAME_SIZE \in Nat
  /\ DeafBound = MAX_FRAME_SIZE + 3 * Longest
  /\ \A f \in Frames : FrameLen(f) <= Longest
<1>1. DATA_BLOCK_SIZE \in Nat /\ \A f \in Frames : DataLen(f) \in Nat /\ DataLen(f) <= DATA_BLOCK_SIZE
  BY ParserAssumption DEF Frame, DataLen
<1>2. QED
  BY <1>1, Sizes DEF Longest, DeafBound, FrameLen

\* An assembly grows by the byte, or is over and the hunt begins.
LEMMA FeedGrows ==
  ASSUME Assembly, NEW item \in Item, feed(item), ~Hunting
  PROVE  \/ rx_state' = "RX_MAGIC0"
         \/ ~Hunting' /\ Len(rx_frame') = Len(rx_frame) + 1
<1>1. rx_frame \in Seq(Item) /\ Len(Append(rx_frame, item)) = Len(rx_frame) + 1
  BY AppendFacts DEF Assembly
<1>2. CASE FeedHeader(item)
  BY <1>1, <1>2 DEF FeedHeader, Store, rx_reset, Hunting
<1>3. CASE FeedData(item)
  BY <1>1, <1>3 DEF FeedData, Store, Hunting
<1>4. CASE FeedCrc(item)
  BY <1>1, <1>4 DEF FeedCrc, Store, rx_reset, Hunting
<1>5. QED
  BY <1>2, <1>3, <1>4 DEF feed, FeedMagic0, FeedMagic1, Hunting

\* A hunting parser only starts at MAGIC_0 MAGIC_1.
LEMMA FeedHunts ==
  ASSUME NEW item, feed(item), Hunting,
         rx_state = "RX_MAGIC1" => item.val # FRAME_MAGIC_1
  PROVE  Hunting' /\ (rx_state' = "RX_MAGIC1" => item.val = FRAME_MAGIC_0)
<1>1. CASE FeedMagic0(item)
  BY <1>1 DEF FeedMagic0, Hunting
<1>2. CASE FeedMagic1(item)
  BY <1>2 DEF FeedMagic1, Hunting, rx_reset
<1>3. QED
  BY <1>1, <1>2 DEF feed, FeedHeader, FeedData, FeedCrc, Hunting

LEMMA SendDeaf ==
  ASSUME Inv, DeafInv, NEW f \in Frames, NEW values \in [1..FRAME_CRC_SIZE -> Byte],
         Send(f, values)
  PROVE  DeafInv'
<1>1. wire' \in Seq(Item) /\ Len(wire') = FrameLen(f) /\ Len(wire') \in Nat /\ Len(wire') <= Longest
  BY EncodeFacts, LongestFacts DEF Send
<1>2. /\ wire = <<>> /\ Len(wire) = 0 /\ ~Following
      /\ UNCHANGED <<rx_state, rx_frame, rx_expected>>
      /\ clean' = Hunting
      /\ deaf' = IF Ambiguous(wire') THEN 0 ELSE deaf
  BY DEF Send, parser, Following
<1>3. CASE Ambiguous(wire')
  BY <1>1, <1>2, <1>3, LongestFacts DEF DeafInv, Tainted
<1>4. CASE ~Ambiguous(wire')
  <2>1. deaf' = deaf /\ deaf \in Nat /\ NoStart(wire', 2)
    BY <1>2, <1>4 DEF DeafInv, NoStart, Ambiguous
  <2>2. CASE Hunting
    <3>1. wire' # <<>>
      <4>1. DataLen(f) \in Nat
        BY ParserAssumption DEF Frame, DataLen
      <4>2. FrameLen(f) > 0
        BY <4>1, Sizes DEF FrameLen
      <4>3. QED
        BY <1>1, <4>2
    <3>2. deaf <= MAX_FRAME_SIZE + 2 * Longest
      BY <1>2, <2>1, <2>2, LongestFacts DEF DeafInv, Tainted, Swallowing, Searching
    <3>3. QED
      BY <1>1, <1>2, <2>1, <2>2, <3>1, <3>2, LongestFacts DEF DeafInv, Following
  <2>3. CASE ~Hunting
    <3>1. Len(rx_frame) \in Nat
      BY DEF Inv, Assembly
    <3>2. deaf <= Longest + Len(rx_frame)
      BY <1>2, <2>1, <2>3, <3>1, LongestFacts DEF DeafInv, Tainted, Swallowing, Searching
    <3>3. QED
      BY <1>1, <1>2, <2>1, <2>3, <3>2 DEF DeafInv, Swallowing, Hunting
  <2>4. QED
    BY <2>2, <2>3
<1>5. QED
  BY <1>3, <1>4

LEMMA DeliverDeaf ==
  ASSUME Inv, DeafInv, Deliver
  PROVE  DeafInv'
<1> DEFINE item == wire[1]
<1>1. /\ wire \in Seq(Item) /\ wire # <<>> /\ item \in Item /\ feed(item)
      /\ wire' \in Seq(Item) /\ Len(wire') = Len(wire) - 1 /\ Len(wire) \in Nat /\ Len(wire) >= 1
      /\ Len(wire') \in Nat
      /\ \A i \in 1..Len(wire') : wire'[i] = wire[i + 1]
      /\ clean' = clean
  BY TailFacts DEF Inv, LinkInv, Deliver
<1>2. deaf \in Nat /\ Len(wire') <= Longest
  BY <1>1, LongestFacts DEF DeafInv
<1>3. deaf' = 0 \/ (got' = got /\ deaf' = deaf + 1)
  BY DEF Deliver
<1>4. NoStart(wire, 2) => NoStart(wire', 1)
  <2>1. ASSUME NoStart(wire, 2), NEW i \in 1..(Len(wire') - 1)
        PROVE  ~(wire'[i].val = FRAME_MAGIC_0 /\ wire'[i + 1].val = FRAME_MAGIC_1)
    <3>1. /\ i + 1 \in 2..(Len(wire) - 1) /\ i \in 1..Len(wire') /\ i + 1 \in 1..Len(wire')
      BY <1>1
    <3>2. wire'[i] = wire[i + 1] /\ wire'[i + 1] = wire[(i + 1) + 1]
      BY <1>1, <3>1
    <3>3. QED
      BY <2>1, <3>1, <3>2 DEF NoStart
  <2>2. QED
    BY <2>1 DEF NoStart
<1> HIDE DEF item
<1>5. CASE deaf' = 0
  BY <1>1, <1>2, <1>5, LongestFacts DEF DeafInv, Tainted
<1>6. CASE got' = got /\ deaf' = deaf + 1
  <2>1. CASE Tainted
    BY <1>1, <1>2, <1>6, <2>1, LongestFacts DEF DeafInv, Tainted
  <2>2. CASE Swallowing
    <3>1. /\ Len(rx_frame) \in Nat /\ Len(rx_frame) + 1 <= MAX_FRAME_SIZE
      <4>1. InBounds /\ ~Hunting /\ rx_expected \in Nat /\ rx_expected > 0
            /\ Len(rx_frame) \in Nat
        BY <2>2, InvBounds DEF Swallowing, Inv, Assembly
      <4>2. QED
        BY <4>1, LongestFacts DEF InBounds
    <3>2. CASE rx_state' = "RX_MAGIC0"
      <4>1. deaf' + Len(wire') <= MAX_FRAME_SIZE + 2 * Longest
        BY <1>1, <1>2, <1>6, <2>2, <3>1, LongestFacts DEF Swallowing
      <4>2. QED
        BY <1>2, <1>4, <1>6, <2>2, <3>2, <4>1 DEF DeafInv, Searching, Swallowing, Hunting
    <3>3. CASE ~Hunting' /\ Len(rx_frame') = Len(rx_frame) + 1
      <4>1. deaf' <= Longest + Len(rx_frame')
        BY <1>2, <1>6, <2>2, <3>1, <3>3, LongestFacts DEF Swallowing
      <4>2. NoStart(wire', 2)
        BY <1>1, <1>4, <2>2 DEF Swallowing, NoStart
      <4>3. QED
        BY <1>2, <1>6, <3>3, <4>1, <4>2 DEF DeafInv, Swallowing
    <3>4. QED
      BY <1>1, <2>2, <3>2, <3>3, FeedGrows DEF Inv, Swallowing
  <2>3. CASE Searching
    <3>1. Hunting' /\ (rx_state' = "RX_MAGIC1" => item.val = FRAME_MAGIC_0)
      BY <1>1, <2>3, FeedHunts DEF Searching, item
    <3>2. NoStart(wire, 2) /\ NoStart(wire', 1)
      BY <1>1, <1>4, <2>3 DEF Searching, NoStart
    <3>3. rx_state' = "RX_MAGIC1" /\ wire' # <<>> => wire'[1].val # FRAME_MAGIC_1
      <4>1. SUFFICES ASSUME rx_state' = "RX_MAGIC1", wire' # <<>>
                     PROVE  wire'[1].val # FRAME_MAGIC_1
        OBVIOUS
      <4>2. Len(wire') >= 1
        BY <1>1, <4>1, EmptySeq
      <4>3. 1 \in 1..(Len(wire) - 1) /\ wire'[1] = wire[1 + 1]
        BY <1>1, <4>2
      <4>4. QED
        BY <2>3, <3>1, <4>1, <4>3 DEF Searching, NoStart, item
    <3>4. deaf' + Len(wire') <= MAX_FRAME_SIZE + 2 * Longest
      BY <1>1, <1>2, <1>6, <2>3, LongestFacts DEF Searching
    <3>5. QED
      BY <1>2, <1>6, <3>1, <3>2, <3>3, <3>4 DEF DeafInv, Searching
  <2>4. CASE Following
    <3>1. got = NoFrame /\ clean' /\ CleanInv'
      BY <1>1, <2>4, DeliverInv DEF Following, Inv, CleanInv
    <3>2. wire' # <<>>
      BY <1>6, <3>1, NoFrameAssumption, ParserAssumption DEF CleanInv
    <3>3. QED
      BY <1>1, <1>2, <1>6, <2>4, <3>1, <3>2, LongestFacts DEF DeafInv, Following
  <2>5. QED
    BY <2>1, <2>2, <2>3, <2>4 DEF DeafInv
<1>7. QED
  BY <1>3, <1>5, <1>6

LEMMA FaultDeaf ==
  ASSUME Inv, DeafInv, NEW b \in Byte, Lose \/ Damage(b) \/ Noise(b)
  PROVE  DeafInv'
<1>1. deaf' = 0 /\ wire \in Seq(Item) /\ Len(wire) \in Nat /\ Len(wire) <= Longest
  BY DEF Lose, Damage, Noise, Fault, Inv, LinkInv, DeafInv
<1>2. Len(wire') \in Nat /\ Len(wire') <= Len(wire)
  <2>1. CASE Lose
    BY <1>1, <2>1, TailFacts DEF Lose
  <2>2. CASE Damage(b)
    BY <1>1, <2>2, PlainFacts, TailFacts, ExceptSeq DEF Damage
  <2>3. CASE Noise(b)
    BY <1>1, <2>3 DEF Noise
  <2>4. QED
    BY <2>1, <2>2, <2>3
<1>3. QED
  BY <1>1, <1>2, LongestFacts DEF DeafInv, Tainted

LEMMA NextDeaf == Inv /\ DeafInv /\ [Next]_vars => DeafInv'
<1> SUFFICES ASSUME Inv, DeafInv, [Next]_vars PROVE DeafInv'
  OBVIOUS
<1>1. CASE \E f \in Frames, values \in [1..FRAME_CRC_SIZE -> Byte] : Send(f, values)
  BY <1>1, SendDeaf
<1>2. CASE Deliver
  BY <1>2, DeliverDeaf
<1>3. CASE Lose
  BY <1>3, FaultDeaf, ParserAssumption
<1>4. CASE \E b \in Byte : Damage(b) \/ Noise(b)
  BY <1>4, FaultDeaf
<1>5. CASE UNCHANGED vars
  BY <1>5 DEF DeafInv, Tainted, Swallowing, Searching, Following, Hunting, NoStart, vars, parser
<1>6. QED
  BY <1>1, <1>2, <1>3, <1>4, <1>5 DEF Next

-----------------------------------------------------------------------------
(* The theorems *)

\* In every state reachable from the initial ones the invariant above holds: the assembly
\* of feed() has the shape its state says, and a clean transmission is being followed.
THEOREM InvHolds == Spec => []Inv
<1>1. QED
  BY InitInv, NextInv, PTL DEF Spec

\* However many bytes are lost, damaged or inserted and whatever a LENGTH says, feed()
\* (protocol_mgr.c:454-457) never stores a byte past the end of rx_frame.
THEOREM InBoundsHolds == Spec => []InBounds
<1>1. QED
  BY InvHolds, InvBounds, PTL

\* Whatever the link does to the bytes, feed() dispatches no frame the host has not sent.
THEOREM OnlySentHolds == Spec => []OnlySent
<1>1. Inv => OnlySent
  BY DEF Inv, LinkInv
<1>2. QED
  BY <1>1, InvHolds, PTL

\* A frame of any size that arrives whole at a hunting parser is dispatched when its last
\* byte is fed, and never answered with ERR_CRC.
THEOREM CleanDeliveredHolds == Spec => []CleanDelivered
<1>1. Inv => CleanDelivered
  BY DEF Inv, CleanInv, CleanDelivered
<1>2. QED
  BY <1>1, InvHolds, PTL

\* After any fault, and after any misread LENGTH, no more than DeafBound bytes of undamaged
\* frames are read before one is dispatched, for every size of buffer, frames and trailer.
THEOREM ResynchronisesHolds == Spec => []Resynchronises
<1>1. Init => DeafInv
  BY SingleFacts, LongestFacts DEF Init, DeafInv, Tainted
<1>2. Inv /\ DeafInv => Resynchronises
  <2> SUFFICES ASSUME Inv, DeafInv PROVE deaf <= DeafBound
    BY DEF Resynchronises
  <2>1. deaf \in Nat /\ Len(wire) \in Nat
    BY DEF DeafInv, Inv, LinkInv
  <2>2. Swallowing => Len(rx_frame) \in Nat /\ Len(rx_frame) <= MAX_FRAME_SIZE
    BY InvBounds DEF Inv, Assembly, InBounds
  <2>3. QED
    BY <2>1, <2>2, LongestFacts DEF DeafInv, Tainted, Swallowing, Searching, Following
<1>3. QED
  BY <1>1, <1>2, InvHolds, NextDeaf, PTL DEF Spec
=============================================================================
