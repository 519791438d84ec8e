------------------------- MODULE ProtocolTimerProofs -------------------------
(***************************************************************************)
(* Proofs about ProtocolTimer for every size of the counter, all timeouts, *)
(* windows and durations that leave room for one poll.  The invariant IInv *)
(* relates the instants the code stores and its subtractions modulo        *)
(* ClockMod to the true durations silence and open: how far they can be    *)
(* apart at each stage of a pass (Inactivity, Window), what the poll under *)
(* way has cost so far (Worked), and how many bytes it may still read once *)
(* it has checked an image (Checked).                                      *)
(***************************************************************************)
EXTENDS ProtocolTimer, TLAPS

LEMMA Numbers ==
  /\ ClockMod \in Nat /\ ClockMod > 0
  /\ TIMEOUT_START_MS \in Nat /\ TIMEOUT_DATA_MS \in Nat
  /\ Budget \in Nat /\ Budget > 0
  /\ PassTicks \in Nat /\ ByteTicks \in Nat
  /\ Busy \in Nat /\ ByteTicks <= Busy
  /\ TIMEOUT_DATA_MS + Busy + PassTicks < ClockMod
  /\ \A t \in Limits : t \in Nat /\ t + Busy + PassTicks < ClockMod
  BY TimerAssumption DEF Busy

-----------------------------------------------------------------------------
(* Instants *)

Instant == 0..(ClockMod - 1)

LEMMA ModTwice ==
  ASSUME NEW k \in Nat, NEW m \in Nat, m > 0, k < 2 * m
  PROVE  k % m = IF k >= m THEN k - m ELSE k
  OBVIOUS

LEMMA ModNegative ==
  ASSUME NEW m \in Nat, m > 0, NEW k \in Int, k < 0, k >= 0 - m
  PROVE  k % m = k + m \/ k = 0 - m
  OBVIOUS

LEMMA Advance ==
  ASSUME NEW t \in Instant, NEW n \in Nat, n < ClockMod
  PROVE  /\ (t + n) % ClockMod \in Instant
         /\ (t + n) % ClockMod = IF t + n < ClockMod THEN t + n ELSE t + n - ClockMod
<1>1. PICK k \in Nat : k = t + n /\ k < 2 * ClockMod
  BY Numbers DEF Instant
<1>2. k % ClockMod = IF k >= ClockMod THEN k - ClockMod ELSE k
  BY <1>1, Numbers, ModTwice
<1>3. t \in Nat /\ t < ClockMod /\ (t + n) % ClockMod = k % ClockMod
  BY <1>1, Numbers DEF Instant
<1>4. (t + n) % ClockMod = IF t + n < ClockMod THEN t + n ELSE t + n - ClockMod
  BY <1>1, <1>2, <1>3, Numbers
<1>5. QED
  BY <1>1, <1>3, <1>4, Numbers DEF Instant

LEMMA SinceValue ==
  ASSUME NEW t \in Instant, NEW e \in Instant
  PROVE  /\ Since(t, e) = IF t >= e THEN t - e ELSE t - e + ClockMod
         /\ Since(t, e) \in Instant
<1>1. CASE t >= e
  <2>1. t - e \in Nat /\ t - e < ClockMod /\ t - e < 2 * ClockMod
    BY <1>1, Numbers DEF Instant
  <2>2. \A k \in Nat : k < ClockMod /\ k < 2 * ClockMod => k % ClockMod = k
    BY Numbers, ModTwice
  <2>3. QED
    BY <1>1, <2>1, <2>2, Numbers DEF Since, Instant
<1>2. CASE t < e
  BY <1>2, Numbers, ModNegative DEF Since, Instant
<1>3. QED
  BY <1>1, <1>2, Numbers DEF Instant

\* The difference of two instants grows with the clock, also across the wrap.
LEMMA SinceGrows ==
  ASSUME NEW t \in Instant, NEW e \in Instant, NEW n \in Nat, Since(t, e) + n < ClockMod
  PROVE  Since((t + n) % ClockMod, e) = Since(t, e) + n
<1> DEFINE u == (t + n) % ClockMod
<1>1. /\ t \in Nat /\ t < ClockMod /\ e \in Nat /\ e < ClockMod
      /\ Since(t, e) = IF t >= e THEN t - e ELSE t - e + ClockMod
  BY SinceValue, Numbers DEF Instant
<1>2. n < ClockMod
  BY <1>1, Numbers
<1>3. u \in Instant /\ u = IF t + n < ClockMod THEN t + n ELSE t + n - ClockMod
  BY <1>2, Advance
<1>4. Since(u, e) = IF u >= e THEN u - e ELSE u - e + ClockMod
  BY <1>3, SinceValue
<1> HIDE DEF u
<1>5. Since(u, e) = Since(t, e) + n
  BY <1>1, <1>2, <1>3, <1>4, Numbers
<1>6. QED
  BY <1>5 DEF u
-----------------------------------------------------------------------------
(* The invariant *)

\* During a drain the clock is ahead of the instant update_mode() read by what the bytes took.
Worked == /\ work <= Busy /\ spent <= Busy
          /\ pc = "drain" => /\ work <= (Budget - budget) * ByteTicks
                             /\ Since(tick_count, now) = work
                             /\ ~received => work = 0 /\ tick_count = now

\* Until its counter starts again, the window is as old as the instants say.
Window == open < ClockMod => /\ Since(tick_count, start) = open
                             /\ pc \in {"drain", "check"} =>
                                  work <= open /\ Since(now, start) = open - work

\* The time since the last activity recorded is the sender's silence and the work of the poll
\* that heard it last.
Inactivity ==
    state = "RECEIVING" =>
      /\ timeout_ms = TIMEOUT_DATA_MS
      /\ pc = "drain" /\ received => silence = 0
      /\ ~(pc = "drain" /\ received) => Since(tick_count, last_activity_ms) = silence + spent
      /\ silence <= TIMEOUT_DATA_MS + IF pc = "drain" THEN PassTicks ELSE 0

\* A transfer that began after an image was checked in this poll: its bytes and those the poll
\* may still read fit into the ring.
Checked == /\ images <= 1
           /\ pc = "drain" /\ images = 1 /\ state = "RECEIVING" => age + budget <= Budget

IInv == TypeOK /\ Worked /\ Window /\ Inactivity /\ WindowBounded /\ Checked

LEMMA InitInv == Init => IInv
<1> SUFFICES ASSUME Init PROVE IInv
  OBVIOUS
<1>1. /\ tick_count \in 0..PassTicks /\ pc = "top" /\ limit_ms \in Limits
      /\ start = tick_count /\ now = tick_count /\ state = "IDLE" /\ last_activity_ms = 0
      /\ timeout_ms = TIMEOUT_START_MS /\ ring = 0 /\ budget = Budget /\ received = FALSE
      /\ work = 0 /\ open = 0 /\ silence = 0 /\ spent = 0 /\ age = 0 /\ images = 0
  BY DEF Init
<1>2. tick_count \in Instant /\ 0 \in Instant
  BY <1>1, Numbers DEF Instant
<1>3. ring \in 0..(Budget - 1) /\ age \in 0..(Budget + 1)
  BY <1>1, Numbers
<1>4. TypeOK
  <2>1. Budget \in 0..Budget /\ 0 \in Nat /\ 0 \in 0..ClockMod
    BY <1>3, Numbers
  <2>2. received \in BOOLEAN
    BY <1>1
  <2>3. QED
    BY <1>1, <1>2, <1>3, <2>1, <2>2 DEF TypeOK, Instant
<1>5. Since(tick_count, start) = 0
  BY <1>1, <1>2, SinceValue, Numbers DEF Instant
<1>6. Worked /\ Window
  BY <1>1, <1>5, Numbers DEF Worked, Window
<1>7. Inactivity /\ WindowBounded /\ Checked
  BY <1>1, Numbers DEF Inactivity, WindowBounded, Checked
<1>8. QED
  BY <1>4, <1>6, <1>7 DEF IInv

LEMMA ArriveInv ==
  ASSUME IInv, Arrive
  PROVE  IInv'
<1>1. ring' \in 0..(Budget - 1)
  BY Numbers DEF IInv, TypeOK, Arrive
<1>2. TypeOK'
  BY <1>1 DEF IInv, TypeOK, Arrive, loop, timer, elapsed, history
<1>3. QED
  BY <1>2 DEF IInv, Arrive, loop, timer, elapsed, history, Worked, Window, Inactivity, WindowBounded,
     Checked, Since

\* n milliseconds pass.
LEMMA PassStep ==
  ASSUME IInv, NEW n \in Nat, n < ClockMod, Pass(n)
  PROVE  /\ tick_count' \in Instant /\ open' \in 0..ClockMod
         /\ open' < ClockMod => open < ClockMod /\ open' = open + n
         /\ \A e \in Instant : Since(tick_count, e) + n < ClockMod
                               => Since(tick_count', e) = Since(tick_count, e) + n
<1>1. tick_count \in Instant /\ open \in 0..ClockMod
  BY DEF IInv, TypeOK, Instant
<1>2. tick_count' = (tick_count + n) % ClockMod /\ open' = Later(open, n)
  BY DEF Pass
<1>3. tick_count' \in Instant
  BY <1>1, <1>2, Advance
<1>4. \A e \in Instant : Since(tick_count, e) + n < ClockMod
                        => Since(tick_count', e) = Since(tick_count, e) + n
  BY <1>1, <1>2, SinceGrows
<1>5. open' \in 0..ClockMod /\ (open' < ClockMod => open < ClockMod /\ open' = open + n)
  BY <1>1, <1>2, Numbers DEF Later
<1>6. QED
  BY <1>3, <1>4, <1>5

LEMMA TopInv ==
  ASSUME IInv, Top
  PROVE  IInv'
<1> USE DEF IInv
<1>1. PICK n \in 0..PassTicks : Pass(n) /\ Silent(Later(silence, n))
  BY DEF Top
<1>2. /\ pc = "top" /\ pc' = "drain" /\ work' = 0 /\ now' = tick_count' /\ budget' = Budget
      /\ received' = FALSE /\ images' = 0
      /\ UNCHANGED <<limit_ms, start, state, last_activity_ms, timeout_ms, ring, spent, age>>
  BY DEF Top, timer
<1>3. n \in Nat /\ n < ClockMod /\ n <= PassTicks
  BY Numbers
<1>4. /\ tick_count' \in Instant /\ open' \in 0..ClockMod
      /\ open' < ClockMod => open < ClockMod /\ open' = open + n
      /\ \A e \in Instant : Since(tick_count, e) + n < ClockMod
                            => Since(tick_count', e) = Since(tick_count, e) + n
  BY <1>1, <1>3, PassStep
<1>5. /\ {start, last_activity_ms} \subseteq Instant /\ open \in Nat /\ silence \in 0..ClockMod
      /\ spent \in Nat
  BY Numbers DEF TypeOK, Instant
<1>6. silence' \in 0..ClockMod
  <2>1. Later(silence, n) \in 0..ClockMod /\ 0 \in 0..ClockMod
    BY <1>3, <1>5, Numbers DEF Later
  <2>2. QED
    BY <1>1, <2>1 DEF Silent
<1>7. TypeOK'
  <2>1. Budget \in 0..Budget /\ 0 \in Nat
    BY Numbers
  <2>2. received' \in BOOLEAN
    BY <1>2
  <2>3. QED
    BY <1>2, <1>4, <1>6, <2>1, <2>2 DEF TypeOK, Instant
<1>8. Since(tick_count', now') = 0
  BY <1>2, <1>4, SinceValue, Numbers DEF Instant
<1>9. Worked'
  <2>1. Since(tick_count, now)' = 0
    BY <1>8 DEF Since
  <2>2. QED
    BY <1>2, <2>1, Numbers DEF Worked
<1>10. Window'
  <2>1. ASSUME open' < ClockMod PROVE Since(tick_count', start') = open'
    BY <1>2, <1>4, <1>5, <2>1 DEF Window
  <2>2. QED
    BY <1>2, <1>4, <2>1, Numbers DEF Window, Since
<1>11. Inactivity'
  <2>1. ASSUME state' = "RECEIVING"
        PROVE  /\ silence' = silence + n
               /\ Since(tick_count', last_activity_ms) = Since(tick_count, last_activity_ms) + n
               /\ timeout_ms = TIMEOUT_DATA_MS /\ silence <= TIMEOUT_DATA_MS
               /\ spent <= Busy /\ Since(tick_count, last_activity_ms) = silence + spent
    <3>1. /\ timeout_ms = TIMEOUT_DATA_MS /\ silence <= TIMEOUT_DATA_MS
          /\ spent <= Busy /\ Since(tick_count, last_activity_ms) = silence + spent
      BY <1>2, <2>1, Numbers DEF Inactivity, Worked
    <3>2. Since(tick_count, last_activity_ms) \in Instant
      BY <1>5, SinceValue DEF TypeOK, Instant
    <3>3. Since(tick_count, last_activity_ms) + n < ClockMod /\ silence + n < ClockMod
      BY <1>3, <1>5, <3>1, <3>2, Numbers DEF Instant
    <3>4. silence' = silence + n
      BY <1>1, <2>1, <3>3 DEF Silent, Later
    <3>5. QED
      BY <1>4, <1>5, <3>1, <3>3, <3>4
  <2>2. Since(tick_count, last_activity_ms) \in Nat
    <3>1. tick_count \in Instant /\ last_activity_ms \in Instant
      BY <1>5 DEF TypeOK, Instant
    <3>2. Since(tick_count, last_activity_ms) \in Instant
      BY <3>1, SinceValue
    <3>3. QED
      BY <3>2, Numbers DEF Instant
  <2>3. QED
    BY <1>2, <1>3, <1>5, <2>1, <2>2, Numbers DEF Inactivity, Since
<1>12. Checked'
  BY <1>2, Numbers DEF Checked
<1>13. QED
  BY <1>2, <1>7, <1>9, <1>10, <1>11, <1>12 DEF WindowBounded

LEMMA FeedInv ==
  ASSUME IInv, Feed
  PROVE  IInv'
<1> USE DEF IInv
<1>1. PICK n \in 0..ByteTicks : Pass(n) /\ work' = work + n /\ Silent(0)
  BY DEF Feed
<1>2. /\ pc = "drain" /\ budget > 0 /\ ring > 0 /\ ring' = ring - 1
      /\ received' = TRUE
      /\ spent' = (IF state' = "RECEIVING" THEN spent ELSE 0)
      /\ UNCHANGED <<pc, limit_ms, start, now, last_activity_ms>>
  BY DEF Feed, MayRead, loop
<1>3. budget \in Nat /\ budget <= Budget /\ budget' = budget - 1 /\ budget' \in 0..Budget
  BY <1>2, Numbers DEF Feed, TypeOK
<1>4. n \in Nat /\ n < ClockMod /\ n <= ByteTicks
  BY Numbers
<1>5. /\ tick_count' \in Instant /\ open' \in 0..ClockMod
      /\ open' < ClockMod => open < ClockMod /\ open' = open + n
      /\ \A e \in Instant : Since(tick_count, e) + n < ClockMod
                            => Since(tick_count', e) = Since(tick_count, e) + n
  BY <1>1, <1>4, PassStep
<1>6. silence' = 0
  BY <1>1 DEF Silent
<1>7. PICK b \in Byte :
        /\ state' \in Leaves(b)
        /\ \/ Accepts(b) /\ age' = 0
           \/ /\ Ignores(b)
              /\ age' = IF state' # "RECEIVING" THEN 0
                        ELSE IF age > Budget THEN age ELSE age + 1
        /\ images' = IF ImageChecked(b) THEN images + 1 ELSE images
  BY DEF Feed
<1>8. state' \in {"IDLE", "RECEIVING", "COMPLETE"}
  BY <1>7 DEF Leaves, Byte, Frame, TypeOK
<1>9. timeout_ms' \in {timeout_ms, TIMEOUT_DATA_MS}
  BY <1>7 DEF Accepts, Ignores
\* A transfer is open after the byte because START opened it, or was before.
<1>10. state' = "RECEIVING" => \/ age' = 0 /\ timeout_ms' = TIMEOUT_DATA_MS
                              \/ /\ state = "RECEIVING" /\ timeout_ms' = timeout_ms
                                 /\ age' = IF age > Budget THEN age ELSE age + 1
  <2>1. CASE Accepts(b)
    BY <1>7, <2>1 DEF Accepts, Ignores, Leaves
  <2>2. CASE Ignores(b) /\ state' = "RECEIVING"
    <3>1. state = "RECEIVING"
      BY <1>7, <2>2 DEF Ignores, Leaves, Byte, Frame, TypeOK
    <3>2. QED
      BY <1>7, <2>2, <3>1 DEF Ignores, Accepts
  <2>3. QED
    BY <1>7, <2>1, <2>2
<1>11. TypeOK'
  <2>1. ring' \in 0..(Budget - 1)
    BY <1>2, Numbers DEF TypeOK
  <2>2. {work', spent', images'} \subseteq Nat /\ 0 \in 0..ClockMod
    BY <1>1, <1>2, <1>4, <1>7, Numbers DEF TypeOK
  <2>3. received' \in BOOLEAN
    BY <1>2
  <2>4. age' \in 0..(Budget + 1)
    BY <1>7, Numbers DEF TypeOK
  <2>5. QED
    BY <1>2, <1>3, <1>5, <1>6, <1>8, <1>9, <2>1, <2>2, <2>3, <2>4 DEF TypeOK, Instant
<1>12. work' <= (Budget - budget') * ByteTicks /\ work' <= Busy
  <2>1. work <= (Budget - budget) * ByteTicks /\ work \in Nat
    BY <1>2 DEF Worked, TypeOK
  <2>2. (Budget - budget') * ByteTicks = (Budget - budget) * ByteTicks + ByteTicks
    BY <1>3, Numbers
  <2>3. (Budget - budget') * ByteTicks <= Budget * ByteTicks
    BY <1>3, Numbers
  <2>4. (Budget - budget) * ByteTicks \in Int /\ (Budget - budget') * ByteTicks \in Int
    BY <1>3, Numbers
  <2>5. QED
    BY <1>1, <1>4, <2>1, <2>2, <2>3, <2>4, Numbers DEF Busy
<1>13. Since(tick_count', now) = work'
  <2>1. Since(tick_count, now) = work /\ now \in Instant
    BY <1>2 DEF Worked, TypeOK, Instant
  <2>2. work + n < ClockMod
    BY <1>1, <1>12, Numbers DEF TypeOK
  <2>3. QED
    BY <1>1, <1>5, <2>1, <2>2
<1>14. Worked'
  <2>1. Since(tick_count, now)' = work'
    BY <1>2, <1>13 DEF Since
  <2>2. spent' <= Busy
    BY <1>2, Numbers DEF Worked
  <2>3. QED
    BY <1>2, <1>12, <2>1, <2>2 DEF Worked
<1>15. Window'
  <2>1. ASSUME open' < ClockMod
        PROVE  Since(tick_count', start) = open' /\ work' <= open' /\ Since(now, start) = open' - work'
    <3>1. open < ClockMod /\ open' = open + n /\ start \in Instant /\ open \in Nat
      BY <1>5, <2>1, Numbers DEF TypeOK, Instant
    <3>2. Since(tick_count, start) = open /\ work <= open /\ Since(now, start) = open - work
      BY <1>2, <3>1 DEF Window
    <3>3. work \in Nat /\ work' = work + n /\ Since(tick_count', start) = open + n
      BY <1>1, <1>5, <2>1, <3>1, <3>2 DEF TypeOK
    <3>4. QED
      BY <1>4, <3>1, <3>2, <3>3
  <2>2. QED
    BY <1>2, <2>1 DEF Window, Since
<1>16. Inactivity'
  <2> SUFFICES ASSUME state' = "RECEIVING" PROVE Inactivity'
    BY DEF Inactivity
  <2>1. timeout_ms' = TIMEOUT_DATA_MS
    BY <1>10 DEF Inactivity
  <2>2. QED
    BY <1>2, <1>6, <2>1, Numbers DEF Inactivity
<1>17. Checked'
  <2>1. budget \in Nat /\ age \in Nat /\ images \in Nat /\ age' \in Nat
    BY <1>3, <1>11, Numbers DEF TypeOK
  <2>2. CASE ImageChecked(b)
    <3>1. images = 0
      BY <1>2, <2>1, <2>2, Numbers DEF Checked, ImageChecked
    <3>2. state' # "RECEIVING"
      BY <1>7, <2>2 DEF ImageChecked, Leaves
    <3>3. QED
      BY <1>7, <2>1, <2>2, <3>1, <3>2 DEF Checked
  <2>3. CASE ~ImageChecked(b)
    <3>1. images' = images
      BY <1>7, <2>3
    <3>2. ASSUME images = 1, state' = "RECEIVING" PROVE age' + budget' <= Budget
      <4>1. CASE age' = 0
        BY <1>3, <4>1, Numbers
      <4>2. CASE state = "RECEIVING" /\ age' = IF age > Budget THEN age ELSE age + 1
        <5>1. age + budget <= Budget
          BY <1>2, <3>2, <4>2 DEF Checked
        <5>2. QED
          BY <1>3, <2>1, <4>2, <5>1, Numbers
      <4>3. QED
        BY <1>10, <3>2, <4>1, <4>2
    <3>3. QED
      BY <3>1, <3>2 DEF Checked
  <2>4. QED
    BY <2>2, <2>3
<1>18. QED
  BY <1>2, <1>11, <1>14, <1>15, <1>16, <1>17 DEF WindowBounded

LEMMA DrainedInv ==
  ASSUME IInv, Drained
  PROVE  IInv'
<1> USE DEF IInv
<1>1. /\ pc = "drain" /\ pc' = "check" /\ Silent(silence)
      /\ spent' = (IF state' # "RECEIVING" THEN 0 ELSE IF received THEN work ELSE spent)
      /\ age' = (IF state' = "RECEIVING" THEN age ELSE 0)
      /\ UNCHANGED <<limit_ms, start, now, timeout_ms, ring, budget, received, tick_count, work, open,
                     images>>
  BY DEF Drained, Kept, loop
<1>2. /\ state' \in {state, "IDLE"} /\ last_activity_ms' \in {last_activity_ms, now}
      /\ silence' = IF state' = "RECEIVING" THEN silence ELSE 0
  BY <1>1 DEF Drained, Silent
<1>3. TypeOK'
  <2>1. 0 \in 0..ClockMod /\ received' \in BOOLEAN
    BY <1>1, Numbers DEF TypeOK
  <2>2. state' \in {"IDLE", "RECEIVING", "COMPLETE"} /\ silence' \in 0..ClockMod
    BY <1>2, <2>1 DEF TypeOK
  <2>3. spent' \in Nat /\ age' \in 0..(Budget + 1)
    BY <1>1, Numbers DEF TypeOK
  <2>4. QED
    BY <1>1, <1>2, <2>1, <2>2, <2>3 DEF TypeOK
<1>4. Worked' /\ Window' /\ Checked'
  BY <1>1, Numbers DEF Worked, Window, Checked, Since
<1>5. Inactivity'
  <2> SUFFICES ASSUME state' = "RECEIVING" PROVE Inactivity'
    BY DEF Inactivity
  <2>1. state = "RECEIVING" /\ silence' = silence /\ timeout_ms' = TIMEOUT_DATA_MS
        /\ timeout_ms = TIMEOUT_DATA_MS
    BY <1>1, <1>2 DEF Inactivity
  <2>2. work \in Nat /\ silence \in Nat /\ spent \in Nat
    BY Numbers DEF TypeOK
  <2>3. CASE received
    <3>1. /\ last_activity_ms' = now /\ silence = 0 /\ Since(tick_count, now) = work /\ work <= Busy
          /\ spent' = work
      BY <1>1, <2>1, <2>3 DEF Drained, Inactivity, Worked
    <3>2. Since(tick_count, last_activity_ms)' = work
      BY <1>1, <3>1 DEF Since
    <3>3. QED
      BY <1>1, <2>1, <2>2, <3>1, <3>2, Numbers DEF Inactivity
  <2>4. CASE ~received
    <3>1. /\ last_activity_ms' = last_activity_ms /\ Since(now, last_activity_ms) <= timeout_ms
          /\ spent' = spent
      BY <1>1, <2>1, <2>4 DEF Drained
    <3>2. tick_count = now
      BY <1>1, <2>4 DEF Worked
    <3>3. Since(tick_count, last_activity_ms) = silence + spent
      BY <1>1, <2>1, <2>4 DEF Inactivity
    <3>4. silence <= TIMEOUT_DATA_MS
      BY <2>1, <2>2, <3>1, <3>2, <3>3, Numbers
    <3>5. Since(tick_count, last_activity_ms)' = Since(tick_count, last_activity_ms)
      BY <1>1, <3>1 DEF Since
    <3>6. QED
      BY <1>1, <2>1, <2>2, <3>1, <3>3, <3>4, <3>5, Numbers DEF Inactivity
  <2>5. QED
    BY <2>3, <2>4 DEF TypeOK
<1>6. QED
  BY <1>1, <1>3, <1>4, <1>5 DEF WindowBounded

LEMMA CheckInv ==
  ASSUME IInv, Check
  PROVE  IInv'
<1> USE DEF IInv
<1>1. /\ pc = "check" /\ pc' \in {"reset", "closed", "top"}
      /\ UNCHANGED <<limit_ms, start, now, state, last_activity_ms, timeout_ms, ring, budget,
                     received, tick_count, work, open, silence, spent, age, images>>
  BY DEF Check, loop, timer, elapsed, history
<1>2. TypeOK'
  BY <1>1 DEF TypeOK
<1>3. Worked' /\ Window' /\ Inactivity' /\ Checked'
  BY <1>1 DEF Worked, Window, Inactivity, Checked, Since
<1>4. WindowBounded'
  <2> SUFFICES ASSUME pc' = "top", state = "IDLE", limit_ms > 0, open < ClockMod
               PROVE  open <= limit_ms + work
    BY <1>1 DEF WindowBounded
  <2>1. Since(now, start) <= limit_ms
    <3>1. ~Expired
      BY <1>1 DEF Check
    <3>2. now \in Instant /\ start \in Instant /\ limit_ms \in Nat
      BY Numbers DEF TypeOK, Instant
    <3>3. Since(now, start) \in Nat
      BY <3>2, SinceValue, Numbers DEF Instant
    <3>4. QED
      BY <3>1, <3>2, <3>3 DEF Expired
  <2>2. Since(now, start) = open - work
    BY <1>1 DEF Window
  <2>3. work \in Nat /\ open \in Nat /\ limit_ms \in Nat
    BY Numbers DEF TypeOK
  <2>4. QED
    BY <2>1, <2>2, <2>3, Numbers
<1>5. QED
  BY <1>2, <1>3, <1>4

LEMMA NextInv == IInv /\ [Next]_vars => IInv'
<1> SUFFICES ASSUME IInv, [Next]_vars PROVE IInv'
  OBVIOUS
<1>1. CASE UNCHANGED vars
  BY <1>1 DEF vars, loop, timer, elapsed, history, IInv, TypeOK, Worked, Window, Inactivity,
     WindowBounded, Checked, Since
<1>2. QED
  BY <1>1, ArriveInv, TopInv, FeedInv, DrainedInv, CheckInv DEF Next

\* At every stage of every pass the differences the code computes are the true durations, or
\* apart from them by what the poll that matters has worked.
THEOREM TimerInvariant == Spec => []IInv
  BY InitInv, NextInv, PTL DEF Spec

\* All instants stay in the counter's range, also when it wraps.
THEOREM TypeCorrect == Spec => []TypeOK
<1>1. IInv => TypeOK
  BY DEF IInv
<1>2. QED
  BY <1>1, TimerInvariant, PTL

\* A silent transfer ends within a turn of its timeout, for all periods and counter sizes that
\* leave room for one poll.
THEOREM AbandonedEndsHolds == Spec => []AbandonedEnds
<1>1. ASSUME IInv PROVE AbandonedEnds
  <2>1. silence \in Nat
    BY <1>1, Numbers DEF IInv, TypeOK
  <2>2. QED
    BY <1>1, <2>1, Numbers DEF IInv, Inactivity, AbandonedEnds
<1>2. QED
  BY <1>1, TimerInvariant, PTL

\* Past its limit the listen window only lasts for the poll under way, unless a transfer is open.
THEOREM WindowBoundedHolds == Spec => []WindowBounded
<1>1. IInv => WindowBounded
  BY DEF IInv
<1>2. QED
  BY <1>1, TimerInvariant, PTL

\* Between two refreshes of the watchdog at most one image larger than the ring is read back,
\* for every size of the ring and whatever frames begin and end within one poll.
THEOREM OneImagePerPollHolds == Spec => []OneImagePerPoll
<1>1. IInv => OneImagePerPoll
  BY DEF IInv, Checked, OneImagePerPoll
<1>2. QED
  BY <1>1, TimerInvariant, PTL

\* No transfer is dropped before its sender was silent for the timeout, less what the poll
\* that read its last byte worked; whatever this work is.
THEOREM AbortNotEarlyHolds == Spec => AbortNotEarly
<1>1. ASSUME IInv, [Next]_vars PROVE [TimedAbort => silence + spent > TIMEOUT_DATA_MS]_vars
  <2> SUFFICES ASSUME TimedAbort PROVE silence + spent > TIMEOUT_DATA_MS
    OBVIOUS
  <2>1. Drained
    BY <1>1 DEF TimedAbort, Next, Arrive, Top, Feed, Check, vars, timer, loop
  <2>2. ~received /\ Since(now, last_activity_ms) > timeout_ms
    BY <2>1 DEF TimedAbort, Drained
  <2>3. /\ tick_count = now /\ timeout_ms = TIMEOUT_DATA_MS
        /\ Since(tick_count, last_activity_ms) = silence + spent
    BY <1>1, <2>2 DEF TimedAbort, IInv, Worked, Inactivity
  <2>4. QED
    BY <2>2, <2>3
<1>2. QED
  BY <1>1, TimerInvariant, PTL DEF Spec, AbortNotEarly
=============================================================================
