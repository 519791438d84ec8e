---------------------------- MODULE ProtocolTimer ----------------------------
(***************************************************************************)
(* The clock behind update mode: the loop of update_mode() in              *)
(* bootloader/main.c with its listen window and its watchdog refresh, and  *)
(* protocol_poll() in bootloader/src/protocol_mgr.c with its bounded drain *)
(* and its inactivity timer, against the millisecond counter of systick.c, *)
(* which wraps.  Bytes arrive at any moment; what a frame does is reduced  *)
(* to the protocol state it leaves and the time its handler takes, which   *)
(* for the END of a transfer grows with the image it checks.               *)
(***************************************************************************)
EXTENDS Integers

CONSTANTS ClockMod,      \* values of tick_count (2^32)
          Limits,        \* listen windows update_mode() is called with; 0 is none
          TIMEOUT_START_MS, TIMEOUT_DATA_MS,
          Budget,        \* UART_RX_BUFFER_SIZE: size of the ring, bytes read in one poll
          PassTicks,     \* longest turn of the loop that finds no frame
          ByteTicks      \* longest a byte takes, with its frame's handler and its answer

Busy == Budget * ByteTicks       \* more than a drain can take

ASSUME TimerAssumption ==
    /\ {ClockMod, TIMEOUT_START_MS, TIMEOUT_DATA_MS, Budget, PassTicks, ByteTicks}
         \subseteq Nat \ {0}
    /\ Limits \subseteq Nat
    /\ \A t \in Limits \cup {TIMEOUT_DATA_MS} : t + Busy + PassTicks < ClockMod

VARIABLES
    tick_count,
    pc,              \* "top", "drain" and "check" of the loop, then "closed" or "reset"
    limit_ms, start, now,
    state, last_activity_ms, timeout_ms,
    ring,            \* number of bytes the interrupt has stored
    budget, received,
    work,            \* time the bytes of this turn have taken since now was read
    open,            \* history, saturating: time since the window opened
    silence, spent,  \* history, of the open transfer: time since its last byte, and what the
                     \* poll that read this byte took
    age,             \* history, saturating: bytes read since it was accepted
    images           \* history: images larger than the ring checked since the refresh

loop == <<limit_ms, start, now>>
timer == <<last_activity_ms, timeout_ms>>
elapsed == <<tick_count, work, open, silence>>
history == <<spent, age, images>>
vars == <<pc, loop, state, timer, ring, budget, received, elapsed, history>>

\* The last byte of a frame, by what the frame is; "byte" is any other byte, noise included.
Frame == {"start", "data", "end", "other"}
Byte == Frame \cup {"byte"}

-----------------------------------------------------------------------------
(* Time *)

\* Mutant of Since: the instants are compared as numbers, not modulo the counter.
SinceAbsolute(t, earlier) == IF t >= earlier THEN t - earlier ELSE 0

\* The difference of two uint32_t instants.
Since(t, earlier) == (t - earlier) % ClockMod

Later(h, n) == IF h + n < ClockMod THEN h + n ELSE ClockMod

\* n milliseconds pass.
Pass(n) == /\ tick_count' = (tick_count + n) % ClockMod
           /\ open' = Later(open, n)

Silent(n) == silence' = IF state' = "RECEIVING" THEN n ELSE 0

Init == /\ tick_count \in 0..PassTicks
        /\ pc = "top"
        /\ limit_ms \in Limits
        /\ start = tick_count /\ now = tick_count
        /\ state = "IDLE"
        /\ last_activity_ms = 0 /\ timeout_ms = TIMEOUT_START_MS
        /\ ring = 0 /\ budget = Budget /\ received = FALSE
        /\ work = 0 /\ open = 0 /\ silence = 0
        /\ spent = 0 /\ age = 0 /\ images = 0

\* uart_isr(): one slot of the ring stays free.
Arrive == /\ pc \notin {"closed", "reset"}
          /\ ring < Budget - 1
          /\ ring' = ring + 1
          /\ UNCHANGED <<pc, loop, state, timer, budget, received, elapsed, history>>

\* Head of the loop: iwdg_feed(), millis(), and the call of protocol_poll().
Top == /\ pc = "top"
       /\ UNCHANGED <<limit_ms, start, state, timer, ring, spent, age>>
       /\ \E n \in 0..PassTicks :
            /\ Pass(n)
            /\ Silent(Later(silence, n))
       /\ work' = 0 /\ images' = 0
       /\ now' = tick_count'
       /\ budget' = Budget /\ received' = FALSE
       /\ pc' = "drain"

\* Protocol states a frame can leave: the handlers' checks are those of OtaSystem.
Leaves(frame) == CASE frame = "start" -> {state, "RECEIVING"}
                   [] frame = "data"  -> IF state = "RECEIVING" THEN {state, "IDLE"} ELSE {state}
                   [] frame = "end"   -> IF state = "RECEIVING" THEN {"COMPLETE", "IDLE"} ELSE {state}
                   [] frame = "other" -> {state, "IDLE"}
                   [] frame = "byte"  -> {state}

\* Mutant of MayRead: the drain goes on until the ring is empty.
MayReadAll == ring > 0

MayRead == budget > 0 /\ ring > 0

\* on_start_update() sets timeout_ms when it accepts the transfer, and accepts one in any state.
Accepts(b) == b = "start" /\ state' = "RECEIVING" /\ timeout_ms' = TIMEOUT_DATA_MS
Ignores(b) == (b = "start" => state' = state) /\ UNCHANGED timeout_ms

\* on_end_update() reads the image back, which is no longer than what was read since START.
ImageChecked(b) == b = "end" /\ state = "RECEIVING" /\ age > Budget

\* feed() of a byte, which may be the last one of a frame.
Feed == /\ pc = "drain" /\ MayRead
        /\ \E b \in Byte :
             /\ state' \in Leaves(b)
             /\ \/ Accepts(b) /\ age' = 0
                \/ /\ Ignores(b)
                   /\ age' = IF state' # "RECEIVING" THEN 0
                             ELSE IF age > Budget THEN age ELSE age + 1
             /\ images' = IF ImageChecked(b) THEN images + 1 ELSE images
        /\ \E n \in 0..ByteTicks :
             /\ Pass(n)
             /\ work' = work + n
             /\ Silent(0)
        /\ ring' = ring - 1
        /\ budget' = IF budget > 0 THEN budget - 1 ELSE 0
        /\ received' = TRUE
        /\ spent' = IF state' = "RECEIVING" THEN spent ELSE 0
        /\ UNCHANGED <<pc, loop, last_activity_ms>>

\* What the poll leaves of the silence and of its own time.
Kept == /\ Silent(silence)
        /\ spent' = IF state' # "RECEIVING" THEN 0 ELSE IF received THEN work ELSE spent
        /\ age' = IF state' = "RECEIVING" THEN age ELSE 0
        /\ UNCHANGED <<loop, timeout_ms, ring, budget, received, tick_count, work, open, images>>

\* Mutant of Drained: a poll that received something leaves the timer alone.
DrainedNoRestart ==
    /\ pc = "drain" /\ ~MayRead
    /\ IF ~received /\ state = "RECEIVING" /\ Since(now, last_activity_ms) > timeout_ms
       THEN state' = "IDLE" /\ last_activity_ms' = now
       ELSE UNCHANGED <<state, last_activity_ms>>
    /\ pc' = "check"
    /\ Kept

\* The rest of protocol_poll(): restart the inactivity timer, or see it expire.
Drained ==
    /\ pc = "drain" /\ ~MayRead
    /\ \/ /\ received
          /\ last_activity_ms' = now
          /\ UNCHANGED state
       \/ /\ ~received /\ state = "RECEIVING" /\ Since(now, last_activity_ms) > timeout_ms
          /\ state' = "IDLE"
          /\ last_activity_ms' = now
       \/ /\ ~received
          /\ state # "RECEIVING" \/ Since(now, last_activity_ms) <= timeout_ms
          /\ UNCHANGED <<state, last_activity_ms>>
    /\ pc' = "check"
    /\ Kept

\* Mutant of Expired: the window restarts with every byte.
ExpiredSinceByte == limit_ms > 0 /\ state = "IDLE" /\ ~received /\ Since(now, start) > limit_ms

Expired == limit_ms > 0 /\ state = "IDLE" /\ Since(now, start) > limit_ms

\* The end of the loop's body.
Check == /\ pc = "check"
         /\ pc' = IF state = "COMPLETE" THEN "reset" ELSE IF Expired THEN "closed" ELSE "top"
         /\ UNCHANGED <<loop, state, timer, ring, budget, received, elapsed, history>>

Next == Arrive \/ Top \/ Feed \/ Drained \/ Check

Spec == Init /\ [][Next]_vars
-----------------------------------------------------------------------------
(* Properties *)

TypeOK == /\ tick_count \in 0..(ClockMod - 1)
          /\ pc \in {"top", "drain", "check", "closed", "reset"}
          /\ limit_ms \in Limits
          /\ {start, now, last_activity_ms} \subseteq 0..(ClockMod - 1)
          /\ state \in {"IDLE", "RECEIVING", "COMPLETE"}
          /\ timeout_ms \in {TIMEOUT_START_MS, TIMEOUT_DATA_MS}
          /\ ring \in 0..(Budget - 1)
          /\ budget \in 0..Budget /\ received \in BOOLEAN
          /\ {work, spent, images} \subseteq Nat
          /\ {open, silence} \subseteq 0..ClockMod
          /\ age \in 0..(Budget + 1)

\* protocol_poll(): the timer ends a transfer.
TimedAbort == pc = "drain" /\ pc' = "check" /\ state = "RECEIVING" /\ state' = "IDLE"

\* protocol_mgr.c:585, no transfer is dropped early: between the beginning of the poll that
\* read its last byte and the drop lies more than TIMEOUT_DATA_MS, of which this poll's own
\* work (spent) is all that was not silence; also when the counter wrapped and when the
\* board had waited for days before the transfer.
AbortNotEarly == [][TimedAbort => silence + spent > TIMEOUT_DATA_MS]_vars

\* protocol_mgr.c:585, and none is kept: after TIMEOUT_DATA_MS without a byte the transfer
\* is dropped within one turn of the loop.
AbandonedEnds == state = "RECEIVING" => silence <= TIMEOUT_DATA_MS + PassTicks

\* main.c:297, once the window's limit has passed only the poll under way is finished, when
\* no transfer is open: whatever bytes keep coming and however long a transfer held the
\* window open (up to the 49 days after which the counter starts again).
WindowBounded == pc = "top" /\ state = "IDLE" /\ limit_ms > 0 /\ open < ClockMod
                    => open <= limit_ms + work

\* protocol_mgr.c:569, the bounded drain: between two refreshes of the watchdog the loop reads
\* at most one image larger than the ring back from flash, although transfers may end and
\* begin within one poll and bytes arrive while it works.
OneImagePerPoll == images <= 1
=============================================================================
