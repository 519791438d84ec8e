------------------------------- MODULE AppLoop -------------------------------
(***************************************************************************)
(* The main loop of app/main.c on real hardware: the evidence a pass       *)
(* collects before it refreshes the watchdog, the polled receiver with its *)
(* single data register and its overrun flag, the streak of polls that     *)
(* makes an update request, and the confirmation after the third cycle.    *)
(* Peripherals may be dead from the start (a faulty image) or fail at any  *)
(* moment; the boot decision is reduced to the attempts it counts and the  *)
(* rollback (OtaSystem has it in full).  One unit of time is the nominal   *)
(* half second of a pass.                                                  *)
(***************************************************************************)
EXTENDS Naturals, FiniteSets

CONSTANTS CYCLES_BEFORE_CONFIRMATION, OTA_CONFIRM_POLLS,
          DrainBudget,       \* bytes one trigger poll reads at most (16)
          LineRates,         \* how many bytes can arrive while a poll drains the receiver;
                             \* DrainBudget and above stand for any number
          Faults,            \* sets of peripherals a faulty image never gets to work
          Breakable,         \* peripherals that may fail while the image runs
          MAX_BOOT_FAILURES,
          Watchdog,          \* period of the watchdog
          PassTicks          \* longest time between two refreshes of a sound loop

Peripheral == {"gpio", "usart1", "usart2"}

ASSUME AppAssumption ==
    /\ {CYCLES_BEFORE_CONFIRMATION, OTA_CONFIRM_POLLS, DrainBudget, MAX_BOOT_FAILURES,
        PassTicks} \subseteq Nat \ {0}
    /\ LineRates \subseteq Nat
    /\ Faults \subseteq SUBSET Peripheral /\ Breakable \subseteq Peripheral
    /\ Watchdog \in Nat /\ PassTicks < Watchdog

NoByte == "none"
Byte == {"U", "x"}        \* OTA_TRIGGER_BYTE and any other one

VARIABLES
    pc,                   \* the statement of main() that comes next
    slot, attempts,       \* the metadata: the slot's state, boot_fail_count
    boot_request,         \* the flag word at the end of RAM
    bad, dead,            \* peripherals that never work with this image, that do not now
    cycle, confirmed, work, streak,
    budget, seen,         \* ota_trigger_poll(): bytes it may still read, values it has read
    line_rate, burst,     \* bytes that can arrive, and arrived, during the drain
    rdr, ore,             \* USART1
    wd,                   \* time since the watchdog was refreshed
    arrived, held, heldonly, \* history: bytes on the line since the last poll; consecutive
                             \* polls before which 'U' came, and nothing but 'U' came
    unwritten             \* history: since the last boot, a confirmation was not recorded

metadata == <<slot, attempts>>
lasting == <<metadata, boot_request, bad, line_rate, unwritten>> \* what a reset leaves alone
progress == <<cycle, confirmed>>
poll == <<streak, budget, seen, burst>>
usart1 == <<rdr, ore>>
line == <<arrived, held, heldonly>>
vars == <<pc, lasting, dead, progress, work, poll, usart1, wd, line>>

Alive(p) == p \notin dead
Running == pc \notin {"boot", "fallback"}

-----------------------------------------------------------------------------
(* Reset *)

\* Everything a reset initialises; the flag word and the metadata stay.
Reset == /\ pc' = "boot"
         /\ dead' = bad
         /\ cycle' = 0 /\ confirmed' = FALSE /\ work' = {}
         /\ streak' = 0 /\ budget' = 0 /\ seen' = {} /\ burst' = 0
         /\ ore' = FALSE /\ wd' = 0
         /\ arrived' = {} /\ held' = 0 /\ heldonly' = 0

\* A byte may be left in the data register from before the jump.
Init == /\ pc = "boot"
        /\ slot = "TESTING" /\ attempts = 0
        /\ boot_request = FALSE
        /\ bad \in Faults /\ dead = bad
        /\ cycle = 0 /\ confirmed = FALSE /\ work = {}
        /\ streak = 0 /\ budget = 0 /\ seen = {} /\ burst = 0
        /\ line_rate \in LineRates
        /\ rdr \in Byte \cup {NoByte} /\ ore = FALSE
        /\ wd = 0
        /\ arrived = {} /\ held = 0 /\ heldonly = 0
        /\ unwritten = FALSE

\* uart_init(): an overrun and a byte from before the jump are dropped.
uart_init == /\ rdr' = IF Alive("usart1") THEN NoByte ELSE rdr
             /\ ore' = FALSE

\* The bootloader takes the request, then gives the image up or counts an attempt and
\* starts it.
Boot == /\ pc = "boot"
        /\ boot_request' = FALSE /\ unwritten' = FALSE
        /\ IF slot = "TESTING" /\ attempts >= MAX_BOOT_FAILURES
           THEN pc' = "fallback" /\ UNCHANGED <<attempts, usart1>>
           ELSE /\ pc' = "start"
                /\ attempts' = IF slot = "TESTING" THEN attempts + 1 ELSE attempts
                /\ uart_init
        /\ arrived' = {rdr'} \ {NoByte}
        /\ UNCHANGED <<slot, bad, line_rate, dead, progress, work, poll, wd, held, heldonly>>

\* The independent watchdog: nothing the loop does comes later than this.
WatchdogBites == /\ Running /\ wd >= Watchdog
                 /\ Reset
                 /\ UNCHANGED <<lasting, rdr>>

-----------------------------------------------------------------------------
(* One pass of the main loop *)

CapPolls(n) == IF n > OTA_CONFIRM_POLLS THEN OTA_CONFIRM_POLLS ELSE n

At(p) == pc = p /\ wd < Watchdog
Goto(p) == pc' = p

\* Mutant of Puts: a character that does not leave in time is given up.
PutsBounded == TRUE

\* uart_puts() waits for TXE at every character, without a bound.
Puts == Alive("usart2")

Start == /\ At("start") /\ Puts
         /\ Goto("blink")
         /\ UNCHANGED <<lasting, dead, progress, work, poll, usart1, wd, line>>

\* The LED is read back, then the delay.
Blink == /\ At("blink")
         /\ work' = IF Alive("gpio") THEN {"WORK_BLINK"} ELSE {}
         /\ \E n \in 1..PassTicks : wd' = wd + n
         /\ cycle' = IF cycle < CYCLES_BEFORE_CONFIRMATION THEN cycle + 1 ELSE cycle
         /\ Goto("report")
         /\ UNCHANGED <<lasting, dead, confirmed, poll, usart1, line>>

Report == /\ At("report") /\ Puts
          /\ Goto("tc")
          /\ UNCHANGED <<lasting, dead, progress, work, poll, usart1, wd, line>>

\* Mutant of Sent: TC is looked at once, right after the last character.
SentAtOnce == work

\* TC within the budget
Sent == IF Alive("usart2") THEN work \cup {"WORK_REPORT"} ELSE work

\* The evidence of the report, then ota_trigger_poll() begins.
AwaitTC == /\ At("tc")
           /\ work' = Sent
           /\ budget' = DrainBudget /\ seen' = {} /\ burst' = 0
           /\ Goto("getc")
           /\ UNCHANGED <<lasting, dead, cycle, confirmed, streak, usart1, wd, line>>

\* Mutant of Streak: a poll that read something else does not count back.
StreakNoReset(s) == IF s = {"U"} THEN streak + 1 ELSE streak

\* What a poll that has read the values s makes of the streak.
Streak(s) == IF s = {"U"} THEN streak + 1 ELSE 0

\* Mutant of Requested: one poll is enough.
RequestedByOne(n) == n >= 1

Requested(n) == n >= OTA_CONFIRM_POLLS

\* Mutant of ClearOverrun: uart_getc() leaves ORE alone.
ClearOverrunNever == UNCHANGED ore

\* Mutant of Spend: the drain ends when the register is empty.
SpendNothing(n) == n

Spend(n) == n - 1

\* uart_getc(): ORE first, then RXNE.
ClearOverrun == ore' = IF Alive("usart1") THEN FALSE ELSE ore

GetcOre == /\ At("getc") /\ budget > 0
           /\ ClearOverrun
           /\ Goto("rdr")
           /\ UNCHANGED <<lasting, dead, progress, work, poll, rdr, wd, line>>

GetcByte == /\ At("rdr") /\ rdr # NoByte /\ Alive("usart1")
            /\ seen' = seen \cup {rdr}
            /\ rdr' = NoByte
            /\ budget' = Spend(budget)
            /\ Goto("getc")
            /\ UNCHANGED <<lasting, dead, progress, work, streak, burst, ore, wd, line>>

\* The drain ends with an empty register or with its budget.
PollOver == \/ pc = "rdr" /\ (rdr = NoByte \/ ~Alive("usart1"))
            \/ pc = "getc" /\ budget = 0

\* A request sets the flag word and resets the board.
Request == /\ PollOver /\ wd < Watchdog
           /\ Requested(Streak(seen)) /\ Puts
           /\ boot_request' = TRUE
           /\ Reset
           /\ UNCHANGED <<metadata, bad, line_rate, unwritten, rdr>>

NoRequest == /\ PollOver /\ wd < Watchdog
             /\ ~Requested(Streak(seen))
             /\ Goto("link")
             /\ streak' = Streak(seen)
             /\ budget' = 0 /\ seen' = {} /\ burst' = 0
             /\ arrived' = {rdr} \ {NoByte}
             /\ held' = IF "U" \in arrived THEN CapPolls(held + 1) ELSE 0
             /\ heldonly' = IF arrived = {"U"} /\ Alive("usart1") THEN CapPolls(heldonly + 1) ELSE 0
             /\ UNCHANGED <<lasting, dead, progress, work, usart1, wd>>

WORK_ALL == {"WORK_BLINK", "WORK_REPORT", "WORK_LINK"}

Linked == IF Alive("usart1") THEN work \cup {"WORK_LINK"} ELSE work

ConfirmDue == ~confirmed /\ cycle >= CYCLES_BEFORE_CONFIRMATION

\* confirm_startup() may fail to write the record; confirmed is set all the same.
Confirm == /\ At("link") /\ ConfirmDue /\ Puts
           /\ confirmed' = TRUE
           /\ \/ slot' = "VALID" /\ attempts' = 0
              \/ UNCHANGED metadata
           /\ unwritten' = (slot' # "VALID")
           /\ work' = Linked
           /\ Goto("feed")
           /\ UNCHANGED <<boot_request, bad, line_rate, dead, cycle, poll, usart1, wd, line>>

NotYet == /\ At("link") /\ ~ConfirmDue
          /\ work' = Linked
          /\ Goto("feed")
          /\ UNCHANGED <<lasting, dead, progress, poll, usart1, wd, line>>

\* Every place that prints: the request's and the confirmation's included.
Printing == \/ pc \in {"start", "report"}
            \/ pc = "link" /\ ConfirmDue
            \/ PollOver /\ Requested(Streak(seen))

Blocked == /\ Printing /\ ~Puts /\ wd < Watchdog
           /\ wd' = wd + 1
           /\ UNCHANGED <<pc, lasting, dead, progress, work, poll, usart1, line>>

\* iwdg_feed_if(work == WORK_ALL)
Feed == /\ At("feed")
        /\ wd' = IF work = WORK_ALL THEN 0 ELSE wd
        /\ Goto("blink")
        /\ UNCHANGED <<lasting, dead, progress, work, poll, usart1, line>>

-----------------------------------------------------------------------------
(* The world *)

Draining == pc \in {"getc", "rdr"}

\* The line keeps up with the processor: any number of bytes arrives during a drain.
Flooded == line_rate >= DrainBudget

\* A byte on the line: it is lost when the register is full or an overrun is pending.
Arrive(b) == /\ Running /\ Alive("usart1")
             /\ Draining => burst < line_rate \/ Flooded
             /\ burst' = IF Draining /\ ~Flooded THEN burst + 1 ELSE burst
             /\ arrived' = arrived \cup {b}
             /\ rdr' = IF rdr = NoByte /\ ~ore THEN b ELSE rdr
             /\ ore' = (ore \/ rdr # NoByte)
             /\ UNCHANGED <<pc, lasting, dead, progress, work, streak, budget, seen, wd>>
             /\ UNCHANGED <<held, heldonly>>

Break(p) == /\ Running /\ Alive(p)
            /\ dead' = dead \cup {p}
            /\ UNCHANGED <<pc, lasting, progress, work, poll, usart1, wd, line>>

Execute == \/ Boot \/ Start \/ Blink \/ Report \/ AwaitTC \/ GetcOre \/ GetcByte \/ Request
           \/ NoRequest \/ Confirm \/ NotYet \/ Feed \/ Blocked \/ WatchdogBites

Next == Execute \/ (\E b \in Byte : Arrive(b)) \/ (\E p \in Breakable : Break(p))

Spec == Init /\ [][Next]_vars

\* The processor executes, or waits while time passes until the watchdog ends it.
FairSpec == Spec /\ WF_vars(Execute)
-----------------------------------------------------------------------------
(* Properties *)

\* main.c:331, an application whose peripherals all work is never reset by the watchdog,
\* whatever comes over the line.
SoundNeverReset == dead = {} => wd < Watchdog

\* main.c:292, a request is the host's: a poll only counts when the trigger character came
\* since the poll before, so stray bytes fewer than the polls never reset the board.
OnlyHeldCounts == streak <= held

\* main.c:244 and 309, the receiver never goes deaf: every poll before which the host sent
\* nothing but the trigger character counts, whatever overruns it caused, on a line that is
\* slower than the drain (at 115200 baud a byte takes 87 us, the drain a few).
HeldIsCounted == line_rate + 1 < DrainBudget => heldonly <= streak

\* main.c:327, a host that streams without pause does not hold the loop in the drain: every
\* pass comes to its end, or the watchdog ends it.
PassEnds == Running ~> (pc \in {"feed", "boot", "fallback"})

\* main.c:105 and 111, a request costs no image an attempt: the polls it takes outlast the
\* cycles before the confirmation, so the boot that takes the request finds the image VALID
\* and counts nothing; except when the confirmation could not be written (main.c:586).
RequestsCostNothing ==
    [][boot_request /\ ~boot_request' => \/ pc' = "start" /\ attempts' = attempts
                                        \/ unwritten]_vars

\* An image whose reports never leave the board never confirms itself, and is given up.
SilentGivenUp == ("usart2" \in bad) ~> (pc = "fallback")
=============================================================================
