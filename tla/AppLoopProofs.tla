---------------------------- MODULE AppLoopProofs ----------------------------
(***************************************************************************)
(* What the main loop guarantees for every number of cycles, polls and     *)
(* attempts, every drain budget and line rate, any set of faulty images    *)
(* and any peripherals that fail while the image runs.  The invariant has  *)
(* one part for each question: the evidence and the time at every          *)
(* statement of a sound pass (SoundPass), the bytes a poll has read and    *)
(* those that were on the line (Heard), the balance of the drain against a *)
(* slow line (Counted), and how far an image that has not confirmed itself *)
(* can have come (Unconfirmed).                                            *)
(*                                                                         *)
(* The last part is what a proof can say of PassEnds and SilentGivenUp:    *)
(* a measure of what is left, which nothing outside the processor makes    *)
(* grow and every step of the processor makes smaller.                     *)
(***************************************************************************)
EXTENDS AppLoop, TLAPS

\* The values of the variables; a byte is read only within the budget.
TypeOK ==
    /\ pc \in {"boot", "fallback", "start", "blink", "report", "tc", "getc", "rdr", "link", "feed"}
    /\ slot \in {"TESTING", "VALID"} /\ attempts \in Nat /\ boot_request \in BOOLEAN
    /\ bad \subseteq Peripheral /\ dead \subseteq Peripheral
    /\ cycle \in Nat /\ confirmed \in BOOLEAN /\ work \subseteq WORK_ALL
    /\ streak \in Nat /\ budget \in Nat /\ burst \in Nat /\ seen \subseteq Byte
    /\ line_rate \in Nat /\ rdr \in Byte \cup {NoByte} /\ ore \in BOOLEAN
    /\ wd \in Nat
    /\ arrived \subseteq Byte /\ held \in Nat /\ heldonly \in Nat /\ unwritten \in BOOLEAN
    /\ pc = "rdr" => budget > 0

\* With every peripheral alive: the evidence each statement finds collected, and the time
\* since the refresh.
SoundPass == dead = {} =>
    \/ pc \in {"boot", "fallback", "start", "blink"} /\ wd = 0
    \/ wd <= PassTicks /\ \/ pc \in {"report", "tc"} /\ work = {"WORK_BLINK"}
                          \/ pc \in {"getc", "rdr", "link"} /\ work = {"WORK_BLINK", "WORK_REPORT"}
                          \/ pc = "feed" /\ work = WORK_ALL

\* What is read was on the line since the last poll; a poll that would complete a request
\* never gets past it.
Heard == /\ seen \subseteq arrived
         /\ ~Draining => seen = {}
         /\ Running => rdr \in arrived \cup {NoByte}
         /\ streak <= held /\ streak < OTA_CONFIRM_POLLS

\* A line the drain outruns.  The bytes read and the one that waits are no more than the one
\* that waited when the poll began and those that came since; so the register is empty when
\* the poll ends, without a pending overrun, and whatever came has been seen.
Slow == line_rate + 1 < DrainBudget
Waiting == IF rdr = NoByte THEN 0 ELSE 1
Balance == /\ Draining => burst <= line_rate /\ DrainBudget + Waiting <= budget + 1 + burst
           /\ Draining /\ budget < DrainBudget => seen # {}
Kept == /\ pc = "boot" => ~ore
        /\ Running /\ Alive("usart1") => /\ ore /\ rdr = NoByte => pc = "getc" /\ seen # {}
                                         /\ arrived # {} => rdr # NoByte \/ seen # {}
Counted == Slow => Balance /\ Kept /\ heldonly <= streak

\* An unconfirmed image: only the pass under way can have reached the last cycle, and no
\* pass makes more than one poll.
Unconfirmed == ~confirmed =>
    \/ pc \in {"boot", "fallback"} /\ streak = 0 /\ cycle = 0
    \/ pc \in {"start", "blink", "feed"} /\ streak <= cycle /\ cycle < CYCLES_BEFORE_CONFIRMATION
    \/ pc \in {"report", "tc", "getc", "rdr"} /\ streak < cycle /\ cycle <= CYCLES_BEFORE_CONFIRMATION
    \/ pc = "link" /\ streak <= cycle /\ cycle <= CYCLES_BEFORE_CONFIRMATION

AppInv == TypeOK /\ SoundPass /\ Heard /\ Counted /\ Unconfirmed

-----------------------------------------------------------------------------
(* The constants and the streak *)

LEMMA ConstantFacts ==
  /\ CYCLES_BEFORE_CONFIRMATION \in Nat /\ CYCLES_BEFORE_CONFIRMATION > 0
  /\ OTA_CONFIRM_POLLS \in Nat /\ OTA_CONFIRM_POLLS > 0
  /\ DrainBudget \in Nat /\ DrainBudget > 0
  /\ MAX_BOOT_FAILURES \in Nat
  /\ PassTicks \in Nat /\ Watchdog \in Nat /\ PassTicks < Watchdog
  BY AppAssumption

LEMMA CapFacts ==
  ASSUME NEW n \in Nat
  PROVE  /\ CapPolls(n) \in Nat /\ CapPolls(n) <= n
         /\ \A k \in Nat : k < OTA_CONFIRM_POLLS /\ k <= n => k <= CapPolls(n)
  BY ConstantFacts DEF CapPolls

\* The line begins a poll with what is left in the data register.
LEMMA LeftFacts ==
  ASSUME NEW r \in Byte \cup {NoByte}
  PROVE  /\ {r} \ {NoByte} \subseteq Byte
         /\ r \in ({r} \ {NoByte}) \cup {NoByte}
         /\ {r} \ {NoByte} # {} => r # NoByte
  OBVIOUS

\* What is left of the receiver when the application starts.
LEMMA BootFacts ==
  ASSUME TypeOK, Boot
  PROVE  /\ pc = "boot" /\ pc' \in {"start", "fallback"}
         /\ rdr' \in Byte \cup {NoByte} /\ ore' \in BOOLEAN
         /\ arrived' = {rdr'} \ {NoByte}
         /\ ore' => ore
<1>1. pc' = "fallback" => rdr' = rdr /\ ore' = ore
  BY DEF Boot, usart1
<1>2. pc' = "start" => rdr' \in {rdr, NoByte} /\ ore' = FALSE
  BY DEF Boot, uart_init
<1>3. /\ pc = "boot" /\ pc' \in {"start", "fallback"}
      /\ arrived' = {rdr'} \ {NoByte}
  BY DEF Boot
<1>4. rdr \in Byte \cup {NoByte} /\ ore \in BOOLEAN
  BY DEF TypeOK
<1>5. CASE pc' = "fallback"
  BY <1>1, <1>3, <1>4, <1>5
<1>6. CASE pc' = "start"
  BY <1>2, <1>3, <1>4, <1>6
<1>7. QED
  BY <1>3, <1>5, <1>6

\* A poll that makes no request leaves a streak shorter than a request's, and at most one
\* longer than before.
LEMMA StreakFacts ==
  ASSUME streak \in Nat
  PROVE  /\ Streak(seen) \in Nat /\ Streak(seen) <= streak + 1
         /\ ~Requested(Streak(seen)) => Streak(seen) < OTA_CONFIRM_POLLS
         /\ Streak(seen) # 0 => seen = {"U"}
  BY ConstantFacts DEF Streak, Requested

-----------------------------------------------------------------------------
(* Each part is kept by every step *)

LEMMA TypeStep ==
  ASSUME TypeOK, [Next]_vars
  PROVE  TypeOK'
<1> USE ConstantFacts DEF TypeOK, metadata, lasting, progress, poll, usart1, line
<1>1. CASE Boot
  <2>1. pc' \in {"start", "fallback"} /\ attempts' \in Nat
    BY <1>1 DEF Boot
  <2>2. rdr' \in Byte \cup {NoByte} /\ ore' \in BOOLEAN /\ arrived' \subseteq Byte
    BY <1>1, BootFacts, LeftFacts
  <2>3. QED
    BY <1>1, <2>1, <2>2 DEF Boot
<1>2. CASE Start
  BY <1>2 DEF Start, At, Goto
<1>3. CASE Blink
  BY <1>3 DEF Blink, At, Goto, WORK_ALL
<1>4. CASE Report
  BY <1>4 DEF Report, At, Goto
<1>5. CASE AwaitTC
  BY <1>5 DEF AwaitTC, At, Goto, Sent, WORK_ALL
<1>6. CASE GetcOre
  BY <1>6 DEF GetcOre, At, Goto, ClearOverrun
<1>7. CASE GetcByte
  BY <1>7 DEF GetcByte, At, Goto, Spend
<1>8. CASE Request
  BY <1>8 DEF Request, Reset
<1>9. CASE NoRequest
  BY <1>9, LeftFacts, CapFacts, StreakFacts DEF NoRequest, Goto
<1>10. CASE Confirm
  BY <1>10 DEF Confirm, At, Goto, Linked, WORK_ALL
<1>11. CASE NotYet
  BY <1>11 DEF NotYet, At, Goto, Linked, WORK_ALL
<1>12. CASE Feed
  BY <1>12 DEF Feed, At, Goto
<1>13. CASE Blocked
  BY <1>13 DEF Blocked
<1>14. CASE WatchdogBites
  BY <1>14 DEF WatchdogBites, Reset
<1>15. ASSUME NEW b \in Byte, Arrive(b) PROVE TypeOK'
  BY <1>15 DEF Arrive
<1>16. ASSUME NEW p \in Breakable, Break(p) PROVE TypeOK'
  BY <1>16, AppAssumption DEF Break
<1>17. CASE UNCHANGED vars
  BY <1>17 DEF vars
<1>18. QED
  BY <1>1, <1>2, <1>3, <1>4, <1>5, <1>6, <1>7, <1>8, <1>9,
     <1>10, <1>11, <1>12, <1>13, <1>14, <1>15, <1>16, <1>17 DEF Next, Execute

LEMMA SoundStep ==
  ASSUME TypeOK, SoundPass, [Next]_vars
  PROVE  SoundPass'
<1> USE ConstantFacts DEF TypeOK, SoundPass, metadata, lasting, progress, poll, usart1, line
<1>1. CASE Boot
  BY <1>1 DEF Boot
<1>2. CASE Start
  BY <1>2 DEF Start, At, Goto
<1>3. CASE Blink
  BY <1>3 DEF Blink, At, Goto, Alive
<1>4. CASE Report
  BY <1>4 DEF Report, At, Goto
<1>5. CASE AwaitTC
  BY <1>5 DEF AwaitTC, At, Goto, Sent, Alive
<1>6. CASE GetcOre
  BY <1>6 DEF GetcOre, At, Goto, ClearOverrun
<1>7. CASE GetcByte
  BY <1>7 DEF GetcByte, At, Goto, Spend
<1>8. CASE Request
  BY <1>8 DEF Request, Reset
<1>9. CASE NoRequest
  BY <1>9 DEF NoRequest, Goto, PollOver
<1>10. CASE Confirm
  BY <1>10 DEF Confirm, At, Goto, Linked, Alive, Puts, WORK_ALL
<1>11. CASE NotYet
  BY <1>11 DEF NotYet, At, Goto, Linked, Alive, WORK_ALL
<1>12. CASE Feed
  BY <1>12 DEF Feed, At, Goto
<1>13. CASE Blocked
  BY <1>13 DEF Blocked, Alive, Puts, Printing
<1>14. CASE WatchdogBites
  BY <1>14 DEF WatchdogBites, Reset
<1>15. ASSUME NEW b \in Byte, Arrive(b) PROVE SoundPass'
  BY <1>15 DEF Arrive
<1>16. ASSUME NEW p \in Breakable, Break(p) PROVE SoundPass'
  BY <1>16 DEF Break
<1>17. CASE UNCHANGED vars
  BY <1>17 DEF vars
<1>18. QED
  BY <1>1, <1>2, <1>3, <1>4, <1>5, <1>6, <1>7, <1>8, <1>9,
     <1>10, <1>11, <1>12, <1>13, <1>14, <1>15, <1>16, <1>17 DEF Next, Execute

LEMMA HeardStep ==
  ASSUME TypeOK, Heard, [Next]_vars
  PROVE  Heard'
<1> USE ConstantFacts DEF TypeOK, Heard, Running, Draining,
                          metadata, lasting, progress, poll, usart1, line
<1>1. CASE Boot
  BY <1>1, BootFacts, LeftFacts DEF Boot
<1>2. CASE Start
  BY <1>2 DEF Start, At, Goto
<1>3. CASE Blink
  BY <1>3 DEF Blink, At, Goto
<1>4. CASE Report
  BY <1>4 DEF Report, At, Goto
<1>5. CASE AwaitTC
  BY <1>5 DEF AwaitTC, At, Goto, Sent
<1>6. CASE GetcOre
  BY <1>6 DEF GetcOre, At, Goto, ClearOverrun
<1>7. CASE GetcByte
  BY <1>7 DEF GetcByte, At, Goto, Spend
<1>8. CASE Request
  BY <1>8 DEF Request, Reset
<1>9. CASE NoRequest
  BY <1>9, LeftFacts, CapFacts, StreakFacts DEF NoRequest, Goto, PollOver
<1>10. CASE Confirm
  BY <1>10 DEF Confirm, At, Goto, Linked
<1>11. CASE NotYet
  BY <1>11 DEF NotYet, At, Goto, Linked
<1>12. CASE Feed
  BY <1>12 DEF Feed, At, Goto
<1>13. CASE Blocked
  BY <1>13 DEF Blocked
<1>14. CASE WatchdogBites
  BY <1>14 DEF WatchdogBites, Reset
<1>15. ASSUME NEW b \in Byte, Arrive(b) PROVE Heard'
  BY <1>15 DEF Arrive
<1>16. ASSUME NEW p \in Breakable, Break(p) PROVE Heard'
  BY <1>16 DEF Break
<1>17. CASE UNCHANGED vars
  BY <1>17 DEF vars
<1>18. QED
  BY <1>1, <1>2, <1>3, <1>4, <1>5, <1>6, <1>7, <1>8, <1>9,
     <1>10, <1>11, <1>12, <1>13, <1>14, <1>15, <1>16, <1>17 DEF Next, Execute

LEMMA CountedStep ==
  ASSUME TypeOK, Heard, Counted, [Next]_vars
  PROVE  Counted'
<1> USE ConstantFacts DEF TypeOK, Counted, Balance, Kept, Slow, Waiting, Running, Draining, Alive,
                          metadata, lasting, progress, poll, usart1, line
<1>1. CASE Boot
  BY <1>1, BootFacts, LeftFacts DEF Boot
<1>2. CASE Start
  BY <1>2 DEF Start, At, Goto
<1>3. CASE Blink
  BY <1>3 DEF Blink, At, Goto
<1>4. CASE Report
  BY <1>4 DEF Report, At, Goto
<1>5. CASE AwaitTC
  BY <1>5 DEF AwaitTC, At, Goto, Sent, Heard
<1>6. CASE GetcOre
  BY <1>6 DEF GetcOre, At, Goto, ClearOverrun
<1>7. CASE GetcByte
  BY <1>7 DEF GetcByte, At, Goto, Spend
<1>8. CASE Request
  BY <1>8 DEF Request, Reset
<1>9. CASE NoRequest
  <2> SUFFICES ASSUME Slow PROVE (Balance /\ Kept /\ heldonly <= streak)'
    BY <1>9 DEF NoRequest
  <2>1. (Balance /\ Kept)'
    BY <1>9, LeftFacts DEF NoRequest, Goto, PollOver
  <2>2. CASE arrived = {"U"} /\ Alive("usart1")
    <3>1. seen # {}
      BY <1>9, <2>2 DEF NoRequest, PollOver
    <3>2. seen = {"U"}
      BY <2>2, <3>1 DEF Heard
    <3>3. Streak(seen) = streak + 1
      BY <3>2 DEF Streak
    <3>4. heldonly' = CapPolls(heldonly + 1) /\ streak' = Streak(seen)
      BY <1>9, <2>2 DEF NoRequest
    <3>5. heldonly' <= heldonly + 1 /\ heldonly + 1 <= streak + 1
      BY <3>4, CapFacts
    <3>6. QED
      BY <2>1, <3>3, <3>4, <3>5, CapFacts
  <2>3. CASE ~(arrived = {"U"} /\ Alive("usart1"))
    <3>1. heldonly' = 0 /\ streak' = Streak(seen)
      BY <1>9, <2>3 DEF NoRequest
    <3>2. QED
      BY <2>1, <3>1, StreakFacts
  <2>4. QED
    BY <2>2, <2>3
<1>10. CASE Confirm
  BY <1>10 DEF Confirm, At, Goto, Linked
<1>11. CASE NotYet
  BY <1>11 DEF NotYet, At, Goto, Linked
<1>12. CASE Feed
  BY <1>12 DEF Feed, At, Goto
<1>13. CASE Blocked
  BY <1>13 DEF Blocked
<1>14. CASE WatchdogBites
  BY <1>14 DEF WatchdogBites, Reset
<1>15. ASSUME NEW b \in Byte, Arrive(b) PROVE Counted'
  <2> SUFFICES ASSUME Slow PROVE (Balance /\ Kept /\ heldonly <= streak)'
    BY <1>15 DEF Arrive
  <2>1. ~Flooded /\ b # NoByte
    BY DEF Flooded, Byte, NoByte
  <2>2. Balance'
    BY <1>15, <2>1 DEF Arrive
  <2>3. Kept'
    BY <1>15, <2>1 DEF Arrive
  <2>4. QED
    BY <1>15, <2>2, <2>3 DEF Arrive
<1>16. ASSUME NEW p \in Breakable, Break(p) PROVE Counted'
  BY <1>16 DEF Break
<1>17. CASE UNCHANGED vars
  BY <1>17 DEF vars
<1>18. QED
  BY <1>1, <1>2, <1>3, <1>4, <1>5, <1>6, <1>7, <1>8, <1>9,
     <1>10, <1>11, <1>12, <1>13, <1>14, <1>15, <1>16, <1>17 DEF Next, Execute

LEMMA UnconfirmedStep ==
  ASSUME TypeOK, Unconfirmed, [Next]_vars
  PROVE  Unconfirmed'
<1> USE ConstantFacts DEF TypeOK, Unconfirmed, metadata, lasting, progress, poll, usart1, line
<1>1. CASE Boot
  BY <1>1 DEF Boot
<1>2. CASE Start
  BY <1>2 DEF Start, At, Goto
<1>3. CASE Blink
  BY <1>3 DEF Blink, At, Goto
<1>4. CASE Report
  BY <1>4 DEF Report, At, Goto
<1>5. CASE AwaitTC
  BY <1>5 DEF AwaitTC, At, Goto, Sent
<1>6. CASE GetcOre
  BY <1>6 DEF GetcOre, At, Goto, ClearOverrun
<1>7. CASE GetcByte
  BY <1>7 DEF GetcByte, At, Goto, Spend
<1>8. CASE Request
  BY <1>8 DEF Request, Reset
<1>9. CASE NoRequest
  BY <1>9, StreakFacts DEF NoRequest, Goto, PollOver
<1>10. CASE Confirm
  BY <1>10 DEF Confirm, At, Goto, Linked, ConfirmDue
<1>11. CASE NotYet
  BY <1>11 DEF NotYet, At, Goto, Linked, ConfirmDue
<1>12. CASE Feed
  BY <1>12 DEF Feed, At, Goto
<1>13. CASE Blocked
  BY <1>13 DEF Blocked
<1>14. CASE WatchdogBites
  BY <1>14 DEF WatchdogBites, Reset
<1>15. ASSUME NEW b \in Byte, Arrive(b) PROVE Unconfirmed'
  BY <1>15 DEF Arrive
<1>16. ASSUME NEW p \in Breakable, Break(p) PROVE Unconfirmed'
  BY <1>16 DEF Break
<1>17. CASE UNCHANGED vars
  BY <1>17 DEF vars
<1>18. QED
  BY <1>1, <1>2, <1>3, <1>4, <1>5, <1>6, <1>7, <1>8, <1>9,
     <1>10, <1>11, <1>12, <1>13, <1>14, <1>15, <1>16, <1>17 DEF Next, Execute

-----------------------------------------------------------------------------
(* The theorems *)

LEMMA InitInv == Init => AppInv
<1> SUFFICES ASSUME Init PROVE AppInv
  OBVIOUS
<1> USE ConstantFacts DEF Init
<1>1. TypeOK
  BY AppAssumption DEF TypeOK
<1>2. SoundPass /\ Unconfirmed
  BY DEF SoundPass, Unconfirmed
<1>3. Heard /\ Counted
  BY DEF Heard, Running, Draining, Counted, Balance, Kept
<1>4. QED
  BY <1>1, <1>2, <1>3 DEF AppInv

LEMMA StepInv == AppInv /\ [Next]_vars => AppInv'
  BY TypeStep, SoundStep, HeardStep, CountedStep, UnconfirmedStep DEF AppInv

\* In every reachable state the parts above hold: main() has collected the evidence and
\* spent the time its place in the pass says, and its receiver has lost nothing that a slow
\* line brought.
THEOREM AppInvariance == Spec => []AppInv
<1>1. QED
  BY InitInv, StepInv, PTL DEF Spec

\* Type correctness of the loop: a poll reads a byte only within its budget.
THEOREM TypeCorrect == Spec => []TypeOK
<1>1. AppInv => TypeOK
  BY DEF AppInv
<1>2. QED
  BY <1>1, AppInvariance, PTL

\* An application whose peripherals all work is never reset by the watchdog
\* (main.c:331), however many bytes come over the line and whatever the period of the
\* watchdog, if it is longer than a pass.
THEOREM SoundNeverResetHolds == Spec => []SoundNeverReset
<1>1. AppInv => SoundNeverReset
  BY ConstantFacts DEF AppInv, TypeOK, SoundPass, SoundNeverReset
<1>2. QED
  BY <1>1, AppInvariance, PTL

\* No poll counts toward a request (main.c:292) unless the trigger character came since
\* the poll before, whatever the bytes on the line, the overruns and the polls required.
THEOREM OnlyHeldCountsHolds == Spec => []OnlyHeldCounts
<1>1. AppInv => OnlyHeldCounts
  BY DEF AppInv, Heard, OnlyHeldCounts
<1>2. QED
  BY <1>1, AppInvariance, PTL

\* On any line slower than the drain, every poll before which the host sent nothing but the
\* trigger character counts (main.c:244 and 309), whatever overruns it caused.
THEOREM HeldIsCountedHolds == Spec => []HeldIsCounted
<1>1. AppInv => HeldIsCounted
  BY DEF AppInv, Counted, Slow, HeldIsCounted
<1>2. QED
  BY <1>1, AppInvariance, PTL

\* A request that waits for its boot was made by an image whose record says VALID, or whose
\* confirmation could not be written.
Recorded == slot = "VALID" \/ unwritten
Asked == /\ pc \in {"boot", "fallback"} => ~confirmed
         /\ confirmed => Recorded
         /\ boot_request => pc = "boot" /\ Recorded

LEMMA AskedStep ==
  ASSUME CYCLES_BEFORE_CONFIRMATION < OTA_CONFIRM_POLLS, AppInv, Asked, [Next]_vars
  PROVE  Asked'
<1> USE DEF Asked, Recorded, metadata, lasting, progress
<1>1. CASE Boot
  BY <1>1 DEF Boot
<1>2. CASE Start \/ Blink \/ Report \/ AwaitTC \/ GetcOre \/ GetcByte \/ NotYet \/ Feed
  BY <1>2 DEF Start, Blink, Report, AwaitTC, GetcOre, GetcByte, NotYet, Feed, At, Goto
<1>3. CASE Request
  <2>1. pc \in {"getc", "rdr"} /\ streak + 1 >= OTA_CONFIRM_POLLS
    BY <1>3, StreakFacts, ConstantFacts DEF Request, PollOver, Requested, AppInv, TypeOK
  <2>2. confirmed
    BY <2>1, ConstantFacts DEF AppInv, TypeOK, Unconfirmed
  <2>3. QED
    BY <1>3, <2>2 DEF Request, Reset
<1>4. CASE NoRequest
  BY <1>4 DEF NoRequest, PollOver, Goto
<1>5. CASE Confirm
  BY <1>5 DEF Confirm, At, Goto
<1>6. CASE Blocked
  BY <1>6 DEF Blocked
<1>7. CASE WatchdogBites
  BY <1>7 DEF WatchdogBites, Running, Reset
<1>8. ASSUME NEW b \in Byte, Arrive(b) PROVE Asked'
  BY <1>8 DEF Arrive
<1>9. ASSUME NEW p \in Breakable, Break(p) PROVE Asked'
  BY <1>9 DEF Break
<1>10. CASE UNCHANGED vars
  BY <1>10 DEF vars
<1>11. QED
  BY <1>1, <1>2, <1>3, <1>4, <1>5, <1>6, <1>7, <1>8, <1>9, <1>10 DEF Next, Execute

\* When a request takes more polls than the confirmation takes cycles (main.c:105 and 111:
\* 3 and 4), the boot that takes it counts no attempt and starts the same image, unless the
\* confirmation's write failed: for any number of cycles, polls and attempts.
THEOREM RequestsCostNothingHolds ==
  ASSUME CYCLES_BEFORE_CONFIRMATION < OTA_CONFIRM_POLLS
  PROVE  Spec => RequestsCostNothing
<1>1. Init => Asked
  BY DEF Init, Asked
<1>2. AppInv /\ Asked /\ [Next]_vars => Asked'
  BY AskedStep
<1>3. AppInv /\ Asked /\ [Next]_vars =>
        [boot_request /\ ~boot_request' => (pc' = "start" /\ attempts' = attempts) \/ unwritten]_vars
  <2> SUFFICES ASSUME Asked, Next, boot_request, ~boot_request', ~unwritten
               PROVE  pc' = "start" /\ attempts' = attempts
    OBVIOUS
  <2>1. pc = "boot" /\ slot = "VALID"
    BY DEF Asked, Recorded
  <2>2. boot_request' = boot_request \/ Request \/ Boot
    BY DEF Next, Execute, Start, Blink, Report, AwaitTC, GetcOre, GetcByte, NoRequest, Confirm,
           NotYet, Feed, Blocked, WatchdogBites, Arrive, Break, lasting
  <2>3. Boot
    BY <2>1, <2>2 DEF Request, PollOver
  <2>4. QED
    BY <2>1, <2>3 DEF Boot
<1>4. QED
  BY <1>1, <1>2, <1>3, AppInvariance, PTL DEF Spec, RequestsCostNothing

-----------------------------------------------------------------------------
(* A pass comes to its end, a silent image to its own *)

\* Statements of the pass that are left, with the bytes the drain may still read, and the
\* time the watchdog still allows.
StatementsLeft == CASE pc = "start" -> 2 * DrainBudget + 6
                    [] pc = "blink" -> 2 * DrainBudget + 5
                    [] pc = "report" -> 2 * DrainBudget + 4
                    [] pc = "tc" -> 2 * DrainBudget + 3
                    [] pc = "getc" -> 2 * budget + 2
                    [] pc = "rdr" -> 2 * budget + 1
                    [] pc = "link" -> 1
                    [] OTHER -> 0
PassLeft == StatementsLeft + (Watchdog + PassTicks - wd)

\* main.c:327, whatever comes over the line and whatever breaks: neither a byte nor a dying
\* peripheral puts the end of a pass off, and every step of the processor brings it nearer.
PassCourse ==
    [][Running /\ pc # "feed" =>
          \/ pc' \in {"feed", "boot"}
          \/ PassLeft' \in Nat /\ PassLeft' <= PassLeft /\ (Execute => PassLeft' < PassLeft)]_vars

\* Steps until an image that cannot report is given up: those of the attempts left, and the
\* wait of the one under way.
SilentLeft == (MAX_BOOT_FAILURES - attempts) * (Watchdog + 2)
                + CASE pc = "boot" -> 1 [] pc = "start" -> Watchdog - wd + 2 [] OTHER -> 0

\* An image whose reports never leave the board gets no further than its first one, is
\* counted at every start, and every step of the processor brings the fallback nearer.
SilentCourse ==
    [][("usart2" \in bad) =>
          /\ "usart2" \in bad' /\ pc' \in {"boot", "start", "fallback"} /\ attempts' <= MAX_BOOT_FAILURES
          /\ \/ pc' = "fallback"
             \/ /\ SilentLeft' \in Nat /\ SilentLeft' <= SilentLeft
                /\ Execute => SilentLeft' < SilentLeft]_vars

\* The watchdog's time, and how far an image gets that cannot report.
TimeBound == wd <= Watchdog + PassTicks
Silenced == "usart2" \in bad =>
    /\ "usart2" \in dead /\ slot = "TESTING" /\ attempts <= MAX_BOOT_FAILURES
    /\ pc \in {"boot", "start", "fallback"} /\ wd <= Watchdog
    /\ pc = "boot" => wd = 0

CourseInv == TypeOK /\ TimeBound /\ Silenced

LEMMA TimeStep ==
  ASSUME TypeOK, TimeBound, [Next]_vars
  PROVE  TimeBound'
<1> USE ConstantFacts DEF TimeBound, TypeOK
<1>1. CASE wd' = wd \/ wd' = 0
  BY <1>1
<1>2. CASE Blink
  BY <1>2 DEF Blink, At
<1>3. CASE Blocked
  BY <1>3 DEF Blocked
<1>4. Next => wd' = wd \/ wd' = 0 \/ Blink \/ Blocked
  BY DEF Next, Execute, Boot, Start, Report, AwaitTC, GetcOre, GetcByte, Request, NoRequest,
         Confirm, NotYet, Feed, WatchdogBites, Reset, Arrive, Break
<1>5. QED
  BY <1>1, <1>2, <1>3, <1>4 DEF vars

\* What the steps of an image that cannot report are.
LEMMA SilentSteps ==
  ASSUME TypeOK, Silenced, "usart2" \in bad, [Next]_vars
  PROVE  /\ "usart2" \in bad' /\ "usart2" \in dead' /\ slot' = "TESTING"
         /\ \/ Boot
            \/ Blocked /\ pc = "start" /\ attempts' = attempts
            \/ WatchdogBites /\ attempts' = attempts
            \/ ~Execute /\ pc' = pc /\ attempts' = attempts /\ wd' = wd
<1>1. "usart2" \in dead /\ slot = "TESTING" /\ pc \in {"boot", "start", "fallback"}
  BY DEF Silenced
<1>2. ~Puts
  BY <1>1 DEF Puts, Alive
<1>3. Execute => Boot \/ Blocked \/ WatchdogBites
  BY <1>1, <1>2 DEF Execute, Start, Blink, Report, AwaitTC, GetcOre, GetcByte, Request, NoRequest,
                    Confirm, NotYet, Feed, At, PollOver
<1>4. CASE Boot
  BY <1>1, <1>4 DEF Boot
<1>5. CASE Blocked
  BY <1>1, <1>5 DEF Blocked, Printing, PollOver, lasting, metadata
<1>6. CASE WatchdogBites
  BY <1>1, <1>6 DEF WatchdogBites, Reset, lasting, metadata
<1>7. CASE ~Execute /\ UNCHANGED vars
  BY <1>1, <1>7 DEF vars, lasting, metadata
<1>8. ASSUME ~Execute, NEW b \in Byte, Arrive(b)
      PROVE  "usart2" \in bad' /\ "usart2" \in dead' /\ slot' = "TESTING"
             /\ pc' = pc /\ attempts' = attempts /\ wd' = wd
  BY <1>1, <1>8 DEF Arrive, lasting, metadata
<1>9. ASSUME ~Execute, NEW p \in Breakable, Break(p)
      PROVE  "usart2" \in bad' /\ "usart2" \in dead' /\ slot' = "TESTING"
             /\ pc' = pc /\ attempts' = attempts /\ wd' = wd
  BY <1>1, <1>9 DEF Break, lasting, metadata
<1>10. CASE Execute
  BY <1>3, <1>4, <1>5, <1>6, <1>10
<1>11. CASE ~Execute
  BY <1>7, <1>8, <1>9, <1>11 DEF Next
<1>12. QED
  BY <1>10, <1>11

LEMMA AttemptsLeft ==
  ASSUME NEW a \in Nat, a <= MAX_BOOT_FAILURES
  PROVE  /\ (MAX_BOOT_FAILURES - a) * (Watchdog + 2) \in Nat
         /\ a < MAX_BOOT_FAILURES =>
              (MAX_BOOT_FAILURES - (a + 1)) * (Watchdog + 2)
                = (MAX_BOOT_FAILURES - a) * (Watchdog + 2) - (Watchdog + 2)
<1>1. PICK m \in Nat : m = MAX_BOOT_FAILURES - a
  BY ConstantFacts
<1>2. PICK w \in Nat : w = Watchdog + 2
  BY ConstantFacts
<1>3. m * w \in Nat /\ (m - 1) * w = m * w - w
  BY <1>1, <1>2
<1>4. MAX_BOOT_FAILURES - (a + 1) = m - 1
  BY <1>1, ConstantFacts
<1>5. QED
  BY <1>1, <1>2, <1>3, <1>4

LEMMA SilentStep ==
  ASSUME TypeOK, Silenced, "usart2" \in bad, [Next]_vars
  PROVE  /\ Silenced'
         /\ "usart2" \in bad' /\ pc' \in {"boot", "start", "fallback"} /\ attempts' <= MAX_BOOT_FAILURES
         /\ \/ pc' = "fallback"
            \/ /\ SilentLeft' \in Nat /\ SilentLeft' <= SilentLeft
               /\ Execute => SilentLeft' < SilentLeft
<1> DEFINE Waits(a) == (MAX_BOOT_FAILURES - a) * (Watchdog + 2)
<1>1. /\ pc \in {"boot", "start", "fallback"} /\ attempts \in Nat /\ attempts <= MAX_BOOT_FAILURES
      /\ slot = "TESTING" /\ wd \in Nat /\ wd <= Watchdog /\ (pc = "boot" => wd = 0)
  BY DEF Silenced, TypeOK
<1>2. "usart2" \in bad' /\ "usart2" \in dead' /\ slot' = "TESTING"
  BY SilentSteps
<1>3. /\ Waits(attempts) \in Nat
      /\ attempts < MAX_BOOT_FAILURES => Waits(attempts + 1) = Waits(attempts) - (Watchdog + 2)
  BY <1>1, AttemptsLeft
<1>4. /\ pc = "boot" => SilentLeft = Waits(attempts) + 1
      /\ pc = "start" => SilentLeft = Waits(attempts) + (Watchdog - wd + 2)
  BY DEF SilentLeft
<1>5. /\ pc' = "boot" => SilentLeft' = Waits(attempts') + 1
      /\ pc' = "start" => SilentLeft' = Waits(attempts') + (Watchdog - wd' + 2)
  BY DEF SilentLeft
<1>6. Watchdog \in Nat
  BY ConstantFacts
<1> HIDE DEF Waits
<1>7. CASE Boot
  <2>1. \/ pc' = "fallback" /\ attempts' = attempts
        \/ attempts < MAX_BOOT_FAILURES /\ attempts' = attempts + 1 /\ pc' = "start"
    BY <1>1, <1>7, ConstantFacts DEF Boot
  <2>2. pc = "boot" /\ wd' = wd /\ wd = 0
    BY <1>1, <1>7 DEF Boot
  <2>3. Silenced'
    BY <1>1, <1>2, <1>6, <2>1, <2>2, ConstantFacts DEF Silenced
  <2>4. CASE pc' = "fallback"
    BY <1>1, <1>2, <2>1, <2>3, <2>4
  <2>5. CASE attempts' = attempts + 1 /\ pc' = "start" /\ attempts < MAX_BOOT_FAILURES
    <3>1. SilentLeft' = Waits(attempts) /\ SilentLeft = Waits(attempts) + 1
      BY <1>3, <1>4, <1>5, <1>6, <2>2, <2>5
    <3>2. attempts' <= MAX_BOOT_FAILURES
      BY <1>1, <2>5, ConstantFacts
    <3>3. QED
      BY <1>2, <1>3, <2>3, <2>5, <3>1, <3>2
  <2>6. QED
    BY <2>1, <2>4, <2>5
<1>8. CASE Blocked /\ pc = "start" /\ attempts' = attempts
  <2>1. pc' = "start" /\ wd' = wd + 1 /\ wd < Watchdog
    BY <1>8 DEF Blocked
  <2>2. SilentLeft' = SilentLeft - 1 /\ SilentLeft' \in Nat /\ SilentLeft \in Nat
    BY <1>1, <1>3, <1>4, <1>5, <1>6, <1>8, <2>1
  <2>3. Silenced'
    BY <1>1, <1>2, <1>6, <1>8, <2>1 DEF Silenced
  <2>4. QED
    BY <1>1, <1>2, <1>8, <2>1, <2>2, <2>3
<1>9. CASE WatchdogBites /\ attempts' = attempts
  <2>1. pc = "start" /\ pc' = "boot" /\ wd' = 0
    BY <1>1, <1>9 DEF WatchdogBites, Running, Reset
  <2>2. SilentLeft' < SilentLeft /\ SilentLeft' \in Nat /\ SilentLeft \in Nat
    BY <1>1, <1>3, <1>4, <1>5, <1>6, <1>9, <2>1
  <2>3. Silenced'
    BY <1>1, <1>2, <1>6, <1>9, <2>1 DEF Silenced
  <2>4. QED
    BY <1>1, <1>2, <1>9, <2>1, <2>2, <2>3
<1>10. CASE ~Execute /\ pc' = pc /\ attempts' = attempts /\ wd' = wd
  <2>1. Silenced'
    BY <1>1, <1>2, <1>10 DEF Silenced
  <2>2. pc # "fallback" => SilentLeft' = SilentLeft /\ SilentLeft \in Nat
    BY <1>1, <1>3, <1>4, <1>5, <1>6, <1>10
  <2>3. QED
    BY <1>1, <1>2, <1>10, <2>1, <2>2
<1>11. QED
  BY <1>7, <1>8, <1>9, <1>10, SilentSteps

LEMMA SilencedStep ==
  ASSUME TypeOK, Silenced, [Next]_vars
  PROVE  Silenced'
<1>1. bad' = bad
  BY DEF Next, Execute, Boot, Start, Blink, Report, AwaitTC, GetcOre, GetcByte, Request, NoRequest,
         Confirm, NotYet, Feed, Blocked, WatchdogBites, Arrive, Break, vars, lasting
<1>2. CASE "usart2" \in bad
  BY <1>2, SilentStep
<1>3. CASE "usart2" \notin bad
  BY <1>1, <1>3 DEF Silenced
<1>4. QED
  BY <1>2, <1>3

THEOREM CourseInvariance == Spec => []CourseInv
<1>1. Init => TimeBound /\ Silenced
  BY ConstantFacts DEF Init, TimeBound, Silenced
<1>2. TypeOK /\ (TimeBound /\ Silenced) /\ [Next]_vars => (TimeBound /\ Silenced)'
  BY TimeStep, SilencedStep
<1>3. QED
  BY <1>1, <1>2, TypeCorrect, PTL DEF Spec, CourseInv

\* SilentCourse, for every number of attempts and every period of the watchdog.
THEOREM SilentCourseHolds == Spec => SilentCourse
<1>1. CourseInv /\ [Next]_vars =>
        [("usart2" \in bad) =>
          /\ "usart2" \in bad' /\ pc' \in {"boot", "start", "fallback"} /\ attempts' <= MAX_BOOT_FAILURES
          /\ \/ pc' = "fallback"
             \/ /\ SilentLeft' \in Nat /\ SilentLeft' <= SilentLeft
                /\ Execute => SilentLeft' < SilentLeft]_vars
  BY SilentStep DEF CourseInv
<1>2. QED
  BY <1>1, CourseInvariance, PTL DEF Spec, SilentCourse

\* What is left of a pass is a number, and only grows where a new pass begins.
LEMMA PassNat ==
  TypeOK /\ TimeBound => /\ StatementsLeft \in Nat /\ Watchdog + PassTicks - wd \in Nat
                         /\ PassLeft = StatementsLeft + (Watchdog + PassTicks - wd)
                         /\ PassLeft \in Nat
<1>1. TypeOK => StatementsLeft \in Nat
  BY ConstantFacts DEF StatementsLeft, TypeOK
<1>2. TypeOK /\ TimeBound => Watchdog + PassTicks - wd \in Nat
  BY ConstantFacts DEF TypeOK, TimeBound
<1>3. QED
  BY <1>1, <1>2 DEF PassLeft

\* A step of the processor, until the work bits are looked at or the board is reset.
LEMMA PassStep ==
  ASSUME TypeOK, Execute, Running, pc # "feed"
  PROVE  \/ pc' \in {"feed", "boot"}
         \/ StatementsLeft' < StatementsLeft /\ wd' = wd
         \/ StatementsLeft' < StatementsLeft /\ wd' \in Nat /\ wd' > wd
         \/ StatementsLeft' = StatementsLeft /\ wd' = wd + 1
<1> USE ConstantFacts
<1>1. /\ budget \in Nat /\ wd \in Nat /\ (pc = "rdr" => budget > 0)
  BY DEF TypeOK
<1>2. CASE Start
  BY <1>2 DEF Start, At, Goto, StatementsLeft
<1>3. CASE Blink
  BY <1>1, <1>3 DEF Blink, At, Goto, StatementsLeft
<1>4. CASE Report
  BY <1>4 DEF Report, At, Goto, StatementsLeft
<1>5. CASE AwaitTC
  BY <1>5 DEF AwaitTC, At, Goto, StatementsLeft
<1>6. CASE GetcOre
  BY <1>1, <1>6 DEF GetcOre, At, Goto, StatementsLeft, poll
<1>7. CASE GetcByte
  BY <1>1, <1>7 DEF GetcByte, At, Goto, Spend, StatementsLeft
<1>8. CASE NoRequest
  BY <1>1, <1>8 DEF NoRequest, PollOver, Goto, StatementsLeft
<1>9. CASE Blocked
  <2>1. pc' = pc /\ budget' = budget /\ wd' = wd + 1
    BY <1>9 DEF Blocked, poll
  <2>2. QED
    BY <2>1 DEF StatementsLeft
<1>10. Boot \/ Request \/ Confirm \/ NotYet \/ Feed \/ WatchdogBites => pc' \in {"feed", "boot"}
  BY DEF Boot, Request, Reset, Confirm, NotYet, Feed, WatchdogBites, At, Goto, Running
<1>11. QED
  BY <1>2, <1>3, <1>4, <1>5, <1>6, <1>7, <1>8, <1>9, <1>10 DEF Execute

LEMMA PassCourseStep ==
  ASSUME TypeOK, TimeBound, [Next]_vars, Running, pc # "feed"
  PROVE  \/ pc' \in {"feed", "boot"}
         \/ PassLeft' \in Nat /\ PassLeft' <= PassLeft /\ (Execute => PassLeft' < PassLeft)
<1> DEFINE Time == Watchdog + PassTicks - wd
<1>1. TypeOK' /\ TimeBound'
  BY TypeStep, TimeStep
<1>2. StatementsLeft \in Nat /\ Time \in Nat /\ PassLeft = StatementsLeft + Time /\ PassLeft \in Nat
  BY PassNat
<1>3. StatementsLeft' \in Nat /\ Time' \in Nat /\ PassLeft' = StatementsLeft' + Time'
      /\ PassLeft' \in Nat
  <2>1. (TypeOK /\ TimeBound =>
          StatementsLeft \in Nat /\ Time \in Nat /\ PassLeft = StatementsLeft + Time /\ PassLeft \in Nat)'
    BY PassNat, PTL
  <2>2. QED
    BY <1>1, <2>1
<1>4. wd \in Nat
  BY DEF TypeOK
<1>5. /\ wd' = wd => Time' = Time
      /\ wd' \in Nat /\ wd' > wd => Time' < Time
  BY <1>4, ConstantFacts
<1>6. wd' = wd + 1 => wd' \in Nat /\ wd' > wd
  BY <1>4
<1> HIDE DEF Time
<1>7. CASE Execute
  <2>1. \/ pc' \in {"feed", "boot"}
        \/ StatementsLeft' < StatementsLeft /\ Time' = Time
        \/ StatementsLeft' < StatementsLeft /\ Time' < Time
        \/ StatementsLeft' = StatementsLeft /\ Time' < Time
    BY <1>5, <1>6, <1>7, PassStep
  <2>2. \A a, b, x, y \in Nat : x <= a /\ y <= b /\ (x < a \/ y < b) => x + y < a + b
    OBVIOUS
  <2>3. CASE pc' \notin {"feed", "boot"}
    <3>1. /\ StatementsLeft' <= StatementsLeft /\ Time' <= Time
          /\ StatementsLeft' < StatementsLeft \/ Time' < Time
      BY <1>2, <1>3, <2>1, <2>3
    <3>2. StatementsLeft' + Time' < StatementsLeft + Time
      BY <1>2, <1>3, <2>2, <3>1
    <3>3. PassLeft' < PassLeft
      BY <1>2, <1>3, <3>2
    <3>4. PassLeft' <= PassLeft
      <4>1. PassLeft \in Nat /\ PassLeft' \in Nat
        BY <1>2, <1>3
      <4>2. \A a, b \in Nat : a < b => a <= b
        OBVIOUS
      <4>3. QED
        BY <3>3, <4>1, <4>2
    <3>5. QED
      BY <1>3, <3>3, <3>4
  <2>4. QED
    BY <2>3
<1>8. CASE ~Execute
  <2>1. pc' = pc /\ budget' = budget /\ wd' = wd
    BY <1>8 DEF Next, Arrive, Break, poll, vars
  <2>2. StatementsLeft' = StatementsLeft
    BY <2>1 DEF StatementsLeft
  <2>3. QED
    BY <1>2, <1>3, <1>5, <1>8, <2>1, <2>2
<1>9. QED
  BY <1>7, <1>8

\* PassCourse, for every budget of the drain, every rate of the line and every period of
\* the watchdog.
THEOREM PassCourseHolds == Spec => PassCourse
<1>1. CourseInv /\ [Next]_vars =>
        [Running /\ pc # "feed" =>
          \/ pc' \in {"feed", "boot"}
          \/ PassLeft' \in Nat /\ PassLeft' <= PassLeft /\ (Execute => PassLeft' < PassLeft)]_vars
  BY PassCourseStep DEF CourseInv
<1>2. QED
  BY <1>1, CourseInvariance, PTL DEF Spec, PassCourse
=============================================================================
