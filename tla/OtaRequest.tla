------------------------------ MODULE OtaRequest ------------------------------
(***************************************************************************)
(* The boot request (shared/boot_request.h): a word of RAM that a reset    *)
(* preserves and a power cycle loses, by which a running application, or   *)
(* tools/ota_flash.py over SWD, asks the bootloader for a long listen      *)
(* window.  main() reads and clears it before it decides anything.  The    *)
(* rest of the board is OtaSystem, whose actions are kept as they are.     *)
(***************************************************************************)
EXTENDS OtaSystem

CONSTANTS BOOT_WAIT_MS, OTA_WAIT_MS   \* the two listen windows

ASSUME WindowAssumption == BOOT_WAIT_MS \in Nat \ {0} /\ OTA_WAIT_MS \in Nat \ {0}

VARIABLES request,      \* the word of RAM holds BOOT_REQUEST_MAGIC
          looked,       \* main() has read the word
          ota_request,  \* main()'s copy, with listen_ms
          asked         \* history: a request was made since the last long window

request_vars == <<request, looked, ota_request, asked>>
all == <<vars, request_vars>>

RequestInit == Init /\ request = FALSE /\ looked = FALSE /\ ota_request = FALSE /\ asked = FALSE

-----------------------------------------------------------------------------

\* Mutant of Cleared: the word is cleared after the window, if the window ends.
ClearedLater == request

\* boot_request_clear()
Cleared == FALSE

ReadRequest == /\ pc = "boot" /\ ~looked
               /\ looked' = TRUE
               /\ ota_request' = request
               /\ request' = IF request THEN Cleared ELSE request
               /\ UNCHANGED <<vars, asked>>

\* The boot decision; a long window is the answer to a request.
Decide == /\ looked /\ Boot
          /\ asked' = (asked /\ ~(ota_request /\ pc' = "listen"))
          /\ UNCHANGED <<request, looked, ota_request>>

\* Mutant of listen_ms: a request waits for its update indefinitely.
listen_msForever == IF ota_request THEN 0 ELSE BOOT_WAIT_MS

listen_ms == IF ota_request THEN OTA_WAIT_MS ELSE BOOT_WAIT_MS

\* update_mode() returns once limit_ms is over, unless it is zero.
Leave == WindowCloses /\ listen_ms > 0 /\ UNCHANGED request_vars

\* After a reset main() starts again, with the word as it is found.
Again(word) == request' = word /\ looked' = FALSE /\ ota_request' = FALSE

\* boot_request_set(), by the application or by ota_flash.py, and the reset that follows.
Requested == Again(TRUE) /\ asked' = TRUE

\* A sound application only resets itself to ask for an update.
Ask == AppReset /\ Runs /\ Requested

\* The watchdog or a fault, and the reset after an update: the word is kept.
Crash == AppReset /\ ~Runs /\ Again(request) /\ UNCHANGED asked
Installs == UpdateComplete /\ Again(request) /\ UNCHANGED asked

\* The reset button keeps the word, a power cycle loses it, ota_flash.py sets it.
Cut == Cuts /\ \/ Again(request) /\ UNCHANGED asked
               \/ Again(FALSE) /\ UNCHANGED asked
               \/ Requested

Elsewhere == /\ Frames \/ Timeout \/ NextPass \/ confirm_startup \/ AppCycle \/ GoQuiet
             /\ UNCHANGED request_vars

RequestNext == ReadRequest \/ Decide \/ Leave \/ Ask \/ Crash \/ Installs \/ Cut \/ Elsewhere

RequestSpec == RequestInit /\ [][RequestNext]_all

\* As in OtaSystem: main() goes on, the clock advances, a sick application is reset.
RequestFairness == /\ WF_all(ReadRequest) /\ WF_all(Decide) /\ WF_all(Leave)
                   /\ WF_all(Timeout /\ Elsewhere) /\ WF_all(NextPass /\ Elsewhere)
                   /\ WF_all(Installs) /\ WF_all(Crash)
                   /\ WF_all(confirm_startup /\ Elsewhere)

RequestFairSpec == RequestSpec /\ RequestFairness
-----------------------------------------------------------------------------
(* Properties *)

RequestTypeOK == /\ request \in BOOLEAN /\ looked \in BOOLEAN
                 /\ ota_request \in BOOLEAN /\ asked \in BOOLEAN

\* bootloader/main.c:340-343: a request is spent by the boot that reads it.  It is never
\* left set for a reset during the window or the transfer to find.
RequestSpent == request => pc = "boot" /\ ~looked

\* Every long window answers a request of its own: no reset brings a second one.
LongWindowAsked ==
    [][pc = "boot" /\ pc' = "listen" /\ ota_request => asked]_all

\* bootloader/main.c:345-355, a request that no transfer follows "leaves the board where
\* it started": the application that works runs again, from its slot.
Working(s) == /\ meta # NoMeta /\ meta.active_slot = s /\ BootState = "VALID"
              /\ Intact(s) /\ flash[s][1] \in Healthy
BackToApplication ==
    \A s \in Slot : (quiet /\ pc = "boot" /\ Working(s)) ~> (pc = "app" /\ active = s /\ Runs)
=============================================================================
