------------------------------- MODULE ABUpdate -------------------------------
(***************************************************************************)
(* What an A/B update promises, without slots, flash, frames or resets:    *)
(* the board has the image it runs and, perhaps, a complete spare one.  A  *)
(* transfer only ever changes the spare; an installation swaps the two and *)
(* puts the new image on trial; the trial ends in a confirmation or, after *)
(* MAX_BOOT_FAILURES attempts, in a return to the spare.                   *)
(***************************************************************************)
EXTENDS Integers

CONSTANTS Image, NoImage, MAX_BOOT_FAILURES

VARIABLES installed, spare,   \* images, or NoImage
          trial,              \* the installed image has not confirmed yet
          attempts            \* its recorded starts

vars == <<installed, spare, trial, attempts>>

Init == /\ installed \in Image \cup {NoImage} /\ spare = NoImage
        /\ trial = FALSE /\ attempts = 0

\* A transfer damages the spare image, or completes one.
Receive == /\ spare' \in Image \cup {NoImage}
           /\ UNCHANGED <<installed, trial, attempts>>

Install == /\ spare # NoImage
           /\ installed' = spare /\ spare' = installed
           /\ trial' = TRUE /\ attempts' = 0

Try == /\ trial /\ attempts < MAX_BOOT_FAILURES
       /\ attempts' = attempts + 1
       /\ UNCHANGED <<installed, spare, trial>>

Confirm == /\ installed # NoImage
           /\ trial' = FALSE /\ attempts' = 0
           /\ UNCHANGED <<installed, spare>>

\* The rejected image is given up.  The spare may be on trial itself: an image that was
\* installed over before it could confirm.
RollBack == /\ trial /\ attempts = MAX_BOOT_FAILURES /\ spare # NoImage
            /\ installed' = spare /\ spare' = NoImage
            /\ trial' \in BOOLEAN /\ attempts' = 0

Next == Receive \/ Install \/ Try \/ Confirm \/ RollBack

Spec == Init /\ [][Next]_vars
=============================================================================
