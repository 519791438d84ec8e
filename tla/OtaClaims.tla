------------------------------ MODULE OtaClaims ------------------------------
(***************************************************************************)
(* A statement a comment of the bootloader makes, that a behaviour of      *)
(* OtaSystem contradicts: the run that checks it is expected to find the   *)
(* contradiction.                                                          *)
(***************************************************************************)
EXTENDS OtaSystem

\* bootloader/main.c:148-150: the vector table is checked because jumping to a missing
\* image "would raise a silent HardFault".  The check precedes the listen window, in
\* which a second update can erase the slot that is jumped to afterwards.
StartsBootable == pc = "app" => LooksBootable(active)
=============================================================================
