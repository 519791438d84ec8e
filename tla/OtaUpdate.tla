------------------------------ MODULE OtaUpdate ------------------------------
(***************************************************************************)
(* OtaSystem implements ABUpdate: the record and the two slots, seen as    *)
(* the image that is installed and the spare one.                          *)
(***************************************************************************)
EXTENDS OtaSystem

\* The complete image the record describes in slot s, if there is one.
ImageIn(s) == IF meta # NoMeta /\ meta.slot[s].state # "EMPTY" /\ Holds(flash[s], meta.slot[s])
              THEN meta.slot[s].crc32 ELSE NoImage

InstalledImage == ImageIn(ActiveSlot)
Spare == ImageIn(Other(ActiveSlot))
Trial == OnTrial(meta)
Attempts == Current.boot_fail_count

AB == INSTANCE ABUpdate WITH installed <- InstalledImage, spare <- Spare,
                             trial <- Trial, attempts <- Attempts

\* README.md:31-40 and PROTOCOL.md section 8: whatever frames, resets, power cuts and
\* rollbacks do to slots and record, the board only ever takes the steps of ABUpdate.
ImplementsAB == AB!Spec
=============================================================================
