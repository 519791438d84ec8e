--------------------------- MODULE MetadataRegister ---------------------------
(***************************************************************************)
(* What shared/metadata_mgr.h promises its callers: one register that is   *)
(* read in a single step and whose write either takes effect as a whole or *)
(* does not take effect at all, whatever the flash and the power supply do *)
(* meanwhile.  A write that reports META_OK has taken effect; one that     *)
(* reports an error, or never returns because the power failed, may have.  *)
(* The dual-page module MetadataStore implements this specification.       *)
(***************************************************************************)
CONSTANTS Content,    \* everything a caller may ask to store
          Sane,       \* the part of it that metadata_is_valid() accepts
          NoContent   \* "no valid metadata", and "no write under way"

VARIABLES current,    \* what metadata_read() returns
          pending,    \* what the metadata_write() under way is storing
          status      \* what the last metadata_write() returned

vars == <<current, pending, status>>

Init == /\ current \in Sane \cup {NoContent}
        /\ pending = NoContent
        /\ status = "none"

\* The value current may have once the write of pending has been cut short.
Outcome == {current} \cup ({pending} \cap Sane)

Begin(c) == /\ pending = NoContent
            /\ pending' = c
            /\ status' = "none"
            /\ UNCHANGED current

TakeEffect == /\ pending \in Sane
              /\ current' = pending
              /\ UNCHANGED <<pending, status>>

ReturnOk == /\ pending \in Sane
            /\ current = pending
            /\ pending' = NoContent
            /\ status' = "META_OK"
            /\ UNCHANGED current

ReturnError == /\ pending # NoContent
               /\ current' \in Outcome
               /\ pending' = NoContent
               /\ status' \in {"META_ERR_ERASE", "META_ERR_WRITE", "META_ERR_VERIFY"}

PowerCut == /\ current' \in Outcome
            /\ pending' = NoContent
            /\ status' = "none"

Next == \/ \E c \in Content : Begin(c)
        \/ TakeEffect
        \/ ReturnOk
        \/ ReturnError
        \/ PowerCut

Spec == Init /\ [][Next]_vars
=============================================================================
