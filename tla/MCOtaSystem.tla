----------------------------- MODULE MCOtaSystem -----------------------------
(* A small board: slots of two cells on one page, frames of one or two cells, *)
(* a sound image and one that starts but never confirms.                      *)
EXTENDS OtaClaims, OtaUpdate

CONSTANTS good, hangs

MCImage == {good, hangs}
MCBootable == {good, hangs}
MCHealthy == {good}
=============================================================================
