---------------------------- MODULE MCOtaRequest ----------------------------
(* Slots of one cell, a sound image and one that starts but never confirms. *)
EXTENDS OtaRequest

CONSTANTS good, hangs

MCImage == {good, hangs}
MCBootable == {good, hangs}
MCHealthy == {good}
=============================================================================
