----------------------------- MODULE MCUartRing -----------------------------
(* A ring of four cells, two byte values.                                   *)
EXTENDS UartRing

CONSTANTS x, y

MCByte == {x, y}
=============================================================================
