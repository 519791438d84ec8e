---------------------------- MODULE MCFrameParser ----------------------------
(* Frames that can look as if another began inside them: at the end of the  *)
(* one without data, in the data of the other.  LENGTH can be misread as a  *)
(* number that no frame has.                                                *)
EXTENDS FrameParser

MCByte == 0..4
MCCommand == {1}

MCFrames == {[cmd |-> 1, seq |-> 2, data |-> <<>>],
             [cmd |-> 1, seq |-> 1, data |-> <<2, 3>>]}
=============================================================================
