------------------------------ MODULE MCAppLoop ------------------------------
(* A sound image and one for each peripheral that never works.               *)
EXTENDS AppLoop

MCFaults == {{}} \cup {{p} : p \in Peripheral}
MCBreakable == Peripheral
=============================================================================
