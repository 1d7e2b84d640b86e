------------------------------ MODULE MC_Focus ------------------------------
(* Instances of Focus for TLC: the layer surfaces, in their order.         *)
EXTENDS Focus

CONSTANTS t1, x1, o1, l1

OneLayer == <<l1>>
=============================================================================
