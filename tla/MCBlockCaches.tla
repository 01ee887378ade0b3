--------------------------- MODULE MCBlockCaches ---------------------------
(* A small instance of BlockCaches for TLC.                                 *)
EXTENDS BlockCaches
CONSTANTS r1, r2, p, k1, k2, k3, k4
Lengths == [k \in Kinds |-> IF k = "buffered" THEN 3 ELSE 2]
==============================================================================
