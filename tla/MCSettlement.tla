----------------------------- MODULE MCSettlement -----------------------------
(* Settlement for TLC. *)
EXTENDS Settlement

CONSTANTS a1, a2, p1, p2, p3
===============================================================================
