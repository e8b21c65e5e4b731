------------------------------ MODULE MCLiveRoom ------------------------------
(* LiveRoom for TLC: auctions and calls are model values. *)
EXTENDS LiveRoom, TLC

CONSTANTS a1, a2, b1, k1

AuctionSymmetry == Permutations({a1, a2})
===============================================================================
