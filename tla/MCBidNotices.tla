----------------------------- MODULE MCBidNotices -----------------------------
(* BidNotices for TLC: a cap of three increments, so that a bid can sell     *)
(* while a lower one is on its way, and three users over a leaderboard of    *)
(* two, so that a leader can drop out of it between the two reads.           *)
EXTENDS BidNotices, TLC

CONSTANTS u1, u2, u3, c1, c2, c3

MCRules == {[start |-> 0, inc |-> 1, cap |-> 3, window |-> 1, ext |-> 1, duration |-> 9]}

CallSymmetry == Permutations(Calls) \cup Permutations(Users)
===============================================================================
