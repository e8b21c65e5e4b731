--------------------------- MODULE MCAuctionService ---------------------------
(* AuctionService for TLC: two users, one of whom bids twice, and bids that  *)
(* raise, jump to the cap or are too low, depending on the order they arrive. *)
EXTENDS AuctionService, TLC

CONSTANTS u1, u2, r1, r2, r3

MCRules == {[start |-> 0, inc |-> 1, cap |-> 3, window |-> 1, ext |-> 1, duration |-> 2]}

TwoRules ==
  MCRules \cup {[start |-> 1, inc |-> 2, cap |-> 4, window |-> 1, ext |-> 1, duration |-> 2]}

MCInputs ==
  {[req |-> r1, user |-> u1, amount |-> 1],
   [req |-> r2, user |-> u2, amount |-> 2],
   [req |-> r3, user |-> u1, amount |-> 3]}

(* A low bid and one that jumps to the cap. *)
SaleInputs ==
  {[req |-> r1, user |-> u1, amount |-> 1],
   [req |-> r2, user |-> u2, amount |-> 3]}

(* Two bids that raise the price. *)
LowInputs ==
  {[req |-> r1, user |-> u1, amount |-> 1],
   [req |-> r2, user |-> u2, amount |-> 2]}

BidSymmetry == Permutations(BidCalls)
===============================================================================
