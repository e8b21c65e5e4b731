---------------------------- MODULE MCRedisAuction ----------------------------
(* RedisAuction and BidRules for TLC: three users, four requests and two     *)
(* sets of rules, one with a cap the increment divides, one it steps over.   *)
EXTENDS BidRules

MCRules ==
  {[start |-> 0, inc |-> 2, cap |-> 5, window |-> 1, ext |-> 2, duration |-> 2],
   [start |-> 1, inc |-> 1, cap |-> 4, window |-> 2, ext |-> 1, duration |-> 3]}
===============================================================================
