----------------------------- MODULE RedisAuction -----------------------------
(***************************************************************************)
(* Redis on its own: an auction is opened once, before the first bid, and  *)
(* then only the scripts touch its keys.  This is the life of an auction   *)
(* in which no key is ever lost and no bid has to be undone;               *)
(* AuctionService has the other lives.                                     *)
(***************************************************************************)
EXTENDS RedisScripts

CONSTANT MaxTime     \* bound: the clock stops here

ASSUME MaxTimeAssumption == MaxTime \in Nat

vars == <<hash, board, keys, now>>

OpeningState(rules) ==
  [status |-> "RUNNING", price |-> rules.start, leader |-> NoUser,
   endAt |-> now + rules.duration, version |-> 1, reason |-> "none", rules |-> rules]

(* Either start() is still to come or it has just opened the auction. *)
Init ==
  /\ now = 0
  /\ hash \in {NoHash} \cup {OpeningState(rules) : rules \in RuleSet}
  /\ board = EmptyBoard
  /\ keys = {}

Tick ==
  /\ now < MaxTime
  /\ now' = now + 1
  /\ UNCHANGED redisVars

Open ==
  /\ hash = NoHash
  /\ \E rules \in RuleSet : Initialize(OpeningState(rules))
  /\ UNCHANGED now

(* cap + inc is beyond every minimum and cut to the cap: it stands for all the  *)
(* larger amounts.                                                              *)
Bid(r, u) ==
  /\ hash # NoHash
  /\ \E amount \in 0 .. hash.rules.cap + hash.rules.inc : AcceptBid(r, u, amount)
  /\ UNCHANGED now

Cancel == CancelRunning /\ UNCHANGED now

Finish == FinishExpired /\ UNCHANGED now

Next ==
  \/ Open
  \/ \E r \in Requests, u \in Users : Bid(r, u)
  \/ Cancel
  \/ Finish
  \/ Tick

Spec == Init /\ [][Next]_vars

----
TypeOK == RedisTypeOK

(* A bid that does not sell leaves the others time to answer. *)
NoSniping == [][LeavesTimeToAnswer]_vars

(* An auction is closed by the clock only once endAt is reached. *)
DeadlineKept == [][ClosesInTime]_vars

(* The scripts implement the abstract auction. *)
ImplementsEnglishAuction == English!Spec
===============================================================================
