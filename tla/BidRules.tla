------------------------------- MODULE BidRules -------------------------------
(***************************************************************************)
(* evaluateBid of auction-rules.ts: the rules of a bid a second time, in   *)
(* TypeScript.  They have unit tests; the Lua script that really decides   *)
(* has none, so the tests mean something only if the two agree.            *)
(***************************************************************************)
EXTENDS RedisAuction

Minimum(s) == s.price + s.rules.inc

(* Mutant of EvaluateBid: the cap is reached only by an amount beyond it. *)
EvaluateBidPastCap(s, u, amount, time) ==
  LET accepted == IF amount < s.rules.cap THEN amount ELSE s.rules.cap
      isSold == amount > s.rules.cap
      isExtended == ~ isSold /\ s.endAt - time <= s.rules.window IN
  IF s.leader = u THEN [code |-> "SELF_LEADING"]
  ELSE IF amount < Minimum(s) THEN [code |-> "LOW"]
  ELSE [code |-> "ACCEPTED", price |-> accepted, sold |-> isSold,
        endAt |-> IF isExtended THEN s.endAt + s.rules.ext ELSE s.endAt]

(* The answer to a bid of amount by u on the auction s at the given time.  *)
(* The status, the end and the requestId are left to the caller.           *)
EvaluateBid(s, u, amount, time) ==
  LET accepted == IF amount < s.rules.cap THEN amount ELSE s.rules.cap
      isSold == accepted >= s.rules.cap
      isExtended == ~ isSold /\ s.endAt - time <= s.rules.window IN
  IF s.leader = u THEN [code |-> "SELF_LEADING"]
  ELSE IF amount < Minimum(s) THEN [code |-> "LOW"]
  ELSE [code |-> "ACCEPTED", price |-> accepted, sold |-> isSold,
        endAt |-> IF isExtended THEN s.endAt + s.rules.ext ELSE s.endAt]

(***************************************************************************)
(* Whatever auction the scripts have brought about, a new request to a     *)
(* running auction gets the same verdict from both, and what the script    *)
(* writes is what evaluateBid says: the price, the sale and the end.       *)
(***************************************************************************)
Biddable == hash # NoHash /\ hash.status = "RUNNING" /\ hash.endAt > now

SameVerdict(r, u, amount) ==
  LET verdict == EvaluateBid(hash, u, amount, now)
      after == AfterBid(hash, u, amount) IN
  /\ BidCode(r, u, amount) = verdict.code
  /\ verdict.code = "ACCEPTED" =>
       /\ after.price = verdict.price
       /\ after.endAt = verdict.endAt
       /\ after.status = IF verdict.sold THEN "SOLD" ELSE "RUNNING"

(* The amounts of a bid: beyond cap + inc nothing new happens. *)
RulesMatchScript ==
  Biddable => \A r \in Requests \ keys, u \in Users, amount \in 0 .. hash.rules.cap + hash.rules.inc :
                SameVerdict(r, u, amount)
===============================================================================
