----------------------------- MODULE RedisScripts -----------------------------
(***************************************************************************)
(* The keys Redis holds for ONE auction and the commands that touch them:  *)
(* the three Lua scripts of redis-auction.service.ts (bid, cancel, finish  *)
(* an expired auction), initialize and restoreFromDatabase.                *)
(*                                                                         *)
(* Redis runs a script atomically, so each script is one action.  The      *)
(* clock is in whole units: Date.now() / 1000 in the code.                 *)
(***************************************************************************)
EXTENDS Integers

CONSTANTS
  Users,      \* ids of the users who may bid
  NoUser,     \* leaderUserId '' in Redis, null in TypeScript
  Requests,   \* values of the idempotency key requestId
  RuleSet,    \* the rules an auction may be created with
  NoHash      \* the state key does not exist

Rules == [start : Nat, inc : Nat \ {0}, cap : Nat \ {0},
          window : Nat \ {0}, ext : Nat \ {0}, duration : Nat \ {0}]

Statuses == {"DRAFT", "SCHEDULED", "RUNNING", "SOLD", "UNSOLD", "CANCELLED"}
Reasons == {"none", "given"}

(***************************************************************************)
(* The mutable part of an auction, the same in the Redis hash, in the      *)
(* MySQL row and in the TypeScript objects in between.  endAt is 0 for the *)
(* null of an auction that has not started.                                *)
(***************************************************************************)
AuctionState == [status : Statuses, price : Nat, leader : Users \cup {NoUser},
                 endAt : Nat, version : Nat, reason : Reasons, rules : RuleSet]

ASSUME RulesAssumption ==
  /\ RuleSet \subseteq Rules
  /\ RuleSet # {}
  /\ \A r \in RuleSet : r.start < r.cap
ASSUME NoUserAssumption == NoUser \notin Users
ASSUME NoHashAssumption == NoHash \notin AuctionState

VARIABLES
  hash,       \* auction:<id>:state, an AuctionState or NoHash
  board,      \* auction:<id>:leaderboard, the score of each user, 0 if absent
  keys,       \* the requestIds whose auction:<id>:request:<requestId> exists
  now         \* the clock

redisVars == <<hash, board, keys>>

EmptyBoard == [u \in Users |-> 0]

----
(* Mutant of BidCode: the leader may outbid himself. *)
BidCodeSelfAllowed(r, u, amount) ==
  IF hash = NoHash THEN "MISSING"
  ELSE IF r \in keys THEN "DUPLICATE"
  ELSE IF hash.status # "RUNNING" THEN "NOT_RUNNING"
  ELSE IF hash.endAt <= now THEN "ENDED"
  ELSE IF amount < hash.price + hash.rules.inc THEN "LOW"
  ELSE "ACCEPTED"

(* PLACE_BID_SCRIPT: what it answers, in the order it decides. *)
BidCode(r, u, amount) ==
  IF hash = NoHash THEN "MISSING"
  ELSE IF r \in keys THEN "DUPLICATE"
  ELSE IF hash.status # "RUNNING" THEN "NOT_RUNNING"
  ELSE IF hash.leader = u THEN "SELF_LEADING"
  ELSE IF hash.endAt <= now THEN "ENDED"
  ELSE IF amount < hash.price + hash.rules.inc THEN "LOW"
  ELSE "ACCEPTED"

(* Mutant of AcceptedPrice: the cut to the cap is forgotten. *)
AcceptedPriceUncut(s, amount) == amount

(* A bid is worth its amount, but never more than the cap. *)
AcceptedPrice(s, amount) == IF amount < s.rules.cap THEN amount ELSE s.rules.cap

(* Mutant of Extends: off by one at the edge of the window. *)
ExtendsInside(s, amount) ==
  /\ AcceptedPrice(s, amount) < s.rules.cap
  /\ s.endAt - now < s.rules.window

(* A bid inside the extension window moves the end, unless it sells. *)
Extends(s, amount) ==
  /\ AcceptedPrice(s, amount) < s.rules.cap
  /\ s.endAt - now <= s.rules.window

(* The hash after an accepted bid. *)
AfterBid(s, u, amount) ==
  [s EXCEPT !.status  = IF AcceptedPrice(s, amount) < s.rules.cap THEN "RUNNING" ELSE "SOLD",
            !.price   = AcceptedPrice(s, amount),
            !.leader  = u,
            !.endAt   = IF Extends(s, amount) THEN @ + s.rules.ext ELSE @,
            !.version = @ + 1]

(* Mutant of AcceptBid: ZADD with the amount instead of the accepted price. *)
AcceptBidRawScore(r, u, amount) ==
  /\ BidCode(r, u, amount) = "ACCEPTED"
  /\ hash' = AfterBid(hash, u, amount)
  /\ board' = [board EXCEPT ![u] = amount]
  /\ keys' = keys \cup {r}

(* Mutant of AcceptBid: the key of the request is not set. *)
AcceptBidForgetsKey(r, u, amount) ==
  /\ BidCode(r, u, amount) = "ACCEPTED"
  /\ hash' = AfterBid(hash, u, amount)
  /\ board' = [board EXCEPT ![u] = AcceptedPrice(hash, amount)]
  /\ UNCHANGED keys

(* PLACE_BID_SCRIPT when it accepts: HSET, ZADD and SET requestKey. *)
AcceptBid(r, u, amount) ==
  /\ BidCode(r, u, amount) = "ACCEPTED"
  /\ hash' = AfterBid(hash, u, amount)
  /\ board' = [board EXCEPT ![u] = AcceptedPrice(hash, amount)]
  /\ keys' = keys \cup {r}

(* Mutant of CancelCode: whatever the status is, it is cancelled. *)
CancelCodeAnyStatus == IF hash = NoHash THEN "MISSING" ELSE "CANCELLED"

(* CANCEL_SCRIPT. *)
CancelCode ==
  IF hash = NoHash THEN "MISSING"
  ELSE IF hash.status # "RUNNING" THEN "NOT_RUNNING"
  ELSE "CANCELLED"

(* Mutant of CancelRunning: the status is spelled differently. *)
CancelRunningMisspelt ==
  /\ CancelCode = "CANCELLED"
  /\ hash' = [hash EXCEPT !.status = "CANCELED", !.reason = "given", !.version = @ + 1]
  /\ UNCHANGED <<board, keys>>

CancelRunning ==
  /\ CancelCode = "CANCELLED"
  /\ hash' = [hash EXCEPT !.status = "CANCELLED", !.reason = "given", !.version = @ + 1]
  /\ UNCHANGED <<board, keys>>

(* Mutant of FinishCode: the script trusts the caller about the time. *)
FinishCodeUntimed ==
  IF hash = NoHash THEN "MISSING"
  ELSE IF hash.status # "RUNNING" THEN "NOT_RUNNING"
  ELSE "FINISHED"

(* FINISH_EXPIRED_SCRIPT. *)
FinishCode ==
  IF hash = NoHash THEN "MISSING"
  ELSE IF hash.status # "RUNNING" THEN "NOT_RUNNING"
  ELSE IF hash.endAt > now THEN "NOT_EXPIRED"
  ELSE "FINISHED"

FinishExpired ==
  /\ FinishCode = "FINISHED"
  /\ hash' = [hash EXCEPT !.status  = IF hash.leader = NoUser THEN "UNSOLD" ELSE "SOLD",
                          !.version = @ + 1]
  /\ UNCHANGED <<board, keys>>

(* initialize: HSET of every field.  The leaderboard is not touched. *)
Initialize(s) ==
  /\ hash' = s
  /\ UNCHANGED <<board, keys>>

(* Mutant of RestoreFromDatabase: the key of the failed request stays. *)
RestoreKeepingKey(s, entries, r) ==
  /\ hash' = s
  /\ board' = entries
  /\ UNCHANGED keys

(* restoreFromDatabase: the pipeline that rebuilds the keys after a failed bid r. *)
RestoreFromDatabase(s, entries, r) ==
  /\ hash' = s
  /\ board' = entries
  /\ keys' = keys \ {r}

----
(* What the keys say, as long as only the scripts write them               *)

RedisTypeOK ==
  /\ hash \in AuctionState \cup {NoHash}
  /\ board \in [Users -> Nat]
  /\ keys \in SUBSET Requests
  /\ now \in Nat

(***************************************************************************)
(* The leader and the price of the hash and the scores of the leaderboard  *)
(* are kept by different Redis commands of the bid script.  They agree:    *)
(* the leader alone tops the board, at the current price; without a leader *)
(* the board is empty and the price is the starting price.                 *)
(***************************************************************************)
LeaderTopsBoard ==
  hash # NoHash =>
    \/ /\ hash.leader = NoUser
       /\ board = EmptyBoard
       /\ hash.price = hash.rules.start
    \/ /\ hash.leader # NoUser
       /\ board[hash.leader] = hash.price
       /\ \A u \in Users \ {hash.leader} : board[u] < hash.price

(***************************************************************************)
(* A running auction is below its cap, so the next bid can still raise the *)
(* price: the minimum may exceed the cap, and the cut to the cap must not  *)
(* produce a bid that does not raise.                                      *)
(***************************************************************************)
CapMeansSold ==
  hash # NoHash =>
    /\ hash.price <= hash.rules.cap
    /\ hash.price = hash.rules.cap => hash.status = "SOLD"

(* An auction is sold to somebody, and unsold only when nobody has bid. *)
OutcomeMatchesBids ==
  hash # NoHash =>
    /\ hash.status \in {"RUNNING", "CANCELLED", "SOLD", "UNSOLD"}
    /\ hash.status = "SOLD" => hash.leader # NoUser
    /\ hash.status = "UNSOLD" => hash.leader = NoUser

(* The board is empty before the auction opens. *)
EmptyUntilOpened == hash = NoHash => board = EmptyBoard

(* Whoever leads has raised the starting price. *)
LeaderHasRaised ==
  hash # NoHash /\ hash.leader # NoUser => hash.rules.start < hash.price

(* What the scripts keep: all of the above together. *)
AuctionInv ==
  /\ RedisTypeOK
  /\ LeaderTopsBoard
  /\ CapMeansSold
  /\ OutcomeMatchesBids
  /\ EmptyUntilOpened
  /\ LeaderHasRaised

----
(***************************************************************************)
(* No sniping: a bid that does not sell leaves the others more time than   *)
(* the extension window or more than the extension, whichever is less.     *)
(***************************************************************************)
LeavesTimeToAnswer ==
  hash # NoHash /\ hash' # NoHash /\ hash.leader # hash'.leader /\ hash'.status = "RUNNING"
    => \/ hash'.endAt - now > hash.rules.window
       \/ hash'.endAt - now > hash.rules.ext

(* No sale before its time: an auction is closed by the clock only once    *)
(* endAt is reached, and the deadline never moves closer.                  *)
ClosesInTime ==
  hash # NoHash /\ hash' # NoHash =>
    /\ hash'.endAt >= hash.endAt
    /\ hash.status = "RUNNING" /\ hash'.status \in {"SOLD", "UNSOLD"}
         => hash'.price = hash.rules.cap \/ hash'.endAt <= now

(***************************************************************************)
(* What Redis holds, as an auction: the best offers are the leaderboard,   *)
(* the phase is the status, the winner the leader of a sold hash.          *)
(***************************************************************************)
English == INSTANCE EnglishAuction WITH
  phase  <- IF hash = NoHash THEN "UNOPENED" ELSE hash.status,
  terms  <- IF hash = NoHash THEN CHOOSE r \in RuleSet : TRUE ELSE hash.rules,
  best   <- board,
  winner <- IF hash = NoHash THEN NoUser
            ELSE IF hash.status = "SOLD" THEN hash.leader ELSE NoUser
===============================================================================
