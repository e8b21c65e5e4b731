-------------------------- MODULE RedisAuctionProofs --------------------------
(***************************************************************************)
(* The invariant and the action properties of RedisAuction, and that       *)
(* evaluateBid agrees with the bid script, for every set of users,         *)
(* requests and rules and without a bound on the clock other than the one  *)
(* the model has.                                                          *)
(***************************************************************************)
EXTENDS BidRules, RedisScriptsProofs

(* An auction that is still to be opened, or just opened, satisfies it. *)
LEMMA InitInv == Init => AuctionInv
<1> SUFFICES ASSUME Init PROVE AuctionInv OBVIOUS
<1>1. CASE hash = NoHash
  BY <1>1 DEF Init, AuctionInv, RedisTypeOK, LeaderTopsBoard, CapMeansSold, OutcomeMatchesBids,
        EmptyUntilOpened, LeaderHasRaised, EmptyBoard
<1>2. CASE hash # NoHash
  <2>1. PICK rules \in RuleSet : hash = OpeningState(rules) BY <1>2 DEF Init
  <2>2. rules \in Rules /\ rules.start < rules.cap BY RulesAssumption
  <2>3. hash \in AuctionState
    BY <2>1, <2>2 DEF Init, OpeningState, AuctionState, Rules, Statuses, Reasons
  <2> QED
    BY <2>1, <2>2, <2>3
    DEF Init, AuctionInv, RedisTypeOK, LeaderTopsBoard, CapMeansSold, OutcomeMatchesBids,
        EmptyUntilOpened, LeaderHasRaised, EmptyBoard, OpeningState, Rules
<1> QED BY <1>1, <1>2

(* Every step of RedisAuction keeps the invariant. *)
LEMMA NextInv == AuctionInv /\ [Next]_vars => AuctionInv'
<1> SUFFICES ASSUME AuctionInv, [Next]_vars PROVE AuctionInv' OBVIOUS
<1>0. now \in Nat BY DEF AuctionInv, RedisTypeOK
<1>1. CASE Open
  <2>1. PICK rules \in RuleSet : hash' = OpeningState(rules)
    BY <1>1 DEF Open, Initialize
  <2>2. rules \in Rules /\ rules.start < rules.cap BY RulesAssumption
  <2>3. hash' \in AuctionState
    BY <1>0, <2>1, <2>2 DEF OpeningState, AuctionState, Rules, Statuses, Reasons
  <2>4. board' = board /\ keys' = keys /\ now' = now BY <1>1 DEF Open, Initialize
  <2>5. board = EmptyBoard
    BY <1>1 DEF Open, AuctionInv, EmptyUntilOpened
  <2> QED
    BY <2>1, <2>2, <2>3, <2>4, <2>5
    DEF AuctionInv, RedisTypeOK, LeaderTopsBoard, CapMeansSold, OutcomeMatchesBids,
        EmptyUntilOpened, LeaderHasRaised, EmptyBoard, OpeningState, Rules
<1>2. CASE \E r \in Requests, u \in Users : Bid(r, u)
  <2>1. PICK r \in Requests, u \in Users : Bid(r, u) BY <1>2
  <2>2. hash \in AuctionState BY <2>1 DEF Bid, AuctionInv, RedisTypeOK
  <2>3. hash.rules.cap \in Nat /\ hash.rules.inc \in Nat
    BY <2>2, RulesAssumption DEF AuctionState, Rules
  <2>4. PICK amount \in Nat : AcceptBid(r, u, amount) BY <2>1, <2>3 DEF Bid
  <2> QED BY <2>1, <2>4, BidStepInv DEF Bid
<1>3. CASE Cancel
  <2>1. hash # NoHash /\ hash.status = "RUNNING"
    BY <1>3 DEF Cancel, CancelRunning, CancelCode
  <2>2. hash' = [hash EXCEPT !.status = "CANCELLED", !.reason = "given", !.version = @ + 1]
    BY <1>3 DEF Cancel, CancelRunning
  <2>3. UNCHANGED <<board, keys>> /\ now' \in Nat BY <1>0, <1>3 DEF Cancel, CancelRunning
  <2> QED BY <2>1, <2>2, <2>3, ClosingStep DEF Reasons
<1>4. CASE Finish
  <2> DEFINE status == IF hash.leader = NoUser THEN "UNSOLD" ELSE "SOLD"
  <2>1. hash # NoHash /\ hash.status = "RUNNING"
    BY <1>4 DEF Finish, FinishExpired, FinishCode
  <2>2. hash \in AuctionState BY <2>1 DEF AuctionInv, RedisTypeOK
  <2>3. hash' = [hash EXCEPT !.status = status, !.version = @ + 1]
    BY <1>4 DEF Finish, FinishExpired
  <2>4. hash' = [hash EXCEPT !.status = status, !.reason = hash.reason, !.version = @ + 1]
    BY <2>2, <2>3 DEF AuctionState
  <2>5. hash.reason \in Reasons BY <2>2 DEF AuctionState
  <2>6. UNCHANGED <<board, keys>> /\ now' \in Nat BY <1>0, <1>4 DEF Finish, FinishExpired
  <2>7. /\ status \in {"SOLD", "UNSOLD", "CANCELLED"}
        /\ status = "SOLD" => hash.leader # NoUser
        /\ status = "UNSOLD" => hash.leader = NoUser
    OBVIOUS
  <2> HIDE DEF status
  <2> QED BY <2>1, <2>4, <2>5, <2>6, <2>7, ClosingStep
<1>5. CASE Tick
  <2>1. UNCHANGED redisVars /\ now' \in Nat BY <1>0, <1>5 DEF Tick
  <2> QED
    BY <2>1 DEF redisVars, AuctionInv, RedisTypeOK, LeaderTopsBoard, CapMeansSold, OutcomeMatchesBids,
        EmptyUntilOpened, LeaderHasRaised, EmptyBoard
<1>6. CASE UNCHANGED vars
  BY <1>6 DEF vars, AuctionInv, RedisTypeOK, LeaderTopsBoard, CapMeansSold, OutcomeMatchesBids,
        EmptyUntilOpened, LeaderHasRaised, EmptyBoard
<1> QED BY <1>1, <1>2, <1>3, <1>4, <1>5, <1>6 DEF Next

(* The invariant of the auction in Redis. *)
THEOREM AuctionInvariant == Spec => []AuctionInv
<1>1. Init => AuctionInv BY InitInv
<1>2. AuctionInv /\ [Next]_vars => AuctionInv' BY NextInv
<1> QED BY <1>1, <1>2, PTL DEF Spec

(* All the state of the auction is well typed.                             *)
THEOREM WellTyped == Spec => []TypeOK
<1>1. AuctionInv => TypeOK BY DEF AuctionInv, TypeOK
<1> QED BY <1>1, AuctionInvariant, PTL

(* The leader tops the leaderboard at the current price in every state.    *)
THEOREM LeaderIsTop == Spec => []LeaderTopsBoard
<1>1. AuctionInv => LeaderTopsBoard BY DEF AuctionInv
<1> QED BY <1>1, AuctionInvariant, PTL

(* An auction is at its cap only when it is sold, in every state.          *)
THEOREM CapIsSold == Spec => []CapMeansSold
<1>1. AuctionInv => CapMeansSold BY DEF AuctionInv
<1> QED BY <1>1, AuctionInvariant, PTL

----
(* Every step opens the auction, is a script, or leaves the keys alone.    *)
LEMMA StepIsScript ==
  ASSUME AuctionInv, [Next]_vars
  PROVE  \/ Open
         \/ OneScript
         \/ UNCHANGED redisVars
<1>1. CASE \E r \in Requests, u \in Users : Bid(r, u)
  <2>1. PICK r \in Requests, u \in Users : Bid(r, u) BY <1>1
  <2>2. hash \in AuctionState BY <2>1 DEF Bid, AuctionInv, RedisTypeOK
  <2>3. hash.rules.cap \in Nat /\ hash.rules.inc \in Nat
    BY <2>2, RulesAssumption DEF AuctionState, Rules
  <2>4. PICK amount \in Nat : AcceptBid(r, u, amount) BY <2>1, <2>3 DEF Bid
  <2> QED BY <2>4 DEF OneScript
<1> QED BY <1>1 DEF Next, Cancel, Finish, Tick, OneScript, vars, redisVars

(* A bid that does not sell leaves the others time to answer. *)
THEOREM NoSnipingHolds == Spec => NoSniping
<1>1. AuctionInv /\ [Next]_vars => [LeavesTimeToAnswer]_vars
  <2> SUFFICES ASSUME AuctionInv, [Next]_vars PROVE LeavesTimeToAnswer OBVIOUS
  <2>1. Open => LeavesTimeToAnswer BY DEF Open, LeavesTimeToAnswer
  <2>2. UNCHANGED redisVars => LeavesTimeToAnswer BY DEF redisVars, LeavesTimeToAnswer
  <2> QED BY <2>1, <2>2, StepIsScript, ScriptLeavesTime
<1> QED BY <1>1, AuctionInvariant, PTL DEF Spec, NoSniping

(* An auction is closed by the clock only at its end, which only moves away. *)
THEOREM DeadlineIsKept == Spec => DeadlineKept
<1>1. AuctionInv /\ [Next]_vars => [ClosesInTime]_vars
  <2> SUFFICES ASSUME AuctionInv, [Next]_vars PROVE ClosesInTime OBVIOUS
  <2>1. Open => ClosesInTime BY DEF Open, ClosesInTime
  <2>2. UNCHANGED redisVars => ClosesInTime BY UnchangedClosesInTime
  <2> QED BY <2>1, <2>2, StepIsScript, ScriptClosesInTime
<1> QED BY <1>1, AuctionInvariant, PTL DEF Spec, DeadlineKept

----
(* RedisAuction implements EnglishAuction.                                 *)
LEMMA InitImplements == Init => English!Init
<1> SUFFICES ASSUME Init PROVE English!Init OBVIOUS
<1>1. CASE hash = NoHash
  BY <1>1, RulesAssumption DEF Init, English!Init, EmptyBoard
<1>2. CASE hash # NoHash
  <2>1. PICK rules \in RuleSet : hash = OpeningState(rules) BY <1>2 DEF Init
  <2> QED BY <1>2, <2>1 DEF Init, English!Init, EmptyBoard, OpeningState
<1> QED BY <1>1, <1>2

(* Every command of Redis is a step of the English auction or none. *)
LEMMA NextImplements == AuctionInv /\ [Next]_vars => [English!Next]_English!vars
<1> SUFFICES ASSUME AuctionInv, [Next]_vars PROVE [English!Next]_English!vars OBVIOUS
<1>1. CASE Open
  <2>1. PICK rules \in RuleSet : hash' = OpeningState(rules) BY <1>1 DEF Open, Initialize
  <2>2. now \in Nat BY DEF AuctionInv, RedisTypeOK
  <2>3. rules \in Rules BY RulesAssumption
  <2>4. hash' \in AuctionState
    BY <2>1, <2>2, <2>3 DEF OpeningState, AuctionState, Rules, Statuses, Reasons
  <2>5. hash' # NoHash BY <2>4, NoHashAssumption
  <2>6. English!Open BY <1>1, <2>1, <2>5 DEF Open, Initialize, OpeningState, English!Open
  <2> QED BY <2>6 DEF English!Next
<1>2. CASE OneScript BY <1>2, ScriptIsEnglish
<1>3. CASE UNCHANGED redisVars BY <1>3 DEF redisVars, English!vars
<1> QED BY <1>1, <1>2, <1>3, StepIsScript

(* The scripts implement the abstract auction. *)
THEOREM Implementation == Spec => ImplementsEnglishAuction
<1>1. Init => English!Init BY InitImplements
<1>2. AuctionInv /\ [Next]_vars => [English!Next]_English!vars BY NextImplements
<1> QED BY <1>1, <1>2, AuctionInvariant, PTL DEF Spec, ImplementsEnglishAuction, English!Spec
----
(* evaluateBid and the bid script.                                         *)

(* On a well-typed auction that takes bids the two verdicts are the same,  *)
(* whatever the amount: not only up to cap + inc.                           *)
LEMMA Verdicts ==
  ASSUME TypeOK, Biddable, NEW r \in Requests \ keys, NEW u \in Users, NEW amount \in Nat
  PROVE  SameVerdict(r, u, amount)
<1> DEFINE verdict == EvaluateBid(hash, u, amount, now)
           after == AfterBid(hash, u, amount)
           price == IF amount < hash.rules.cap THEN amount ELSE hash.rules.cap
<1>1. hash \in AuctionState /\ hash # NoHash /\ hash.status = "RUNNING" BY DEF TypeOK, RedisTypeOK, Biddable
<1>2. hash.rules \in Rules BY <1>1, RulesAssumption DEF AuctionState
<1>3. /\ hash.price \in Nat /\ hash.endAt \in Nat /\ now \in Nat
      /\ hash.rules.cap \in Nat /\ hash.rules.inc \in Nat /\ hash.rules.window \in Nat
      /\ hash.rules.ext \in Nat
  BY <1>1, <1>2 DEF AuctionState, Rules, TypeOK, RedisTypeOK
<1>4. ~ (hash.endAt <= now) BY <1>3 DEF Biddable
<1>5. BidCode(r, u, amount) = verdict.code
  BY <1>1, <1>3, <1>4 DEF BidCode, EvaluateBid, Minimum
<1>6. ASSUME verdict.code = "ACCEPTED"
      PROVE  /\ after.price = verdict.price
             /\ after.endAt = verdict.endAt
             /\ after.status = IF verdict.sold THEN "SOLD" ELSE "RUNNING"
  <2>1. /\ verdict.price = price
        /\ verdict.sold = (price >= hash.rules.cap)
        /\ verdict.endAt = IF price < hash.rules.cap /\ hash.endAt - now <= hash.rules.window
                           THEN hash.endAt + hash.rules.ext ELSE hash.endAt
    BY <1>3, <1>6 DEF EvaluateBid
  <2>2. AcceptedPrice(hash, amount) = price BY DEF AcceptedPrice
  <2>3. /\ after.price = price
        /\ after.status = IF price < hash.rules.cap THEN "RUNNING" ELSE "SOLD"
        /\ after.endAt = IF price < hash.rules.cap /\ hash.endAt - now <= hash.rules.window
                         THEN hash.endAt + hash.rules.ext ELSE hash.endAt
    BY <1>1, <2>2 DEF AfterBid, Extends, AuctionState
  <2>4. price \in Nat BY <1>3
  <2> HIDE DEF verdict, after, price
  <2>5. CASE price < hash.rules.cap
    <3>1. ~ (price >= hash.rules.cap) BY <1>3, <2>4, <2>5
    <3>2. ~ verdict.sold BY <2>1, <3>1, Zenon
    <3> QED BY <2>1, <2>3, <2>5, <3>2
  <2>6. CASE ~ (price < hash.rules.cap)
    <3>1. price >= hash.rules.cap BY <1>3, <2>4, <2>6
    <3>2. verdict.sold BY <2>1, <3>1, Zenon
    <3> QED BY <2>1, <2>3, <2>6, <3>2
  <2> QED BY <2>5, <2>6
<1> QED BY <1>5, <1>6 DEF SameVerdict

(* evaluateBid and PLACE_BID_SCRIPT give the same verdict in every state   *)
(* the scripts can bring an auction to.                                    *)
THEOREM RulesAgree == Spec => []RulesMatchScript
<1>1. AuctionInv => RulesMatchScript
  <2> SUFFICES ASSUME AuctionInv, Biddable, NEW r \in Requests \ keys, NEW u \in Users,
                      NEW amount \in 0 .. hash.rules.cap + hash.rules.inc
               PROVE  SameVerdict(r, u, amount)
    BY DEF RulesMatchScript
  <2>1. TypeOK BY DEF AuctionInv, TypeOK
  <2>2. hash.rules.cap \in Nat /\ hash.rules.inc \in Nat
    BY <2>1, RulesAssumption DEF Biddable, TypeOK, RedisTypeOK, AuctionState, Rules
  <2>3. amount \in Nat BY <2>2
  <2> QED BY <2>1, <2>3, Verdicts
<1> QED BY <1>1, AuctionInvariant, PTL
===============================================================================
