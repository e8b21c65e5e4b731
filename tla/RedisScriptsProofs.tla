-------------------------- MODULE RedisScriptsProofs --------------------------
(***************************************************************************)
(* What the scripts return and write, one lemma per script, for every      *)
(* state of the keys.  Both proofs of invariants rest on these.            *)
(***************************************************************************)
EXTENDS RedisScripts, TLAPS

(* An accepted bid is for a running auction that the clock has not ended,  *)
(* from a user who does not lead, at least an increment above the price.   *)
LEMMA AcceptedBid ==
  ASSUME NEW r, NEW u, NEW amount, BidCode(r, u, amount) = "ACCEPTED"
  PROVE  /\ hash # NoHash
         /\ r \notin keys
         /\ hash.status = "RUNNING"
         /\ hash.leader # u
         /\ ~ (hash.endAt <= now)
         /\ ~ (amount < hash.price + hash.rules.inc)
BY DEF BidCode

(* Below the cap an accepted bid strictly raises the price, up to the cap. *)
LEMMA AcceptedPriceRises ==
  ASSUME NEW s \in AuctionState, NEW amount \in Nat,
         s.price < s.rules.cap,
         ~ (amount < s.price + s.rules.inc)
  PROVE  /\ AcceptedPrice(s, amount) \in Nat
         /\ s.price < AcceptedPrice(s, amount)
         /\ AcceptedPrice(s, amount) <= s.rules.cap
<1>1. s.rules \in Rules BY RulesAssumption DEF AuctionState
<1>2. s.price \in Nat /\ s.rules.cap \in Nat /\ s.rules.inc \in Nat \ {0}
  BY <1>1 DEF AuctionState, Rules
<1> QED BY <1>2 DEF AcceptedPrice

(* The hash after a bid, field by field. *)
LEMMA AfterBidFields ==
  ASSUME NEW s \in AuctionState, NEW u \in Users, NEW amount \in Nat
  PROVE  /\ AfterBid(s, u, amount) \in AuctionState
         /\ AfterBid(s, u, amount).price = AcceptedPrice(s, amount)
         /\ AfterBid(s, u, amount).leader = u
         /\ AfterBid(s, u, amount).rules = s.rules
         /\ AfterBid(s, u, amount).status
              = IF AcceptedPrice(s, amount) < s.rules.cap THEN "RUNNING" ELSE "SOLD"
         /\ AfterBid(s, u, amount).endAt
              = IF Extends(s, amount) THEN s.endAt + s.rules.ext ELSE s.endAt
<1>1. s.rules \in Rules BY RulesAssumption DEF AuctionState
<1>2. s.rules.cap \in Nat /\ s.rules.ext \in Nat BY <1>1 DEF Rules
<1>3. AcceptedPrice(s, amount) \in Nat BY <1>2 DEF AcceptedPrice
<1>4. s.endAt \in Nat /\ s.version \in Nat BY DEF AuctionState
<1> DEFINE status == IF AcceptedPrice(s, amount) < s.rules.cap THEN "RUNNING" ELSE "SOLD"
           endAt == IF Extends(s, amount) THEN s.endAt + s.rules.ext ELSE s.endAt
           price == AcceptedPrice(s, amount)
           version == s.version + 1
<1>5. status \in Statuses /\ endAt \in Nat /\ price \in Nat /\ version \in Nat
  BY <1>2, <1>3, <1>4 DEF Statuses
<1>6. AfterBid(s, u, amount) = [s EXCEPT !.status = status, !.price = price, !.leader = u,
                                         !.endAt = endAt, !.version = version]
  BY DEF AfterBid
<1> HIDE DEF status, endAt, price, version
<1>7. /\ AfterBid(s, u, amount) \in AuctionState
      /\ AfterBid(s, u, amount).price = price
      /\ AfterBid(s, u, amount).leader = u
      /\ AfterBid(s, u, amount).rules = s.rules
      /\ AfterBid(s, u, amount).status = status
      /\ AfterBid(s, u, amount).endAt = endAt
  BY <1>5, <1>6 DEF AuctionState
<1> QED BY <1>7 DEF status, endAt, price

(* Cancelling closes a running auction and leaves the offers alone. *)
LEMMA CancelledHash ==
  ASSUME CancelRunning, hash \in AuctionState \cup {NoHash}
  PROVE  /\ hash # NoHash /\ hash.status = "RUNNING"
         /\ hash' \in AuctionState
         /\ hash'.status = "CANCELLED"
         /\ hash' = [hash EXCEPT !.status = "CANCELLED", !.reason = "given", !.version = @ + 1]
<1>1. hash \in AuctionState /\ hash.status = "RUNNING"
  BY DEF CancelRunning, CancelCode
<1>2. hash.version + 1 \in Nat BY <1>1 DEF AuctionState
<1>3. hash' = [hash EXCEPT !.status = "CANCELLED", !.reason = "given", !.version = @ + 1]
  BY DEF CancelRunning
<1>4. hash' \in AuctionState /\ hash'.status = "CANCELLED"
  BY <1>1, <1>2, <1>3 DEF AuctionState, Statuses, Reasons
<1> QED BY <1>1, <1>3, <1>4, NoHashAssumption

(* The settlement sells to the leader, or to nobody if there is none. *)
LEMMA FinishedHash ==
  ASSUME FinishExpired, hash \in AuctionState \cup {NoHash}
  PROVE  /\ hash # NoHash /\ hash.status = "RUNNING"
         /\ hash' \in AuctionState
         /\ hash'.leader = hash.leader
         /\ hash'.status = IF hash.leader = NoUser THEN "UNSOLD" ELSE "SOLD"
<1> DEFINE status == IF hash.leader = NoUser THEN "UNSOLD" ELSE "SOLD"
<1>1. hash \in AuctionState /\ hash.status = "RUNNING"
  BY DEF FinishExpired, FinishCode
<1>2. hash.version + 1 \in Nat /\ status \in Statuses BY <1>1 DEF AuctionState, Statuses
<1>3. hash' = [hash EXCEPT !.status = status, !.version = @ + 1] BY DEF FinishExpired
<1> HIDE DEF status
<1>4. hash' \in AuctionState /\ hash'.leader = hash.leader /\ hash'.status = status
  BY <1>1, <1>2, <1>3 DEF AuctionState
<1> QED BY <1>1, <1>4, NoHashAssumption DEF status

(* An accepted bid leaves well-typed keys and adds its requestId. *)
LEMMA AcceptedBidKeys ==
  ASSUME NEW r \in Requests, NEW u \in Users, NEW amount \in Nat,
         hash \in AuctionState \cup {NoHash}, board \in [Users -> Nat], keys \in SUBSET Requests,
         AcceptBid(r, u, amount)
  PROVE  /\ hash' \in AuctionState
         /\ board' \in [Users -> Nat]
         /\ keys' \in SUBSET Requests
<1>1. hash \in AuctionState BY AcceptedBid DEF AcceptBid
<1>2. hash.rules \in Rules BY <1>1, RulesAssumption DEF AuctionState
<1>3. AcceptedPrice(hash, amount) \in Nat BY <1>2 DEF AcceptedPrice, Rules
<1>4. hash' \in AuctionState BY <1>1, AfterBidFields DEF AcceptBid
<1>5. board' \in [Users -> Nat] BY <1>3 DEF AcceptBid
<1>6. keys' \in SUBSET Requests BY DEF AcceptBid
<1> QED BY <1>4, <1>5, <1>6

----
(* What the steps that leave the offers alone need of the next hash. *)
LEMMA ClosingStep ==
  ASSUME AuctionInv, hash # NoHash, hash.status = "RUNNING",
         NEW status \in {"SOLD", "UNSOLD", "CANCELLED"},
         NEW reason \in Reasons,
         hash' = [hash EXCEPT !.status = status, !.reason = reason, !.version = @ + 1],
         status = "SOLD" => hash.leader # NoUser,
         status = "UNSOLD" => hash.leader = NoUser,
         UNCHANGED <<board, keys>>, now' \in Nat
  PROVE  AuctionInv'
<1>1. hash \in AuctionState BY DEF AuctionInv, RedisTypeOK
<1>2. hash.version + 1 \in Nat /\ status \in Statuses BY <1>1 DEF AuctionState, Statuses
<1>3. /\ hash' \in AuctionState
      /\ hash'.status = status
      /\ hash'.price = hash.price /\ hash'.leader = hash.leader /\ hash'.rules = hash.rules
  BY <1>1, <1>2 DEF AuctionState
<1>4. hash.price < hash.rules.cap
  <2>1. hash.price <= hash.rules.cap /\ hash.price # hash.rules.cap BY DEF AuctionInv, CapMeansSold
  <2>2. hash.rules \in Rules BY <1>1, RulesAssumption DEF AuctionState
  <2>3. hash.price \in Nat /\ hash.rules.cap \in Nat BY <1>1, <2>2 DEF AuctionState, Rules
  <2> QED BY <2>1, <2>3
<1>5. hash' # NoHash BY <1>3, NoHashAssumption
<1>6. RedisTypeOK' BY <1>3 DEF AuctionInv, RedisTypeOK
<1>7. LeaderTopsBoard' BY <1>3, <1>5 DEF AuctionInv, LeaderTopsBoard, EmptyBoard
<1>8. CapMeansSold' BY <1>3, <1>4, <1>5 DEF AuctionInv, CapMeansSold
<1>9. OutcomeMatchesBids' BY <1>3 DEF OutcomeMatchesBids
<1>10. EmptyUntilOpened' BY <1>5 DEF EmptyUntilOpened
<1>11. LeaderHasRaised' BY <1>3, <1>5 DEF AuctionInv, LeaderHasRaised
<1> QED BY <1>6, <1>7, <1>8, <1>9, <1>10, <1>11 DEF AuctionInv

(* Nobody's score is above the price. *)
LEMMA OffersBelowPrice ==
  ASSUME AuctionInv, hash # NoHash
  PROVE  \A v \in Users : board[v] <= hash.price
<1>1. hash.price \in Nat /\ board \in [Users -> Nat] BY DEF AuctionInv, RedisTypeOK, AuctionState
<1> SUFFICES ASSUME NEW v \in Users PROVE board[v] <= hash.price OBVIOUS
<1>2. CASE hash.leader = NoUser
  BY <1>1, <1>2 DEF AuctionInv, LeaderTopsBoard, EmptyBoard
<1>3. CASE hash.leader # NoUser
  <2>1. /\ board[hash.leader] = hash.price
        /\ v # hash.leader => board[v] < hash.price
    BY <1>3 DEF AuctionInv, LeaderTopsBoard
  <2> QED BY <1>1, <2>1
<1> QED BY <1>2, <1>3

(* PLACE_BID_SCRIPT keeps the invariant: HSET and ZADD stay in step. *)
LEMMA BidStepInv ==
  ASSUME AuctionInv, NEW r \in Requests, NEW u \in Users, NEW amount \in Nat,
         AcceptBid(r, u, amount), UNCHANGED now
  PROVE  AuctionInv'
<1>1. /\ hash # NoHash /\ hash \in AuctionState
      /\ hash.status = "RUNNING" /\ hash.leader # u
      /\ ~ (amount < hash.price + hash.rules.inc)
  BY AcceptedBid DEF AcceptBid, AuctionInv, RedisTypeOK
<1> DEFINE price == AcceptedPrice(hash, amount)
<1>2. hash.rules \in Rules BY <1>1, RulesAssumption DEF AuctionState
<1>3. hash.price \in Nat /\ hash.rules.cap \in Nat /\ hash.rules.start \in Nat
  BY <1>1, <1>2 DEF AuctionState, Rules
<1>4. hash.price < hash.rules.cap
  BY <1>1, <1>3 DEF AuctionInv, CapMeansSold
<1>5. price \in Nat /\ hash.price < price /\ price <= hash.rules.cap
  BY <1>1, <1>4, AcceptedPriceRises
<1>6. /\ hash' \in AuctionState
      /\ hash'.price = price /\ hash'.leader = u /\ hash'.rules = hash.rules
      /\ hash'.status = IF price < hash.rules.cap THEN "RUNNING" ELSE "SOLD"
  BY <1>1, AfterBidFields DEF AcceptBid
<1>7. board' = [board EXCEPT ![u] = price] BY DEF AcceptBid
<1>8. board \in [Users -> Nat] BY DEF AuctionInv, RedisTypeOK
<1> HIDE DEF price
<1>9. hash' # NoHash /\ u # NoUser BY <1>6, NoHashAssumption, NoUserAssumption
<1>10. RedisTypeOK'
  <2>1. board' \in [Users -> Nat] BY <1>5, <1>7, <1>8
  <2>2. keys' \in SUBSET Requests BY DEF AcceptBid, AuctionInv, RedisTypeOK
  <2> QED BY <1>6, <2>1, <2>2 DEF AuctionInv, RedisTypeOK
<1>11. \A v \in Users : board[v] <= hash.price BY <1>1, OffersBelowPrice
<1>12. LeaderTopsBoard'
  <2>1. board'[u] = price BY <1>7, <1>8
  <2>2. \A v \in Users \ {u} : board'[v] < price BY <1>3, <1>5, <1>7, <1>8, <1>11
  <2> QED BY <1>6, <1>9, <2>1, <2>2 DEF LeaderTopsBoard
<1>13. CapMeansSold' BY <1>3, <1>5, <1>6 DEF CapMeansSold
<1>14. OutcomeMatchesBids' BY <1>6, <1>9 DEF OutcomeMatchesBids
<1>15. EmptyUntilOpened' BY <1>9 DEF EmptyUntilOpened
<1>16. hash.rules.start <= hash.price
  BY <1>1, <1>3 DEF AuctionInv, LeaderTopsBoard, LeaderHasRaised
<1>17. LeaderHasRaised' BY <1>3, <1>5, <1>6, <1>16 DEF LeaderHasRaised
<1> QED BY <1>10, <1>12, <1>13, <1>14, <1>15, <1>17 DEF AuctionInv

----
(* What the scripts promise on every step, whoever runs them.              *)
OneScript ==
  \/ \E r \in Requests, u \in Users, amount \in Nat : AcceptBid(r, u, amount)
  \/ CancelRunning
  \/ FinishExpired

(* What an accepted bid does to the deadline. *)
LEMMA BidMovesEnd ==
  ASSUME AuctionInv, NEW r \in Requests, NEW u \in Users, NEW amount \in Nat,
         AcceptBid(r, u, amount)
  PROVE  /\ hash'.endAt >= hash.endAt
         /\ hash'.status = "RUNNING" => \/ hash'.endAt - now > hash.rules.window
                                        \/ hash'.endAt - now > hash.rules.ext
         /\ hash'.status \in {"SOLD", "UNSOLD"} => hash'.price = hash.rules.cap
<1>1. hash \in AuctionState /\ hash.status = "RUNNING" /\ ~ (hash.endAt <= now)
  BY AcceptedBid DEF AcceptBid, AuctionInv, RedisTypeOK
<1>2. hash.rules \in Rules BY <1>1, RulesAssumption DEF AuctionState
<1>3. /\ hash.endAt \in Nat /\ now \in Nat
      /\ hash.rules.window \in Nat /\ hash.rules.ext \in Nat \ {0} /\ hash.rules.cap \in Nat
  BY <1>1, <1>2 DEF AuctionState, Rules, AuctionInv, RedisTypeOK
<1> DEFINE price == AcceptedPrice(hash, amount)
<1>4. /\ hash'.price = price
      /\ hash'.status = IF price < hash.rules.cap THEN "RUNNING" ELSE "SOLD"
      /\ hash'.endAt = IF Extends(hash, amount) THEN hash.endAt + hash.rules.ext ELSE hash.endAt
  BY <1>1, AfterBidFields DEF AcceptBid
<1>5. price \in Nat /\ (~ (price < hash.rules.cap) => price = hash.rules.cap)
  BY <1>3 DEF AcceptedPrice
<1>6. Extends(hash, amount) <=> price < hash.rules.cap /\ hash.endAt - now <= hash.rules.window
  BY DEF Extends
<1> HIDE DEF price
<1> QED BY <1>1, <1>3, <1>4, <1>5, <1>6

(* The other scripts leave the leader and the deadline alone, and only the *)
(* clock sells or does not sell. *)
LEMMA ClosingKeeps ==
  ASSUME AuctionInv, CancelRunning \/ FinishExpired
  PROVE  /\ hash # NoHash /\ hash'.leader = hash.leader /\ hash'.endAt = hash.endAt
         /\ hash'.status = "CANCELLED" \/ hash.endAt <= now
         /\ hash'.status # "RUNNING"
<1>0. hash \in AuctionState \cup {NoHash} BY DEF AuctionInv, RedisTypeOK
<1>1. CASE CancelRunning
  BY <1>0, <1>1, CancelledHash DEF AuctionState
<1>2. CASE FinishExpired
  <2>1. hash # NoHash /\ hash \in AuctionState BY <1>0, <1>2, FinishedHash
  <2>2. hash.endAt \in Nat /\ now \in Nat BY <2>1 DEF AuctionState, AuctionInv, RedisTypeOK
  <2>3. hash.endAt <= now BY <1>2, <2>2 DEF FinishExpired, FinishCode
  <2>4. hash'.endAt = hash.endAt BY <1>2, <2>1 DEF FinishExpired, AuctionState
  <2> QED BY <1>0, <1>2, <2>1, <2>3, <2>4, FinishedHash
<1> QED BY <1>1, <1>2

(* No script snipes. *)
LEMMA ScriptLeavesTime == ASSUME AuctionInv, OneScript PROVE LeavesTimeToAnswer
<1>1. CASE \E r \in Requests, u \in Users, amount \in Nat : AcceptBid(r, u, amount)
  BY <1>1, BidMovesEnd DEF LeavesTimeToAnswer
<1>2. CASE CancelRunning \/ FinishExpired
  BY <1>2, ClosingKeeps DEF LeavesTimeToAnswer
<1> QED BY <1>1, <1>2 DEF OneScript

(* Keys that stay as they are meet no deadline. *)
LEMMA UnchangedClosesInTime == ASSUME AuctionInv, UNCHANGED redisVars PROVE ClosesInTime
<1>1. hash # NoHash => hash.endAt \in Nat BY DEF AuctionInv, RedisTypeOK, AuctionState
<1> QED BY <1>1 DEF ClosesInTime, redisVars

(* No script sells before the deadline, except at the cap. *)
LEMMA ScriptClosesInTime == ASSUME AuctionInv, OneScript PROVE ClosesInTime
<1> SUFFICES ASSUME hash # NoHash, hash' # NoHash
             PROVE  /\ hash'.endAt >= hash.endAt
                    /\ hash.status = "RUNNING" /\ hash'.status \in {"SOLD", "UNSOLD"}
                         => hash'.price = hash.rules.cap \/ hash'.endAt <= now
  BY DEF ClosesInTime
<1>1. hash.endAt \in Nat BY DEF AuctionInv, RedisTypeOK, AuctionState
<1>2. CASE \E r \in Requests, u \in Users, amount \in Nat : AcceptBid(r, u, amount)
  BY <1>2, BidMovesEnd
<1>3. CASE CancelRunning \/ FinishExpired
  <2>1. /\ hash'.endAt = hash.endAt
        /\ hash'.status = "CANCELLED" \/ hash.endAt <= now
    BY <1>3, ClosingKeeps
  <2> QED BY <1>1, <2>1
<1> QED BY <1>2, <1>3 DEF OneScript

(* An accepted bid is an offer that beats all the others. *)
LEMMA BidIsOffer ==
  ASSUME AuctionInv, NEW r \in Requests, NEW u \in Users, NEW amount \in Nat,
         AcceptBid(r, u, amount)
  PROVE  \E p \in 1 .. hash.rules.cap : hash # NoHash /\ English!Offer(u, p)
<1>1. /\ hash # NoHash /\ hash \in AuctionState
      /\ hash.status = "RUNNING" /\ hash.leader # u
      /\ ~ (amount < hash.price + hash.rules.inc)
  BY AcceptedBid DEF AcceptBid, AuctionInv, RedisTypeOK
<1> DEFINE price == AcceptedPrice(hash, amount)
<1>2. hash.rules \in Rules /\ hash.rules \in RuleSet BY <1>1, RulesAssumption DEF AuctionState
<1>3. /\ hash.price \in Nat /\ hash.rules.cap \in Nat
      /\ hash.rules.start \in Nat /\ hash.rules.inc \in Nat
  BY <1>1, <1>2 DEF AuctionState, Rules
<1>4. hash.price < hash.rules.cap
  BY <1>1, <1>3 DEF AuctionInv, CapMeansSold
<1>5. price \in Nat /\ hash.price < price /\ price <= hash.rules.cap
  BY <1>1, <1>4, AcceptedPriceRises
<1>6. price = hash.rules.cap \/ (price < hash.rules.cap /\ hash.price + hash.rules.inc <= price)
  BY <1>1, <1>3 DEF AcceptedPrice
<1>7. /\ hash' \in AuctionState
      /\ hash'.leader = u /\ hash'.rules = hash.rules
      /\ hash'.status = IF price < hash.rules.cap THEN "RUNNING" ELSE "SOLD"
  BY <1>1, AfterBidFields DEF AcceptBid
<1>8. board' = [board EXCEPT ![u] = price] BY DEF AcceptBid
<1>9. board \in [Users -> Nat] BY DEF AuctionInv, RedisTypeOK
<1> HIDE DEF price
<1>10. hash' # NoHash BY <1>7, NoHashAssumption
<1>11. hash.rules.start <= hash.price
  BY <1>1, <1>3 DEF AuctionInv, LeaderTopsBoard, LeaderHasRaised
<1>12. \A v \in Users : board[v] <= hash.price BY <1>1, OffersBelowPrice
<1>13. ~ English!OnTop(u)
  <2>1. CASE hash.leader = NoUser
    BY <1>1, <2>1, NoUserAssumption DEF English!OnTop, AuctionInv, LeaderTopsBoard, EmptyBoard
  <2>2. CASE hash.leader # NoUser
    <3>1. /\ hash.leader \in Users \ {u} BY <1>1, <2>2 DEF AuctionState
    <3>2. board[hash.leader] = hash.price /\ board[u] < hash.price
      BY <1>1, <2>2 DEF AuctionInv, LeaderTopsBoard
    <3> QED BY <1>3, <1>9, <3>1, <3>2 DEF English!OnTop
  <2> QED BY <2>1, <2>2
<1>14. \A v \in Users : board[v] < price
  <2> TAKE v \in Users
  <2>1. board[v] \in Nat /\ board[v] <= hash.price BY <1>9, <1>12
  <2> QED BY <1>3, <1>5, <2>1
<1>15. hash.rules.start < price BY <1>3, <1>5, <1>11
<1>16. price = hash.rules.cap
       \/ (/\ hash.rules.start + hash.rules.inc <= price
           /\ \A v \in Users : board[v] > 0 => board[v] + hash.rules.inc <= price)
  BY <1>3, <1>5, <1>6, <1>9, <1>11, <1>12
<1>17. price \in 1 .. hash.rules.cap BY <1>3, <1>5
<1>18. English!Offer(u, price)
  BY <1>1, <1>3, <1>5, <1>6, <1>7, <1>8, <1>10, <1>13, <1>14, <1>15, <1>16 DEF English!Offer
<1> QED BY <1>1, <1>17, <1>18

(* Every script is a step of the English auction: an offer, a withdrawal,  *)
(* or the fall of the hammer. *)
LEMMA ScriptIsEnglish == ASSUME AuctionInv, OneScript PROVE English!Next
<1>0. hash \in AuctionState \cup {NoHash} BY DEF AuctionInv, RedisTypeOK
<1>1. CASE \E r \in Requests, u \in Users, amount \in Nat : AcceptBid(r, u, amount)
  <2>1. PICK r \in Requests, u \in Users, amount \in Nat : AcceptBid(r, u, amount) BY <1>1
  <2>2. PICK p \in 1 .. hash.rules.cap : hash # NoHash /\ English!Offer(u, p)
    BY <2>1, BidIsOffer
  <2> QED BY <2>2 DEF English!Next
<1>2. CASE CancelRunning
  <2>1. /\ hash # NoHash /\ hash.status = "RUNNING"
        /\ hash' \in AuctionState /\ hash'.status = "CANCELLED"
        /\ hash' = [hash EXCEPT !.status = "CANCELLED", !.reason = "given", !.version = @ + 1]
    BY <1>0, <1>2, CancelledHash
  <2>2. hash'.rules = hash.rules /\ hash' # NoHash BY <1>0, <2>1, NoHashAssumption DEF AuctionState
  <2>3. board' = board BY <1>2 DEF CancelRunning
  <2>4. English!Withdraw BY <2>1, <2>2, <2>3 DEF English!Withdraw
  <2> QED BY <2>4 DEF English!Next
<1>3. CASE FinishExpired
  <2>1. /\ hash # NoHash /\ hash.status = "RUNNING"
        /\ hash' \in AuctionState /\ hash'.leader = hash.leader
        /\ hash'.status = IF hash.leader = NoUser THEN "UNSOLD" ELSE "SOLD"
    BY <1>0, <1>3, FinishedHash
  <2>2. hash \in AuctionState /\ hash' # NoHash BY <1>0, <2>1, NoHashAssumption
  <2>3. hash'.rules = hash.rules /\ board' = board
    BY <1>3, <2>2 DEF FinishExpired, AuctionState
  <2>4. CASE hash.leader = NoUser
    <3>1. board = EmptyBoard BY <2>1, <2>4 DEF AuctionInv, LeaderTopsBoard
    <3>2. English!HammerUnsold
      BY <2>1, <2>2, <2>3, <2>4, <3>1 DEF English!HammerUnsold, EmptyBoard
    <3> QED BY <3>2 DEF English!Next
  <2>5. CASE hash.leader # NoUser
    <3>1. hash.leader \in Users BY <2>2, <2>5 DEF AuctionState
    <3>2. hash.rules.start \in Nat /\ hash.price \in Nat
      BY <2>2, RulesAssumption DEF AuctionState, Rules
    <3>3. English!OnTop(hash.leader)
      BY <2>1, <2>5, <3>1, <3>2 DEF English!OnTop, AuctionInv, LeaderTopsBoard, LeaderHasRaised
    <3>4. English!HammerSold
      BY <2>1, <2>2, <2>3, <2>5, <3>1, <3>3 DEF English!HammerSold
    <3> QED BY <3>4 DEF English!Next
  <2> QED BY <2>4, <2>5
<1> QED BY <1>1, <1>2, <1>3 DEF OneScript
===============================================================================
