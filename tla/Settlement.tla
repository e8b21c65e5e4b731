------------------------------ MODULE Settlement ------------------------------
(***************************************************************************)
(* The settlement timer of auctions.service.ts over several auctions:      *)
(* setInterval starts a pass every 500 ms, the flag settling skips it      *)
(* while another one is awaited, and Promise.all settles every expired row *)
(* at once.  Promise.all rejects with its first failure, so the flag falls *)
(* while the rest of the pass goes on, and passes overlap.                 *)
(*                                                                         *)
(* AuctionService follows one auction through every call; here the calls   *)
(* of others are only the bids, which move an end or sell, and the stores  *)
(* hold what a settlement reads and writes.  Bids are taken at their best: *)
(* one at a time in each auction, with a transaction that never fails and  *)
(* mirrors the bid's own state.  What is shown here of the rows holds of   *)
(* bids that are neither undone nor read back late.                        *)
(***************************************************************************)
EXTENDS Integers

CONSTANTS
  Auctions,  \* ids of started auctions
  Passes,    \* bound: passes at work at the same time
  Cold,      \* auctions whose Redis keys are gone when the API starts
  Failing,   \* auctions for which an access to a store may fail
  NoHash,    \* the state key does not exist
  NoBid,     \* no bid of this auction waits for its transaction
  MaxTime    \* bound: the clock, and every end

ASSUME SettlementAssumption ==
  /\ Cold \subseteq Auctions /\ Failing \subseteq Auctions
  /\ MaxTime \in Nat \ {0}

State == [status : {"RUNNING", "SOLD", "UNSOLD"}, endAt : 0 .. MaxTime, led : BOOLEAN,
          version : Nat]
ASSUME NullsAssumption == NoHash \notin State /\ NoBid \notin State

VARIABLES
  now,        \* the clock
  redis,      \* the hash of each auction: led says it has a leader
  row,        \* its MySQL row
  ordered,    \* the auctions that have an order
  bid,        \* the hash an accepted bid wrote and its transaction is to mirror
  settling,   \* the flag of AuctionsService
  pass,       \* what a call of settleExpiredAuctions awaits
  task,       \* the calls of settleExpiredAuction it has made
  announced   \* the auctions whose auctionEnded the settlement has emitted

stores == <<redis, row, ordered, bid>>
vars == <<now, stores, settling, pass, task, announced>>

NotRunning == [pc |-> "none", seen |-> NoHash]
Task == [pc : {"none", "look", "initialize", "finish", "commit", "emit"},
         seen : State \cup {NoHash}]

Init ==
  /\ now = 0
  /\ \E led \in [Auctions -> BOOLEAN] :
       row = [a \in Auctions |->
                [status |-> "RUNNING", endAt |-> 1, led |-> led[a], version |-> 0]]
  /\ redis = [a \in Auctions |-> IF a \in Cold THEN NoHash ELSE row[a]]
  /\ ordered = {}
  /\ bid = [a \in Auctions |-> NoBid]
  /\ settling = FALSE
  /\ pass = [p \in Passes |-> "idle"]
  /\ task = [p \in Passes |-> [a \in Auctions |-> NotRunning]]
  /\ announced = {}

----
(* The clock and the bids *)

ClockTicks ==
  /\ now < MaxTime
  /\ now' = now + 1
  /\ UNCHANGED <<stores, settling, pass, task, announced>>

(* PLACE_BID_SCRIPT accepts: the bid sells, or moves an end that is near.  *)
(* One bid of an auction is between its script and its transaction.        *)
AcceptBid(a, sells) ==
  /\ redis[a] # NoHash /\ bid[a] = NoBid
  /\ redis[a].status = "RUNNING" /\ now < redis[a].endAt
  /\ ~ sells => redis[a].endAt < MaxTime
  /\ redis' = [redis EXCEPT ![a] =
                 [status |-> IF sells THEN "SOLD" ELSE "RUNNING",
                  endAt |-> IF sells THEN @.endAt ELSE @.endAt + 1,
                  led |-> TRUE, version |-> @.version + 1]]
  /\ bid' = [bid EXCEPT ![a] = redis'[a]]
  /\ UNCHANGED <<now, row, ordered, settling, pass, task, announced>>

(* Mutant of MirrorBid: the row takes any version. *)
MirrorBidUnguarded(a) ==
  /\ bid[a] # NoBid
  /\ row' = [row EXCEPT ![a] = bid[a]]
  /\ ordered' = IF bid[a].status = "SOLD" THEN ordered \cup {a} ELSE ordered
  /\ bid' = [bid EXCEPT ![a] = NoBid]
  /\ UNCHANGED <<now, redis, settling, pass, task, announced>>

(* The bid's transaction: the row takes a newer version, a sale its order. *)
(* That it may fail and be undone is left to AuctionService.               *)
MirrorBid(a) ==
  /\ bid[a] # NoBid
  /\ row' = [row EXCEPT ![a] = IF @.version < bid[a].version THEN bid[a] ELSE @]
  /\ ordered' = IF bid[a].status = "SOLD" THEN ordered \cup {a} ELSE ordered
  /\ bid' = [bid EXCEPT ![a] = NoBid]
  /\ UNCHANGED <<now, redis, settling, pass, task, announced>>

----
(* settleExpiredAuctions *)

(* The interval fires and no pass is awaited. *)
StartPass(p) ==
  /\ ~ settling /\ pass[p] = "idle"
  /\ settling' = TRUE
  /\ pass' = [pass EXCEPT ![p] = "find"]
  /\ UNCHANGED <<now, stores, task, announced>>

Due == {a \in Auctions : row[a].status = "RUNNING" /\ row[a].endAt <= now}

(* findMany answers, and settleExpiredAuction is called for each row. *)
FindExpired(p) ==
  /\ pass[p] = "find"
  /\ task' = [task EXCEPT ![p] = [a \in Auctions |->
                IF a \in Due THEN [pc |-> "look", seen |-> row[a]] ELSE NotRunning]]
  /\ pass' = [pass EXCEPT ![p] = IF Due = {} THEN "idle" ELSE "all"]
  /\ settling' = (Due # {})
  /\ UNCHANGED <<now, stores, announced>>

(* MySQL is unavailable: the timer logs it and goes on with the next pass. *)
FindFails(p) ==
  /\ pass[p] = "find" /\ Failing # {}
  /\ pass' = [pass EXCEPT ![p] = "idle"]
  /\ settling' = FALSE
  /\ UNCHANGED <<now, stores, task, announced>>

(* Mutant of CallEnds: nothing resets the flag after a failure. *)
CallEndsNoFinally(p, a, ok) ==
  LET last == \A b \in Auctions \ {a} : task[p][b] = NotRunning IN
  /\ task' = [task EXCEPT ![p][a] = NotRunning]
  /\ pass' = [pass EXCEPT ![p] = IF last THEN "idle" ELSE IF ok THEN @ ELSE "rejected"]
  /\ settling' = IF pass[p] = "all" /\ ok /\ last THEN FALSE ELSE settling

(* Mutant of CallEnds: a failure abandons the rest of the pass. *)
CallEndsAbandons(p, a, ok) ==
  LET last == \A b \in Auctions \ {a} : task[p][b] = NotRunning IN
  /\ task' = IF ok THEN [task EXCEPT ![p][a] = NotRunning]
             ELSE [task EXCEPT ![p] = [b \in Auctions |-> NotRunning]]
  /\ pass' = [pass EXCEPT ![p] = IF last \/ ~ ok THEN "idle" ELSE @]
  /\ settling' = IF last \/ ~ ok THEN FALSE ELSE settling

(* One call of settleExpiredAuction returns or throws.  Promise.all ends   *)
(* with the last of them or with the first that throws, and only then      *)
(* finally resets the flag; the others of a rejected pass run on.          *)
CallEnds(p, a, ok) ==
  LET last == \A b \in Auctions \ {a} : task[p][b] = NotRunning
      ends == pass[p] = "all" /\ (last \/ ~ ok) IN
  /\ task' = [task EXCEPT ![p][a] = NotRunning]
  /\ pass' = [pass EXCEPT ![p] = IF last THEN "idle" ELSE IF ok THEN @ ELSE "rejected"]
  /\ settling' = IF ends THEN FALSE ELSE settling

----
(* settleExpiredAuction *)

GoTo(p, a, pc) ==
  /\ task' = [task EXCEPT ![p][a].pc = pc]
  /\ UNCHANGED <<settling, pass>>

(* ensureRedisState: getState *)
LookUp(p, a) ==
  /\ task[p][a].pc = "look"
  /\ GoTo(p, a, IF redis[a] = NoHash THEN "initialize" ELSE "finish")
  /\ UNCHANGED <<now, stores, announced>>

(* ensureRedisState: initialize, from the row that findMany read *)
InitializeKey(p, a) ==
  /\ task[p][a].pc = "initialize"
  /\ redis' = [redis EXCEPT ![a] = task[p][a].seen]
  /\ GoTo(p, a, "finish")
  /\ UNCHANGED <<now, row, ordered, bid, announced>>

(* Mutant of MayFinish: the script does not look at the status. *)
MayFinishAgain(a) == redis[a] # NoHash /\ redis[a].endAt <= now

(* FINISH_EXPIRED_SCRIPT answers FINISHED. *)
MayFinish(a) == redis[a] # NoHash /\ redis[a].status = "RUNNING" /\ redis[a].endAt <= now

(* Mutant of EndStatus: a status that the schema does not have. *)
EndStatusEnded(s) == IF s.led THEN "SOLD" ELSE "ENDED"

EndStatus(s) == IF s.led THEN "SOLD" ELSE "UNSOLD"

(* finishExpired, and the early return unless it has finished the auction *)
FinishScript(p, a) ==
  /\ task[p][a].pc = "finish"
  /\ IF MayFinish(a)
     THEN /\ redis' = [redis EXCEPT ![a].status = EndStatus(redis[a]), ![a].version = @ + 1]
          /\ task' = [task EXCEPT ![p][a] = [pc |-> "commit", seen |-> redis'[a]]]
          /\ UNCHANGED <<settling, pass>>
     ELSE /\ CallEnds(p, a, TRUE)
          /\ UNCHANGED redis
  /\ UNCHANGED <<now, row, ordered, bid, announced>>

(* Mutant of Commit: the order is left for later. *)
CommitWithoutOrder(p, a) ==
  LET result == task[p][a].seen IN
  /\ task[p][a].pc = "commit"
  /\ row' = [row EXCEPT ![a] = IF @.version < result.version
                               THEN [@ EXCEPT !.status = result.status, !.version = result.version]
                               ELSE @]
  /\ GoTo(p, a, "emit")
  /\ UNCHANGED <<now, redis, ordered, bid, announced>>

(* The transaction: the status goes to the row, a leader gets the order. *)
Commit(p, a) ==
  LET result == task[p][a].seen IN
  /\ task[p][a].pc = "commit"
  /\ row' = [row EXCEPT ![a] = IF @.version < result.version
                               THEN [@ EXCEPT !.status = result.status, !.version = result.version]
                               ELSE @]
  /\ ordered' = IF result.status = "SOLD" THEN ordered \cup {a} ELSE ordered
  /\ GoTo(p, a, "emit")
  /\ UNCHANGED <<now, redis, bid, announced>>

(* auctionEnded goes to the room of the auction. *)
Announce(p, a) ==
  /\ task[p][a].pc = "emit"
  /\ announced' = announced \cup {a}
  /\ CallEnds(p, a, TRUE)
  /\ UNCHANGED <<now, stores>>

(* An access of the call to Redis or MySQL fails, before it has an effect. *)
CallFails(p, a) ==
  /\ a \in Failing /\ task[p][a].pc # "none"
  /\ CallEnds(p, a, FALSE)
  /\ UNCHANGED <<now, stores, announced>>

CallSteps(p, a) ==
  LookUp(p, a) \/ InitializeKey(p, a) \/ FinishScript(p, a) \/ Commit(p, a) \/ Announce(p, a)

----
Next ==
  \/ ClockTicks
  \/ \E a \in Auctions : MirrorBid(a) \/ \E sells \in BOOLEAN : AcceptBid(a, sells)
  \/ \E p \in Passes : StartPass(p) \/ FindExpired(p) \/ FindFails(p)
  \/ \E p \in Passes, a \in Auctions : CallSteps(p, a) \/ CallFails(p, a)

(***************************************************************************)
(* Time passes, the interval keeps firing, what is awaited is answered,    *)
(* and MySQL is not down at every pass for ever.                           *)
(***************************************************************************)
Fairness ==
  /\ WF_vars(ClockTicks)
  /\ \A a \in Auctions : WF_vars(MirrorBid(a))
  /\ WF_vars(\E p \in Passes : StartPass(p))
  /\ SF_vars(\E p \in Passes : FindExpired(p))
  /\ \A p \in Passes, a \in Auctions : WF_vars(CallSteps(p, a))

Spec == Init /\ [][Next]_vars
FairSpec == Spec /\ Fairness

----
TypeOK ==
  /\ now \in 0 .. MaxTime
  /\ redis \in [Auctions -> State \cup {NoHash}]
  /\ row \in [Auctions -> State]
  /\ ordered \subseteq Auctions
  /\ bid \in [Auctions -> State \cup {NoBid}]
  /\ settling \in BOOLEAN
  /\ pass \in [Passes -> {"idle", "find", "all", "rejected"}]
  /\ task \in [Passes -> [Auctions -> Task]]
  /\ announced \subseteq Auctions

Settles(p, a) == task[p][a].pc \in {"commit", "emit"}

(***************************************************************************)
(* Passes overlap once a call has thrown, and two of them work on the same *)
(* auction; still only one ever gets to write its end and announce it      *)
(* (unless both had to initialize the key first, see the README).          *)
(***************************************************************************)
SettledOnce ==
  \A a \in Auctions \ Cold, p \in Passes :
    Settles(p, a) => /\ a \notin announced
                     /\ \A q \in Passes \ {p} : ~ Settles(q, a)

(***************************************************************************)
(* What has been announced is in the database: the row has ended, and with *)
(* an order exactly if it is sold.  An order is always of a sale.          *)
(***************************************************************************)
AnnouncedIsStored ==
  \A a \in Auctions :
    /\ a \in announced => row[a].status # "RUNNING"
    /\ a \in ordered <=> row[a].status = "SOLD"

(* The flag is up exactly while one pass is awaited, and for one only. *)
OneAwaited ==
  /\ settling <=> \E p \in Passes : pass[p] \in {"find", "all"}
  /\ \A p, q \in Passes : pass[p] \in {"find", "all"} /\ pass[q] \in {"find", "all"} => p = q

(* A row that has ended stays as it is, late as a bid may still be mirrored. *)
(* (A bid that is undone writes Redis only, and is not in this module.)      *)
EndIsFinal ==
  [][\A a \in Auctions : row[a].status # "RUNNING" => row'[a] = row[a]]_vars

(***************************************************************************)
(* An auction for which the stores answer is settled, whatever happens to  *)
(* the others that expire with it, pass after pass.                        *)
(***************************************************************************)
OthersAreSettled ==
  \A a \in Auctions \ Failing : <>(row[a].status # "RUNNING")
===============================================================================
