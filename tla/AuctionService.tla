---------------------------- MODULE AuctionService ----------------------------
(***************************************************************************)
(* auctions.service.ts and orders.service.ts for one auction: the handlers *)
(* of a single Node.js process, interleaved at every await, over the keys  *)
(* of Redis (RedisScripts) and the rows of MySQL.                          *)
(*                                                                         *)
(* Every HTTP request and every pass of the settlement timer is a "call"   *)
(* with a program counter.  One step of a call is one access to Redis or   *)
(* to MySQL together with the JavaScript up to the next await.  ioredis    *)
(* sends the commands of its only connection in order, so a command takes  *)
(* effect where the step is; an interactive Prisma transaction starts by   *)
(* updating the auction row and holds that row to the end, so a            *)
(* transaction is one step too.                                            *)
(*                                                                         *)
(* The constant Faults switches on what can go wrong around a step, and    *)
(* the sets of calls say which requests arrive at all.                     *)
(***************************************************************************)
EXTENDS RedisScripts, FiniteSets

CONSTANTS
  BidCalls,     \* POST /auctions/:id/bids
  CancelCalls,  \* POST /auctions/:id/cancel
  StartCalls,   \* POST /auctions/:id/start
  UpdateCalls,  \* PATCH /auctions/:id
  PayCalls,     \* POST /orders/:id/pay
  Timer,        \* the settlement timer of the process
  Inputs,       \* the bodies of the bids clients may send
  NoBid,        \* no row with this requestId
  NoOrder,      \* no row with this auctionId
  TopN,         \* length of a leaderboard: 5 in the code
  Faults,       \* the faults that may happen
  MaxInFlight,  \* bound: calls handled at the same time
  MaxTime       \* bound: the clock stops here

AllFaults == {"db", "rollback", "redis", "resend", "evict", "flush", "crash"}

Calls == BidCalls \cup CancelCalls \cup StartCalls \cup UpdateCalls \cup PayCalls \cup {Timer}

ASSUME InputsAssumption == Inputs \subseteq [req : Requests, user : Users, amount : Nat]
ASSUME CallsAssumption ==
  /\ BidCalls \cap (CancelCalls \cup StartCalls \cup UpdateCalls \cup PayCalls \cup {Timer}) = {}
  /\ CancelCalls \cap (StartCalls \cup UpdateCalls \cup PayCalls \cup {Timer}) = {}
  /\ StartCalls \cap (UpdateCalls \cup PayCalls \cup {Timer}) = {}
  /\ UpdateCalls \cap (PayCalls \cup {Timer}) = {}
  /\ Timer \notin PayCalls
ASSUME FaultsAssumption == Faults \subseteq AllFaults
ASSUME BoundsAssumption == TopN \in Nat /\ MaxInFlight \in Nat /\ MaxTime \in Nat

BidRow == [user : Users, amount : Nat]
OrderRow == [winner : Users, amount : Nat, status : {"PENDING_PAYMENT", "PAID"}]

ASSUME NoRowAssumption == NoBid \notin BidRow /\ NoOrder \notin OrderRow

VARIABLES
  row,     \* the Auction row
  bids,    \* the Bid rows of the auction, by requestId (UNIQUE)
  order,   \* the Order row of the auction (auctionId UNIQUE), or NoOrder
  input,   \* the body each bid call carries
  call     \* the state of each call

dbVars == <<row, bids, order>>
vars == <<hash, board, keys, now, row, bids, order, input, call>>

(***************************************************************************)
(* The local state of a call.  seen is the row or the hash it read last,   *)
(* entries the leaderboard it read, again whether the MISSING branch of    *)
(* placeBid was taken, reply what its caller was told.                     *)
(***************************************************************************)
Replies == {"none", "accepted", "sold", "duplicate", "done", "rejected", "error"}
PCs == {"idle", "eval", "read", "commit", "emit", "load", "ensure", "init",
        "undo.load", "undo.board", "undo.exec", "save", "done"}
CallState == [pc : PCs, seen : AuctionState \cup {NoHash}, entries : [Users -> Nat],
              again : BOOLEAN, reply : Replies]

Fresh == [pc |-> "idle", seen |-> NoHash, entries |-> EmptyBoard,
          again |-> FALSE, reply |-> "none"]

InFlight == {c \in Calls : call[c].pc \notin {"idle", "done"}}

At(c, pc) == call[c].pc = pc
Goto(c, pc) == call' = [call EXCEPT ![c].pc = pc]
GotoSeeing(c, pc, s) == call' = [call EXCEPT ![c].pc = pc, ![c].seen = s]

(* The call is answered and its locals are gone; the timer waits for its next pass. *)
Answer(c, reply) ==
  call' = [call EXCEPT ![c] = IF c = Timer THEN Fresh
                              ELSE [Fresh EXCEPT !.pc = "done", !.reply = reply]]

(* A new call is let in. *)
Arrives(c) == At(c, "idle") /\ Cardinality(InFlight) < MaxInFlight

----
(***************************************************************************)
(* An auction that is created, or one whose start() has completed with     *)
(* nothing else going on.                                                  *)
(***************************************************************************)
Created(rules) ==
  [status |-> "DRAFT", price |-> rules.start, leader |-> NoUser, endAt |-> 0,
   version |-> 0, reason |-> "none", rules |-> rules]
Started(s, endAt) ==
  [s EXCEPT !.status = "RUNNING", !.endAt = endAt, !.version = @ + 1]

Init ==
  /\ \E rules \in RuleSet :
       \/ /\ row = Created(rules)
          /\ hash = NoHash
       \/ /\ row = Started(Created(rules), rules.duration)
          /\ hash = row
  /\ board = EmptyBoard
  /\ keys = {}
  /\ now = 0
  /\ bids = [r \in Requests |-> NoBid]
  /\ order = NoOrder
  /\ input \in [BidCalls -> Inputs]
  /\ call = [c \in Calls |-> Fresh]

----
(* placeBid                                                                *)

(* Role, rate limit and user have been checked: the script is next. *)
BidArrives(c) ==
  /\ Arrives(c)
  /\ Goto(c, "eval")
  /\ UNCHANGED <<redisVars, now, dbVars, input>>

(* The script accepts; the accepted state is read back by another command. *)
BidEval(c) ==
  /\ At(c, "eval")
  /\ AcceptBid(input[c].req, input[c].user, input[c].amount)
  /\ Goto(c, "read")
  /\ UNCHANGED <<now, dbVars, input>>

(* MISSING, the first time: load the row and put its state into Redis. *)
BidMisses(c) ==
  /\ At(c, "eval")
  /\ hash = NoHash
  /\ IF call[c].again THEN Answer(c, "rejected") ELSE Goto(c, "load")
  /\ UNCHANGED <<redisVars, now, dbVars, input>>

(* DUPLICATE answers as if accepted, every other code is a 400. *)
BidRefused(c) ==
  LET code == BidCode(input[c].req, input[c].user, input[c].amount) IN
  /\ At(c, "eval")
  /\ code \notin {"MISSING", "ACCEPTED"}
  /\ Answer(c, IF code = "DUPLICATE" THEN "duplicate" ELSE "rejected")
  /\ UNCHANGED <<redisVars, now, dbVars, input>>

(* getState after the script: it may already show a later command. *)
BidRead(c) ==
  /\ At(c, "read")
  /\ IF hash # NoHash THEN GotoSeeing(c, "commit", hash)
     ELSE IF call[c].again THEN Answer(c, "rejected") ELSE Goto(c, "load")
  /\ UNCHANGED <<redisVars, now, dbVars, input>>

(* initializeRedisFromDatabase: findOne *)
BidLoad(c) ==
  /\ At(c, "load")
  /\ call' = [call EXCEPT ![c].pc = "ensure", ![c].seen = row, ![c].again = TRUE]
  /\ UNCHANGED <<redisVars, now, dbVars, input>>

(* Mutants of Mirror: without the version guard, and without endAt. *)
MirrorAlways(s) ==
  row' = [row EXCEPT !.status = s.status, !.price = s.price, !.leader = s.leader,
                     !.endAt = s.endAt, !.version = s.version]

MirrorWithoutEnd(s) ==
  row' = IF row.version < s.version
         THEN [row EXCEPT !.status = s.status, !.price = s.price, !.leader = s.leader,
                          !.version = s.version]
         ELSE row

(* updateMany where version < s.version *)
Mirror(s) ==
  row' = IF row.version < s.version
         THEN [row EXCEPT !.status = s.status, !.price = s.price, !.leader = s.leader,
                          !.endAt = s.endAt, !.version = s.version]
         ELSE row

(* Mutant of UpsertOrder: an update that is not empty. *)
UpsertOrderReplacing(u, amount) ==
  order' = [winner |-> u, amount |-> amount, status |-> "PENDING_PAYMENT"]

(* order.upsert with an empty update: the first order stays. *)
UpsertOrder(u, amount) ==
  order' = IF order = NoOrder
           THEN [winner |-> u, amount |-> amount, status |-> "PENDING_PAYMENT"]
           ELSE order

(* Mutant of BidCommit: the order is left to the settlement. *)
BidCommitWithoutOrder(c) ==
  LET s == call[c].seen
      u == input[c].user IN
  /\ At(c, "commit")
  /\ bids[input[c].req] = NoBid
  /\ Mirror(s)
  /\ bids' = [bids EXCEPT ![input[c].req] = [user |-> u, amount |-> s.price]]
  /\ Goto(c, "emit")
  /\ UNCHANGED <<redisVars, now, order, input>>

(* The transaction of placeBid commits. *)
BidCommit(c) ==
  LET s == call[c].seen
      u == input[c].user IN
  /\ At(c, "commit")
  /\ bids[input[c].req] = NoBid
  /\ Mirror(s)
  /\ bids' = [bids EXCEPT ![input[c].req] = [user |-> u, amount |-> s.price]]
  /\ IF s.status = "SOLD" THEN UpsertOrder(u, s.price) ELSE UNCHANGED order
  /\ Goto(c, "emit")
  /\ UNCHANGED <<redisVars, now, input>>

(* P2002: the requestId has a row already, the transaction rolls back. *)
BidConflicts(c) ==
  /\ At(c, "commit")
  /\ bids[input[c].req] # NoBid
  /\ Goto(c, "undo.load")
  /\ UNCHANGED <<redisVars, now, dbVars, input>>

(* Snapshot, events and answer, with the order if the bid was the sale. *)
BidReply(c) ==
  /\ At(c, "emit")
  /\ Answer(c, IF call[c].seen.status = "SOLD" THEN "sold" ELSE "accepted")
  /\ UNCHANGED <<redisVars, now, dbVars, input>>

(* restoreRedisFromDatabase: findOne, then the leaderboard of the bids,    *)
(* then the pipeline.                                                      *)
UndoLoad(c) ==
  /\ At(c, "undo.load")
  /\ GotoSeeing(c, "undo.board", row)
  /\ UNCHANGED <<redisVars, now, dbVars, input>>

AmountsOf(u) == {bids[r].amount : r \in {q \in Requests : bids[q] # NoBid /\ bids[q].user = u}}

(* e has the best amount of every user, 0 for a user without a bid. *)
Standings(e) ==
  \A u \in Users :
    /\ AmountsOf(u) = {} => e[u] = 0
    /\ AmountsOf(u) # {} => e[u] \in AmountsOf(u) /\ \A a \in AmountsOf(u) : a <= e[u]

(* S are the TopN best of e, or all of them if they are fewer. *)
Podium(e, S) ==
  LET bidders == {u \in Users : e[u] > 0} IN
  /\ S \subseteq bidders
  /\ Cardinality(S) = TopN \/ (Cardinality(bidders) < TopN /\ S = bidders)
  /\ \A u \in S, v \in bidders \ S : e[v] <= e[u]

Amounts == {0} \cup UNION {AmountsOf(u) : u \in Users}

UndoBoard(c) ==
  /\ At(c, "undo.board")
  /\ \E e \in [Users -> Amounts], S \in SUBSET Users :
       /\ Standings(e)
       /\ Podium(e, S)
       /\ call' = [call EXCEPT ![c].pc = "undo.exec",
                               ![c].entries = [u \in Users |-> IF u \in S THEN e[u] ELSE 0]]
  /\ UNCHANGED <<redisVars, now, dbVars, input>>

UndoExec(c) ==
  /\ At(c, "undo.exec")
  /\ RestoreFromDatabase(call[c].seen, call[c].entries, input[c].req)
  /\ Answer(c, "error")
  /\ UNCHANGED <<now, dbVars, input>>

BidStep(c) ==
  \/ BidArrives(c) \/ BidEval(c) \/ BidMisses(c) \/ BidRefused(c) \/ BidRead(c)
  \/ BidLoad(c) \/ BidCommit(c) \/ BidConflicts(c) \/ BidReply(c)
  \/ UndoLoad(c) \/ UndoBoard(c) \/ UndoExec(c)

----
(* ensureRedisState: getState, then initialize with what was read earlier. *)

(* Mutants of Ensure: it does not look whether Redis has the auction, or   *)
(* whether the auction has started.                                        *)
EnsureBlindly(c) ==
  /\ At(c, "ensure")
  /\ IF call[c].seen.endAt = 0 THEN Answer(c, "rejected") ELSE Goto(c, "init")
  /\ UNCHANGED <<redisVars, now, dbVars, input>>

EnsureUnstarted(c) ==
  /\ At(c, "ensure")
  /\ IF hash # NoHash THEN Goto(c, "eval") ELSE Goto(c, "init")
  /\ UNCHANGED <<redisVars, now, dbVars, input>>

Ensure(c) ==
  /\ At(c, "ensure")
  /\ IF hash # NoHash THEN Goto(c, "eval")
     ELSE IF call[c].seen.endAt = 0 THEN Answer(c, "rejected") ELSE Goto(c, "init")
  /\ UNCHANGED <<redisVars, now, dbVars, input>>

(* start() calls initialize too, and is done then. *)
InitRedis(c) ==
  /\ At(c, "init")
  /\ Initialize(call[c].seen)
  /\ IF c \in StartCalls THEN Answer(c, "done") ELSE Goto(c, "eval")
  /\ UNCHANGED <<now, dbVars, input>>

----
(* cancel                                                                  *)

CancelLoad(c) ==
  /\ Arrives(c)
  /\ IF row.status = "RUNNING" THEN GotoSeeing(c, "ensure", row) ELSE Answer(c, "rejected")
  /\ UNCHANGED <<redisVars, now, dbVars, input>>

CancelEval(c) ==
  /\ At(c, "eval")
  /\ CancelRunning
  /\ GotoSeeing(c, "save", hash')
  /\ UNCHANGED <<now, dbVars, input>>

CancelRefused(c) ==
  /\ At(c, "eval")
  /\ CancelCode # "CANCELLED"
  /\ Answer(c, "rejected")
  /\ UNCHANGED <<redisVars, now, dbVars, input>>

(* Mutants of CancelSave: without the version, and without its guard. *)
CancelSaveSameVersion(c) ==
  LET s == call[c].seen IN
  /\ At(c, "save")
  /\ row' = IF row.version < s.version
            THEN [row EXCEPT !.status = "CANCELLED", !.reason = "given"]
            ELSE row
  /\ Answer(c, "done")
  /\ UNCHANGED <<redisVars, now, bids, order, input>>

CancelSaveAlways(c) ==
  LET s == call[c].seen IN
  /\ At(c, "save")
  /\ row' = [row EXCEPT !.status = "CANCELLED", !.reason = "given", !.version = s.version]
  /\ Answer(c, "done")
  /\ UNCHANGED <<redisVars, now, bids, order, input>>

(* updateMany where version < s.version: the status and the reason only. *)
CancelSave(c) ==
  LET s == call[c].seen IN
  /\ At(c, "save")
  /\ row' = IF row.version < s.version
            THEN [row EXCEPT !.status = "CANCELLED", !.reason = "given", !.version = s.version]
            ELSE row
  /\ Answer(c, "done")
  /\ UNCHANGED <<redisVars, now, bids, order, input>>

CancelStep(c) == CancelLoad(c) \/ CancelEval(c) \/ CancelRefused(c) \/ CancelSave(c)

----
(* settleExpiredAuctions and settleExpiredAuction, one pass at a time      *)

SettleScan ==
  /\ Arrives(Timer)
  /\ row.status = "RUNNING" /\ row.endAt <= now
  /\ GotoSeeing(Timer, "ensure", row)
  /\ UNCHANGED <<redisVars, now, dbVars, input>>

SettleEval ==
  /\ At(Timer, "eval")
  /\ FinishExpired
  /\ GotoSeeing(Timer, "save", hash')
  /\ UNCHANGED <<now, dbVars, input>>

(* Not expired after all, or closed by somebody else: nothing to do. *)
SettleSkips ==
  /\ At(Timer, "eval")
  /\ FinishCode # "FINISHED"
  /\ Answer(Timer, "done")
  /\ UNCHANGED <<redisVars, now, dbVars, input>>

(* Mutants of SettleSave: only the order is written, or always an order. *)
SettleSaveOrderOnly ==
  LET s == call[Timer].seen IN
  /\ At(Timer, "save")
  /\ IF s.status = "SOLD" THEN UpsertOrder(s.leader, row.price) ELSE UNCHANGED order
  /\ Answer(Timer, "done")
  /\ UNCHANGED <<redisVars, now, row, bids, input>>

SettleSaveAlwaysOrder ==
  LET s == call[Timer].seen IN
  /\ At(Timer, "save")
  /\ row' = IF row.version < s.version
            THEN [row EXCEPT !.status = s.status, !.version = s.version]
            ELSE row
  /\ UpsertOrder(s.leader, row.price)
  /\ Answer(Timer, "done")
  /\ UNCHANGED <<redisVars, now, bids, input>>

(***************************************************************************)
(* The settlement transaction: the status, and an order for the leader the *)
(* script returned at the price the row has by then.                       *)
(***************************************************************************)
SettleSave ==
  LET s == call[Timer].seen IN
  /\ At(Timer, "save")
  /\ row' = IF row.version < s.version
            THEN [row EXCEPT !.status = s.status, !.version = s.version]
            ELSE row
  /\ IF s.status = "SOLD" THEN UpsertOrder(s.leader, row.price) ELSE UNCHANGED order
  /\ Answer(Timer, "done")
  /\ UNCHANGED <<redisVars, now, bids, input>>

SettleStep == SettleScan \/ SettleEval \/ SettleSkips \/ SettleSave

----
(* start, update, pay                                                      *)

Editable == row.status \in {"DRAFT", "SCHEDULED"}

StartLoad(c) ==
  /\ Arrives(c)
  /\ IF Editable THEN GotoSeeing(c, "save", [row EXCEPT !.endAt = now + row.rules.duration])
     ELSE Answer(c, "rejected")
  /\ UNCHANGED <<redisVars, now, dbVars, input>>

StartSave(c) ==
  /\ At(c, "save")
  /\ row' = Started(row, call[c].seen.endAt)
  /\ GotoSeeing(c, "init", row')
  /\ UNCHANGED <<redisVars, now, bids, order, input>>

StartStep(c) == StartLoad(c) \/ StartSave(c)

(* The body of update() has every rule, as the admin page sends it. *)
UpdateLoad(c) ==
  /\ Arrives(c)
  /\ \E rules \in RuleSet :
       IF Editable THEN GotoSeeing(c, "save", [row EXCEPT !.rules = rules])
       ELSE Answer(c, "rejected")
  /\ UNCHANGED <<redisVars, now, dbVars, input>>

UpdateSave(c) ==
  LET rules == call[c].seen.rules IN
  /\ At(c, "save")
  /\ row' = [row EXCEPT !.rules = rules, !.price = rules.start, !.version = @ + 1]
  /\ Answer(c, "done")
  /\ UNCHANGED <<redisVars, now, bids, order, input>>

UpdateStep(c) == UpdateLoad(c) \/ UpdateSave(c)

(* OrdersService.pay: read the order, then write PAID if it was pending. *)
PayLoad(c) ==
  /\ Arrives(c)
  /\ order # NoOrder
  /\ IF order.status = "PAID" THEN Answer(c, "done") ELSE Goto(c, "save")
  /\ UNCHANGED <<redisVars, now, dbVars, input>>

PaySave(c) ==
  /\ At(c, "save")
  /\ order' = [order EXCEPT !.status = "PAID"]
  /\ Answer(c, "done")
  /\ UNCHANGED <<redisVars, now, row, bids, input>>

PayStep(c) == PayLoad(c) \/ PaySave(c)

----
(* What can go wrong                                                       *)

(* Mutant of DbFails: a transaction that cannot begin is taken for done. *)
DbFailsUnnoticed(c) ==
  /\ "db" \in Faults
  /\ \/ /\ call[c].pc \in {"load", "undo.load", "undo.board", "save"}
        /\ Answer(c, "error")
     \/ /\ At(c, "commit")
        /\ Goto(c, "emit")
     \/ /\ At(c, "emit")
        /\ Goto(c, "undo.load")
  /\ UNCHANGED <<redisVars, now, dbVars, input>>

(***************************************************************************)
(* An access to MySQL fails: a read, a write, or the BEGIN of the          *)
(* transaction of placeBid, before its callback can set redisAccepted.     *)
(* The caller gets the error and nothing is undone.  When it is the        *)
(* snapshot after the commit that fails, the catch block undoes the bid,   *)
(* although it is recorded.                                                *)
(***************************************************************************)
DbFails(c) ==
  /\ "db" \in Faults
  /\ \/ /\ call[c].pc \in {"load", "commit", "undo.load", "undo.board", "save"}
        /\ Answer(c, "error")
     \/ /\ At(c, "emit")
        /\ Goto(c, "undo.load")
  /\ UNCHANGED <<redisVars, now, dbVars, input>>

(* Mutant of BidRollsBack: the catch block does not undo the bid. *)
BidRollsBackOnly(c) ==
  /\ "rollback" \in Faults
  /\ c \in BidCalls /\ At(c, "commit")
  /\ Answer(c, "error")
  /\ UNCHANGED <<redisVars, now, dbVars, input>>

(* The transaction of placeBid fails inside its callback: Redis is undone. *)
BidRollsBack(c) ==
  /\ "rollback" \in Faults
  /\ c \in BidCalls /\ At(c, "commit")
  /\ Goto(c, "undo.load")
  /\ UNCHANGED <<redisVars, now, dbVars, input>>

(***************************************************************************)
(* A Redis command fails without effect.  After the transaction of         *)
(* placeBid the catch block undoes the bid; anywhere else the caller just  *)
(* gets the error.                                                         *)
(***************************************************************************)
RedisFails(c) ==
  /\ "redis" \in Faults
  /\ \/ /\ call[c].pc \in {"eval", "read", "ensure", "init", "undo.exec"}
        /\ Answer(c, "error")
     \/ /\ At(c, "emit")
        /\ Goto(c, "undo.load")
  /\ UNCHANGED <<redisVars, now, dbVars, input>>

(***************************************************************************)
(* The connection drops after a script ran and before its answer: ioredis  *)
(* sends the script again and the handler sees the second answer.          *)
(***************************************************************************)
BidResent(c) ==
  /\ "resend" \in Faults
  /\ c \in BidCalls /\ At(c, "eval")
  /\ AcceptBid(input[c].req, input[c].user, input[c].amount)
  /\ Answer(c, "duplicate")
  /\ UNCHANGED <<now, dbVars, input>>

CancelResent(c) ==
  /\ "resend" \in Faults
  /\ c \in CancelCalls /\ At(c, "eval")
  /\ CancelRunning
  /\ Answer(c, "rejected")
  /\ UNCHANGED <<now, dbVars, input>>

SettleResent ==
  /\ "resend" \in Faults
  /\ At(Timer, "eval")
  /\ FinishExpired
  /\ Answer(Timer, "done")
  /\ UNCHANGED <<now, dbVars, input>>

(* The state key expires (EX 86400, never renewed); the leaderboard stays. *)
Evict ==
  /\ "evict" \in Faults
  /\ hash # NoHash
  /\ hash' = NoHash
  /\ UNCHANGED <<board, keys, now, dbVars, input, call>>

(* Redis restarts empty. *)
Flush ==
  /\ "flush" \in Faults
  /\ hash # NoHash
  /\ hash' = NoHash /\ board' = EmptyBoard /\ keys' = {}
  /\ UNCHANGED <<now, dbVars, input, call>>

(* The API process dies: the calls in flight are gone, the stores remain. *)
Crash ==
  /\ "crash" \in Faults
  /\ InFlight # {}
  /\ call' = [c \in Calls |-> IF c \notin InFlight THEN call[c]
                              ELSE IF c = Timer THEN Fresh
                              ELSE [Fresh EXCEPT !.pc = "done", !.reply = "error"]]
  /\ UNCHANGED <<redisVars, now, dbVars, input>>

Fault ==
  \/ \E c \in Calls : DbFails(c) \/ BidRollsBack(c) \/ RedisFails(c)
                      \/ BidResent(c) \/ CancelResent(c)
  \/ SettleResent
  \/ Evict
  \/ Flush
  \/ Crash

----
Tick ==
  /\ now < MaxTime
  /\ now' = now + 1
  /\ UNCHANGED <<redisVars, dbVars, input, call>>

Next ==
  \/ \E c \in BidCalls : BidStep(c)
  \/ \E c \in CancelCalls : CancelStep(c)
  \/ \E c \in StartCalls : StartStep(c)
  \/ \E c \in UpdateCalls : UpdateStep(c)
  \/ \E c \in PayCalls : PayStep(c)
  \/ \E c \in Calls : Ensure(c) \/ InitRedis(c)
  \/ SettleStep
  \/ Fault
  \/ Tick

Spec == Init /\ [][Next]_vars

(***************************************************************************)
(* Node.js runs every continuation that is ready, the 500 ms timer keeps   *)
(* firing and time passes.  That a client sends a request is not promised. *)
(***************************************************************************)
Fairness ==
  /\ \A c \in BidCalls : WF_vars(BidStep(c) /\ ~ At(c, "idle"))
  /\ \A c \in CancelCalls : WF_vars(CancelStep(c) /\ ~ At(c, "idle"))
  /\ \A c \in StartCalls : WF_vars(StartStep(c) /\ ~ At(c, "idle"))
  /\ \A c \in UpdateCalls : WF_vars(UpdateStep(c) /\ ~ At(c, "idle"))
  /\ \A c \in PayCalls : WF_vars(PayStep(c) /\ ~ At(c, "idle"))
  /\ \A c \in Calls : WF_vars(Ensure(c) \/ InitRedis(c))
  /\ WF_vars(SettleStep)
  /\ WF_vars(Tick)

FairSpec == Spec /\ Fairness

----
(* Whatever fails and however the calls overlap                            *)

TypeOK ==
  /\ hash \in AuctionState \cup {NoHash}
  /\ board \in [Users -> Nat]
  /\ keys \in SUBSET Requests
  /\ now \in Nat
  /\ row \in AuctionState
  /\ bids \in [Requests -> BidRow \cup {NoBid}]
  /\ order \in OrderRow \cup {NoOrder}
  /\ input \in [BidCalls -> Inputs]
  /\ call \in [Calls -> CallState]

(***************************************************************************)
(* The row says SOLD only together with an order: three writers set the    *)
(* status, two create orders, and both happen in one transaction.          *)
(***************************************************************************)
RowSoldHasOrder == row.status = "SOLD" => order # NoOrder

(***************************************************************************)
(* A bidder who is told the bid was accepted has a Bid row, and one who is *)
(* told it was the sale finds an order, whatever Redis goes through.       *)
(***************************************************************************)
AckedBidDurable ==
  \A c \in BidCalls : call[c].reply \in {"accepted", "sold"} =>
    /\ bids[input[c].req] # NoBid
    /\ bids[input[c].req].user = input[c].user
    /\ call[c].reply = "sold" => order # NoOrder

(***************************************************************************)
(* The first order of an auction stands: neither the bid that sells nor    *)
(* the settlement may replace it, and a payment is never taken back.       *)
(***************************************************************************)
OrderStands ==
  [][order # NoOrder =>
       /\ order' # NoOrder
       /\ order'.winner = order.winner /\ order'.amount = order.amount
       /\ order.status = "PAID" => order'.status = "PAID"]_vars

(* The row never goes back to an earlier version, however late a write is. *)
MirrorNeverRewinds == [][row'.version >= row.version]_vars

(* Redis holds started auctions only, also when a bid or a cancellation     *)
(* that found no state key races start() to put one there.                  *)
OnlyStartedInRedis ==
  hash # NoHash => hash.endAt > 0 /\ hash.status # "DRAFT" /\ row.status # "DRAFT"

----
(* Once the auction runs, however the calls overlap, wherever the process  *)
(* dies and whichever scripts are sent twice; MirrorCaughtUp and           *)
(* AuctionEnds without faults                                              *)

Quiet == InFlight = {}
Closed == {"SOLD", "UNSOLD", "CANCELLED"}

(* MySQL is a mirror: it never shows a version Redis has not reached, and  *)
(* at the version of Redis it shows the same auction while that runs.      *)
MirrorBehind ==
  hash # NoHash =>
    /\ row.version <= hash.version
    /\ row.version = hash.version /\ hash.status = "RUNNING" => row = hash

(***************************************************************************)
(* When no call is in flight the mirror has caught up: transactions that   *)
(* commit out of order lose neither the last status nor a bid.             *)
(***************************************************************************)
MirrorCaughtUp ==
  Quiet /\ hash # NoHash =>
    /\ row.version = hash.version /\ row.status = hash.status
    /\ keys = {r \in Requests : bids[r] # NoBid}
    /\ hash.status = "SOLD" => order # NoOrder

(***************************************************************************)
(* Bids, cancellation, expiry and the order never produce two outcomes:    *)
(* an order belongs to an auction that Redis sold, which cancel() can then *)
(* no longer withdraw, and it names a user who has bid.                    *)
(***************************************************************************)
OrderMeansSold ==
  order # NoOrder =>
    /\ hash # NoHash /\ hash.status = "SOLD"
    /\ board[order.winner] > 0
    /\ order.amount <= hash.price

(***************************************************************************)
(* What MySQL records, Redis knows.  The requestId is there, so the retry  *)
(* of a bid whose answer was lost in a crash is a duplicate and is not     *)
(* charged again; the bidder is on the leaderboard; and no row has a price *)
(* the auction has not reached.                                            *)
(***************************************************************************)
RecordedIsKnown ==
  \A r \in Requests : bids[r] # NoBid =>
    /\ hash # NoHash /\ r \in keys
    /\ board[bids[r].user] > 0
    /\ bids[r].amount <= hash.price

(***************************************************************************)
(* What the pages show from either store moves forward only: the price     *)
(* does not fall and a closed auction does not reopen or change outcome.   *)
(***************************************************************************)
Onward(s, t) ==
  /\ t.price >= s.price
  /\ s.status \in Closed => t.status = s.status

NeverBackward ==
  [][/\ hash # NoHash => hash' # NoHash /\ Onward(hash, hash')
     /\ row.status # "DRAFT" => Onward(row, row')]_vars

(***************************************************************************)
(* As far as Redis can tell, the handlers are the scripts of RedisAuction  *)
(* and nothing else, so what holds there (and the English auction it       *)
(* implements) holds for the auction the service runs.                     *)
(***************************************************************************)
Redis == INSTANCE RedisAuction
ImplementsRedisAuction == Redis!Spec

(* A running auction ends, and MySQL learns how: bids cannot keep the      *)
(* settlement from closing it.                                             *)
AuctionEnds ==
  (row.status = "RUNNING") ~> (row.status \in Closed /\ hash # NoHash /\ row.status = hash.status)

----
(* One call at a time, with transactions that may roll back                *)

(* The leaderboard gives nobody an amount that is not his best Bid row, and *)
(* whoever is missing is beaten by TopN who are there: an undo rebuilds the *)
(* board from the TopN best only, and what the pages show is right still.   *)
BoardShowsBest ==
  \A u \in Users :
    /\ board[u] > 0 => board[u] \in AmountsOf(u)
    /\ \A a \in AmountsOf(u) :
         \/ a <= board[u]
         \/ board[u] = 0 /\ Cardinality({v \in Users : board[v] > a}) >= TopN

(***************************************************************************)
(* Between calls the stores tell one story: Redis has the row, the         *)
(* leaderboard is that of the Bid rows as far as it is shown, the request  *)
(* keys are the recorded bids, and an order exists exactly for a sold      *)
(* auction, with its leader and its price.  A bid whose transaction rolled *)
(* back is undone entirely.                                                *)
(***************************************************************************)
StoresAgree ==
  Quiet =>
    /\ hash = IF row.status = "DRAFT" THEN NoHash ELSE row
    /\ BoardShowsBest
    /\ keys = {r \in Requests : bids[r] # NoBid}
    /\ row.status = "SOLD" <=> order # NoOrder
    /\ order # NoOrder => order.winner = row.leader /\ order.amount = row.price

(* A refusal or an error leaves no trace: the bid of such a call is in     *)
(* neither store, so the client may try again with the same requestId.     *)
RefusedLeavesNoTrace ==
  \A c \in BidCalls :
    /\ Quiet
    /\ call[c].reply \in {"rejected", "error"}
    /\ \A d \in BidCalls \ {c} : input[d].req # input[c].req
    => input[c].req \notin keys /\ bids[input[c].req] = NoBid

----
(* What the documents promise and the code does not keep                   *)

(* The user of the order is the leader the auction closed with. *)
OrderGoesToLeader == order # NoOrder /\ hash # NoHash => order.winner = hash.leader

(* The price of an auction never falls. *)
PriceNeverFalls == [][hash # NoHash /\ hash' # NoHash => hash'.price >= hash.price]_vars

(* An auction whose time is up is settled. *)
ExpiredIsSettled ==
  (row.status = "RUNNING" /\ row.endAt <= now) ~> (row.status \in Closed)

(* Nobody is told of an accepted bid that is not recorded. *)
NoFalseSuccess ==
  Quiet => \A c \in BidCalls : call[c].reply \in {"accepted", "sold", "duplicate"}
                                 => bids[input[c].req] # NoBid
===============================================================================
