-------------------------------- MODULE Bench --------------------------------
(***************************************************************************)
(* A test driver of the repository at work: its steps, the API with MySQL  *)
(* and Redis behind it, its sockets.  The question is whether the verdict  *)
(* of the script depends on the order in which the calls it makes at once, *)
(* the steps of the settlement and the deliveries of events fall.          *)
(*                                                                         *)
(* Calls take no time on the clock, which moves while the driver sleeps or *)
(* polls.  Every sleep is assumed to be long enough: by its end what was   *)
(* sent has arrived and what was due is settled, so a script that fails    *)
(* because it sleeps too little is not to be found here.  The undo of a    *)
(* failed bid is one step here, and a missing state key is loaded in one:  *)
(* AuctionService and Settlement have them in all their steps.             *)
(***************************************************************************)
EXTENDS ConsistencyDrivers, FaultDrivers, LoadDrivers, FlowDrivers, TLC

CONSTANTS
  Scripts,    \* names of the drivers to run
  NoHash      \* the state key does not exist

(* The drivers below, by the names Scripts chooses from. *)
DriverNames ==
  {"cancel", "capSale", "rounds", "extension", "rooms", "mysqlFault", "recovery", "redisFault",
   "orderFault", "miss", "realBid", "broadcast", "hold", "stability", "lastMinute", "perf",
   "sale", "ends", "fixes"}

ASSUME ScriptsAssumption == Scripts \subseteq DriverNames

VARIABLES
  script,     \* the driver that runs
  step,       \* the index of its current step
  elapsed,    \* time since the step began
  task,       \* the calls of the step, <<>> before they are made
  answers,    \* what the finished steps brought, by their names
  now,        \* the clock
  redis,      \* hash, leaderboard and request keys of each auction
  mysql,      \* row, bids and order of each auction
  settling,   \* the auctions whose settlement has run its script
  down,       \* the stores that are stopped
  room,       \* what each socket has joined
  inbox,      \* events on their way to each socket
  heard       \* events each socket has received

driver == <<script, step, elapsed, task, answers>>
stores == <<redis, mysql, settling>>
sockets == <<room, inbox, heard>>
vars == <<driver, now, stores, down, sockets>>

----
Driver(name) ==
  CASE name = "cancel"      -> CancelConsistency
    [] name = "capSale"     -> CapSaleConsistency
    [] name = "rounds"      -> RoundsOfEqualBids
    [] name = "extension"   -> ExtensionConsistency
    [] name = "rooms"       -> MultiRoomIsolation
    [] name = "mysqlFault"  -> MysqlFault
    [] name = "recovery"    -> FaultRecovery
    [] name = "redisFault"  -> RedisFault
    [] name = "orderFault"  -> OrderFailure
    [] name = "miss"        -> MissRecovery
    [] name = "realBid"     -> RealBid
    [] name = "broadcast"   -> Broadcast1000
    [] name = "hold"        -> Hold1000
    [] name = "stability"   -> Stability
    [] name = "lastMinute"  -> LastMinute
    [] name = "perf"        -> PerfCases
    [] name = "sale"        -> SmokeSale
    [] name = "ends"        -> SmokeEnds
    [] name = "fixes"       -> VerifyFixes

Passes(name) ==
  CASE name = "cancel"      -> CancelConsistencyPasses(answers, heard)
    [] name = "capSale"     -> CapSaleConsistencyPasses(answers, heard)
    [] name = "rounds"      -> RoundsOfEqualBidsPasses(answers, heard)
    [] name = "extension"   -> ExtensionConsistencyPasses(answers, heard)
    [] name = "rooms"       -> MultiRoomIsolationPasses(answers, heard)
    [] name = "mysqlFault"  -> MysqlFaultPasses(answers, heard)
    [] name = "recovery"    -> FaultRecoveryPasses(answers, heard)
    [] name = "redisFault"  -> RedisFaultPasses(answers, heard)
    [] name = "orderFault"  -> OrderFailurePasses(answers, heard)
    [] name = "miss"        -> MissRecoveryPasses(answers, heard)
    [] name = "realBid"     -> RealBidPasses(answers, heard)
    [] name = "broadcast"   -> Broadcast1000Passes(answers, heard)
    [] name = "hold"        -> Hold1000Passes(answers, heard)
    [] name = "stability"   -> StabilityPasses(answers, heard)
    [] name = "lastMinute"  -> LastMinutePasses(answers, heard)
    [] name = "perf"        -> PerfCasesPass(answers, heard)
    [] name = "sale"        -> SmokeSalePasses(answers, heard)
    [] name = "ends"        -> SmokeEndsPasses(answers, heard)
    [] name = "fixes"       -> VerifyFixesPasses(answers, heard)

Auctions == DOMAIN Driver(script).auctions
Steps == Driver(script).steps
Finished == step > Len(Steps)
Current == Steps[step]
RulesOf(name) == {Driver(name).auctions[a] : a \in DOMAIN Driver(name).auctions}
AllRules == {NewRules} \cup UNION {RulesOf(name) : name \in Scripts}

(* The scripts of redis-auction.service.ts on the keys of one auction. *)
Keys(a) == INSTANCE RedisScripts
  WITH Users <- Bidders, Requests <- Nat, RuleSet <- AllRules,
       hash <- redis[a].hash, board <- redis[a].board, keys <- redis[a].keys

ASSUME NoHashAssumption == NoHash \notin Keys(1)!AuctionState

NobodyYet == [u \in Bidders |-> 0]
Entries(board) == {<<board[u], u>> : u \in {v \in Bidders : board[v] > 0}}

(* toSnapshot, GET /auctions/:id with its leaderboard, and the rows themselves. *)
Standing(a) == IF redis[a].hash = NoHash THEN mysql[a].bids ELSE Entries(redis[a].board)
Snapshot(a) ==
  View(IF redis[a].hash = NoHash THEN mysql[a].row ELSE redis[a].hash, Standing(a), {}, Null)
Detail(a) == View(mysql[a].row, Standing(a), mysql[a].bids, mysql[a].order)
Rows(a) == View(mysql[a].row, {}, mysql[a].bids, mysql[a].order)
InRedis(a) ==
  IF redis[a].hash = NoHash THEN NoView ELSE View(redis[a].hash, Entries(redis[a].board), {}, Null)

(* Each driver finds its auctions created, and nothing else. *)
Init ==
  /\ script \in Scripts
  /\ step = 1 /\ elapsed = 0 /\ task = <<>> /\ answers = <<>> /\ now = 0
  /\ redis = [a \in Auctions |-> [hash |-> NoHash, board |-> NobodyYet, keys |-> {}]]
  /\ mysql = [a \in Auctions |->
       [row |-> [status |-> "DRAFT", price |-> Driver(script).auctions[a].start, leader |-> NoUser,
                 endAt |-> 0, version |-> 0, reason |-> "none", rules |-> Driver(script).auctions[a]],
        bids |-> {}, order |-> Null]]
  /\ settling = {} /\ down = {}
  /\ room = [s \in Sockets |-> [on |-> 0, user |-> NoUser]]
  /\ inbox = [s \in Sockets |-> <<>>] /\ heard = [s \in Sockets |-> <<>>]

----
(* Promise.all: the calls of the step are made. *)
MakeCalls ==
  /\ ~Finished /\ Current.op = "calls" /\ task = <<>>
  /\ task' = [i \in DOMAIN Current.calls |->
               [pc |-> "new", answer |-> Answer("none", "plain", NoView),
                prev |-> NoUser, won |-> NoHash]]
  /\ UNCHANGED <<script, step, elapsed, answers, now, stores, down, sockets>>

(* Handlers of one call: where it is, where it goes, what it answers. *)
Call(i) == Current.calls[i]
At(i, kind, pc) == i \in DOMAIN task /\ Call(i).kind = kind /\ task[i].pc = pc
Goes(i, pc) == task' = [task EXCEPT ![i].pc = pc]
Answers(i, status, note, view) ==
  task' = [task EXCEPT ![i].pc = "done", ![i].answer = Answer(status, note, view)]
Fails(i) == Answers(i, "failed", "plain", NoView)
Refuses(i) == Answers(i, "refused", "plain", NoView)

(* The driver goes on when all its calls are answered. *)
CallsReturn ==
  /\ task # <<>> /\ \A i \in DOMAIN task : task[i].pc = "done"
  /\ answers' = (Current.as :>
                   IF Len(task) = 1 THEN task[1].answer ELSE [i \in DOMAIN task |-> task[i].answer])
                @@ answers
  /\ task' = <<>> /\ step' = step + 1 /\ elapsed' = 0
  /\ UNCHANGED <<script, now, stores, down, sockets>>

Driven == <<script, step, elapsed, answers, now, down>>   \* what no handler changes

(* Events go to the sockets that have joined the room of the auction. *)
Event(a, event, view) == [event |-> event, on |-> a, view |-> view]
Emits(a, EventsFor(_)) ==
  inbox' = [s \in Sockets |-> IF room[s].on = a THEN inbox[s] \o EventsFor(s) ELSE inbox[s]]
Tells(a, event, view) ==
  LET ToAll(s) == <<Event(a, event, view)>> IN Emits(a, ToAll)

----
(* POST /auctions/:id/start: the row, then the keys and the broadcast *)
StartRow(i) ==
  LET a == Call(i).on  row == mysql[a].row IN
  /\ At(i, "start", "new")
  /\ IF row.status \in {"DRAFT", "SCHEDULED"}
     THEN /\ mysql' = [mysql EXCEPT ![a].row.status = "RUNNING", ![a].row.version = @ + 1,
                                    ![a].row.endAt = now + row.rules.duration]
          /\ Goes(i, "redis")
     ELSE Refuses(i) /\ UNCHANGED mysql
  /\ UNCHANGED <<Driven, redis, settling, sockets>>

StartRedis(i) ==
  LET a == Call(i).on IN
  /\ At(i, "start", "redis")
  /\ redis' = [redis EXCEPT ![a].hash = mysql[a].row]
  /\ Tells(a, "auctionStarted", View(mysql[a].row, Standing(a), {}, Null))
  /\ Answers(i, "ok", "plain", Rows(a))
  /\ UNCHANGED <<Driven, mysql, settling, room, heard>>

(* PATCH /auctions/:id *)
UpdateRow(i) ==
  LET a == Call(i).on IN
  /\ At(i, "update", "new")
  /\ IF mysql[a].row.status \in {"DRAFT", "SCHEDULED"}
     THEN /\ mysql' = [mysql EXCEPT ![a].row.rules = Call(i).rules, ![a].row.version = @ + 1]
          /\ Answers(i, "ok", "plain", View(mysql'[a].row, {}, {}, Null))
     ELSE Refuses(i) /\ UNCHANGED mysql
  /\ UNCHANGED <<Driven, redis, settling, sockets>>

(* POST /orders/:id/pay *)
PayOrder(i) ==
  LET a == Call(i).on IN
  /\ At(i, "pay", "new")
  /\ IF mysql[a].order # Null /\ mysql[a].order.status = "PENDING_PAYMENT"
     THEN /\ mysql' = [mysql EXCEPT ![a].order.status = "PAID"]
          /\ Answers(i, "ok", "plain", View(mysql[a].row, {}, {}, mysql'[a].order))
     ELSE Refuses(i) /\ UNCHANGED mysql
  /\ UNCHANGED <<Driven, redis, settling, sockets>>

(* GET /auctions/:id with the leaderboard, prisma and ioredis of the driver *)
ReadStore(i) ==
  LET a == Call(i).on IN
  /\ At(i, "read", "new")
  /\ IF \/ Call(i).store \in down
        \/ Call(i).store = "http" /\ down # {}
     THEN Fails(i)
     ELSE Answers(i, "ok", "plain",
            CASE Call(i).store = "mysql" -> Rows(a)
              [] Call(i).store = "redis" -> InRedis(a)
              [] Call(i).store = "http"  -> Detail(a))
  /\ UNCHANGED <<Driven, stores, sockets>>

(* waitForStatus, waitForFinished, waitUntilLastWindow *)
PollEnds(i) ==
  LET a == Call(i).on  row == mysql[a].row IN
  /\ At(i, "await", "new")
  /\ row.status \in Call(i).statuses /\ row.endAt - now <= Call(i).left
  /\ Answers(i, "ok", "plain", Detail(a))
  /\ UNCHANGED <<Driven, stores, sockets>>

(* waitEvent *)
EventHeard(i) ==
  LET events == Heard(heard[Call(i).socket], Call(i).event) IN
  /\ At(i, "hear", "new")
  /\ Len(events) >= Call(i).nth
  /\ Answers(i, "ok", "plain", events[Call(i).nth].view)
  /\ UNCHANGED <<Driven, stores, sockets>>

----
(* joinAuction: the room is entered, then the snapshot read and sent *)
EnterRoom(i) ==
  /\ At(i, "join", "new")
  /\ room' = [room EXCEPT ![Call(i).socket] = [on |-> Call(i).on, user |-> Call(i).user]]
  /\ Goes(i, "snapshot")
  /\ UNCHANGED <<Driven, stores, inbox, heard>>

SendSnapshot(i) ==
  LET a == Call(i).on IN
  /\ At(i, "join", "snapshot")
  /\ inbox' = [inbox EXCEPT ![Call(i).socket] = Append(@, Event(a, "auctionSnapshot", Snapshot(a)))]
  /\ Goes(i, "sent")
  /\ UNCHANGED <<Driven, stores, room, heard>>

(* The driver awaits the first snapshot its socket hears. *)
SnapshotHeard(i) ==
  LET snapshots == Heard(heard[Call(i).socket], "auctionSnapshot") IN
  /\ At(i, "join", "sent") /\ snapshots # <<>>
  /\ Answers(i, "ok", "plain", snapshots[1].view)
  /\ UNCHANGED <<Driven, stores, sockets>>

----
(* placeBid: user and leader are looked up; this is where a stopped store shows *)
BidBegins(i) ==
  /\ At(i, "bid", "new")
  /\ IF down # {} THEN Fails(i)
     ELSE task' = [task EXCEPT ![i].pc = "script", ![i].prev = Snapshot(Call(i).on).leader]
  /\ UNCHANGED <<Driven, stores, sockets>>

RequestId(i) == IF Call(i).req # 0 THEN Call(i).req ELSE 10 * step + i

(* PLACE_BID_SCRIPT, after the keys are loaded if they were missing *)
BidScript(i) ==
  LET a == Call(i).on  u == Call(i).user  x == Call(i).amount
      code == Keys(a)!BidCode(RequestId(i), u, x)
      won == Keys(a)!AfterBid(redis[a].hash, u, x)
  IN
  /\ At(i, "bid", "script")
  /\ CASE code = "MISSING" /\ mysql[a].row.endAt # 0 ->
            /\ redis' = [redis EXCEPT ![a].hash = mysql[a].row]
            /\ task' = [task EXCEPT ![i].prev = mysql[a].row.leader]
       [] code = "ACCEPTED" ->
            /\ redis' = [redis EXCEPT ![a].hash = won, ![a].board[u] = won.price,
                                      ![a].keys = @ \cup {RequestId(i)}]
            /\ task' = [task EXCEPT ![i].pc = "read",
                 ![i].answer.note = IF Keys(a)!Extends(redis[a].hash, x) THEN "extended" ELSE "plain"]
       [] code = "DUPLICATE" -> Answers(i, "ok", "duplicate", Snapshot(a)) /\ UNCHANGED redis
       [] OTHER -> Refuses(i) /\ UNCHANGED redis
  /\ UNCHANGED <<Driven, mysql, settling, sockets>>

(* the state read back after it *)
BidReads(i) ==
  /\ At(i, "bid", "read")
  /\ task' = [task EXCEPT ![i].pc = "commit", ![i].won = redis[Call(i).on].hash]
  /\ UNCHANGED <<Driven, stores, sockets>>

(* Mutant of OrderOf: an order for every bid. *)
OrderOfEach(order, won, u) ==
  IF order = Null THEN [amount |-> won.price, winner |-> u, status |-> "PENDING_PAYMENT"] ELSE order

(* The upsert with an empty update. *)
OrderOf(order, won, u) ==
  IF won.status = "SOLD" /\ order = Null
  THEN [amount |-> won.price, winner |-> u, status |-> "PENDING_PAYMENT"]
  ELSE order

Newer(row, state) == IF row.version < state.version THEN state ELSE row

(* The transaction, and what happens if its order fails: Redis is restored *)
(* from MySQL and the call answers 500.                                    *)
BidCommits(i) ==
  LET a == Call(i).on  u == Call(i).user  won == task[i].won  old == mysql[a] IN
  /\ At(i, "bid", "commit")
  /\ IF won.status = "SOLD" /\ Driver(script).failOrder
     THEN /\ redis' = [redis EXCEPT ![a] =
               [hash  |-> old.row,
                board |-> [v \in Bidders |-> Top({e \in old.bids : e[2] = v})[1]],
                keys  |-> @.keys \ {RequestId(i)}]]
          /\ Fails(i) /\ UNCHANGED mysql
     ELSE /\ mysql' = [mysql EXCEPT ![a] =
               [row |-> Newer(old.row, won), bids |-> old.bids \cup {<<won.price, u>>},
                order |-> OrderOf(old.order, won, u)]]
          /\ Goes(i, "emit") /\ UNCHANGED redis
  /\ UNCHANGED <<Driven, settling, sockets>>

(* Mutant of EventsOf: the extension is not announced. *)
EventsOfShort(i, s, view) == <<Event(Call(i).on, "bidAccepted", view)>>

(* What a bid tells a socket in the room, in this order. *)
EventsOf(i, s, view) ==
  LET a == Call(i).on
      outbid == [NoView EXCEPT !.leader = Call(i).user, !.price = mysql[a].row.price]
      When(condition, event) == IF condition THEN <<event>> ELSE <<>>
  IN <<Event(a, "bidAccepted", view)>>
     \o When(task[i].prev \notin {NoUser, Call(i).user} /\ room[s].user = task[i].prev,
             Event(a, "outbid", outbid))
     \o When(task[i].answer.note = "extended", Event(a, "auctionExtended", view))
     \o When(mysql[a].row.status = "SOLD", Event(a, "auctionEnded", view))

(* Snapshot and events, then the answer with a snapshot of its own *)
BidEmits(i) ==
  LET a == Call(i).on
      ForBid(s) == EventsOf(i, s, [Snapshot(a) EXCEPT !.order = mysql[a].order])
  IN
  /\ At(i, "bid", "emit")
  /\ Emits(a, ForBid)
  /\ Goes(i, "reply")
  /\ UNCHANGED <<Driven, stores, room, heard>>

BidReplies(i) ==
  /\ At(i, "bid", "reply")
  /\ Answers(i, "ok", task[i].answer.note, Snapshot(Call(i).on))
  /\ UNCHANGED <<Driven, stores, sockets>>

----
(* cancel: script, row, broadcast *)
CancelScript(i) ==
  LET a == Call(i).on IN
  /\ At(i, "cancel", "new")
  /\ IF mysql[a].row.status = "RUNNING" /\ Keys(a)!CancelCode = "CANCELLED"
     THEN /\ redis' = [redis EXCEPT ![a].hash.status = "CANCELLED", ![a].hash.reason = "given",
                                    ![a].hash.version = @ + 1]
          /\ task' = [task EXCEPT ![i].pc = "row", ![i].won = redis'[a].hash]
     ELSE Refuses(i) /\ UNCHANGED redis
  /\ UNCHANGED <<Driven, mysql, settling, sockets>>

CancelRow(i) ==
  LET a == Call(i).on  old == mysql[a].row IN
  /\ At(i, "cancel", "row")
  /\ mysql' = IF old.version < task[i].won.version
              THEN [mysql EXCEPT ![a].row.status = "CANCELLED", ![a].row.reason = "given",
                                 ![a].row.version = task[i].won.version]
              ELSE mysql
  /\ Goes(i, "emit")
  /\ UNCHANGED <<Driven, redis, settling, sockets>>

CancelEmits(i) ==
  LET a == Call(i).on IN
  /\ At(i, "cancel", "emit")
  /\ Tells(a, "auctionCancelled", Snapshot(a))
  /\ Answers(i, "ok", "plain", Rows(a))
  /\ UNCHANGED <<Driven, stores, room, heard>>

----
(* settleExpiredAuction: the script, then the transaction and the broadcast *)
Expired(a) == mysql[a].row.status = "RUNNING" /\ mysql[a].row.endAt <= now

(* Mutant of EndStatus: an auction without bids is sold to nobody. *)
EndStatusSold(state) == "SOLD"

EndStatus(state) == IF state.leader = NoUser THEN "UNSOLD" ELSE "SOLD"

SettleScript(a) ==
  /\ Expired(a) /\ a \notin settling
  /\ Keys(a)!FinishCode = "FINISHED"
  /\ redis' = [redis EXCEPT ![a].hash.version = @ + 1,
                               ![a].hash.status = EndStatus(redis[a].hash)]
  /\ settling' = settling \cup {a}
  /\ UNCHANGED <<driver, now, mysql, down, sockets>>

SettleRow(a) ==
  LET state == redis[a].hash  old == mysql[a] IN
  /\ a \in settling
  /\ mysql' = [mysql EXCEPT
       ![a].row = IF @.version < state.version
                  THEN [@ EXCEPT !.status = state.status, !.version = state.version] ELSE @,
       ![a].order = IF state.status = "SOLD" THEN OrderOf(@, [state EXCEPT !.price = old.row.price], state.leader)
                    ELSE @]
  /\ Tells(a, "auctionEnded", [Snapshot(a) EXCEPT !.order = mysql'[a].order])
  /\ settling' = settling \ {a}
  /\ UNCHANGED <<driver, now, redis, down, room, heard>>

----
(* A socket receives the next event. *)
Deliver(s) ==
  /\ inbox[s] # <<>>
  /\ heard' = [heard EXCEPT ![s] = Append(@, Head(inbox[s]))]
  /\ inbox' = [inbox EXCEPT ![s] = Tail(@)]
  /\ UNCHANGED <<driver, now, stores, down, room>>

(* The driver sleeps or polls, and nothing else is left to do. *)
Settled == settling = {} /\ \A a \in Auctions : ~Expired(a)
Quiet == Settled /\ \A s \in Sockets : inbox[s] = <<>>

Sleeps == Current.op = "sleep" /\ elapsed < Current.units
Polls == Current.op = "calls" /\ \E i \in DOMAIN task : At(i, "await", "new") /\ ~ENABLED PollEnds(i)

Tick ==
  /\ ~Finished /\ (Sleeps \/ Polls) /\ Quiet
  /\ now' = now + 1 /\ elapsed' = elapsed + 1
  /\ UNCHANGED <<script, step, task, answers, stores, down, sockets>>

(* The steps that are not calls.  A sleep lasts its units of the clock, and *)
(* on until all is quiet, where the scripts have a fixed time of 100 ms to  *)
(* seconds.                                                                 *)
Advances(op) == ~Finished /\ Current.op = op /\ step' = step + 1 /\ elapsed' = 0
Wakes ==
  /\ Advances("sleep") /\ ~Sleeps /\ Quiet
  /\ UNCHANGED <<script, task, answers, now, stores, down, sockets>>

Closes ==
  /\ Advances("close")
  /\ room' = [room EXCEPT ![Current.socket] = [on |-> 0, user |-> NoUser]]
  /\ inbox' = [inbox EXCEPT ![Current.socket] = <<>>]
  /\ UNCHANGED <<script, task, answers, now, stores, down, heard>>

Stops ==
  /\ Advances("stop")
  /\ down' = down \cup {Current.store}
  /\ UNCHANGED <<script, task, answers, now, stores, sockets>>

(* A container started again; Redis may have saved its keys or lost them. *)
Restarts ==
  /\ Advances("restart")
  /\ down' = down \ {Current.store}
  /\ \/ redis' = redis
     \/ /\ Current.store = "redis"
        /\ redis' = [a \in Auctions |-> [hash |-> NoHash, board |-> NobodyYet, keys |-> {}]]
  /\ UNCHANGED <<script, task, answers, now, mysql, settling, sockets>>

Handle(i) ==
  \/ StartRow(i) \/ StartRedis(i) \/ UpdateRow(i) \/ PayOrder(i)
  \/ ReadStore(i) \/ PollEnds(i) \/ EventHeard(i)
  \/ EnterRoom(i) \/ SendSnapshot(i) \/ SnapshotHeard(i)
  \/ BidBegins(i) \/ BidScript(i) \/ BidReads(i) \/ BidCommits(i) \/ BidEmits(i) \/ BidReplies(i)
  \/ CancelScript(i) \/ CancelRow(i) \/ CancelEmits(i)

Next ==
  \/ MakeCalls \/ CallsReturn \/ Wakes \/ Closes \/ Stops \/ Restarts \/ Tick
  \/ \E i \in DOMAIN task : Handle(i)
  \/ \E a \in Auctions : SettleScript(a) \/ SettleRow(a)
  \/ \E s \in Sockets : Deliver(s)

Spec == Init /\ [][Next]_vars

(* Node.js, the timer and the network go on as long as there is something to do. *)
FairSpec == Spec /\ WF_vars(Next)

----
TypeOK ==
  /\ script \in Scripts /\ step \in 1 .. Len(Steps) + 1 /\ elapsed \in Nat /\ now \in Nat
  /\ \A a \in Auctions :
       /\ redis[a].hash \in Keys(a)!AuctionState \cup {NoHash}
       /\ redis[a].board \in [Bidders -> Nat]
       /\ mysql[a].row \in Keys(a)!AuctionState
       /\ mysql[a].bids \subseteq (Nat \X Bidders)
       /\ mysql[a].order # Null => mysql[a].order.winner \in Bidders
  /\ settling \subseteq Auctions /\ down \subseteq {"mysql", "redis"}
  /\ \A s \in Sockets : room[s].on \in Auctions \cup {0} /\ room[s].user \in Bidders \cup {NoUser}

(***************************************************************************)
(* The verdict of a driver does not depend on the order of concurrent      *)
(* calls, settlement and deliveries: as long as its sleeps last, it passes. *)
(***************************************************************************)
VerdictIsPass == Finished => Passes(script)

(***************************************************************************)
(* No driver waits for an event, a status or an answer that never comes.   *)
(***************************************************************************)
DriverFinishes == <>Finished
===============================================================================
