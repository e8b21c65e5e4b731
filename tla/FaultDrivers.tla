----------------------------- MODULE FaultDrivers -----------------------------
(***************************************************************************)
(* The drivers that stop MySQL or Redis, make an order fail or drop a      *)
(* connection, and look at what is left of the auction.                    *)
(***************************************************************************)
EXTENDS Drivers

(* MySQL and Redis agree on the state, and the highest bid leads. *)
StoresConsistent(mysql, redis) ==
  /\ redis.status = mysql.status
  /\ Leads(redis, mysql.price, mysql.leader)
  /\ Top(redis.board) = Top(mysql.bids)

(* What HTTP shows is what MySQL has. *)
HttpConsistent(mysql, http) ==
  /\ Ok(http) /\ http.view.status = mysql.status
  /\ Leads(http.view, mysql.price, mysql.leader)
  /\ TopIs(http.view.board, mysql.price, mysql.leader)

(* Nothing was written between two looks at MySQL. *)
Unchanged(before, after) ==
  /\ after.price = before.price
  /\ Cardinality(after.bids) = Cardinality(before.bids)
  /\ after.order = before.order

----
(* run-2.0-mysql-fault *)
MysqlFault ==
  [auctions |-> <<LongAuction(1000)>>, failOrder |-> FALSE,
   steps |->
     <<One("setup", Start(1)), One("initial", Bid(1, "A", 1)),
       One("beforeM", Read("mysql", 1)), One("beforeR", Read("redis", 1)),
       Stop("mysql"), Pause,
       One("faultBid", Bid(1, "B", 2)), One("duringR", Read("redis", 1)),
       Restart("mysql"), Pause,
       One("afterM", Read("mysql", 1)), One("afterR", Read("redis", 1)),
       One("recovery", Bid(1, "C", 3)), Pause,
       One("finalM", Read("mysql", 1)), One("finalR", Read("redis", 1)),
       One("http", Read("http", 1))>>]

MysqlFaultPasses(o, heard) ==
  /\ Ok(o.initial) /\ ~Ok(o.faultBid) /\ Ok(o.recovery)
  /\ o.duringR.view.price = o.beforeR.view.price
  /\ Unchanged(o.beforeM.view, o.afterM.view)
  /\ StoresConsistent(o.afterM.view, o.afterR.view)
  /\ StoresConsistent(o.finalM.view, o.finalR.view)
  /\ HttpConsistent(o.finalM.view, o.http)
  /\ o.finalM.view.order = Null

----
(* run-2.0-fault-recovery-consistency: the same, with a socket that joins after it *)
FaultRecovery ==
  [auctions |-> <<LongAuction(1000)>>, failOrder |-> FALSE,
   steps |->
     <<One("setup", Start(1)), One("initial", Bid(1, "A", 1)), Pause,
       One("beforeM", Read("mysql", 1)), One("beforeR", Read("redis", 1)),
       Stop("mysql"), Pause,
       One("faultBid", Bid(1, "B", 2)), One("duringR", Read("redis", 1)),
       Restart("mysql"), Pause,
       One("afterM", Read("mysql", 1)), One("afterR", Read("redis", 1)),
       One("rejoin", Join("s1", 1, "C")), One("afterHttp", Read("http", 1)),
       One("recovery", Bid(1, "C", 3)), Pause,
       One("finalM", Read("mysql", 1)), One("finalR", Read("redis", 1)),
       One("finalHttp", Read("http", 1))>>]

FaultRecoveryPasses(o, heard) ==
  LET rejoined == o.rejoin.view
      broadcast == LastOf(heard["s1"], {"bidAccepted"})
  IN /\ Ok(o.initial) /\ ~Ok(o.faultBid) /\ Ok(o.recovery) /\ Ok(o.rejoin)
     /\ o.duringR.view.price = o.beforeR.view.price
     /\ Unchanged(o.beforeM.view, o.afterM.view)
     /\ StoresConsistent(o.afterM.view, o.afterR.view)
     /\ StoresConsistent(o.afterM.view, rejoined)
     /\ HttpConsistent(o.afterM.view, o.afterHttp)
     /\ StoresConsistent(o.finalM.view, o.finalR.view)
     /\ HttpConsistent(o.finalM.view, o.finalHttp)
     /\ Leads(broadcast, o.finalM.view.price, o.finalM.view.leader)
     /\ o.finalM.view.order = Null

----
(* run-2.0-redis-fault *)
RedisFault ==
  LET Snapshot == <<Read("mysql", 1), Read("redis", 1), Read("http", 1)>> IN
  [auctions |-> <<LongAuction(1000)>>, failOrder |-> FALSE,
   steps |->
     <<One("setup", Start(1)), One("initial", Bid(1, "A", 1)),
       All("before", Snapshot),
       Stop("redis"), Pause,
       One("faultB", Bid(1, "B", 2)), One("faultC", Bid(1, "C", 3)),
       One("duringM", Read("mysql", 1)),
       Restart("redis"), Pause,
       All("restarted", Snapshot),
       One("recovery", Bid(1, "B", 2)), Pause,
       All("after", Snapshot)>>]

RedisFaultPasses(o, heard) ==
  LET mysql == o.after[1].view  redis == o.after[2].view  http == o.after[3].view IN
  /\ Ok(o.initial) /\ ~Ok(o.faultB) /\ ~Ok(o.faultC) /\ Ok(o.recovery)
  /\ Unchanged(o.before[1].view, o.duringM.view)
  /\ o.duringM.view.leader = o.before[1].view.leader
  /\ mysql.price = 2 /\ mysql.order = Null
  /\ \A v \in {redis, http} :
       Leads(v, mysql.price, mysql.leader) /\ TopIs(v.board, mysql.price, mysql.leader)

----
(* run-2.0-order-failure: the API is started with AUCTION_TEST_FAIL_ORDER_CREATE=1 *)
OrderFailure ==
  [auctions |-> <<LongAuction(10)>>, failOrder |-> TRUE,
   steps |->
     <<One("setup", Start(1)), One("preBid", Bid(1, "A", 9)),
       One("beforeM", Read("mysql", 1)), One("beforeR", Read("redis", 1)),
       One("capBid", Bid(1, "B", 10)), Pause,
       One("mysql", Read("mysql", 1)), One("redis", Read("redis", 1)),
       One("http", Read("http", 1))>>]

OrderFailurePasses(o, heard) ==
  LET mysql == o.mysql.view  redis == o.redis.view  http == o.http.view IN
  /\ ~Ok(o.capBid)
  /\ "SOLD" \in {mysql.status, redis.status} => mysql.order # Null
  /\ http.status = "SOLD" => http.order # Null
  /\ Leads(redis, mysql.price, mysql.leader) /\ redis.status = mysql.status

----
(* run-2.0-websocket-miss-recovery: two of three clients miss a bid and join again *)
MissRecovery ==
  [auctions |-> <<LongAuction(1000)>>, failOrder |-> FALSE,
   steps |->
     <<One("setup", Start(1)),
       One("clientA", Join("s1", 1, "A")),
       One("clientB", Join("s2", 1, "B")), One("clientC", Join("s3", 1, "C")),
       Close("s2"), Close("s3"), Pause,
       One("bid", Bid(1, "A", 1)), Pause,
       One("againB", Join("s4", 1, "B")), One("againC", Join("s5", 1, "C")),
       All("all", <<Read("mysql", 1), Read("redis", 1), Read("http", 1)>>)>>]

MissRecoveryPasses(o, heard) ==
  LET broadcast == LastOf(heard["s1"], {"bidAccepted"})
      mysql == o.all[1].view
  IN /\ Ok(o.bid) /\ Ok(o.againB) /\ Ok(o.againC)
     /\ \A s \in {"s2", "s3"} : Times(heard[s], "bidAccepted") = 0
     /\ \A v \in {broadcast, o.againB.view, o.againC.view, o.all[2].view, o.all[3].view} :
          Leads(v, 1, "A") /\ TopIs(v.board, 1, "A")
     /\ Leads(mysql, 1, "A") /\ mysql.bids = {<<1, "A">>} /\ mysql.order = Null
===============================================================================
