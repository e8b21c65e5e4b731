----------------------------- MODULE LoadDrivers -----------------------------
(***************************************************************************)
(* The load drivers: many sockets and a stream of bids.  Three bids and    *)
(* two or three sockets stand for the minutes and thousands; a driver      *)
(* awaits each bid before it picks the next bidder and amount, so these    *)
(* are the ones its loop comes to, by symmetry of the users.  The limits   *)
(* on latencies are left out.                                              *)
(***************************************************************************)
EXTENDS Drivers

(* Every accepted bid arrives everywhere, in order. *)
AllArrive(heard, sockets, bids) ==
  \A s \in sockets : Times(heard[s], "bidAccepted") = bids /\ ~RollsBack(heard[s])

----
(* run-2.0-ws1000-real-bid *)
RealBid ==
  [auctions |-> <<LongAuction(1000)>>, failOrder |-> FALSE,
   steps |->
     <<One("setup", Start(1)),
       All("clients", <<Join("s1", 1, NoUser), Join("s2", 1, NoUser)>>), Pause,
       One("bid1", Bid(1, "A", 1)), Pause, One("bid2", Bid(1, "B", 2)), Pause,
       One("bid3", Bid(1, "C", 3)), Pause, Pause,
       One("http", Read("http", 1))>>]

RealBidPasses(o, heard) ==
  LET latest == LastOf(heard["s1"], {"auctionSnapshot", "bidAccepted"})
      http == o.http.view
  IN /\ Ok(o.clients[1]) /\ Ok(o.clients[2])
     /\ AllArrive(heard, {"s1", "s2"}, 3)
     /\ \A s \in {"s1", "s2"} : \A i \in DOMAIN heard[s] :
          heard[s][i].event = "bidAccepted" => Top(heard[s][i].view.board)[1] = heard[s][i].view.price
     /\ TopIs(http.board, http.price, http.leader)
     /\ Leads(latest, http.price, http.leader) /\ Top(latest.board) = Top(http.board)

----
(* run-2.0-ws1000-broadcast: two bidders take turns *)
Broadcast1000 ==
  [auctions |-> <<LongAuction(1000)>>, failOrder |-> FALSE,
   steps |->
     <<One("setup", Start(1)),
       All("clients", <<Join("s1", 1, NoUser), Join("s2", 1, NoUser)>>), Pause,
       One("bid1", Bid(1, "A", 1)), Pause, One("bid2", Bid(1, "B", 2)), Pause,
       One("bid3", Bid(1, "A", 3)), Pause, Pause>>]

Broadcast1000Passes(o, heard) ==
  /\ Ok(o.clients[1]) /\ Ok(o.clients[2])
  /\ AllArrive(heard, {"s1", "s2"}, 3)

----
(* run-2.0-ws1000-hold: some of the connections are closed and made again *)
Hold1000 ==
  [auctions |-> <<LongAuction(1000)>>, failOrder |-> FALSE,
   steps |->
     <<One("setup", Start(1)),
       All("clients", <<Join("s1", 1, NoUser), Join("s2", 1, NoUser), Join("s3", 1, NoUser)>>),
       Pause, Close("s1"), Close("s2"), Pause,
       All("again", <<Join("s4", 1, NoUser), Join("s5", 1, NoUser)>>)>>]

Hold1000Passes(o, heard) ==
  /\ \A i \in 1 .. 3 : Ok(o.clients[i])
  /\ \A i \in 1 .. 2 : Ok(o.again[i]) /\ o.again[i].view.status = "RUNNING"

----
(* run-2.0-stability: the bidders in turn, each one increment more *)
Stability ==
  [auctions |-> <<LongAuction(1000)>>, failOrder |-> FALSE,
   steps |->
     <<One("setup", Start(1)),
       All("clients", <<Join("s1", 1, NoUser), Join("s2", 1, NoUser)>>),
       One("bid1", Bid(1, "A", 1)), Pause, One("bid2", Bid(1, "B", 2)), Pause,
       One("bid3", Bid(1, "C", 3)), Pause, Pause,
       One("http", Read("http", 1))>>]

StabilityPasses(o, heard) ==
  /\ Ok(o.clients[1]) /\ Ok(o.clients[2])
  /\ AllArrive(heard, {"s1", "s2"}, 3)
  /\ Leads(o.http.view, 3, "C") /\ TopIs(o.http.view.board, 3, "C")

----
(* run-2.0-last-minute, in units of 10 s: bids in the last minute, then one *)
(* after another in the last seconds until the cap is reached               *)
LastMinute ==
  [auctions |-> <<Auction(5, 8, 1, 2)>>, failOrder |-> FALSE,
   steps |->
     <<One("setup", Start(1)),
       All("clients", <<Join("s1", 1, "A"), Join("s2", 1, "B")>>),
       One("minute", AwaitLast(1, 6)),
       One("bid1", Bid(1, "A", 1)), Pause, One("bid2", Bid(1, "B", 2)), Pause,
       One("seconds", AwaitLast(1, 1)),
       One("bid3", Bid(1, "C", 3)), Pause, One("bid4", Bid(1, "A", 4)), Pause,
       One("bid5", Bid(1, "B", 5)), Pause,
       One("final", AwaitStatus(1, {"SOLD", "UNSOLD", "CANCELLED"})),
       All("late", <<Bid(1, "A", 6), Bid(1, "B", 6), Bid(1, "C", 6)>>),
       One("http", Read("http", 1))>>]

LastMinutePasses(o, heard) ==
  LET final == o.final.view
      extended == {b \in {o.bid1, o.bid2, o.bid3, o.bid4} : b.note = "extended"}
  IN /\ Ok(o.clients[1]) /\ Ok(o.clients[2])
     /\ extended # {} /\ \A b \in extended : b.view.endAt = o.seconds.view.endAt + 2
     /\ \A s \in {"s1", "s2"} :
          Times(heard[s], "auctionExtended") = Cardinality(extended) /\ ~RollsBack(heard[s])
     /\ \A i \in 1 .. 3 : ~Ok(o.late[i])
     /\ \A b \in {o.bid1, o.bid2, o.bid3, o.bid4, o.bid5, o.late[1], o.late[2], o.late[3]} :
          b.status # "failed"
     /\ final.status = "SOLD" /\ final.order.amount = final.price /\ final.order.winner = final.leader
     /\ TopIs(o.http.view.board, final.price, final.leader)

----
(* run-perf-test-cases: bids one by one, then equal bids at once *)
PerfCases ==
  [auctions |-> <<LongAuction(1000), LongAuction(1000)>>, failOrder |-> FALSE,
   steps |->
     <<One("base", Start(1)),
       One("bid1", Bid(1, "A", 1)), One("bid2", Bid(1, "B", 2)), One("bid3", Bid(1, "A", 3)),
       One("con", Start(2)),
       All("batch", <<Bid(2, "A", 1), Bid(2, "B", 1), Bid(2, "C", 1)>>)>>]

PerfCasesPass(o, heard) ==
  /\ Ok(o.bid1) /\ Ok(o.bid2) /\ Ok(o.bid3)
  /\ Cardinality({i \in 1 .. 3 : Ok(o.batch[i])}) = 1
===============================================================================
