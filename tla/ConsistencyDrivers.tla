-------------------------- MODULE ConsistencyDrivers --------------------------
(***************************************************************************)
(* The drivers that compare what MySQL, Redis, HTTP and WebSocket show of  *)
(* one auction (or of several at once) after a scenario.                   *)
(***************************************************************************)
EXTENDS Drivers

(* MySQL, Redis, HTTP of one auction, read one after the other. *)
Everywhere(a) ==
  <<One("mysql", Read("mysql", a)), One("redis", Read("redis", a)), One("http", Read("http", a))>>

(* All of them show one price and leader, the leaderboards on top. *)
AllShow(o, ws, price, user) ==
  /\ \A v \in {o.mysql.view, o.redis.view, o.http.view, ws} : Leads(v, price, user)
  /\ TopIs(o.mysql.view.bids, price, user)
  /\ \A v \in {o.redis.view, o.http.view, ws} : TopIs(v.board, price, user)

----
(* run-2.0-cancel-consistency *)
CancelConsistency ==
  [auctions |-> <<Auction(10, 60, 3, 2)>>, failOrder |-> FALSE,
   steps |->
     <<One("setup", Start(1)),
       One("observer", Join("s1", 1, NoUser)),
       One("bidA", Bid(1, "A", 1)), Pause,
       One("bidB", Bid(1, "B", 2)), Pause,
       One("before", Read("mysql", 1)),
       One("cancel", Cancel(1)), Pause,
       One("refreshed", Join("s2", 1, NoUser)),
       One("late", Bid(1, "C", 3))>> \o Everywhere(1)]

CancelConsistencyPasses(o, heard) ==
  LET ws == LastOf(heard["s1"], {"auctionCancelled"})
      refreshed == o.refreshed.view
      seen == {o.mysql.view, o.redis.view, o.http.view, ws, refreshed}
  IN /\ Ok(o.bidA) /\ Ok(o.bidB) /\ Ok(o.cancel) /\ Ok(o.refreshed) /\ Ok(o.http)
     /\ o.before.view.status = "RUNNING" /\ o.before.view.price = 2
     /\ o.late.status = "refused"
     /\ \A v \in seen : v.status = "CANCELLED" /\ v.reason = "given"
     /\ o.mysql.view.order = Null /\ o.http.view.order = Null
     /\ Cardinality(o.mysql.view.bids) = 2
     /\ AllShow(o, ws, 2, "B")
     /\ Leads(refreshed, 2, "B") /\ TopIs(refreshed.board, 2, "B")
     /\ Times(heard["s1"], "auctionCancelled") = 1

----
(* run-2.0-cap-sale-consistency, with a cap of 4 for its 10 increments *)
CapSaleConsistency ==
  [auctions |-> <<Auction(4, 60, 3, 2)>>, failOrder |-> FALSE,
   steps |->
     <<One("setup", Start(1)),
       One("observer", Join("s1", 1, NoUser)),
       One("pre1", Bid(1, "A", 1)), Pause,
       One("pre2", Bid(1, "B", 2)), Pause,
       One("pre3", Bid(1, "A", 3)), Pause,
       One("before", Read("mysql", 1)),
       One("capBid", Bid(1, "C", 4)), Pause,
       One("late", Bid(1, "B", 5))>> \o Everywhere(1)]

CapSaleConsistencyPasses(o, heard) ==
  LET ws == LastOf(heard["s1"], {"auctionEnded"}) IN
  /\ Ok(o.pre1) /\ Ok(o.pre2) /\ Ok(o.pre3) /\ Ok(o.capBid) /\ Ok(o.http)
  /\ o.before.view.status = "RUNNING" /\ o.before.view.price = 3
  /\ o.late.status = "refused"
  /\ \A v \in {o.mysql.view, o.redis.view, o.http.view, ws} : v.status = "SOLD"
  /\ AllShow(o, ws, 4, "C")
  /\ \A v \in {o.mysql.view, o.http.view} : v.order.amount = 4 /\ v.order.winner = "C"
  /\ Cardinality(o.mysql.view.bids) = 4
  /\ Times(heard["s1"], "auctionEnded") = 1

----
(* run-2.0-consistency: rounds of equal bids at once, the last at the cap; *)
(* three users and two rounds for its hundred and ten                      *)
RoundsOfEqualBids ==
  [auctions |-> <<Auction(2, 60, 3, 3)>>, failOrder |-> FALSE,
   steps |->
     <<One("setup", Start(1)),
       One("observer", Join("s1", 1, NoUser)),
       All("round1", <<Bid(1, "A", 1), Bid(1, "B", 1), Bid(1, "C", 1)>>), Pause,
       All("round2", <<Bid(1, "A", 2), Bid(1, "B", 2), Bid(1, "C", 2)>>), Pause,
       One("detail", AwaitStatus(1, {"SOLD"})), Pause>> \o Everywhere(1)]

RoundsOfEqualBidsPasses(o, heard) ==
  LET ws == LastOf(heard["s1"], {"auctionSnapshot", "bidAccepted", "auctionEnded"})
      Successes(round) == Cardinality({i \in DOMAIN round : Ok(round[i])})
      winner == o.mysql.view.leader
  IN /\ \A round \in {o.round1, o.round2} :
          Successes(round) = 1 /\ \A i \in DOMAIN round : round[i].status # "failed"
     /\ Cardinality(o.mysql.view.bids) = 2
     /\ winner # NoUser
     /\ AllShow(o, ws, o.mysql.view.price, winner)
     /\ o.mysql.view.order.amount = o.mysql.view.price /\ o.mysql.view.order.winner = winner
     /\ \A v \in {o.mysql.view, o.redis.view, o.detail.view, ws} : v.status = "SOLD"
     /\ o.detail.view.order # Null

----
(* run-2.0-extension-consistency, in units of 5 s: two bids, each when no  *)
(* more than the window less a second is left                              *)
ExtensionConsistency ==
  [auctions |-> <<Auction(1000, 9, 2, 4)>>, failOrder |-> FALSE,
   steps |->
     <<One("setup", Start(1)),
       One("observer", Join("s1", 1, NoUser)),
       One("before1", AwaitLast(1, 1)), One("bid1", Bid(1, "A", 1)), Pause,
       One("before2", AwaitLast(1, 1)), One("bid2", Bid(1, "B", 2)), Pause,
       Pause>> \o Everywhere(1)]

ExtensionConsistencyPasses(o, heard) ==
  LET ws == LastOf(heard["s1"], {"auctionSnapshot", "bidAccepted", "auctionExtended", "auctionEnded"})
      Extended(bid, before) ==
        bid.note = "extended" /\ bid.view.endAt = before.view.endAt + 4
  IN /\ Extended(o.bid1, o.before1) /\ Extended(o.bid2, o.before2)
     /\ Times(heard["s1"], "auctionExtended") = 2
     /\ \A v \in {o.mysql.view, o.redis.view, o.http.view} : v.endAt = ws.endAt
     /\ AllShow(o, ws, 2, "B")
     /\ o.http.view.status = "RUNNING" /\ Times(heard["s1"], "auctionEnded") = 0

----
(* run-2.0-multi-room-isolation: room 1 extends, room 2 sells, room 3 is   *)
(* cancelled; one socket per room for its hundred                          *)
MultiRoomIsolation ==
  [auctions |-> <<Auction(1000, 90, 90, 3), Auction(3, 90, 3, 2), Auction(1000, 90, 3, 2)>>,
   failOrder |-> FALSE,
   steps |->
     <<One("setup1", Start(1)), One("setup2", Start(2)), One("setup3", Start(3)),
       All("clients", <<Join("s1", 1, NoUser), Join("s2", 2, NoUser), Join("s3", 3, NoUser)>>),
       One("bid11", Bid(1, "A", 1)), One("bid12", Bid(1, "B", 2)),
       One("bid21", Bid(2, "A", 1)), One("bid22", Bid(2, "B", 2)), One("bid23", Bid(2, "C", 3)),
       One("bid31", Bid(3, "A", 1)),
       One("cancel", Cancel(3)), Pause,
       All("http", <<Read("http", 1), Read("http", 2), Read("http", 3)>>),
       All("redis", <<Read("redis", 1), Read("redis", 2), Read("redis", 3)>>)>>]

MultiRoomIsolationPasses(o, heard) ==
  LET room(a) == <<"s1", "s2", "s3">>[a]
      Shows(a, status, price) == o.http[a].view.status = status /\ o.http[a].view.price = price
  IN /\ \A a \in 1 .. 3 : Ok(o.clients[a])
     /\ \A bid \in {o.bid11, o.bid12, o.bid21, o.bid22, o.bid23, o.bid31, o.cancel} : Ok(bid)
     /\ \A a \in 1 .. 3 : \A i \in DOMAIN heard[room(a)] : heard[room(a)][i].on = a
     /\ Shows(1, "RUNNING", 2) /\ o.http[1].view.order = Null
     /\ Times(heard["s1"], "auctionExtended") >= 1
     /\ Shows(2, "SOLD", 3) /\ o.http[2].view.order.amount = 3
     /\ Times(heard["s2"], "auctionEnded") >= 1
     /\ Shows(3, "CANCELLED", 1) /\ o.http[3].view.order = Null
     /\ Times(heard["s3"], "auctionCancelled") >= 1
     /\ \A a \in 1 .. 3 :
          /\ o.redis[a].view.status = o.http[a].view.status
          /\ Leads(o.redis[a].view, o.http[a].view.price, o.http[a].view.leader)
          /\ Top(o.redis[a].view.board) = Top(o.http[a].view.board)
===============================================================================
