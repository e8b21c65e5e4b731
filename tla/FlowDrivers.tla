----------------------------- MODULE FlowDrivers -----------------------------
(***************************************************************************)
(* The drivers that walk through the flows of the product and assert after *)
(* each step: smoke-auction-flow and verify-p1-p2-fixes.                   *)
(***************************************************************************)
EXTENDS Drivers

(* smoke-auction-flow, from the first bid to the payment; 9999 of 10000 is 0 *)
SmokeSale ==
  [auctions |-> <<Auction(3, 12, 3, 2)>>, failOrder |-> FALSE,
   steps |->
     <<One("start", Start(1)),
       One("snapshotA", Join("s1", 1, NoUser)), One("snapshotB", Join("s2", 1, NoUser)),
       One("tooLow", Bid(1, "A", 0)),
       One("first", BidAs(1, "A", 1, 1000)),
       One("broadcastA1", Hear("s1", "bidAccepted", 1)),
       One("broadcastB1", Hear("s2", "bidAccepted", 1)),
       One("duplicate", BidAs(1, "A", 1, 1000)),
       One("self", Bid(1, "A", 2)),
       One("second", Bid(1, "B", 2)),
       One("broadcastA2", Hear("s1", "bidAccepted", 2)),
       One("recovered", Join("s3", 1, NoUser)), Close("s3"),
       One("sold", Bid(1, "A", 3)),
       One("ended", Hear("s1", "auctionEnded", 1)),
       One("late", Bid(1, "B", 4)),
       One("order", Read("http", 1)), One("paid", Pay(1)), One("detail", Read("http", 1))>>]

SmokeSalePasses(o, heard) ==
  /\ \A refused \in {o.tooLow, o.self, o.late} : refused.status = "refused"
  /\ o.broadcastA1.view.price = 1 /\ o.broadcastB1.view.price = 1
  /\ o.broadcastA1.view.board = {<<1, "A">>}
  /\ o.duplicate.note = "duplicate"
  /\ o.broadcastA2.view.leader = "B" /\ o.broadcastA2.view.board = {<<2, "B">>, <<1, "A">>}
  /\ Leads(o.recovered.view, 2, "B") /\ Top(o.recovered.view.board)[2] = "B"
  /\ o.sold.view.status = "SOLD" /\ o.ended.view.status = "SOLD"
  /\ o.order.view.order.winner = "A" /\ o.order.view.order.status = "PENDING_PAYMENT"
  /\ Ok(o.paid) /\ o.paid.view.order.status = "PAID"
  /\ Cardinality(o.detail.view.bids) = 3 /\ TopIs(o.detail.view.bids, 3, "A")
  /\ o.detail.view.order.winner = "A"

----
(* smoke-auction-flow, the other auctions: an extension, a cancellation,    *)
(* two equal bids at once, a timed sale and a timed end without bids;       *)
(* in seconds, the long ones shortened to 12                                *)
SmokeEnds ==
  [auctions |-> <<Auction(5, 2, 10, 20), Auction(5, 12, 3, 2), Auction(5, 12, 3, 2),
                  Auction(5, 2, 1, 2), Auction(5, 1, 3, 2)>>, failOrder |-> FALSE,
   steps |->
     <<One("start1", Start(1)), One("snapshot1", Join("s1", 1, NoUser)),
       One("extended", Bid(1, "A", 1)), One("extension", Hear("s1", "auctionExtended", 1)), Close("s1"),
       One("start2", Start(2)), One("snapshot2", Join("s2", 2, NoUser)),
       One("cancelled", Cancel(2)), One("cancellation", Hear("s2", "auctionCancelled", 1)),
       One("tooLate", Bid(2, "B", 1)), One("cancelledDetail", Read("http", 2)), Close("s2"),
       One("start3", Start(3)), All("concurrent", <<Bid(3, "A", 1), Bid(3, "B", 1)>>),
       One("start4", Start(4)), One("timedBid", Bid(4, "A", 1)), Sleep(2),
       One("timedSold", Read("http", 4)),
       One("start5", Start(5)), Sleep(1), One("timedUnsold", Read("http", 5))>>]

SmokeEndsPasses(o, heard) ==
  /\ o.extended.note = "extended" /\ o.extension.view.endAt = o.extended.view.endAt
  /\ o.cancelled.view.status = "CANCELLED" /\ o.cancellation.view.reason = "given"
  /\ o.tooLate.status = "refused" /\ o.cancelledDetail.view.order = Null
  /\ {o.concurrent[i].status : i \in 1 .. 2} = {"ok", "refused"}
  /\ o.timedSold.view.status = "SOLD" /\ o.timedSold.view.order.winner = "A"
  /\ o.timedUnsold.view.status = "UNSOLD" /\ o.timedUnsold.view.order = Null

----
(* verify-p1-p2-fixes: rules of a draft, repeated extension, outbid and rooms *)
NewRules == Auction(20, 12, 3, 2)
VerifyFixes ==
  [auctions |-> <<Auction(10, 6, 1, 2), Auction(100, 2, 30, 20), Auction(100, 60, 10, 20),
                  Auction(100, 60, 10, 20)>>, failOrder |-> FALSE,
   steps |->
     <<One("updated", Update(1, NewRules)), One("start1", Start(1)),
       One("runningUpdate", Update(1, Auction(10, 6, 1, 2))),
       One("start2", Start(2)), One("first", Bid(2, "A", 1)), One("second", Bid(2, "B", 2)),
       One("start3", Start(3)), One("start4", Start(4)),
       One("leader", Join("s1", 3, "A")), One("roomB", Join("s2", 4, "B")),
       One("bidA", Bid(3, "A", 1)), One("bidB", Bid(3, "B", 2)),
       One("outbid", Hear("s1", "outbid", 1)), Pause,
       Close("s1"), Close("s2")>>]

VerifyFixesPasses(o, heard) ==
  /\ Ok(o.updated) /\ o.updated.view.rules = NewRules
  /\ o.runningUpdate.status = "refused"
  /\ o.first.note = "extended" /\ o.second.note = "extended"
  /\ o.second.view.endAt > o.first.view.endAt
  /\ o.outbid.view.leader = "B"
  /\ Times(heard["s2"], "bidAccepted") = 0
===============================================================================
