------------------------------- MODULE Drivers -------------------------------
(***************************************************************************)
(* The language of the repository's test drivers (src/scripts/*.cjs): the  *)
(* calls they make, the steps their main functions await one by one, and   *)
(* what they look at.  A driver is a sequence of steps and a verdict; the  *)
(* modules ...Drivers hold one of each per script, Bench runs them.        *)
(*                                                                         *)
(* Amounts are in increments, times in units each script chooses so that   *)
(* its window, extension and duration keep their proportion.  A sleep      *)
(* shorter than a unit is Pause.  Users, rooms and products a script       *)
(* creates first are there from the start.                                 *)
(***************************************************************************)
EXTENDS Integers, Sequences, FiniteSets

CONSTANTS
  NoUser,     \* no leader; a socket that joins without a user
  Null        \* null: the auction has no order, the view no rules

Bidders == {"A", "B", "C"}
Sockets == {"s1", "s2", "s3", "s4", "s5"}

----
(* The body of POST /auctions; increments of one, starting from zero. *)
Auction(cap, duration, window, ext) ==
  [start |-> 0, inc |-> 1, cap |-> cap, window |-> window, ext |-> ext, duration |-> duration]

(* An auction of 600 s or more, in units of 10 s, with the default window. *)
LongAuction(cap) == Auction(cap, 60, 3, 2)

(* One request or joinAuction.  Request ids are fresh, but for BidAs. *)
BidAs(a, u, x, r) == [kind |-> "bid", on |-> a, user |-> u, amount |-> x, req |-> r]
Bid(a, u, x) == BidAs(a, u, x, 0)
Start(a) == [kind |-> "start", on |-> a]
Update(a, rules) == [kind |-> "update", on |-> a, rules |-> rules]
Cancel(a) == [kind |-> "cancel", on |-> a]
Pay(a) == [kind |-> "pay", on |-> a]
Join(s, a, u) == [kind |-> "join", on |-> a, socket |-> s, user |-> u]
Read(store, a) == [kind |-> "read", on |-> a, store |-> store]

(* Polling GET /auctions/:id until it shows a status, or so little time left. *)
AwaitStatus(a, statuses) == [kind |-> "await", on |-> a, statuses |-> statuses, left |-> 1000]
AwaitLast(a, left) == [kind |-> "await", on |-> a, statuses |-> {"RUNNING"}, left |-> left]

(* waitEvent: the n-th event of a kind that a socket hears. *)
Hear(s, event, n) == [kind |-> "hear", socket |-> s, event |-> event, nth |-> n]

(* One step of a driver: calls awaited together under a name, or a pause. *)
All(name, calls) == [op |-> "calls", as |-> name, calls |-> calls]
One(name, call) == All(name, <<call>>)
Sleep(units) == [op |-> "sleep", units |-> units]
Pause == Sleep(0)
Close(s) == [op |-> "close", socket |-> s]
Stop(store) == [op |-> "stop", store |-> store]
Restart(store) == [op |-> "restart", store |-> store]

----
(* What a driver sees of an auction, whatever it asks: amounts by user in  *)
(* board (Redis) and bids (MySQL), and what the source does not have empty. *)
View(s, board, bids, order) ==
  [status |-> s.status, price |-> s.price, leader |-> s.leader, endAt |-> s.endAt,
   reason |-> s.reason, rules |-> s.rules, board |-> board, bids |-> bids, order |-> order]
NoView == View([status |-> "none", price |-> 0, leader |-> NoUser, endAt |-> 0,
                reason |-> "none", rules |-> Null], {}, {}, Null)

Answer(status, note, view) == [status |-> status, note |-> note, view |-> view]
Ok(answer) == answer.status = "ok"

(* The first entry of a leaderboard, or the highest bid. *)
Top(entries) ==
  IF entries = {} THEN <<0, NoUser>> ELSE CHOOSE e \in entries : \A f \in entries : f[1] <= e[1]

Leads(v, price, user) == v.price = price /\ v.leader = user
TopIs(entries, price, user) == Top(entries) = <<price, user>>

(* What a socket heard. *)
Heard(heard, event) == SelectSeq(heard, LAMBDA e : e.event = event)
Times(heard, event) == Len(Heard(heard, event))
LastOf(heard, events) ==
  LET those == SelectSeq(heard, LAMBDA e : e.event \in events)
  IN IF those = <<>> THEN NoView ELSE those[Len(those)].view
RollsBack(heard) ==
  LET bids == Heard(heard, "bidAccepted")
  IN \E i \in 1 .. Len(bids) - 1 : bids[i + 1].view.price < bids[i].view.price
===============================================================================
