---------------------------- MODULE LiveRoomProofs ----------------------------
(***************************************************************************)
(* That a page ends up in its room and with the last version of its        *)
(* auction, for any auctions, any calls and any number of lost connections. *)
(***************************************************************************)
EXTENDS LiveRoom, TLAPS

(* A handler that is under way has read something. *)
HasRead ==
  /\ \A c \in Calls : call[c].pc \notin {"idle", "done"} => call[c].snap # NoSnapshot
  /\ \A j \in joining : j.pc = "emit" => j.snap # NoSnapshot

TypeInv == TypeOK /\ HasRead

join(a) == [op |-> "join", auction |-> a]
leave(a) == [op |-> "leave", auction |-> a]

(* The page is in the room of auction a, or a handler is about to put it   *)
(* there.                                                                  *)
Arrived(a) == a \in rooms \/ \E j \in joining : j.pc = "load" /\ j.auction = a

(* In the sequence s nothing from place i on leaves auction a. *)
StaysFrom(s, i, a) == \A k \in i .. Len(s) : s[k] # leave(a)

(* The requests on their way will bring the page into the room of auction  *)
(* a and leave it there.                                                   *)
Bound(a) ==
  \/ Arrived(a) /\ StaysFrom(up, 1, a)
  \/ \E i \in 1 .. Len(up) : up[i] = join(a) /\ StaysFrom(up, i, a)

(* While it is offline nothing is needed: it joins when it is back. *)
OnItsWay == online /\ joined # NoAuction => Bound(joined)

RoomInv == TypeInv /\ OnItsWay

----
LEMMA InitInv == Init => RoomInv
  BY NullsAssumption
  DEF Init, RoomInv, TypeInv, TypeOK, HasRead, OnItsWay, NoCall, Call, PCs, Calls, Snapshot

LEMMA RowTypes == ASSUME NEW a \in Auctions, NEW v \in Nat
                  PROVE  RowOf(a, v) \in Snapshot
  BY DEF RowOf, Snapshot

LEMMA HashTypes == ASSUME TypeOK, NEW a \in Auctions
                   PROVE  ReadHash(a) \in Snapshot
  BY DEF TypeOK, ReadHash, Snapshot

(* Every call that moves stays a call. *)
LEMMA CallStepType ==
  ASSUME TypeInv, NEW c \in Calls, CallStep(c)
  PROVE  TypeInv'
<1> USE DEF TypeInv, TypeOK, HasRead
<1>1. call[c] \in Call /\ call \in [Calls -> Call]
  OBVIOUS
<1>2. call[c].pc \notin {"idle", "done"} => call[c].snap \in Snapshot /\ AuctionOf(c) \in Auctions
  BY <1>1 DEF Call, AuctionOf, Snapshot
<1>3. Finished \in Call
  BY DEF Finished, NoCall, Call, PCs
<1>4. CASE Begin(c)
  <2>1. PICK a \in Auctions, mine \in BOOLEAN : Change(c, a, mine)
    BY <1>4 DEF Begin
  <2>2. version' \in [Auctions -> Nat] /\ version'[a] \in Nat /\ open' \in [Auctions -> BOOLEAN]
    BY <2>1 DEF Change
  <2>3. RowOf(a, 0) \in Snapshot
    BY RowTypes
  <2>4. [pc |-> "commit", mine |-> mine, own |-> version'[a], snap |-> RowOf(a, 0)] \in Call
    BY <2>2, <2>3 DEF Call, PCs
  <2>5. call' \in [Calls -> Call]
    BY <2>1, <2>4 DEF Change
  <2>6. \A d \in Calls : call'[d].pc \notin {"idle", "done"} => call'[d].snap # NoSnapshot
    BY <2>1, <2>3, NullsAssumption DEF Change
  <2> QED BY <1>4, <2>2, <2>5, <2>6 DEF Begin, sockets, screen
<1>5. CASE Commit(c)
  <2>1. PICK v \in call[c].own .. version[AuctionOf(c)] :
          row' = [row EXCEPT ![AuctionOf(c)] = IF @ < v THEN v ELSE @]
    BY <1>5 DEF Commit
  <2>2. AuctionOf(c) \in Auctions
    BY <1>2, <1>5 DEF Commit, At
  <2>3. call[c].own \in Nat /\ version[AuctionOf(c)] \in Nat
    BY <1>1, <2>2 DEF Call
  <2>4. v \in Nat
    BY <2>3
  <2>5. row' \in [Auctions -> Nat]
    BY <2>1, <2>2, <2>4
  <2>6. /\ call' \in [Calls -> Call]
        /\ \A d \in Calls : call'[d].pc \notin {"idle", "done"} => call'[d].snap # NoSnapshot
    BY <1>5, <1>1 DEF Commit, At, Call, PCs
  <2> QED BY <1>5, <2>5, <2>6 DEF Commit, sockets, screen
<1>6. CASE CallRead(c)
  <2>1. ReadHash(AuctionOf(c)) \in Snapshot
    BY <1>2, <1>6, HashTypes DEF CallRead, At
  <2>2. call' = [call EXCEPT ![c].pc = "emit", ![c].snap = ReadHash(AuctionOf(c))]
    BY <1>6 DEF CallRead, AuctionOf
  <2>3. /\ call' \in [Calls -> Call]
        /\ \A d \in Calls : call'[d].pc \notin {"idle", "done"} => call'[d].snap # NoSnapshot
    BY <1>1, <2>1, <2>2, NullsAssumption DEF Call, PCs
  <2> QED BY <1>6, <2>3 DEF CallRead, stores, sockets, screen
<1>7. CASE Emit(c)
  <2>1. call[c].snap \in Snapshot /\ AuctionOf(c) \in Auctions
    BY <1>2, <1>7 DEF Emit, At
  <2>2. Sent(call[c].snap) \in Seq(Message)
    BY <2>1 DEF Sent, Message
  <2>3. down' \in Seq(Message)
    BY <1>7, <2>2 DEF Emit, Broadcast
  <2>4. /\ call' \in [Calls -> Call]
        /\ \A d \in Calls : call'[d].pc \notin {"idle", "done"} => call'[d].snap # NoSnapshot
    <3>1. CASE call' = [call EXCEPT ![c].pc = "answer"]
      BY <3>1, <1>1, <1>7 DEF Emit, At, Call, PCs
    <3>2. CASE call' = [call EXCEPT ![c] = Finished]
      BY <3>2, <1>3, Finished.pc = "done" DEF Finished, NoCall
    <3> QED BY <3>1, <3>2, <1>7 DEF Emit
  <2>5. http' \subseteq Answer
    <3>1. RowOf(AuctionOf(c), call[c].own) \in Snapshot
      BY <1>1, <2>1, RowTypes DEF Call
    <3> QED BY <1>7, <3>1 DEF Emit, Answering, Answer
  <2> QED BY <1>7, <2>3, <2>4, <2>5 DEF Emit, stores, screen
<1>8. CASE Reply(c)
  <2>1. ReadHash(AuctionOf(c)) \in Snapshot
    BY <1>2, <1>8, HashTypes DEF Reply, At
  <2>2. http' \subseteq Answer
    BY <1>8, <2>1 DEF Reply, Answering, Answer
  <2>3. /\ call' \in [Calls -> Call]
        /\ \A d \in Calls : call'[d].pc \notin {"idle", "done"} => call'[d].snap # NoSnapshot
    BY <1>8, <1>3 DEF Reply, Finished, NoCall
  <2> QED BY <1>8, <2>2, <2>3 DEF Reply, stores, sockets, screen
<1> QED BY <1>4, <1>5, <1>6, <1>7, <1>8 DEF CallStep

LEMMA AdvanceTypes ==
  ASSUME TypeInv, NEW j \in joining, NEW pc \in {"hash", "emit"},
         NEW s \in Snapshot \cup {NoSnapshot}, pc = "emit" => s # NoSnapshot,
         Advance(j, pc, s)
  PROVE  /\ joining' \subseteq Join
         /\ \A k \in joining' : k.pc = "emit" => k.snap # NoSnapshot
<1>1. j \in Join
  BY DEF TypeInv, TypeOK
<1>2. [j EXCEPT !.pc = pc, !.snap = s] \in Join
  BY <1>1 DEF Join
<1>3. /\ [j EXCEPT !.pc = pc, !.snap = s].pc = pc
      /\ [j EXCEPT !.pc = pc, !.snap = s].snap = s
  BY <1>1 DEF Join
<1> QED BY <1>2, <1>3 DEF Advance, TypeInv, TypeOK, HasRead

LEMMA GatewayStepType == ASSUME TypeInv, GatewayStep PROVE TypeInv'
<1> USE DEF TypeInv, TypeOK
<1>0. /\ up # <<>> => Head(up) \in Request /\ Tail(up) \in Seq(Request)
      /\ \A j \in joining : j \in Join
  OBVIOUS
<1>1. CASE ReceiveJoin
  <2>1. [auction |-> Head(up).auction, pc |-> "load", snap |-> NoSnapshot] \in Join
    BY <1>0, <1>1 DEF ReceiveJoin, Request, Join
  <2> QED BY <1>0, <1>1, <2>1 DEF ReceiveJoin, HasRead, stores, screen
<1>2. CASE ReceiveLeave
  BY <1>0, <1>2 DEF ReceiveLeave, HasRead, stores, screen
<1>3. ASSUME NEW j \in joining, JoinLoad(j) PROVE TypeInv'
  <2>1. /\ joining' \subseteq Join
        /\ \A k \in joining' : k.pc = "emit" => k.snap # NoSnapshot
    BY <1>3, AdvanceTypes DEF JoinLoad
  <2>2. rooms' \subseteq Auctions
    BY <1>0, <1>3 DEF JoinLoad, Enter, Join
  <2> QED BY <1>3, <2>1, <2>2 DEF JoinLoad, HasRead, stores, screen
<1>4. ASSUME NEW j \in joining, JoinRead(j) PROVE TypeInv'
  <2>1. ReadHash(j.auction) \in Snapshot
    BY <1>0, HashTypes DEF Join
  <2>2. /\ joining' \subseteq Join
        /\ \A k \in joining' : k.pc = "emit" => k.snap # NoSnapshot
    BY <1>4, <2>1, AdvanceTypes, NullsAssumption DEF JoinRead
  <2> QED BY <1>4, <2>2 DEF JoinRead, HasRead, stores, sockets, screen
<1>5. ASSUME NEW j \in joining, JoinEmit(j) PROVE TypeInv'
  <2>1. j.snap \in Snapshot
    BY <1>0, <1>5 DEF JoinEmit, HasRead, Join
  <2>2. down' \in Seq(Message)
    BY <1>5, <2>1 DEF JoinEmit, Message
  <2> QED BY <1>5, <2>2 DEF JoinEmit, HasRead, stores, screen
<1> QED BY <1>1, <1>2, <1>3, <1>4, <1>5 DEF GatewayStep

(* What the page emits when it takes up an auction. *)
LEMMA LeavesType == joined \in Auctions \cup {NoAuction} => Leaves \in Seq(Request)
<1>1. CASE joined = NoAuction
  BY <1>1, Leaves = <<>> DEF Leaves
<1>2. CASE joined # NoAuction
  BY <1>2, Leaves = <<[op |-> "leave", auction |-> joined]>> DEF Leaves, Request
<1> QED BY <1>1, <1>2

LEMMA SwitchTypes ==
  ASSUME NEW a \in Auctions, joined \in Auctions \cup {NoAuction}
  PROVE  BuyerSwitch(a) \in Seq(Request) /\ HostSwitch(a) \in Seq(Request)
<1>1. Joins(a) \in Seq(Request)
  BY DEF Joins, Request
<1>2. Leaves \in Seq(Request)
  BY LeavesType
<1>3. Leaves \o Joins(a) \in Seq(Request)
  BY <1>1, <1>2
<1> QED BY <1>1, <1>3 DEF BuyerSwitch, HostSwitch

LEMMA PageStepType == ASSUME TypeInv, PageStep PROVE TypeInv'
<1> USE DEF TypeInv, TypeOK, HasRead
<1>1. ASSUME NEW a \in Auctions, Pick(a) PROVE TypeInv'
  <2>1. PICK v \in 1 .. row[a] : shown' = RowOf(a, v)
    BY <1>1 DEF Pick
  <2>2. shown' \in Snapshot
    BY <2>1, RowTypes
  <2>3. up' \in Seq(Request)
    BY <1>1, SwitchTypes DEF Pick
  <2> QED BY <1>1, <2>2, <2>3 DEF Pick, stores
<1>2. ASSUME NEW h \in http, Answered(h) PROVE TypeInv'
  <2>1. h.body \in Snapshot /\ h.body.of \in Auctions /\ h.body.version \in Nat
    BY DEF Answer, Snapshot
  <2>2. row[h.body.of] \in Nat
    BY <2>1
  <2>3. \A v \in h.body.version .. row[h.body.of] : RowOf(h.body.of, v) \in Snapshot
    BY <2>1, <2>2, RowTypes
  <2>4. shown' \in Snapshot
    BY <1>2, <2>1, <2>3 DEF Answered
  <2> QED BY <1>2, <2>4 DEF Answered, stores, sockets
<1>3. CASE Merge
  <2>1. Head(down) \in Message /\ Tail(down) \in Seq(Message)
    BY <1>3 DEF Merge
  <2>2. /\ Head(down).body \in Snapshot /\ Head(down).body.of \in Auctions
        /\ Head(down).body.version \in Nat
    BY <2>1 DEF Message, Snapshot
  <2>3. RowOf(Head(down).body.of, row[Head(down).body.of]) \in Snapshot
    BY <2>2, RowTypes
  <2>4. http' \subseteq Answer
    BY <1>3, <2>3 DEF Merge, Answering, Answer
  <2> QED BY <1>3, <2>1, <2>2, <2>4 DEF Merge, stores
<1>4. CASE Connect
  <2>1. joined # NoAuction => Joins(joined) \in Seq(Request)
    BY DEF Joins, Request
  <2> QED BY <1>4, <2>1 DEF Connect, stores, screen
<1> QED BY <1>1, <1>2, <1>3, <1>4 DEF PageStep

LEMMA DropType == ASSUME TypeInv, Disconnect \/ Crash PROVE TypeInv'
<1> USE DEF TypeInv, TypeOK, HasRead
<1>0. drops' \in Nat /\ up' \in Seq(Request) /\ down' \in Seq(Message)
  <2>1. drops' = drops + 1 /\ up' = <<>> /\ down' = <<>>
    BY DEF Disconnect, Crash, Cut
  <2>2. drops' \in Nat
    BY <2>1
  <2>3. up' \in Seq(Request)
    BY <2>1
  <2>4. down' \in Seq(Message)
    BY <2>1
  <2> QED BY <2>2, <2>3, <2>4
<1>1. CASE Disconnect
  BY <1>0, <1>1 DEF Disconnect, Cut, stores
<1>2. CASE Crash
  <2>1. Finished \in Call /\ Finished.pc = "done"
    BY DEF Finished, NoCall, Call, PCs
  <2>2. /\ call' \in [Calls -> Call]
        /\ \A d \in Calls : call'[d].pc \notin {"idle", "done"} => call'[d].snap # NoSnapshot
    BY <1>2, <2>1 DEF Crash, At
  <2> QED BY <1>0, <1>2, <2>2 DEF Crash, Cut, stores
<1> QED BY <1>1, <1>2

LEMMA TypeStep == ASSUME TypeInv, [Next]_vars PROVE TypeInv'
<1>1. CASE UNCHANGED vars
  BY <1>1 DEF vars, stores, sockets, screen, TypeInv, TypeOK, HasRead
<1>2. CASE Next
  BY <1>2, CallStepType, GatewayStepType, PageStepType, DropType DEF Next
<1> QED BY <1>1, <1>2

(* The stores, the handlers and the page are well typed, and no handler    *)
(* uses what it has not read.                                              *)
THEOREM TypeCorrect == Spec => []TypeOK
<1>1. Init => TypeInv
  BY InitInv DEF RoomInv
<1>2. TypeInv => TypeOK
  BY DEF TypeInv
<1> QED BY <1>1, <1>2, TypeStep, PTL DEF Spec

----
(* A step that leaves the sockets and what the page follows alone. *)
LEMMA RoomUnchanged ==
  ASSUME OnItsWay, UNCHANGED <<online, joined, up, rooms, joining>>
  PROVE  OnItsWay'
  BY DEF OnItsWay, Bound, Arrived, StaysFrom

(* A page whose last request is to join will arrive. *)
LEMMA LastJoins ==
  ASSUME NEW a, up' \in Seq(Request), Len(up') >= 1, up'[Len(up')] = join(a)
  PROVE  Bound(a)'
<1>1. join(a) # leave(a)
  BY DEF join, leave
<1>2. Len(up') \in 1 .. Len(up')
  OBVIOUS
<1>3. StaysFrom(up', Len(up'), a)
  BY <1>1 DEF StaysFrom
<1> QED BY <1>2, <1>3 DEF Bound

(* Taking the first request off the queue. *)
LEMMA TailOf ==
  ASSUME NEW s \in Seq(Request), s # <<>>
  PROVE  /\ Len(Tail(s)) = Len(s) - 1 /\ Len(s) \in Nat /\ Len(s) >= 1
         /\ \A k \in 1 .. Len(Tail(s)) : Tail(s)[k] = s[k + 1]
         /\ Head(s) = s[1] /\ Head(s) \in Request
  OBVIOUS

LEMMA TailStays ==
  ASSUME NEW s \in Seq(Request), s # <<>>, NEW a
  PROVE  /\ StaysFrom(s, 1, a) => StaysFrom(Tail(s), 1, a)
         /\ \A i \in 2 .. Len(s) : StaysFrom(s, i, a) => StaysFrom(Tail(s), i - 1, a)
  BY TailOf DEF StaysFrom

(* A join further back in the queue stays there when the first is taken. *)
LEMMA LaterJoinStays ==
  ASSUME NEW a, up \in Seq(Request), up # <<>>, up' = Tail(up),
         NEW i \in 2 .. Len(up), up[i] = join(a), StaysFrom(up, i, a)
  PROVE  Bound(a)'
<1>1. i - 1 \in 1 .. Len(up') /\ up'[i - 1] = join(a)
  BY TailOf
<1>2. StaysFrom(up', i - 1, a)
  BY TailStays
<1> QED BY <1>1, <1>2 DEF Bound

LEMMA ReceiveJoinRoom == ASSUME TypeInv, OnItsWay, ReceiveJoin PROVE OnItsWay'
<1> SUFFICES ASSUME online, joined # NoAuction, Bound(joined) PROVE Bound(joined)'
  BY DEF OnItsWay, ReceiveJoin, screen
<1> DEFINE a == joined
<1>1. up \in Seq(Request) /\ up # <<>> /\ up' = Tail(up) /\ a' = a
  BY DEF TypeInv, TypeOK, ReceiveJoin, screen
<1> DEFINE new == [auction |-> Head(up).auction, pc |-> "load", snap |-> NoSnapshot]
<1>0. rooms' = rooms /\ joining' = joining \cup {new} /\ Head(up).op = "join"
  BY DEF ReceiveJoin
<1> HIDE DEF new
<1>2. Arrived(a) => Arrived(a)'
  BY <1>0, <1>1 DEF Arrived
<1>3. CASE Arrived(a) /\ StaysFrom(up, 1, a)
  BY <1>1, <1>2, <1>3, TailStays DEF Bound
<1>4. ASSUME NEW i \in 1 .. Len(up), up[i] = join(a), StaysFrom(up, i, a) PROVE Bound(a)'
  <2>1. CASE i = 1
    <3>1. Head(up) = join(a)
      BY <1>1, <1>4, <2>1, TailOf
    <3>2. Arrived(a)'
      <4>1. new.pc = "load" /\ new.auction = a
        BY <3>1 DEF new, join
      <4> QED BY <4>1, <1>0, <1>1 DEF Arrived
    <3>3. StaysFrom(up', 1, a)
      BY <1>1, <1>4, <2>1, TailStays
    <3> QED BY <1>1, <3>2, <3>3 DEF Bound
  <2>2. CASE i # 1
    <3>1. i \in 2 .. Len(up)
      BY <1>1, <2>2
    <3> QED BY <1>1, <1>4, <3>1, LaterJoinStays
  <2> QED BY <2>1, <2>2
<1> QED BY <1>3, <1>4 DEF Bound

LEMMA ReceiveLeaveRoom == ASSUME TypeInv, OnItsWay, ReceiveLeave PROVE OnItsWay'
<1> SUFFICES ASSUME online, joined # NoAuction, Bound(joined) PROVE Bound(joined)'
  BY DEF OnItsWay, ReceiveLeave, screen
<1> DEFINE a == joined
<1>1. up \in Seq(Request) /\ up # <<>> /\ up' = Tail(up) /\ a' = a
  BY DEF TypeInv, TypeOK, ReceiveLeave, screen
<1>2. Head(up).op = "leave" /\ Head(up) = up[1] /\ Head(up) \in Request /\ Len(up) >= 1
  BY <1>1, TailOf DEF ReceiveLeave
<1>3. CASE Arrived(a) /\ StaysFrom(up, 1, a)
  <2>1. Head(up) # leave(a)
    BY <1>1, <1>2, <1>3, TailOf DEF StaysFrom
  <2>2. Head(up).auction # a
    BY <1>2, <2>1 DEF Request, leave
  <2>3. Arrived(a)'
    BY <1>1, <1>3, <2>2 DEF ReceiveLeave, Arrived
  <2> QED BY <1>1, <1>3, <2>3, TailStays DEF Bound
<1>4. ASSUME NEW i \in 1 .. Len(up), up[i] = join(a), StaysFrom(up, i, a) PROVE Bound(a)'
  <2>1. i # 1
    BY <1>2, <1>4 DEF join
  <2>2. i \in 2 .. Len(up)
    BY <1>1, <2>1
  <2> QED BY <1>1, <1>4, <2>2, LaterJoinStays
<1> QED BY <1>3, <1>4 DEF Bound

LEMMA JoinStepRoom ==
  ASSUME TypeInv, OnItsWay, NEW j \in joining, JoinLoad(j) \/ JoinRead(j) \/ JoinEmit(j)
  PROVE  OnItsWay'
<1>1. online' = online /\ joined' = joined /\ up' = up
  BY DEF JoinLoad, JoinRead, JoinEmit, sockets, screen
<1>2. ASSUME NEW a, Arrived(a) PROVE Arrived(a)'
  <2>1. rooms \subseteq rooms'
    BY DEF JoinLoad, JoinRead, JoinEmit, Enter, sockets
  <2>2. j.pc = "load" => j.auction \in rooms'
    BY DEF JoinLoad, JoinRead, JoinEmit, Enter
  <2>3. joining \ {j} \subseteq joining'
    BY DEF JoinLoad, JoinRead, JoinEmit, Advance
  <2> QED BY <1>2, <2>1, <2>2, <2>3 DEF Arrived
<1> QED BY <1>1, <1>2 DEF OnItsWay, Bound, StaysFrom

(* A page that goes over to an auction asks to join it last. *)
LEMMA PickJoins ==
  ASSUME TypeInv, NEW a \in Auctions, Pick(a), ~ (page # "buyer" /\ joined = a)
  PROVE  up' \in Seq(Request) /\ Len(up') >= 1 /\ up'[Len(up')] = join(a)
<1>1. up \in Seq(Request) /\ joined \in Auctions \cup {NoAuction}
  BY DEF TypeInv, TypeOK
<1>2. up' \in Seq(Request)
  BY PageStepType DEF PageStep, TypeInv, TypeOK
<1>3. PICK s \in Seq(Request) : up' = s \o Joins(a)
  <2>1. CASE page = "buyer"
    BY <1>1, <2>1 DEF Pick, BuyerSwitch
  <2>2. CASE page # "buyer"
    <3>1. Leaves \in Seq(Request)
      BY <1>1, LeavesType
    <3>2. up' = up \o (Leaves \o Joins(a))
      BY <2>2 DEF Pick, HostSwitch
    <3>3. Joins(a) \in Seq(Request)
      BY DEF Joins, Request
    <3>4. up' = (up \o Leaves) \o Joins(a)
      BY <1>1, <3>1, <3>2, <3>3
    <3>5. up \o Leaves \in Seq(Request)
      BY <1>1, <3>1
    <3> QED BY <3>4, <3>5
  <2> QED BY <2>1, <2>2
<1>4. Len(up') >= 1 /\ up'[Len(up')] = join(a)
  BY <1>3 DEF Joins, join, Request
<1> QED BY <1>2, <1>4

LEMMA PickRoom == ASSUME TypeInv, OnItsWay, NEW a \in Auctions, Pick(a) PROVE OnItsWay'
<1>1. joined' = a /\ online' = online /\ rooms' = rooms /\ joining' = joining
  BY DEF Pick
<1>2. CASE page # "buyer" /\ joined = a
  <2>1. up' = up
    BY <1>2 DEF Pick, HostSwitch, TypeInv, TypeOK
  <2> QED BY <1>1, <1>2, <2>1, RoomUnchanged
<1>3. CASE ~ (page # "buyer" /\ joined = a)
  BY <1>1, <1>3, PickJoins, LastJoins DEF OnItsWay
<1> QED BY <1>2, <1>3

(* And so does one that connects again. *)
LEMMA ConnectJoins ==
  ASSUME TypeInv, Connect, joined # NoAuction
  PROVE  up' \in Seq(Request) /\ Len(up') >= 1 /\ up'[Len(up')] = join(joined)
<1>1. up \in Seq(Request) /\ joined \in Auctions /\ up' = up \o Joins(joined)
  BY DEF TypeInv, TypeOK, Connect
<1>2. up' \in Seq(Request)
  BY PageStepType DEF PageStep, TypeInv, TypeOK
<1> QED BY <1>1, <1>2 DEF Joins, join, Request

LEMMA ConnectRoom == ASSUME TypeInv, Connect PROVE OnItsWay'
<1> SUFFICES ASSUME joined' # NoAuction PROVE Bound(joined)'
  BY DEF OnItsWay
<1>1. joined' = joined
  BY DEF Connect, screen
<1>2. \A a : a = joined => Bound(a)'
  BY <1>1, ConnectJoins, LastJoins
<1> QED BY <1>1, <1>2 DEF Bound, Arrived, StaysFrom

LEMMA RoomStep == ASSUME RoomInv, [Next]_vars PROVE RoomInv'
<1> USE DEF RoomInv
<1>1. TypeInv'
  BY TypeStep
<1> SUFFICES OnItsWay'
  BY <1>1
<1>2. CASE UNCHANGED vars
  BY <1>2, RoomUnchanged DEF vars, sockets, screen
<1>3. ASSUME NEW c \in Calls, CallStep(c) PROVE OnItsWay'
  BY <1>3, RoomUnchanged DEF CallStep, Begin, Commit, CallRead, Emit, Reply, sockets, screen
<1>4. CASE GatewayStep
  BY <1>4, ReceiveJoinRoom, ReceiveLeaveRoom, JoinStepRoom DEF GatewayStep
<1>5. CASE PageStep
  <2>1. CASE Merge \/ \E h \in http : Answered(h)
    BY <2>1, RoomUnchanged DEF Merge, Answered, sockets
  <2> QED BY <1>5, <2>1, PickRoom, ConnectRoom DEF PageStep
<1>6. CASE Disconnect \/ Crash
  BY <1>6 DEF Disconnect, Crash, Cut, OnItsWay
<1> QED BY <1>2, <1>3, <1>4, <1>5, <1>6 DEF Next

(* However joining, leaving, lost connections and crashes overlap: when    *)
(* the sockets are quiet the page is in the room of the auction it         *)
(* follows.                                                                *)
THEOREM EndsInItsRoom == Spec => []FollowsInRoom
<1>1. RoomInv => FollowsInRoom
  <2> SUFFICES ASSUME RoomInv, Quiet, joined # NoAuction PROVE joined \in rooms
    BY DEF FollowsInRoom
  <2>1. Bound(joined) /\ up = <<>> /\ joining = {}
    BY DEF RoomInv, OnItsWay, Quiet
  <2>2. ~ \E i \in 1 .. Len(up) : TRUE
    BY <2>1
  <2> QED BY <2>1, <2>2 DEF Bound, Arrived
<1> QED BY <1>1, InitInv, RoomStep, PTL DEF Spec

----
(* Nothing that is on its way to the page, and nothing it has seen, is     *)
(* newer than the auction itself.                                          *)
Old(s) == s.version <= version[s.of]

NothingAhead ==
  /\ \A a \in Auctions : joined = a => newest <= version[a]
  /\ \A i \in 1 .. Len(down) : Old(down[i].body)
  /\ \A c \in Calls : At(c, "emit") => Old(call[c].snap)
  /\ \A j \in joining : j.pc = "emit" => Old(j.snap)

(* A handler is going to tell the room of auction a, or somebody joining   *)
(* it, of its present version: it has read it, or has yet to read.         *)
CallTells(c, a) ==
  \/ call[c].pc \in {"commit", "hash"} /\ AuctionOf(c) = a
  \/ At(c, "emit") /\ call[c].snap = ReadHash(a)

JoinTells(j, a) ==
  \/ j.pc \in {"load", "hash"} /\ j.auction = a
  \/ j.pc = "emit" /\ j.snap = ReadHash(a)

(* The page has the present version of auction a, or is going to get it. *)
Has(a) == newest = version[a]
Tells(a) == \E c \in Calls : CallTells(c, a)
Welcomes(a) == \E j \in joining : JoinTells(j, a)
Carried(a) == \E i \in 1 .. Len(down) : down[i].body = ReadHash(a)
Asked(a) == \E i \in 1 .. Len(up) : up[i] = join(a)

News(a) == Has(a) \/ Tells(a) \/ Welcomes(a) \/ Carried(a) \/ Asked(a)

NewsComing == \A a \in Auctions : online /\ joined = a => News(a)

(* The inductive invariant. *)
NewsInv == RoomInv /\ NothingAhead /\ NewsComing

LEMMA InitNews == Init => NewsInv
<1> SUFFICES ASSUME Init PROVE NewsInv
  OBVIOUS
<1>1. RoomInv
  BY InitInv
<1>2. NothingAhead /\ NewsComing
  BY NullsAssumption DEF Init, NothingAhead, NewsComing, At, NoCall
<1> QED BY <1>1, <1>2 DEF NewsInv

(* What is compared. *)
LEMMA NewsTypes ==
  ASSUME TypeInv
  PROVE  /\ \A a \in Auctions : version[a] \in Nat
         /\ newest \in Nat
         /\ down \in Seq(Message)
         /\ \A i \in 1 .. Len(down) : /\ down[i].body \in Snapshot
                                      /\ down[i].body.of \in Auctions
                                      /\ down[i].body.version \in Nat
         /\ \A c \in Calls : call[c].pc \notin {"idle", "done"} =>
              call[c].snap \in Snapshot /\ AuctionOf(c) \in Auctions
         /\ \A j \in joining : /\ j.auction \in Auctions
                               /\ j.pc = "emit" => j.snap \in Snapshot /\ j.snap.of \in Auctions
<1>1. /\ version \in [Auctions -> Nat] /\ newest \in Nat /\ down \in Seq(Message)
      /\ call \in [Calls -> Call] /\ joining \subseteq Join /\ HasRead
  BY DEF TypeInv, TypeOK
<1>2. \A i \in 1 .. Len(down) : down[i] \in Message
  BY <1>1
<1>3. \A s \in Snapshot : s.of \in Auctions /\ s.version \in Nat
  BY DEF Snapshot
<1>4. \A i \in 1 .. Len(down) : down[i].body \in Snapshot
  BY <1>2 DEF Message
<1>5. \A c \in Calls : call[c].pc \notin {"idle", "done"} => call[c].snap \in Snapshot
  BY <1>1 DEF HasRead, Call
<1>6. \A j \in joining : j.auction \in Auctions /\ (j.pc = "emit" => j.snap \in Snapshot)
  BY <1>1 DEF HasRead, Join
<1> QED BY <1>1, <1>3, <1>4, <1>5, <1>6 DEF AuctionOf

(* A state that is read is not ahead. *)
LEMMA ReadIsOld ==
  ASSUME TypeInv, NEW a \in Auctions
  PROVE  ReadHash(a).of = a /\ ReadHash(a).version = version[a] /\ Old(ReadHash(a))
<1>1. ReadHash(a).of = a /\ ReadHash(a).version = version[a]
  BY DEF ReadHash
<1> QED BY <1>1, NewsTypes DEF Old

(* A call that goes on without a word to the page keeps the promise if it  *)
(* still tells what it was going to tell.                                  *)
LEMMA CallGoesOn ==
  ASSUME NewsInv, NEW c \in Calls, call' \in [Calls -> Call],
         \A d \in Calls \ {c} : call'[d] = call[d],
         UNCHANGED <<version, joining, online, up, down, joined, newest>>,
         \A a \in Auctions : CallTells(c, a) => CallTells(c, a)',
         At(c, "emit")' => Old(call[c].snap)'
  PROVE  NothingAhead' /\ NewsComing'
<1>1. NothingAhead'
  BY DEF NewsInv, NothingAhead, Old, At
<1>2. ASSUME NEW a \in Auctions, online', joined' = a PROVE News(a)'
  <2>1. News(a)
    BY <1>2 DEF NewsInv, NewsComing
  <2>2. Tells(a) => Tells(a)'
    <3>1. ASSUME NEW d \in Calls, CallTells(d, a) PROVE CallTells(d, a)'
      BY <3>1 DEF CallTells, At, AuctionOf, ReadHash
    <3> QED BY <3>1 DEF Tells
  <2> QED BY <2>1, <2>2 DEF News, Has, Welcomes, JoinTells, Carried, Asked, ReadHash
<1> QED BY <1>1, <1>2 DEF NewsComing

(* A change of the auction the page follows is going to be told. *)
LEMMA BeginNews ==
  ASSUME NewsInv, NEW c \in Calls, Begin(c)
  PROVE  NothingAhead' /\ NewsComing'
<1>1. TypeInv /\ version \in [Auctions -> Nat] /\ call \in [Calls -> Call]
      /\ joined \in Auctions \cup {NoAuction}
  BY DEF NewsInv, RoomInv, TypeInv, TypeOK
<1>2. PICK b \in Auctions, mine \in BOOLEAN : Change(c, b, mine)
  BY <1>1 DEF Begin
<1>3. /\ At(c, "idle")
      /\ UNCHANGED <<joining, online, up, down, joined, newest>>
  BY DEF Begin, sockets, screen
<1>4. version' = [version EXCEPT ![b] = @ + 1]
  BY <1>2 DEF Change
<1>5. /\ call'[c].pc = "commit" /\ call'[c].snap = RowOf(b, 0)
      /\ \A d \in Calls \ {c} : call'[d] = call[d]
  BY <1>1, <1>2 DEF Change
<1>6. \A a \in Auctions : version'[a] \in Nat /\ version[a] \in Nat /\ version[a] <= version'[a]
  BY <1>1, <1>4
<1>7. ASSUME NEW s \in Snapshot, Old(s) PROVE Old(s)'
  <2>1. s.of \in Auctions /\ s.version \in Nat /\ s.version <= version[s.of]
    BY <1>7 DEF Snapshot, Old
  <2>2. s.version <= version'[s.of]
    BY <1>6, <2>1
  <2> QED BY <2>2 DEF Old
<1>8. NothingAhead'
  <2>1. \A a \in Auctions : joined' = a => newest' <= version'[a]
    <3> SUFFICES ASSUME NEW a \in Auctions, joined' = a PROVE newest' <= version'[a]
      OBVIOUS
    <3>1. newest <= version[a] /\ newest \in Nat
      BY <1>1, <1>3, NewsTypes DEF NewsInv, NothingAhead
    <3> QED BY <1>3, <1>6, <3>1
  <2>2. \A i \in 1 .. Len(down) : Old(down[i].body)'
    BY <1>1, <1>3, <1>7, NewsTypes DEF NewsInv, NothingAhead, Old
  <2>3. \A d \in Calls : At(d, "emit")' => Old(call[d].snap)'
    <3> SUFFICES ASSUME NEW d \in Calls, At(d, "emit")' PROVE Old(call[d].snap)'
      OBVIOUS
    <3>1. d # c /\ call'[d] = call[d]
      BY <1>5 DEF At
    <3>2. call[d].pc = "emit" /\ Old(call[d].snap) /\ call[d].snap \in Snapshot
      BY <1>1, <3>1, NewsTypes DEF NewsInv, NothingAhead, At
    <3> QED BY <1>7, <3>1, <3>2 DEF Old
  <2>4. \A j \in joining : j.pc = "emit" => Old(j.snap)'
    BY <1>1, <1>7, NewsTypes DEF NewsInv, NothingAhead
  <2> QED BY <1>3, <2>1, <2>2, <2>3, <2>4 DEF NothingAhead, Old
<1>9. ASSUME NEW a \in Auctions, online', joined' = a PROVE News(a)'
  <2>1. CASE a = b
    <3>1. CallTells(c, a)'
      BY <1>5, <2>1 DEF CallTells, AuctionOf, RowOf
    <3> QED BY <3>1 DEF News, Tells
  <2>2. CASE a # b
    <3>1. version'[a] = version[a] /\ ReadHash(a)' = ReadHash(a)
      BY <1>1, <1>4, <2>2 DEF ReadHash
    <3>2. News(a)
      BY <1>3, <1>9 DEF NewsInv, NewsComing
    <3>3. Tells(a) => Tells(a)'
      <4> SUFFICES ASSUME NEW d \in Calls, CallTells(d, a) PROVE CallTells(d, a)'
        BY DEF Tells
      <4>1. d # c
        BY <1>3 DEF CallTells, At
      <4> QED BY <1>5, <3>1, <4>1 DEF CallTells, At, AuctionOf
    <3> QED BY <1>3, <3>1, <3>2, <3>3 DEF News, Has, Welcomes, JoinTells, Carried, Asked
  <2> QED BY <2>1, <2>2
<1> QED BY <1>8, <1>9 DEF NewsComing

(* A message joins the queue of the page: what the queue held stays. *)
LEMMA QueuedStays ==
  ASSUME NewsInv, NEW m \in Message, down' = Append(down, m), UNCHANGED version, Old(m.body)
  PROVE  /\ \A i \in 1 .. Len(down') : Old(down[i].body)'
         /\ \A a \in Auctions : Carried(a) => Carried(a)'
         /\ \A a \in Auctions : m.body = ReadHash(a) => Carried(a)'
<1>1. down \in Seq(Message) /\ \A i \in 1 .. Len(down) : Old(down[i].body)
  BY DEF NewsInv, RoomInv, TypeInv, TypeOK, NothingAhead
<1>2. /\ Len(down') = Len(down) + 1 /\ Len(down) \in Nat
      /\ \A i \in 1 .. Len(down) : i \in 1 .. Len(down') /\ down'[i] = down[i]
      /\ Len(down') \in 1 .. Len(down') /\ down'[Len(down')] = m
  BY <1>1
<1>3. ASSUME NEW i \in 1 .. Len(down') PROVE Old(down[i].body)'
  <2>1. i \in 1 .. Len(down) \/ i = Len(down')
    BY <1>2
  <2>2. Old(down'[i].body)
    BY <1>1, <1>2, <2>1
  <2> QED BY <2>2 DEF Old
<1>4. \A a \in Auctions : Carried(a) => Carried(a)'
  BY <1>2 DEF Carried, ReadHash
<1>5. \A a \in Auctions : m.body = ReadHash(a) => Carried(a)'
  BY <1>2 DEF Carried, ReadHash
<1> QED BY <1>3, <1>4, <1>5

(* Whoever is not in the room of the auction it follows is on the way: its *)
(* request to join is not handled yet, or it is about to enter.            *)
LEMMA NotInRoom ==
  ASSUME NewsInv, NEW a \in Auctions, online, joined = a, a \notin rooms
  PROVE  Welcomes(a) \/ Asked(a)
<1>1. Bound(joined)
  BY NullsAssumption DEF NewsInv, RoomInv, OnItsWay
<1>2. Bound(a)
  BY <1>1 DEF Bound, Arrived, StaysFrom
<1> QED BY <1>2 DEF Bound, Arrived, Welcomes, JoinTells, Asked

(* What a call was going to tell the room is on the socket of the page, or *)
(* the page is still to join.                                              *)
LEMMA EmitNews ==
  ASSUME NewsInv, NEW c \in Calls, Emit(c)
  PROVE  NothingAhead' /\ NewsComing'
<1> DEFINE s == call[c].snap
           b == AuctionOf(c)
           m == [kind |-> "event", body |-> s]
<1>1. /\ TypeInv /\ At(c, "emit") /\ s \in Snapshot /\ b \in Auctions /\ s.of = b
      /\ Old(s) /\ call \in [Calls -> Call]
  BY NewsTypes DEF NewsInv, RoomInv, TypeInv, TypeOK, NothingAhead, Emit, At, AuctionOf
<1>2. UNCHANGED <<version, joining, rooms, online, up, joined, newest>>
  BY DEF Emit, stores, screen
<1>3. m \in Message /\ m.body = s
  BY <1>1 DEF Message
<1>4. down' = IF b \in rooms THEN Append(down, m) ELSE down
  BY DEF Emit, Broadcast, Sent
<1>5. /\ \A d \in Calls \ {c} : call'[d] = call[d]
      /\ call'[c].pc \in {"answer", "done"}
  BY <1>1 DEF Emit, Finished, NoCall, Call
<1> HIDE DEF m
<1>6. /\ \A i \in 1 .. Len(down') : Old(down[i].body)'
      /\ \A a \in Auctions : Carried(a) => Carried(a)'
  <2>1. CASE b \in rooms BY <1>1, <1>2, <1>3, <1>4, <2>1, QueuedStays
  <2>2. CASE b \notin rooms
    BY <1>2, <1>4, <2>2 DEF NewsInv, NothingAhead, Old, Carried, ReadHash
  <2> QED BY <2>1, <2>2
<1>7. NothingAhead'
  <2>1. \A d \in Calls : At(d, "emit")' => Old(call[d].snap)'
    <3> SUFFICES ASSUME NEW d \in Calls, At(d, "emit")' PROVE Old(call[d].snap)'
      OBVIOUS
    <3>1. d # c /\ call'[d] = call[d] BY <1>5 DEF At
    <3>2. Old(call[d].snap) BY <3>1 DEF NewsInv, NothingAhead, At
    <3> QED BY <1>2, <3>1, <3>2 DEF Old
  <2> QED BY <1>2, <1>6, <2>1 DEF NewsInv, NothingAhead, Old
<1>8. ASSUME NEW a \in Auctions, online', joined' = a PROVE News(a)'
  <2>1. News(a) /\ online /\ joined = a BY <1>2, <1>8 DEF NewsInv, NewsComing
  <2>2. /\ Has(a) => Has(a)'
        /\ Welcomes(a) => Welcomes(a)'
        /\ Asked(a) => Asked(a)'
    BY <1>2 DEF Has, Welcomes, JoinTells, Asked, ReadHash
  <2>3. ASSUME Tells(a) PROVE News(a)'
    <3>1. PICK d \in Calls : CallTells(d, a) BY <2>3 DEF Tells
    <3>2. CASE d # c
      <4>1. CallTells(d, a)' BY <1>2, <1>5, <3>1, <3>2 DEF CallTells, At, AuctionOf, ReadHash
      <4> QED BY <4>1 DEF News, Tells
    <3>3. CASE d = c
      <4>1. s = ReadHash(a) /\ b = a
        BY <1>1, <3>1, <3>3, ReadIsOld DEF CallTells, At
      <4>2. CASE b \in rooms
        <5>1. Carried(a)' BY <1>1, <1>2, <1>3, <1>4, <4>1, <4>2, QueuedStays
        <5> QED BY <5>1 DEF News
      <4>3. CASE b \notin rooms
        <5>1. Welcomes(a) \/ Asked(a) BY <2>1, <4>1, <4>3, NotInRoom
        <5> QED BY <2>2, <5>1 DEF News
      <4> QED BY <4>2, <4>3
    <3> QED BY <3>2, <3>3
  <2> QED BY <1>6, <2>1, <2>2, <2>3 DEF News
<1> QED BY <1>7, <1>8 DEF NewsComing

(* The handlers that change an auction keep the promise. *)
LEMMA CallStepNews ==
  ASSUME NewsInv, NEW c \in Calls, CallStep(c)
  PROVE  NothingAhead' /\ NewsComing'
<1>1. /\ TypeInv /\ call \in [Calls -> Call] /\ call' \in [Calls -> Call]
  BY CallStepType DEF NewsInv, RoomInv, TypeInv, TypeOK
<1>2. CASE Begin(c) BY <1>2, BeginNews
<1>3. CASE Commit(c)
  <2>1. /\ call[c].pc = "commit" /\ call'[c].pc = "hash" /\ call'[c].snap = call[c].snap
        /\ \A d \in Calls \ {c} : call'[d] = call[d]
    BY <1>1, <1>3 DEF Commit, At, Call
  <2>2. \A a \in Auctions : CallTells(c, a) => CallTells(c, a)'
    BY <2>1 DEF CallTells, At, AuctionOf
  <2>3. ~ At(c, "emit")' BY <2>1 DEF At
  <2>4. UNCHANGED <<version, joining, online, up, down, joined, newest>>
    BY <1>3 DEF Commit, sockets, screen
  <2> QED BY <1>1, <2>1, <2>2, <2>3, <2>4, CallGoesOn
<1>4. CASE CallRead(c)
  <2> DEFINE s == ReadHash(AuctionOf(c))
  <2>1. AuctionOf(c) \in Auctions /\ call[c].pc = "hash" BY <1>1, <1>4, NewsTypes DEF CallRead, At
  <2>2. s \in Snapshot /\ Old(s) BY <1>1, <2>1, HashTypes, ReadIsOld DEF TypeInv
  <2>3. call' = [call EXCEPT ![c].pc = "emit", ![c].snap = s] BY <1>4 DEF CallRead, AuctionOf
  <2>4. UNCHANGED <<version, joining, online, up, down, joined, newest>>
    BY <1>4 DEF CallRead, stores, sockets, screen
  <2>5. \A a \in Auctions : CallTells(c, a) => s = ReadHash(a)
    BY <2>1 DEF CallTells, At
  <2> HIDE DEF s
  <2>6. /\ call'[c].pc = "emit" /\ call'[c].snap = s
        /\ \A d \in Calls \ {c} : call'[d] = call[d]
    BY <1>1, <2>3 DEF Call
  <2>7. \A a \in Auctions : CallTells(c, a) => CallTells(c, a)'
    BY <2>4, <2>5, <2>6 DEF CallTells, At, ReadHash
  <2>8. Old(call[c].snap)' BY <2>2, <2>4, <2>6 DEF Old
  <2> QED BY <1>1, <2>4, <2>6, <2>7, <2>8, CallGoesOn
<1>5. CASE Emit(c) BY <1>5, EmitNews
<1>6. CASE Reply(c)
  <2>1. /\ call[c].pc = "answer" /\ call'[c].pc = "done"
        /\ \A d \in Calls \ {c} : call'[d] = call[d]
    BY <1>1, <1>6 DEF Reply, At, Finished, NoCall
  <2>2. \A a \in Auctions : ~ CallTells(c, a) BY <2>1 DEF CallTells, At
  <2>3. ~ At(c, "emit")' BY <2>1 DEF At
  <2>4. UNCHANGED <<version, joining, online, up, down, joined, newest>>
    BY <1>6 DEF Reply, stores, sockets, screen
  <2> QED BY <1>1, <2>1, <2>2, <2>3, <2>4, CallGoesOn
<1> QED BY <1>2, <1>3, <1>4, <1>5, <1>6 DEF CallStep

(* A request is handled: the others keep their order, and a join of the    *)
(* auction is either still there or was the one.                           *)
LEMMA AskedMoves ==
  ASSUME TypeInv, NEW a \in Auctions, up # <<>>, up' = Tail(up), Asked(a)
  PROVE  Asked(a)' \/ Head(up) = join(a)
<1>1. up \in Seq(Request) BY DEF TypeInv, TypeOK
<1>2. PICK i \in 1 .. Len(up) : up[i] = join(a) BY DEF Asked
<1>3. CASE i = 1 BY <1>1, <1>2, <1>3, TailOf
<1>4. CASE i # 1
  <2>1. i - 1 \in 1 .. Len(up') /\ up'[i - 1] = join(a) BY <1>1, <1>2, <1>4, TailOf
  <2> QED BY <2>1 DEF Asked
<1> QED BY <1>3, <1>4

(* The gateway keeps the promise: a join is handed on from the queue to a  *)
(* handler, to its snapshot, to the socket.                                *)
LEMMA GatewayStepNews ==
  ASSUME NewsInv, GatewayStep
  PROVE  NothingAhead' /\ NewsComing'
<1>1. TypeInv /\ joining \subseteq Join BY DEF NewsInv, RoomInv, TypeInv, TypeOK
<1>2. UNCHANGED <<version, call, online, joined, newest>>
  BY DEF GatewayStep, ReceiveJoin, ReceiveLeave, JoinLoad, JoinRead, JoinEmit, stores, sockets,
         screen
<1>3. ASSUME NEW a \in Auctions, online', joined' = a
      PROVE  News(a) /\ (Has(a) => Has(a)') /\ (Tells(a) => Tells(a)')
  BY <1>2, <1>3 DEF NewsInv, NewsComing, Has, Tells, CallTells, At, AuctionOf, ReadHash
<1>4. ASSUME down' = down, \A j \in joining' : j.pc = "emit" => j \in joining \/ Old(j.snap)
      PROVE  NothingAhead' /\ \A a \in Auctions : Carried(a) => Carried(a)'
  BY <1>2, <1>4 DEF NewsInv, NothingAhead, Old, At, Carried, ReadHash
<1>5. CASE ReceiveJoin
  <2> DEFINE new == [auction |-> Head(up).auction, pc |-> "load", snap |-> NoSnapshot]
  <2>1. up # <<>> /\ up' = Tail(up) /\ joining' = joining \cup {new} /\ down' = down
    BY <1>5 DEF ReceiveJoin
  <2>2. new.pc = "load" /\ new.auction = Head(up).auction OBVIOUS
  <2> HIDE DEF new
  <2>3. NothingAhead' /\ \A a \in Auctions : Carried(a) => Carried(a)' BY <1>4, <2>1, <2>2
  <2>4. ASSUME NEW a \in Auctions, online', joined' = a PROVE News(a)'
    <3>1. Welcomes(a) => Welcomes(a)' BY <1>2, <2>1 DEF Welcomes, JoinTells, ReadHash
    <3>2. Head(up) = join(a) => Welcomes(a)' BY <2>1, <2>2 DEF join, Welcomes, JoinTells
    <3>3. Asked(a) => Asked(a)' \/ Welcomes(a)' BY <1>1, <2>1, <3>2, AskedMoves
    <3> QED BY <1>3, <2>3, <2>4, <3>1, <3>3 DEF News
  <2> QED BY <2>3, <2>4 DEF NewsComing
<1>6. CASE ReceiveLeave
  <2>1. up # <<>> /\ up' = Tail(up) /\ joining' = joining /\ down' = down /\ Head(up).op = "leave"
    BY <1>6 DEF ReceiveLeave
  <2>2. NothingAhead' /\ \A a \in Auctions : Carried(a) => Carried(a)' BY <1>4, <2>1
  <2>3. ASSUME NEW a \in Auctions, online', joined' = a PROVE News(a)'
    <3>1. Welcomes(a) => Welcomes(a)' BY <1>2, <2>1 DEF Welcomes, JoinTells, ReadHash
    <3>2. Head(up) # join(a) BY <2>1 DEF join
    <3>3. Asked(a) => Asked(a)' BY <1>1, <2>1, <3>2, AskedMoves
    <3> QED BY <1>3, <2>2, <2>3, <3>1, <3>3 DEF News
  <2> QED BY <2>2, <2>3 DEF NewsComing
<1>7. ASSUME NEW j \in joining, JoinLoad(j) \/ JoinRead(j) PROVE NothingAhead' /\ NewsComing'
  <2>1. j \in Join /\ j.auction \in Auctions BY <1>1, NewsTypes
  <2>2. PICK pc \in {"hash", "emit"}, s \in Snapshot \cup {NoSnapshot} :
          /\ Advance(j, pc, s)
          /\ pc = "emit" => s = ReadHash(j.auction)
          /\ j.pc \in {"load", "hash"}
    BY <1>1, <1>7, <2>1, HashTypes DEF JoinLoad, JoinRead, TypeInv
  <2> DEFINE new == [j EXCEPT !.pc = pc, !.snap = s]
  <2>3. new.pc = pc /\ new.snap = s /\ new.auction = j.auction BY <2>1 DEF Join
  <2>4. joining' = (joining \ {j}) \cup {new} BY <2>2 DEF Advance
  <2> HIDE DEF new
  <2>5. down' = down /\ up' = up BY <1>7 DEF JoinLoad, JoinRead, sockets
  <2>6. pc = "emit" => Old(s) BY <1>1, <2>1, <2>2, ReadIsOld
  <2>7. NothingAhead' /\ \A a \in Auctions : Carried(a) => Carried(a)'
    BY <1>4, <2>3, <2>4, <2>5, <2>6
  <2>8. ASSUME NEW a \in Auctions, online', joined' = a PROVE News(a)'
    <3>1. Welcomes(a) => Welcomes(a)'
      <4> SUFFICES ASSUME NEW k \in joining, JoinTells(k, a) PROVE Welcomes(a)'
        BY DEF Welcomes
      <4>1. CASE k # j
        BY <1>2, <2>4, <4>1 DEF Welcomes, JoinTells, ReadHash
      <4>2. CASE k = j
        <5>1. j.auction = a BY <2>2, <4>2 DEF JoinTells
        <5>2. JoinTells(new, a)' BY <1>2, <2>2, <2>3, <5>1 DEF JoinTells, ReadHash
        <5>3. new \in joining' BY <2>4
        <5> QED BY <1>2, <5>2, <5>3 DEF Welcomes, JoinTells, ReadHash
      <4> QED BY <4>1, <4>2
    <3>2. Asked(a) => Asked(a)' BY <2>5 DEF Asked
    <3> QED BY <1>3, <2>7, <2>8, <3>1, <3>2 DEF News
  <2> QED BY <2>7, <2>8 DEF NewsComing
<1>8. ASSUME NEW j \in joining, JoinEmit(j) PROVE NothingAhead' /\ NewsComing'
  <2> DEFINE m == [kind |-> "snapshot", body |-> j.snap]
  <2>1. j.pc = "emit" /\ j.snap \in Snapshot /\ Old(j.snap)
    BY <1>1, <1>8, NewsTypes DEF JoinEmit, NewsInv, NothingAhead
  <2>2. m \in Message /\ m.body = j.snap BY <2>1 DEF Message
  <2>3. down' = Append(down, m) /\ joining' = joining \ {j} /\ up' = up BY <1>8 DEF JoinEmit
  <2> HIDE DEF m
  <2>4. /\ \A i \in 1 .. Len(down') : Old(down[i].body)'
        /\ \A a \in Auctions : Carried(a) => Carried(a)'
        /\ \A a \in Auctions : m.body = ReadHash(a) => Carried(a)'
    BY <1>2, <2>1, <2>2, <2>3, QueuedStays
  <2>5. NothingAhead' BY <1>2, <2>3, <2>4 DEF NewsInv, NothingAhead, Old, At
  <2>6. ASSUME NEW a \in Auctions, online', joined' = a PROVE News(a)'
    <3>1. Welcomes(a) => Welcomes(a)' \/ Carried(a)'
      <4> SUFFICES ASSUME NEW k \in joining, JoinTells(k, a) PROVE Welcomes(a)' \/ Carried(a)'
        BY DEF Welcomes
      <4>1. CASE k # j BY <1>2, <2>3, <4>1 DEF Welcomes, JoinTells, ReadHash
      <4>2. CASE k = j
        <5>1. m.body = ReadHash(a) BY <2>1, <2>2, <4>2 DEF JoinTells
        <5> QED BY <2>4, <5>1
      <4> QED BY <4>1, <4>2
    <3>2. Asked(a) => Asked(a)' BY <2>3 DEF Asked
    <3> QED BY <1>3, <2>4, <2>6, <3>1, <3>2 DEF News
  <2> QED BY <2>5, <2>6 DEF NewsComing
<1> QED BY <1>5, <1>6, <1>7, <1>8 DEF GatewayStep

(* The page takes a message: either it was the news, or that is behind it. *)
LEMMA MergeNews ==
  ASSUME NewsInv, Merge
  PROVE  NothingAhead' /\ NewsComing'
<1> DEFINE m == Head(down)
<1>1. /\ TypeInv /\ down \in Seq(Message) /\ down # <<>> /\ down' = Tail(down)
  BY NewsTypes DEF NewsInv, RoomInv, Merge
<1>2. UNCHANGED <<version, call, joining, online, up, joined>> BY DEF Merge, stores
<1>3. /\ Len(down) \in Nat /\ Len(down) >= 1 /\ m = down[1] /\ 1 \in 1 .. Len(down)
      /\ \A i \in 1 .. Len(down') : i + 1 \in 1 .. Len(down) /\ down'[i] = down[i + 1]
      /\ \A i \in 2 .. Len(down) : i - 1 \in 1 .. Len(down') /\ down'[i - 1] = down[i]
  BY <1>1
<1>4. m.body \in Snapshot /\ m.body.of \in Auctions /\ m.body.version \in Nat /\ Old(m.body)
  BY <1>1, <1>3, NewsTypes DEF NewsInv, NothingAhead
<1>5. newest' = IF m.body.of = joined /\ newest < m.body.version THEN m.body.version ELSE newest
  BY DEF Merge
<1> HIDE DEF m
<1>6. NothingAhead'
  <2>1. \A a \in Auctions : joined = a => newest' <= version[a]
    BY <1>4, <1>5 DEF NewsInv, NothingAhead, Old
  <2>2. \A i \in 1 .. Len(down') : Old(down[i].body)'
    BY <1>2, <1>3 DEF NewsInv, NothingAhead, Old
  <2> QED BY <1>2, <2>1, <2>2 DEF NewsInv, NothingAhead, Old, At
<1>7. ASSUME NEW a \in Auctions, online', joined' = a PROVE News(a)'
  <2>1. News(a) /\ joined = a BY <1>2, <1>7 DEF NewsInv, NewsComing
  <2>2. newest \in Nat /\ version[a] \in Nat /\ newest <= version[a]
    BY <1>1, <2>1, NewsTypes DEF NewsInv, NothingAhead
  <2>3. m.body.of = a => m.body.version <= version[a] BY <1>4 DEF Old
  <2>4. Has(a) => Has(a)'
    <3>1. ASSUME newest = version[a] PROVE newest' = version[a]
      BY <1>4, <1>5, <2>1, <2>2, <2>3, <3>1
    <3> QED BY <1>2, <3>1 DEF Has
  <2>5. m.body = ReadHash(a) => Has(a)'
    <3> SUFFICES ASSUME m.body = ReadHash(a) PROVE newest' = version[a]
      BY <1>2 DEF Has
    <3>1. m.body.of = a /\ m.body.version = version[a] BY <1>1, ReadIsOld
    <3> QED BY <1>5, <2>1, <2>2, <3>1
  <2>6. ASSUME Carried(a) PROVE Carried(a)' \/ Has(a)'
    <3>1. PICK i \in 1 .. Len(down) : down[i].body = ReadHash(a) BY <2>6 DEF Carried
    <3>2. CASE i = 1 BY <1>3, <2>5, <3>1, <3>2
    <3>3. CASE i # 1
      <4>1. i \in 2 .. Len(down) BY <1>3, <3>3
      <4>2. i - 1 \in 1 .. Len(down') /\ down'[i - 1].body = ReadHash(a) BY <1>3, <3>1, <4>1
      <4> QED BY <1>2, <4>2 DEF Carried, ReadHash
    <3> QED BY <3>2, <3>3
  <2>7. /\ Tells(a) => Tells(a)'
        /\ Welcomes(a) => Welcomes(a)'
        /\ Asked(a) => Asked(a)'
    BY <1>2 DEF Tells, CallTells, Welcomes, JoinTells, Asked, At, AuctionOf, ReadHash
  <2> QED BY <2>1, <2>4, <2>6, <2>7 DEF News
<1> QED BY <1>6, <1>7 DEF NewsComing

(* A step of the page that asks to join last, or that leaves everything    *)
(* that brings the news alone.                                             *)
LEMMA AsksLast ==
  ASSUME NEW a, up' \in Seq(Request), Len(up') >= 1, up'[Len(up')] = join(a)
  PROVE  News(a)'
<1>1. Len(up') \in 1 .. Len(up') OBVIOUS
<1> QED BY <1>1 DEF News, Asked

LEMMA NewsUnchanged ==
  ASSUME NewsInv, UNCHANGED <<version, call, joining, online, up, down, joined, newest>>
  PROVE  NothingAhead' /\ NewsComing'
BY DEF NewsInv, NothingAhead, NewsComing, Old, News, Has, Tells, CallTells, Welcomes, JoinTells,
       Carried, Asked, At, AuctionOf, ReadHash

(* The page keeps the promise. *)
LEMMA PageStepNews ==
  ASSUME NewsInv, PageStep
  PROVE  NothingAhead' /\ NewsComing'
<1>0. TypeInv BY DEF NewsInv, RoomInv
<1>1. ASSUME NEW b \in Auctions, Pick(b) PROVE NothingAhead' /\ NewsComing'
  <2>1. /\ UNCHANGED <<version, call, joining, online, down>>
        /\ joined' = b /\ newest' = IF b = joined THEN newest ELSE 0
    BY <1>1 DEF Pick, stores
  <2>2. CASE page # "buyer" /\ joined = b
    <3>1. up' = up /\ newest' = newest /\ joined' = joined
      BY <1>0, <1>1, <2>1, <2>2 DEF Pick, HostSwitch, TypeInv, TypeOK
    <3> QED BY <2>1, <3>1, NewsUnchanged
  <2>3. CASE ~ (page # "buyer" /\ joined = b)
    <3>1. News(b)' BY <1>0, <1>1, <2>3, PickJoins, AsksLast
    <3>2. NewsComing' BY <2>1, <3>1 DEF NewsComing
    <3>3. newest' <= version[b]
      BY <1>0, <2>1, NewsTypes DEF NewsInv, NothingAhead
    <3>4. NothingAhead' BY <2>1, <3>3 DEF NewsInv, NothingAhead, Old, At
    <3> QED BY <3>2, <3>4
  <2> QED BY <2>2, <2>3
<1>2. ASSUME NEW h \in http, Answered(h) PROVE NothingAhead' /\ NewsComing'
  BY <1>2, NewsUnchanged DEF Answered, stores, sockets
<1>3. CASE Connect
  <2>1. UNCHANGED <<version, call, joining, down, joined, newest>> BY <1>3 DEF Connect, stores, screen
  <2>2. NothingAhead' BY <2>1 DEF NewsInv, NothingAhead, Old, At
  <2>3. ASSUME NEW a \in Auctions, joined' = a PROVE News(a)'
    <3>1. joined # NoAuction /\ joined = a BY <2>1, <2>3, NullsAssumption
    <3>2. up' \in Seq(Request) /\ Len(up') >= 1 /\ up'[Len(up')] = join(a)
      BY <1>0, <1>3, <3>1, ConnectJoins
    <3> QED BY <3>2, AsksLast
  <2> QED BY <2>2, <2>3 DEF NewsComing
<1> QED BY <1>1, <1>2, <1>3, MergeNews DEF PageStep

(* A lost connection leaves nothing to promise until the page is back. *)
LEMMA DropNews ==
  ASSUME NewsInv, Disconnect \/ Crash
  PROVE  NothingAhead' /\ NewsComing'
<1>1. /\ online' = FALSE /\ newest' = 0 /\ down' = <<>> /\ joining' = {}
      /\ UNCHANGED <<version, joined>>
      /\ \A c \in Calls : At(c, "emit")' => call'[c] = call[c]
  BY DEF Disconnect, Crash, Cut, stores, At, Finished, NoCall
<1>2. \A a \in Auctions : newest' <= version[a]
  <2>1. TypeInv BY DEF NewsInv, RoomInv
  <2> QED BY <1>1, <2>1, NewsTypes
<1>3. \A c \in Calls : At(c, "emit")' => Old(call[c].snap)'
  BY <1>1 DEF NewsInv, NothingAhead, Old, At
<1> QED BY <1>1, <1>2, <1>3 DEF NothingAhead, NewsComing

LEMMA NewsStep == ASSUME NewsInv, [Next]_vars PROVE NewsInv'
<1>1. RoomInv' BY RoomStep DEF NewsInv
<1>2. CASE UNCHANGED vars
  <2>1. NothingAhead' /\ NewsComing'
    BY <1>2, NewsUnchanged DEF vars, stores, sockets, screen
  <2> QED BY <1>1, <2>1 DEF NewsInv
<1>3. CASE Next
  BY <1>1, <1>3, CallStepNews, GatewayStepNews, PageStepNews, DropNews DEF Next, NewsInv
<1> QED BY <1>2, <1>3

(* However joining, leaving, changes, lost connections and crashes         *)
(* overlap: when everything on the sockets has arrived, the page has been  *)
(* brought the last version of the auction it follows.                     *)
THEOREM NoNewsIsLost == Spec => []NothingMissed
<1>1. NewsInv => NothingMissed
  <2> SUFFICES ASSUME NewsInv, Quiet, joined # NoAuction PROVE newest = version[joined]
    BY DEF NothingMissed
  <2>1. joined \in Auctions /\ online BY DEF NewsInv, RoomInv, TypeInv, TypeOK, Quiet
  <2>2. News(joined) BY <2>1 DEF NewsInv, NewsComing
  <2>3. ~ Tells(joined) BY DEF Quiet, Tells, CallTells, At
  <2>4. ~ Welcomes(joined) BY DEF Quiet, Welcomes
  <2>5. ~ Carried(joined) /\ ~ Asked(joined)
    <3>1. down = <<>> /\ up = <<>> /\ ~ \E i \in 1 .. 0 : TRUE BY DEF Quiet
    <3> QED BY <3>1 DEF Carried, Asked
  <2> QED BY <2>2, <2>3, <2>4, <2>5 DEF News, Has
<1> QED BY <1>1, InitNews, NewsStep, PTL DEF Spec
===============================================================================
