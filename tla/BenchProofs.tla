----------------------------- MODULE BenchProofs -----------------------------
(***************************************************************************)
(* The types of Bench, whichever drivers run: each driver speaks the       *)
(* language of Drivers, and no step of that language can make the stores   *)
(* hold what a row, a key or an order may not hold.                        *)
(***************************************************************************)
EXTENDS Bench, TLAPS

(* The terms of an auction as a driver may create it. *)
Terms == [start : Nat, inc : Nat, cap : Nat, window : Nat, ext : Nat, duration : Nat \ {0}]

Events == {"bidAccepted", "auctionEnded", "auctionExtended", "auctionCancelled", "outbid"}

(***************************************************************************)
(* The grammar of a driver on its auctions.  It starts an auction or waits *)
(* for one in a step of its own; a driver that is still lets no time pass, *)
(* and only such a driver stops Redis or has its orders fail.              *)
(***************************************************************************)
CallsOn(auctions) ==
  LET A == DOMAIN auctions IN
       [kind : {"bid"}, on : A, user : Bidders, amount : Nat, req : Nat]
  \cup [kind : {"update"}, on : A, rules : {auctions[a] : a \in A} \cup {NewRules}]
  \cup [kind : {"cancel", "pay"}, on : A]
  \cup [kind : {"join"}, on : A, socket : Sockets, user : Bidders \cup {NoUser}]
  \cup [kind : {"read"}, on : A, store : {"mysql", "redis", "http"}]
  \cup [kind : {"hear"}, socket : Sockets, nth : Nat,
        event : Events]

Starts(auctions) == [kind : {"start"}, on : DOMAIN auctions]

Waits(auctions) ==
  [kind : {"await"}, on : DOMAIN auctions, left : Nat,
   statuses : SUBSET {"RUNNING", "SOLD", "UNSOLD", "CANCELLED"}]

Grammatical(s, auctions, pace) ==
  /\ s.op \in {"calls", "sleep", "close", "stop", "restart"}
  /\ s.op = "calls" => \/ s.calls \in Seq(CallsOn(auctions))
                       \/ s.calls \in [1 .. 1 -> Starts(auctions)]
                       \/ s.calls \in [1 .. 1 -> Waits(auctions)] /\ pace = "timed"
  /\ s.op = "sleep" => s.units \in Nat /\ (pace = "still" => s.units = 0)
  /\ s.op \in {"stop", "restart"} => s.store \in {"mysql", "redis"}
  /\ s.op = "restart" /\ s.store = "redis" => pace = "still"

WellFormed(d, pace) ==
  /\ d.auctions \in Seq(Terms)
  /\ Len(d.steps) \in Nat
  /\ \A i \in 1 .. Len(d.steps) : Grammatical(d.steps[i], d.auctions, pace)
  /\ d.failOrder \in BOOLEAN
  /\ d.failOrder => pace = "still"

----
(* What the operators of Drivers say is grammatical: first, the terms they *)
(* give an auction.                                                        *)
LEMMA SayTerms ==
  /\ \A cap \in Nat, duration \in Nat \ {0}, window \in Nat, ext \in Nat :
       Auction(cap, duration, window, ext) \in Terms
  /\ \A cap \in Nat : LongAuction(cap) \in Terms
BY DEF Auction, LongAuction, Terms

BidCalls(a, auctions) ==
  /\ \A u, x : u \in Bidders /\ x \in Nat => Bid(a, u, x) \in CallsOn(auctions)
  /\ \A u, x, r : u \in Bidders /\ x \in Nat /\ r \in Nat => BidAs(a, u, x, r) \in CallsOn(auctions)
JoinCalls(a, auctions) ==
  \A s, u : s \in Sockets /\ u \in Bidders \cup {NoUser} => Join(s, a, u) \in CallsOn(auctions)
ReadCalls(a, auctions) ==
  \A store : store \in {"mysql", "redis", "http"} => Read(store, a) \in CallsOn(auctions)

(* Each call on an auction of the driver belongs to its language. *)
LEMMA SayCalls ==
  ASSUME NEW auctions, NEW a \in DOMAIN auctions
  PROVE  BidCalls(a, auctions) /\ JoinCalls(a, auctions) /\ ReadCalls(a, auctions)
<1>1. BidCalls(a, auctions) BY DEF BidCalls, Bid, BidAs, CallsOn
<1>2. JoinCalls(a, auctions) BY DEF JoinCalls, Join, CallsOn
<1>3. ReadCalls(a, auctions) BY DEF ReadCalls, Read, CallsOn
<1> QED BY <1>1, <1>2, <1>3

SaysCalls(auctions, pace) ==
  \A n, cs : cs \in Seq(CallsOn(auctions)) => Grammatical(All(n, cs), auctions, pace)
SaysBid(a, auctions, pace) ==
  \A n, u, x : u \in Bidders /\ x \in Nat => Grammatical(One(n, Bid(a, u, x)), auctions, pace)
SaysBidAs(a, auctions, pace) ==
  \A n, u, x, r : u \in Bidders /\ x \in Nat /\ r \in Nat
    => Grammatical(One(n, BidAs(a, u, x, r)), auctions, pace)
SaysStart(a, auctions, pace) == \A n : Grammatical(One(n, Start(a)), auctions, pace)
SaysUpdate(a, auctions, pace) ==
  \A n : /\ Grammatical(One(n, Update(a, auctions[a])), auctions, pace)
         /\ Grammatical(One(n, Update(a, NewRules)), auctions, pace)
SaysCancel(a, auctions, pace) == \A n : Grammatical(One(n, Cancel(a)), auctions, pace)
SaysPay(a, auctions, pace) == \A n : Grammatical(One(n, Pay(a)), auctions, pace)
SaysJoin(a, auctions, pace) ==
  \A n, s, u : s \in Sockets /\ u \in Bidders \cup {NoUser}
    => Grammatical(One(n, Join(s, a, u)), auctions, pace)
SaysRead(a, auctions, pace) ==
  \A n, store : store \in {"mysql", "redis", "http"}
    => Grammatical(One(n, Read(store, a)), auctions, pace)
SaysHear(auctions, pace) ==
  \A n, s, e, k : s \in Sockets /\ e \in Events /\ k \in Nat
    => Grammatical(One(n, Hear(s, e, k)), auctions, pace)
SaysPause(auctions, pace) == Grammatical(Pause, auctions, pace)
SaysClose(auctions, pace) == \A s : Grammatical(Close(s), auctions, pace)
SaysStop(auctions, pace) ==
  \A store : store \in {"mysql", "redis"} => Grammatical(Stop(store), auctions, pace)
SaysRestart(auctions, pace) ==
  \A store : store = "mysql" \/ (store = "redis" /\ pace = "still")
    => Grammatical(Restart(store), auctions, pace)
SaysSleep(auctions, pace) ==
  \A units : units \in Nat /\ pace = "timed" => Grammatical(Sleep(units), auctions, pace)
SaysAwait(a, auctions, pace) ==
  pace = "timed" =>
    /\ \A n, left : left \in Nat => Grammatical(One(n, AwaitLast(a, left)), auctions, pace)
    /\ \A n, statuses : statuses \subseteq {"RUNNING", "SOLD", "UNSOLD", "CANCELLED"}
         => Grammatical(One(n, AwaitStatus(a, statuses)), auctions, pace)

(* A step with one call is grammatical if the call is. *)
LEMMA OneCall ==
  ASSUME NEW auctions, NEW pace, NEW n, NEW c \in CallsOn(auctions)
  PROVE  Grammatical(One(n, c), auctions, pace)
<1>1. <<c>> \in Seq(CallsOn(auctions)) OBVIOUS
<1> QED BY <1>1 DEF One, All, Grammatical

(* The steps that name no auction. *)
LEMMA SaySteps ==
  ASSUME NEW auctions, NEW pace
  PROVE  /\ SaysCalls(auctions, pace)
         /\ SaysHear(auctions, pace)
         /\ SaysPause(auctions, pace)
         /\ SaysClose(auctions, pace)
         /\ SaysStop(auctions, pace)
         /\ SaysRestart(auctions, pace)
         /\ SaysSleep(auctions, pace)
<1>1. SaysCalls(auctions, pace) BY DEF SaysCalls, All, Grammatical
<1>2. SaysHear(auctions, pace)
  <2>1. \A s, e, k : s \in Sockets /\ e \in Events /\ k \in Nat => Hear(s, e, k) \in CallsOn(auctions)
    BY DEF Hear, CallsOn
  <2> QED BY <2>1, OneCall DEF SaysHear
<1>3. SaysPause(auctions, pace) BY DEF SaysPause, Pause, Sleep, Grammatical
<1>4. SaysClose(auctions, pace) BY DEF SaysClose, Close, Grammatical
<1>5. SaysStop(auctions, pace) BY DEF SaysStop, Stop, Grammatical
<1>6. SaysRestart(auctions, pace) BY DEF SaysRestart, Restart, Grammatical
<1>7. SaysSleep(auctions, pace) BY DEF SaysSleep, Sleep, Grammatical
<1> QED BY <1>1, <1>2, <1>3, <1>4, <1>5, <1>6, <1>7

(* The steps of one call on an auction of the driver. *)
LEMMA SayStepsOn ==
  ASSUME NEW auctions, NEW a \in DOMAIN auctions, NEW pace
  PROVE  /\ SaysBid(a, auctions, pace) /\ SaysBidAs(a, auctions, pace)
         /\ SaysStart(a, auctions, pace)
         /\ SaysUpdate(a, auctions, pace)
         /\ SaysCancel(a, auctions, pace)
         /\ SaysPay(a, auctions, pace)
         /\ SaysJoin(a, auctions, pace)
         /\ SaysRead(a, auctions, pace)
         /\ SaysAwait(a, auctions, pace)
<1>1. SaysBid(a, auctions, pace) /\ SaysBidAs(a, auctions, pace)
  BY SayCalls, OneCall DEF BidCalls, SaysBid, SaysBidAs
<1>2. SaysJoin(a, auctions, pace) BY SayCalls, OneCall DEF JoinCalls, SaysJoin
<1>3. SaysRead(a, auctions, pace) BY SayCalls, OneCall DEF ReadCalls, SaysRead
<1>4. SaysUpdate(a, auctions, pace)
  <2>1. Update(a, auctions[a]) \in CallsOn(auctions) /\ Update(a, NewRules) \in CallsOn(auctions)
    BY DEF Update, CallsOn
  <2> QED BY <2>1, OneCall DEF SaysUpdate
<1>5. SaysCancel(a, auctions, pace) /\ SaysPay(a, auctions, pace)
  <2>1. Cancel(a) \in CallsOn(auctions) /\ Pay(a) \in CallsOn(auctions)
    BY DEF Cancel, Pay, CallsOn
  <2> QED BY <2>1, OneCall DEF SaysCancel, SaysPay
<1>6. SaysStart(a, auctions, pace)
  <2>1. <<Start(a)>> \in [1 .. 1 -> Starts(auctions)] BY DEF Start, Starts
  <2> QED BY <2>1 DEF SaysStart, One, All, Grammatical
<1>7. SaysAwait(a, auctions, pace)
  <2>1. ASSUME NEW c \in Waits(auctions), NEW n, pace = "timed"
        PROVE  Grammatical(One(n, c), auctions, pace)
    <3>1. <<c>> \in [1 .. 1 -> Waits(auctions)] BY <2>1
    <3> QED BY <2>1, <3>1 DEF One, All, Grammatical
  <2>2. \A left \in Nat : AwaitLast(a, left) \in Waits(auctions) BY DEF AwaitLast, Waits
  <2>3. \A statuses \in SUBSET {"RUNNING", "SOLD", "UNSOLD", "CANCELLED"} :
          AwaitStatus(a, statuses) \in Waits(auctions)
    BY DEF AwaitStatus, Waits
  <2> QED BY <2>1, <2>2, <2>3 DEF SaysAwait
<1> QED BY <1>1, <1>2, <1>3, <1>4, <1>5, <1>6, <1>7

----
(* run-2.0-cancel-consistency.cjs speaks the language. *)
LEMMA CancelConsistencySpeaks == WellFormed(CancelConsistency, "timed")
<1> DEFINE A == CancelConsistency.auctions
<1>1. A \in Seq(Terms) /\ {1} \subseteq DOMAIN A BY SayTerms DEF CancelConsistency
<1>2. Len(CancelConsistency.steps) \in Nat /\ CancelConsistency.failOrder = FALSE
  BY DEF CancelConsistency, Everywhere
<1> HIDE DEF A
<1>3. /\ SaysBid(1, A, "timed") /\ SaysStart(1, A, "timed") /\ SaysCancel(1, A, "timed")
      /\ SaysJoin(1, A, "timed") /\ SaysRead(1, A, "timed")
  BY <1>1, SayStepsOn
<1>4. /\ SaysPause(A, "timed")
  BY SaySteps
<1>6. \A i \in 1 .. Len(CancelConsistency.steps) : Grammatical(CancelConsistency.steps[i], A, "timed")
  BY <1>3, <1>4
  DEF CancelConsistency, Everywhere, SaysBid, SaysCancel, SaysJoin, SaysRead, SaysStart,
      SaysPause, Bidders, Sockets
<1> QED BY <1>1, <1>2, <1>6 DEF WellFormed, A

(* run-2.0-cap-sale-consistency.cjs speaks the language. *)
LEMMA CapSaleConsistencySpeaks == WellFormed(CapSaleConsistency, "timed")
<1> DEFINE A == CapSaleConsistency.auctions
<1>1. A \in Seq(Terms) /\ {1} \subseteq DOMAIN A BY SayTerms DEF CapSaleConsistency
<1>2. Len(CapSaleConsistency.steps) \in Nat /\ CapSaleConsistency.failOrder = FALSE
  BY DEF CapSaleConsistency, Everywhere
<1> HIDE DEF A
<1>3. /\ SaysBid(1, A, "timed") /\ SaysStart(1, A, "timed") /\ SaysJoin(1, A, "timed")
      /\ SaysRead(1, A, "timed")
  BY <1>1, SayStepsOn
<1>4. /\ SaysPause(A, "timed")
  BY SaySteps
<1>6. \A i \in 1 .. Len(CapSaleConsistency.steps) : Grammatical(CapSaleConsistency.steps[i], A, "timed")
  BY <1>3, <1>4
  DEF CapSaleConsistency, Everywhere, SaysBid, SaysJoin, SaysRead, SaysStart, SaysPause, Bidders,
      Sockets
<1> QED BY <1>1, <1>2, <1>6 DEF WellFormed, A

(* run-2.0-consistency.cjs speaks the language. *)
LEMMA RoundsOfEqualBidsSpeaks == WellFormed(RoundsOfEqualBids, "timed")
<1> DEFINE A == RoundsOfEqualBids.auctions
<1>1. A \in Seq(Terms) /\ {1} \subseteq DOMAIN A BY SayTerms DEF RoundsOfEqualBids
<1>2. Len(RoundsOfEqualBids.steps) \in Nat /\ RoundsOfEqualBids.failOrder = FALSE
  BY DEF RoundsOfEqualBids, Everywhere
<1> HIDE DEF A
<1>3. /\ SaysStart(1, A, "timed") /\ SaysJoin(1, A, "timed") /\ SaysRead(1, A, "timed")
      /\ SaysAwait(1, A, "timed")
  BY <1>1, SayStepsOn
<1>4. /\ SaysPause(A, "timed")
  BY SaySteps
<1>5. /\ \A n : Grammatical(All(n, <<Bid(1, "A", 1), Bid(1, "B", 1), Bid(1, "C", 1)>>), A, "timed")
      /\ \A n : Grammatical(All(n, <<Bid(1, "A", 2), Bid(1, "B", 2), Bid(1, "C", 2)>>), A, "timed")
  <2>1. BidCalls(1, A) BY <1>1, SayCalls
  <2>2. /\ <<Bid(1, "A", 1), Bid(1, "B", 1), Bid(1, "C", 1)>> \in Seq(CallsOn(A))
        /\ <<Bid(1, "A", 2), Bid(1, "B", 2), Bid(1, "C", 2)>> \in Seq(CallsOn(A))
    BY <2>1 DEF BidCalls, Bidders, Sockets
  <2> QED BY <2>2, SaySteps DEF SaysCalls
<1>6. \A i \in 1 .. Len(RoundsOfEqualBids.steps) : Grammatical(RoundsOfEqualBids.steps[i], A, "timed")
  BY <1>3, <1>4, <1>5
  DEF RoundsOfEqualBids, Everywhere, SaysAwait, SaysJoin, SaysRead, SaysStart, SaysPause,
      Bidders, Sockets
<1> QED BY <1>1, <1>2, <1>6 DEF WellFormed, A

(* run-2.0-extension-consistency.cjs speaks the language. *)
LEMMA ExtensionConsistencySpeaks == WellFormed(ExtensionConsistency, "timed")
<1> DEFINE A == ExtensionConsistency.auctions
<1>1. A \in Seq(Terms) /\ {1} \subseteq DOMAIN A BY SayTerms DEF ExtensionConsistency
<1>2. Len(ExtensionConsistency.steps) \in Nat /\ ExtensionConsistency.failOrder = FALSE
  BY DEF ExtensionConsistency, Everywhere
<1> HIDE DEF A
<1>3. /\ SaysBid(1, A, "timed") /\ SaysStart(1, A, "timed") /\ SaysJoin(1, A, "timed")
      /\ SaysRead(1, A, "timed") /\ SaysAwait(1, A, "timed")
  BY <1>1, SayStepsOn
<1>4. /\ SaysPause(A, "timed")
  BY SaySteps
<1>6. \A i \in 1 .. Len(ExtensionConsistency.steps) : Grammatical(ExtensionConsistency.steps[i], A, "timed")
  BY <1>3, <1>4
  DEF ExtensionConsistency, Everywhere, SaysAwait, SaysBid, SaysJoin, SaysRead, SaysStart,
      SaysPause, Bidders, Sockets
<1> QED BY <1>1, <1>2, <1>6 DEF WellFormed, A

(* run-2.0-multi-room-isolation.cjs speaks the language. *)
LEMMA MultiRoomIsolationSpeaks == WellFormed(MultiRoomIsolation, "timed")
<1> DEFINE A == MultiRoomIsolation.auctions
<1>1. A \in Seq(Terms) /\ {1, 2, 3} \subseteq DOMAIN A BY SayTerms DEF MultiRoomIsolation
<1>2. Len(MultiRoomIsolation.steps) \in Nat /\ MultiRoomIsolation.failOrder = FALSE
  BY DEF MultiRoomIsolation
<1> HIDE DEF A
<1>3. /\ SaysBid(1, A, "timed") /\ SaysBid(2, A, "timed") /\ SaysBid(3, A, "timed")
      /\ SaysStart(1, A, "timed") /\ SaysStart(2, A, "timed") /\ SaysStart(3, A, "timed")
      /\ SaysCancel(3, A, "timed")
  BY <1>1, SayStepsOn
<1>4. /\ SaysPause(A, "timed")
  BY SaySteps
<1>5. /\ \A n : Grammatical(All(n, <<Join("s1", 1, NoUser), Join("s2", 2, NoUser), Join("s3", 3, NoUser)>>), A, "timed")
      /\ \A n : Grammatical(All(n, <<Read("http", 1), Read("http", 2), Read("http", 3)>>), A, "timed")
      /\ \A n : Grammatical(All(n, <<Read("redis", 1), Read("redis", 2), Read("redis", 3)>>), A, "timed")
  <2>1. /\ JoinCalls(1, A) /\ JoinCalls(2, A) /\ JoinCalls(3, A)
        /\ ReadCalls(1, A) /\ ReadCalls(2, A) /\ ReadCalls(3, A)
    BY <1>1, SayCalls
  <2>2. /\ <<Join("s1", 1, NoUser), Join("s2", 2, NoUser), Join("s3", 3, NoUser)>> \in Seq(CallsOn(A))
        /\ <<Read("http", 1), Read("http", 2), Read("http", 3)>> \in Seq(CallsOn(A))
        /\ <<Read("redis", 1), Read("redis", 2), Read("redis", 3)>> \in Seq(CallsOn(A))
    BY <2>1 DEF JoinCalls, ReadCalls, Bidders, Sockets
  <2> QED BY <2>2, SaySteps DEF SaysCalls
<1>6. \A i \in 1 .. Len(MultiRoomIsolation.steps) : Grammatical(MultiRoomIsolation.steps[i], A, "timed")
  BY <1>3, <1>4, <1>5
  DEF MultiRoomIsolation, SaysBid, SaysCancel, SaysStart, SaysPause, Bidders
<1> QED BY <1>1, <1>2, <1>6 DEF WellFormed, A

(* run-2.0-mysql-fault.cjs speaks the language. *)
LEMMA MysqlFaultSpeaks == WellFormed(MysqlFault, "timed")
<1> DEFINE A == MysqlFault.auctions
<1>1. A \in Seq(Terms) /\ {1} \subseteq DOMAIN A BY SayTerms DEF MysqlFault
<1>2. Len(MysqlFault.steps) \in Nat /\ MysqlFault.failOrder = FALSE BY DEF MysqlFault
<1> HIDE DEF A
<1>3. /\ SaysBid(1, A, "timed") /\ SaysStart(1, A, "timed") /\ SaysRead(1, A, "timed")
  BY <1>1, SayStepsOn
<1>4. /\ SaysPause(A, "timed") /\ SaysStop(A, "timed") /\ SaysRestart(A, "timed")
  BY SaySteps
<1>6. \A i \in 1 .. Len(MysqlFault.steps) : Grammatical(MysqlFault.steps[i], A, "timed")
  BY <1>3, <1>4
  DEF MysqlFault, SaysBid, SaysRead, SaysStart, SaysPause, SaysStop, SaysRestart, Bidders
<1> QED BY <1>1, <1>2, <1>6 DEF WellFormed, A

(* run-2.0-fault-recovery-consistency.cjs speaks the language. *)
LEMMA FaultRecoverySpeaks == WellFormed(FaultRecovery, "timed")
<1> DEFINE A == FaultRecovery.auctions
<1>1. A \in Seq(Terms) /\ {1} \subseteq DOMAIN A BY SayTerms DEF FaultRecovery
<1>2. Len(FaultRecovery.steps) \in Nat /\ FaultRecovery.failOrder = FALSE BY DEF FaultRecovery
<1> HIDE DEF A
<1>3. /\ SaysBid(1, A, "timed") /\ SaysStart(1, A, "timed") /\ SaysJoin(1, A, "timed")
      /\ SaysRead(1, A, "timed")
  BY <1>1, SayStepsOn
<1>4. /\ SaysPause(A, "timed") /\ SaysStop(A, "timed") /\ SaysRestart(A, "timed")
  BY SaySteps
<1>6. \A i \in 1 .. Len(FaultRecovery.steps) : Grammatical(FaultRecovery.steps[i], A, "timed")
  BY <1>3, <1>4
  DEF FaultRecovery, SaysBid, SaysJoin, SaysRead, SaysStart, SaysPause, SaysStop, SaysRestart,
      Bidders, Sockets
<1> QED BY <1>1, <1>2, <1>6 DEF WellFormed, A

(* run-2.0-redis-fault.cjs speaks it, and lets no time pass. *)
LEMMA RedisFaultSpeaks == WellFormed(RedisFault, "still")
<1> DEFINE A == RedisFault.auctions
<1>1. A \in Seq(Terms) /\ {1} \subseteq DOMAIN A BY SayTerms DEF RedisFault
<1>2. Len(RedisFault.steps) \in Nat /\ RedisFault.failOrder = FALSE BY DEF RedisFault
<1> HIDE DEF A
<1>3. /\ SaysBid(1, A, "still") /\ SaysStart(1, A, "still") /\ SaysRead(1, A, "still")
  BY <1>1, SayStepsOn
<1>4. /\ SaysPause(A, "still") /\ SaysStop(A, "still") /\ SaysRestart(A, "still")
  BY SaySteps
<1>5. /\ \A n : Grammatical(All(n, <<Read("mysql", 1), Read("redis", 1), Read("http", 1)>>), A, "still")
  <2>1. ReadCalls(1, A) BY <1>1, SayCalls
  <2>2. /\ <<Read("mysql", 1), Read("redis", 1), Read("http", 1)>> \in Seq(CallsOn(A))
    BY <2>1 DEF ReadCalls, Bidders, Sockets
  <2> QED BY <2>2, SaySteps DEF SaysCalls
<1>6. \A i \in 1 .. Len(RedisFault.steps) : Grammatical(RedisFault.steps[i], A, "still")
  BY <1>3, <1>4, <1>5
  DEF RedisFault, SaysBid, SaysRead, SaysStart, SaysPause, SaysStop, SaysRestart, Bidders
<1> QED BY <1>1, <1>2, <1>6 DEF WellFormed, A

(* run-2.0-order-failure.cjs speaks it, and lets no time pass. *)
LEMMA OrderFailureSpeaks == WellFormed(OrderFailure, "still")
<1> DEFINE A == OrderFailure.auctions
<1>1. A \in Seq(Terms) /\ {1} \subseteq DOMAIN A BY SayTerms DEF OrderFailure
<1>2. Len(OrderFailure.steps) \in Nat /\ OrderFailure.failOrder = TRUE BY DEF OrderFailure
<1> HIDE DEF A
<1>3. /\ SaysBid(1, A, "still") /\ SaysStart(1, A, "still") /\ SaysRead(1, A, "still")
  BY <1>1, SayStepsOn
<1>4. /\ SaysPause(A, "still")
  BY SaySteps
<1>6. \A i \in 1 .. Len(OrderFailure.steps) : Grammatical(OrderFailure.steps[i], A, "still")
  BY <1>3, <1>4
  DEF OrderFailure, SaysBid, SaysRead, SaysStart, SaysPause, Bidders
<1> QED BY <1>1, <1>2, <1>6 DEF WellFormed, A

(* run-2.0-websocket-miss-recovery.cjs speaks the language. *)
LEMMA MissRecoverySpeaks == WellFormed(MissRecovery, "timed")
<1> DEFINE A == MissRecovery.auctions
<1>1. A \in Seq(Terms) /\ {1} \subseteq DOMAIN A BY SayTerms DEF MissRecovery
<1>2. Len(MissRecovery.steps) \in Nat /\ MissRecovery.failOrder = FALSE BY DEF MissRecovery
<1> HIDE DEF A
<1>3. /\ SaysBid(1, A, "timed") /\ SaysStart(1, A, "timed") /\ SaysJoin(1, A, "timed")
  BY <1>1, SayStepsOn
<1>4. /\ SaysPause(A, "timed") /\ SaysClose(A, "timed")
  BY SaySteps
<1>5. /\ \A n : Grammatical(All(n, <<Read("mysql", 1), Read("redis", 1), Read("http", 1)>>), A, "timed")
  <2>1. ReadCalls(1, A) BY <1>1, SayCalls
  <2>2. /\ <<Read("mysql", 1), Read("redis", 1), Read("http", 1)>> \in Seq(CallsOn(A))
    BY <2>1 DEF ReadCalls, Bidders, Sockets
  <2> QED BY <2>2, SaySteps DEF SaysCalls
<1>6. \A i \in 1 .. Len(MissRecovery.steps) : Grammatical(MissRecovery.steps[i], A, "timed")
  BY <1>3, <1>4, <1>5
  DEF MissRecovery, SaysBid, SaysJoin, SaysStart, SaysPause, SaysClose, Bidders, Sockets
<1> QED BY <1>1, <1>2, <1>6 DEF WellFormed, A

(* run-2.0-ws1000-real-bid.cjs speaks the language. *)
LEMMA RealBidSpeaks == WellFormed(RealBid, "timed")
<1> DEFINE A == RealBid.auctions
<1>1. A \in Seq(Terms) /\ {1} \subseteq DOMAIN A BY SayTerms DEF RealBid
<1>2. Len(RealBid.steps) \in Nat /\ RealBid.failOrder = FALSE BY DEF RealBid
<1> HIDE DEF A
<1>3. /\ SaysBid(1, A, "timed") /\ SaysStart(1, A, "timed") /\ SaysRead(1, A, "timed")
  BY <1>1, SayStepsOn
<1>4. /\ SaysPause(A, "timed")
  BY SaySteps
<1>5. /\ \A n : Grammatical(All(n, <<Join("s1", 1, NoUser), Join("s2", 1, NoUser)>>), A, "timed")
  <2>1. JoinCalls(1, A) BY <1>1, SayCalls
  <2>2. /\ <<Join("s1", 1, NoUser), Join("s2", 1, NoUser)>> \in Seq(CallsOn(A))
    BY <2>1 DEF JoinCalls, Bidders, Sockets
  <2> QED BY <2>2, SaySteps DEF SaysCalls
<1>6. \A i \in 1 .. Len(RealBid.steps) : Grammatical(RealBid.steps[i], A, "timed")
  BY <1>3, <1>4, <1>5
  DEF RealBid, SaysBid, SaysRead, SaysStart, SaysPause, Bidders
<1> QED BY <1>1, <1>2, <1>6 DEF WellFormed, A

(* run-2.0-ws1000-broadcast.cjs speaks the language. *)
LEMMA Broadcast1000Speaks == WellFormed(Broadcast1000, "timed")
<1> DEFINE A == Broadcast1000.auctions
<1>1. A \in Seq(Terms) /\ {1} \subseteq DOMAIN A BY SayTerms DEF Broadcast1000
<1>2. Len(Broadcast1000.steps) \in Nat /\ Broadcast1000.failOrder = FALSE BY DEF Broadcast1000
<1> HIDE DEF A
<1>3. /\ SaysBid(1, A, "timed") /\ SaysStart(1, A, "timed")
  BY <1>1, SayStepsOn
<1>4. /\ SaysPause(A, "timed")
  BY SaySteps
<1>5. /\ \A n : Grammatical(All(n, <<Join("s1", 1, NoUser), Join("s2", 1, NoUser)>>), A, "timed")
  <2>1. JoinCalls(1, A) BY <1>1, SayCalls
  <2>2. /\ <<Join("s1", 1, NoUser), Join("s2", 1, NoUser)>> \in Seq(CallsOn(A))
    BY <2>1 DEF JoinCalls, Bidders, Sockets
  <2> QED BY <2>2, SaySteps DEF SaysCalls
<1>6. \A i \in 1 .. Len(Broadcast1000.steps) : Grammatical(Broadcast1000.steps[i], A, "timed")
  BY <1>3, <1>4, <1>5
  DEF Broadcast1000, SaysBid, SaysStart, SaysPause, Bidders
<1> QED BY <1>1, <1>2, <1>6 DEF WellFormed, A

(* run-2.0-ws1000-hold.cjs speaks the language. *)
LEMMA Hold1000Speaks == WellFormed(Hold1000, "timed")
<1> DEFINE A == Hold1000.auctions
<1>1. A \in Seq(Terms) /\ {1} \subseteq DOMAIN A BY SayTerms DEF Hold1000
<1>2. Len(Hold1000.steps) \in Nat /\ Hold1000.failOrder = FALSE BY DEF Hold1000
<1> HIDE DEF A
<1>3. /\ SaysStart(1, A, "timed")
  BY <1>1, SayStepsOn
<1>4. /\ SaysPause(A, "timed") /\ SaysClose(A, "timed")
  BY SaySteps
<1>5. /\ \A n : Grammatical(All(n, <<Join("s1", 1, NoUser), Join("s2", 1, NoUser), Join("s3", 1, NoUser)>>), A, "timed")
      /\ \A n : Grammatical(All(n, <<Join("s4", 1, NoUser), Join("s5", 1, NoUser)>>), A, "timed")
  <2>1. JoinCalls(1, A) BY <1>1, SayCalls
  <2>2. /\ <<Join("s1", 1, NoUser), Join("s2", 1, NoUser), Join("s3", 1, NoUser)>> \in Seq(CallsOn(A))
        /\ <<Join("s4", 1, NoUser), Join("s5", 1, NoUser)>> \in Seq(CallsOn(A))
    BY <2>1 DEF JoinCalls, Bidders, Sockets
  <2> QED BY <2>2, SaySteps DEF SaysCalls
<1>6. \A i \in 1 .. Len(Hold1000.steps) : Grammatical(Hold1000.steps[i], A, "timed")
  BY <1>3, <1>4, <1>5
  DEF Hold1000, SaysStart, SaysPause, SaysClose
<1> QED BY <1>1, <1>2, <1>6 DEF WellFormed, A

(* run-2.0-stability.cjs speaks the language. *)
LEMMA StabilitySpeaks == WellFormed(Stability, "timed")
<1> DEFINE A == Stability.auctions
<1>1. A \in Seq(Terms) /\ {1} \subseteq DOMAIN A BY SayTerms DEF Stability
<1>2. Len(Stability.steps) \in Nat /\ Stability.failOrder = FALSE BY DEF Stability
<1> HIDE DEF A
<1>3. /\ SaysBid(1, A, "timed") /\ SaysStart(1, A, "timed") /\ SaysRead(1, A, "timed")
  BY <1>1, SayStepsOn
<1>4. /\ SaysPause(A, "timed")
  BY SaySteps
<1>5. /\ \A n : Grammatical(All(n, <<Join("s1", 1, NoUser), Join("s2", 1, NoUser)>>), A, "timed")
  <2>1. JoinCalls(1, A) BY <1>1, SayCalls
  <2>2. /\ <<Join("s1", 1, NoUser), Join("s2", 1, NoUser)>> \in Seq(CallsOn(A))
    BY <2>1 DEF JoinCalls, Bidders, Sockets
  <2> QED BY <2>2, SaySteps DEF SaysCalls
<1>6. \A i \in 1 .. Len(Stability.steps) : Grammatical(Stability.steps[i], A, "timed")
  BY <1>3, <1>4, <1>5
  DEF Stability, SaysBid, SaysRead, SaysStart, SaysPause, Bidders
<1> QED BY <1>1, <1>2, <1>6 DEF WellFormed, A

(* run-2.0-last-minute.cjs speaks the language. *)
LEMMA LastMinuteSpeaks == WellFormed(LastMinute, "timed")
<1> DEFINE A == LastMinute.auctions
<1>1. A \in Seq(Terms) /\ {1} \subseteq DOMAIN A BY SayTerms DEF LastMinute
<1>2. Len(LastMinute.steps) \in Nat /\ LastMinute.failOrder = FALSE BY DEF LastMinute
<1> HIDE DEF A
<1>3. /\ SaysBid(1, A, "timed") /\ SaysStart(1, A, "timed") /\ SaysRead(1, A, "timed")
      /\ SaysAwait(1, A, "timed")
  BY <1>1, SayStepsOn
<1>4. /\ SaysPause(A, "timed")
  BY SaySteps
<1>5. /\ \A n : Grammatical(All(n, <<Join("s1", 1, "A"), Join("s2", 1, "B")>>), A, "timed")
      /\ \A n : Grammatical(All(n, <<Bid(1, "A", 6), Bid(1, "B", 6), Bid(1, "C", 6)>>), A, "timed")
  <2>1. BidCalls(1, A) /\ JoinCalls(1, A) BY <1>1, SayCalls
  <2>2. /\ <<Join("s1", 1, "A"), Join("s2", 1, "B")>> \in Seq(CallsOn(A))
        /\ <<Bid(1, "A", 6), Bid(1, "B", 6), Bid(1, "C", 6)>> \in Seq(CallsOn(A))
    BY <2>1 DEF BidCalls, JoinCalls, Bidders, Sockets
  <2> QED BY <2>2, SaySteps DEF SaysCalls
<1>6. \A i \in 1 .. Len(LastMinute.steps) : Grammatical(LastMinute.steps[i], A, "timed")
  BY <1>3, <1>4, <1>5
  DEF LastMinute, SaysAwait, SaysBid, SaysRead, SaysStart, SaysPause, Bidders
<1> QED BY <1>1, <1>2, <1>6 DEF WellFormed, A

(* run-perf-test-cases.cjs speaks the language. *)
LEMMA PerfCasesSpeaks == WellFormed(PerfCases, "timed")
<1> DEFINE A == PerfCases.auctions
<1>1. A \in Seq(Terms) /\ {1, 2} \subseteq DOMAIN A BY SayTerms DEF PerfCases
<1>2. Len(PerfCases.steps) \in Nat /\ PerfCases.failOrder = FALSE BY DEF PerfCases
<1> HIDE DEF A
<1>3. /\ SaysBid(1, A, "timed") /\ SaysStart(1, A, "timed") /\ SaysStart(2, A, "timed")
  BY <1>1, SayStepsOn
<1>5. /\ \A n : Grammatical(All(n, <<Bid(2, "A", 1), Bid(2, "B", 1), Bid(2, "C", 1)>>), A, "timed")
  <2>1. BidCalls(2, A) BY <1>1, SayCalls
  <2>2. /\ <<Bid(2, "A", 1), Bid(2, "B", 1), Bid(2, "C", 1)>> \in Seq(CallsOn(A))
    BY <2>1 DEF BidCalls, Bidders, Sockets
  <2> QED BY <2>2, SaySteps DEF SaysCalls
<1>6. \A i \in 1 .. Len(PerfCases.steps) : Grammatical(PerfCases.steps[i], A, "timed")
  BY <1>3, <1>5
  DEF PerfCases, SaysBid, SaysStart, Bidders
<1> QED BY <1>1, <1>2, <1>6 DEF WellFormed, A

(* smoke-auction-flow.cjs speaks it in the part that sells at the cap. *)
LEMMA SmokeSaleSpeaks == WellFormed(SmokeSale, "timed")
<1> DEFINE A == SmokeSale.auctions
<1>1. A \in Seq(Terms) /\ {1} \subseteq DOMAIN A BY SayTerms DEF SmokeSale
<1>2. Len(SmokeSale.steps) \in Nat /\ SmokeSale.failOrder = FALSE BY DEF SmokeSale
<1> HIDE DEF A
<1>3. /\ SaysBid(1, A, "timed") /\ SaysBidAs(1, A, "timed") /\ SaysStart(1, A, "timed")
      /\ SaysPay(1, A, "timed") /\ SaysJoin(1, A, "timed") /\ SaysRead(1, A, "timed")
  BY <1>1, SayStepsOn
<1>4. /\ SaysHear(A, "timed") /\ SaysClose(A, "timed")
  BY SaySteps
<1>6. \A i \in 1 .. Len(SmokeSale.steps) : Grammatical(SmokeSale.steps[i], A, "timed")
  BY <1>3, <1>4
  DEF SmokeSale, SaysBid, SaysBidAs, SaysJoin, SaysPay, SaysRead, SaysStart, SaysHear, SaysClose,
      Bidders, Sockets, Events
<1> QED BY <1>1, <1>2, <1>6 DEF WellFormed, A

(* smoke-auction-flow.cjs speaks it in the part that waits for ends. *)
LEMMA SmokeEndsSpeaks == WellFormed(SmokeEnds, "timed")
<1> DEFINE A == SmokeEnds.auctions
<1>1. A \in Seq(Terms) /\ {1, 2, 3, 4, 5} \subseteq DOMAIN A BY SayTerms DEF SmokeEnds
<1>2. Len(SmokeEnds.steps) \in Nat /\ SmokeEnds.failOrder = FALSE BY DEF SmokeEnds
<1> HIDE DEF A
<1>3. /\ SaysBid(1, A, "timed") /\ SaysBid(2, A, "timed") /\ SaysBid(4, A, "timed")
      /\ SaysStart(1, A, "timed") /\ SaysStart(2, A, "timed") /\ SaysStart(3, A, "timed")
      /\ SaysStart(4, A, "timed") /\ SaysStart(5, A, "timed") /\ SaysCancel(2, A, "timed")
      /\ SaysJoin(1, A, "timed") /\ SaysJoin(2, A, "timed") /\ SaysRead(2, A, "timed")
      /\ SaysRead(4, A, "timed") /\ SaysRead(5, A, "timed")
  BY <1>1, SayStepsOn
<1>4. /\ SaysHear(A, "timed") /\ SaysClose(A, "timed") /\ SaysSleep(A, "timed")
  BY SaySteps
<1>5. /\ \A n : Grammatical(All(n, <<Bid(3, "A", 1), Bid(3, "B", 1)>>), A, "timed")
  <2>1. BidCalls(3, A) BY <1>1, SayCalls
  <2>2. /\ <<Bid(3, "A", 1), Bid(3, "B", 1)>> \in Seq(CallsOn(A))
    BY <2>1 DEF BidCalls, Bidders, Sockets
  <2> QED BY <2>2, SaySteps DEF SaysCalls
<1>6. \A i \in 1 .. Len(SmokeEnds.steps) : Grammatical(SmokeEnds.steps[i], A, "timed")
  BY <1>3, <1>4, <1>5
  DEF SmokeEnds, SaysBid, SaysCancel, SaysJoin, SaysRead, SaysStart, SaysHear, SaysClose,
      SaysSleep, Bidders, Sockets, Events
<1> QED BY <1>1, <1>2, <1>6 DEF WellFormed, A

(* verify-p1-p2-fixes.cjs speaks the language. *)
LEMMA VerifyFixesSpeaks == WellFormed(VerifyFixes, "timed")
<1> DEFINE A == VerifyFixes.auctions
<1>1. A \in Seq(Terms) /\ {1, 2, 3, 4} \subseteq DOMAIN A BY SayTerms DEF VerifyFixes
<1>2. Len(VerifyFixes.steps) \in Nat /\ VerifyFixes.failOrder = FALSE BY DEF VerifyFixes
<1> HIDE DEF A
<1>3. /\ SaysBid(2, A, "timed") /\ SaysBid(3, A, "timed") /\ SaysStart(1, A, "timed")
      /\ SaysStart(2, A, "timed") /\ SaysStart(3, A, "timed") /\ SaysStart(4, A, "timed")
      /\ SaysUpdate(1, A, "timed") /\ SaysJoin(3, A, "timed") /\ SaysJoin(4, A, "timed")
  BY <1>1, SayStepsOn
<1>4. /\ SaysHear(A, "timed") /\ SaysPause(A, "timed") /\ SaysClose(A, "timed")
  BY SaySteps
<1>5. Auction(10, 6, 1, 2) = A[1] BY DEF A, VerifyFixes
<1>6. \A i \in 1 .. Len(VerifyFixes.steps) : Grammatical(VerifyFixes.steps[i], A, "timed")
  BY <1>3, <1>4, <1>5
  DEF VerifyFixes, SaysBid, SaysJoin, SaysStart, SaysUpdate, SaysHear, SaysPause, SaysClose,
      Bidders, Sockets, Events
<1> QED BY <1>1, <1>2, <1>6 DEF WellFormed, A

----
(***************************************************************************)
(* The drivers that lose the keys of Redis or have a bid undone let no     *)
(* time pass, so nothing they start can end.                               *)
(***************************************************************************)
PaceOf(name) == IF name \in {"redisFault", "orderFault"} THEN "still" ELSE "timed"
Pace == PaceOf(script)

(* Every driver speaks it at its pace. *)
LEMMA DriversSpeak == \A name \in DriverNames : WellFormed(Driver(name), PaceOf(name))
<1>1. /\ Driver("cancel") = CancelConsistency /\ PaceOf("cancel") = "timed"
      /\ Driver("capSale") = CapSaleConsistency /\ PaceOf("capSale") = "timed"
      /\ Driver("rounds") = RoundsOfEqualBids /\ PaceOf("rounds") = "timed"
      /\ Driver("extension") = ExtensionConsistency /\ PaceOf("extension") = "timed"
      /\ Driver("rooms") = MultiRoomIsolation /\ PaceOf("rooms") = "timed"
  BY DEF Driver, PaceOf
<1>2. /\ Driver("mysqlFault") = MysqlFault /\ PaceOf("mysqlFault") = "timed"
      /\ Driver("recovery") = FaultRecovery /\ PaceOf("recovery") = "timed"
      /\ Driver("redisFault") = RedisFault /\ PaceOf("redisFault") = "still"
      /\ Driver("orderFault") = OrderFailure /\ PaceOf("orderFault") = "still"
      /\ Driver("miss") = MissRecovery /\ PaceOf("miss") = "timed"
  BY DEF Driver, PaceOf
<1>3. /\ Driver("realBid") = RealBid /\ PaceOf("realBid") = "timed"
      /\ Driver("broadcast") = Broadcast1000 /\ PaceOf("broadcast") = "timed"
      /\ Driver("hold") = Hold1000 /\ PaceOf("hold") = "timed"
      /\ Driver("stability") = Stability /\ PaceOf("stability") = "timed"
      /\ Driver("lastMinute") = LastMinute /\ PaceOf("lastMinute") = "timed"
  BY DEF Driver, PaceOf
<1>4. /\ Driver("perf") = PerfCases /\ PaceOf("perf") = "timed"
      /\ Driver("sale") = SmokeSale /\ PaceOf("sale") = "timed"
      /\ Driver("ends") = SmokeEnds /\ PaceOf("ends") = "timed"
      /\ Driver("fixes") = VerifyFixes /\ PaceOf("fixes") = "timed"
  BY DEF Driver, PaceOf
<1> SUFFICES ASSUME NEW name \in DriverNames PROVE WellFormed(Driver(name), PaceOf(name)) OBVIOUS
<1>5. CASE name \in {"cancel", "capSale", "rounds", "extension", "rooms"}
  BY <1>1, <1>5, CancelConsistencySpeaks, CapSaleConsistencySpeaks, RoundsOfEqualBidsSpeaks,
     ExtensionConsistencySpeaks, MultiRoomIsolationSpeaks
<1>6. CASE name \in {"mysqlFault", "recovery", "redisFault", "orderFault", "miss"}
  BY <1>2, <1>6, MysqlFaultSpeaks, FaultRecoverySpeaks, RedisFaultSpeaks, OrderFailureSpeaks,
     MissRecoverySpeaks
<1>7. CASE name \in {"realBid", "broadcast", "hold", "stability", "lastMinute"}
  BY <1>3, <1>7, RealBidSpeaks, Broadcast1000Speaks, Hold1000Speaks, StabilitySpeaks,
     LastMinuteSpeaks
<1>8. CASE name \in {"perf", "sale", "ends", "fixes"}
  BY <1>4, <1>8, PerfCasesSpeaks, SmokeSaleSpeaks, SmokeEndsSpeaks, VerifyFixesSpeaks
<1> QED BY <1>5, <1>6, <1>7, <1>8 DEF DriverNames

(* AllRules has the rules of every auction of every driver, and NewRules. *)
LEMMA WhoseRules ==
  /\ \A r \in AllRules : r = NewRules \/ \E n \in Scripts : r \in RulesOf(n)
  /\ NewRules \in AllRules /\ \A n \in Scripts : RulesOf(n) \subseteq AllRules
<1> DEFINE every == UNION {RulesOf(n) : n \in Scripts}
<1>1. AllRules = {NewRules} \cup every BY DEF AllRules
<1>2. \A r : r \in every <=> \E n \in Scripts : r \in RulesOf(n) OBVIOUS
<1> HIDE DEF every
<1> QED BY <1>1, <1>2

(* Rules of any auction are terms, also those an update brings. *)
LEMMA RulesAreTerms == AllRules \subseteq Terms
<1>1. NewRules \in Terms BY SayTerms DEF NewRules
<1>2. ASSUME NEW n \in Scripts, NEW a \in DOMAIN Driver(n).auctions
      PROVE  Driver(n).auctions[a] \in Terms
  <2>1. Driver(n).auctions \in Seq(Terms) BY DriversSpeak, ScriptsAssumption DEF WellFormed
  <2> QED BY <2>1, <1>2
<1>3. \A n \in Scripts : RulesOf(n) \subseteq Terms BY <1>2 DEF RulesOf
<1> QED BY <1>1, <1>3, WhoseRules

----
(* What rows, keys and orders are made of. *)
State == [status : {"DRAFT", "SCHEDULED", "RUNNING", "SOLD", "UNSOLD", "CANCELLED"},
          price : Nat, leader : Bidders \cup {NoUser}, endAt : Nat, version : Nat,
          reason : {"none", "given"}, rules : AllRules]
Order == [amount : Nat, winner : Bidders, status : {"PENDING_PAYMENT", "PAID"}]
InRedisType == [hash : State \cup {NoHash}, board : [Bidders -> Nat], keys : SUBSET Nat]
InMysqlType == [row : State, bids : SUBSET (Nat \X Bidders), order : Order \cup {Null}]

(* The scripts take and leave such a state. *)
LEMMA KeysHoldState ==
  /\ \A a : Keys(a)!AuctionState = State
  /\ NoHash \notin State
<1>1. \A a : Keys(a)!AuctionState = State
  BY DEF Keys!AuctionState, Keys!Statuses, Keys!Reasons, State
<1> QED BY <1>1, NoHashAssumption

Draft(s) == s.status \in {"DRAFT", "SCHEDULED"}

(* A state Redis may hold: of an auction that has started, sold to somebody. *)
Live(s) ==
  /\ s \in State /\ ~Draft(s) /\ s.endAt > 0
  /\ s.status = "SOLD" => s.leader \in Bidders

(* The bids of a user, and that one of them is the highest. *)
Own(bids, v) == {e \in bids : e[2] = v}
HasTop(entries) == entries = {} \/ \E e \in entries : \A f \in entries : f[1] <= e[1]

(* The two stores of one auction.  A row may be sold without naming the     *)
(* leader yet, while Redis, which cannot lose its keys then, does.          *)
StoreHolds(r, m, pace) ==
  /\ r.hash # NoHash => Live(r.hash)
  /\ Draft(m.row) => r.hash = NoHash /\ m.row.endAt = 0
  /\ ~Draft(m.row) => m.row.endAt > 0
  /\ m.row.status = "SOLD" => m.row.leader \in Bidders \/ (pace = "timed" /\ r.hash # NoHash)
  /\ \A v \in Bidders : HasTop(Own(m.bids, v))

StoresInv ==
  /\ redis \in [Auctions -> InRedisType] /\ mysql \in [Auctions -> InMysqlType]
  /\ \A a \in Auctions : StoreHolds(redis[a], mysql[a], Pace)
  /\ settling \subseteq Auctions
  /\ \A a \in settling : redis[a].hash # NoHash

(* Where a call is, and what it holds of its auction. *)
Place(t) == {"pc", "won"} \subseteq DOMAIN t
CallHolds(c, t, r, m) ==
  /\ Place(t)
  /\ c.kind = "bid" /\ t.pc \in {"read", "commit"} => r.hash # NoHash
  /\ c.kind = "bid" /\ t.pc = "commit" => Live(t.won)
  /\ c.kind = "cancel" /\ t.pc = "row" => Live(t.won) /\ r.hash # NoHash
  /\ c.kind = "start" /\ t.pc = "redis" => r.hash = NoHash /\ m.row.status = "RUNNING"

TaskInv ==
  task # <<>> =>
    /\ ~Finished /\ Current.op = "calls" /\ DOMAIN task = DOMAIN Current.calls
    /\ \A i \in DOMAIN task : CallHolds(Call(i), task[i], redis[Call(i).on], mysql[Call(i).on])

DriverInv ==
  /\ script \in Scripts /\ step \in 1 .. Len(Steps) + 1 /\ elapsed \in Nat /\ now \in Nat
  /\ down \subseteq {"mysql", "redis"}
  /\ Pace = "still" => now = 0 /\ settling = {}

RoomsInv == room \in [Sockets -> [on : Auctions \cup {0}, user : Bidders \cup {NoUser}]]

BenchInv == DriverInv /\ RoomsInv /\ StoresInv /\ TaskInv

(* BenchInv is strong enough. *)
LEMMA TypesFollow == BenchInv => TypeOK
<1> SUFFICES ASSUME BenchInv PROVE TypeOK OBVIOUS
<1> USE DEF BenchInv
<1>1. ASSUME NEW a \in Auctions
      PROVE  /\ redis[a].hash \in Keys(a)!AuctionState \cup {NoHash}
             /\ redis[a].board \in [Bidders -> Nat]
             /\ mysql[a].row \in Keys(a)!AuctionState
             /\ mysql[a].bids \subseteq (Nat \X Bidders)
             /\ mysql[a].order # Null => mysql[a].order.winner \in Bidders
  <2>1. redis[a] \in InRedisType /\ mysql[a] \in InMysqlType BY DEF StoresInv
  <2>2. mysql[a].order # Null => mysql[a].order \in Order BY <2>1 DEF InMysqlType
  <2> QED BY <2>1, <2>2, KeysHoldState DEF InRedisType, InMysqlType, Order
<1>2. \A s \in Sockets : room[s].on \in Auctions \cup {0} /\ room[s].user \in Bidders \cup {NoUser}
  BY DEF RoomsInv
<1> QED BY <1>1, <1>2 DEF TypeOK, DriverInv, StoresInv

(* The driver of a run never changes, nor what follows from it. *)
LEMMA SameDriver ==
  ASSUME UNCHANGED script
  PROVE  Steps' = Steps /\ Auctions' = Auctions /\ Pace' = Pace
BY DEF Steps, Auctions, Pace, PaceOf

(* What the driver that runs says, step by step and call by call. *)
LEMMA CurrentStep ==
  ASSUME DriverInv, ~Finished
  PROVE  /\ Grammatical(Current, Driver(script).auctions, Pace)
         /\ step + 1 \in 1 .. Len(Steps) + 1
<1>1. WellFormed(Driver(script), Pace) BY DriversSpeak, ScriptsAssumption DEF DriverInv, Pace
<1>2. Len(Steps) \in Nat /\ step \in 1 .. Len(Steps)
  BY <1>1 DEF WellFormed, Steps, DriverInv, Finished
<1> QED BY <1>1, <1>2 DEF WellFormed, Current, Steps

CallSays(i) ==
  LET c == Call(i) IN
  /\ i \in Nat
  /\ c.kind # "hear" => c.on \in Auctions
  /\ c.kind = "bid" => c.user \in Bidders /\ c.amount \in Nat /\ c.req \in Nat
  /\ c.kind = "update" => c.rules \in AllRules
  /\ c.kind = "join" => c.socket \in Sockets /\ c.user \in Bidders \cup {NoUser}
  /\ c.kind = "start" => DOMAIN Current.calls = {i}
  /\ c.kind = "await" => Pace = "timed"

(* What the grammar says of a call in flight. *)
LEMMA CurrentCall ==
  ASSUME DriverInv, ~Finished, Current.op = "calls", NEW i \in DOMAIN Current.calls
  PROVE  CallSays(i)
<1> DEFINE A == Driver(script).auctions
<1>1. \/ Current.calls \in Seq(CallsOn(A))
      \/ Current.calls \in [1 .. 1 -> Starts(A)]
      \/ Current.calls \in [1 .. 1 -> Waits(A)] /\ Pace = "timed"
  BY CurrentStep DEF Grammatical
<1>2. DOMAIN A = Auctions BY DEF Auctions
<1>3. {A[a] : a \in DOMAIN A} \cup {NewRules} \subseteq AllRules
  BY WhoseRules DEF DriverInv, RulesOf
<1> HIDE DEF A
<1>4. CASE Current.calls \in Seq(CallsOn(A))
  <2>1. Call(i) \in CallsOn(A) /\ i \in Nat BY <1>4 DEF Call
  <2> QED BY <2>1, <1>2, <1>3 DEF CallsOn, CallSays
<1>5. CASE Current.calls \in [1 .. 1 -> Starts(A)]
  <2>1. Call(i) \in Starts(A) /\ DOMAIN Current.calls = {i} /\ i \in Nat BY <1>5 DEF Call
  <2> QED BY <2>1, <1>2 DEF Starts, CallSays
<1>6. CASE Current.calls \in [1 .. 1 -> Waits(A)] /\ Pace = "timed"
  <2>1. Call(i) \in Waits(A) /\ i \in Nat BY <1>6 DEF Call
  <2> QED BY <2>1, <1>2, <1>6 DEF Waits, CallSays
<1> QED BY <1>1, <1>4, <1>5, <1>6

----
(* Each driver finds its auctions created. *)
LEMMA InitInv == Init => BenchInv
<1> SUFFICES ASSUME Init PROVE BenchInv OBVIOUS
<1>1. WellFormed(Driver(script), Pace) BY DriversSpeak, ScriptsAssumption DEF Init, Pace
<1>2. DriverInv
  <2>1. Len(Steps) \in Nat BY <1>1 DEF WellFormed, Steps
  <2> QED BY <2>1 DEF Init, DriverInv
<1>3. RoomsInv BY DEF Init, RoomsInv
<1>4. TaskInv BY DEF Init, TaskInv
<1>5. \A a \in Auctions : Driver(script).auctions[a] \in AllRules
  BY WhoseRules DEF Init, RulesOf, Auctions
<1>6. ASSUME NEW a \in Auctions
      PROVE  redis[a] \in InRedisType /\ mysql[a] \in InMysqlType /\ StoreHolds(redis[a], mysql[a], Pace)
  <2> DEFINE rules == Driver(script).auctions[a]
  <2>1. rules \in AllRules /\ rules.start \in Nat BY <1>5, RulesAreTerms DEF Terms
  <2>2. redis[a] = [hash |-> NoHash, board |-> NobodyYet, keys |-> {}] BY DEF Init
  <2>3. /\ mysql[a].row = [status |-> "DRAFT", price |-> rules.start, leader |-> NoUser, endAt |-> 0,
                           version |-> 0, reason |-> "none", rules |-> rules]
        /\ mysql[a] = [row |-> mysql[a].row, bids |-> {}, order |-> Null]
    BY DEF Init
  <2> HIDE DEF rules
  <2>4. mysql[a].row \in State BY <2>1, <2>3 DEF State
  <2>5. mysql[a] \in InMysqlType BY <2>3, <2>4 DEF InMysqlType
  <2>6. redis[a] \in InRedisType BY <2>2 DEF InRedisType, NobodyYet
  <2>7. StoreHolds(redis[a], mysql[a], Pace)
    BY <2>2, <2>3 DEF StoreHolds, Draft, Own, HasTop
  <2> QED BY <2>5, <2>6, <2>7
<1>7. StoresInv
  <2>1. DOMAIN redis = Auctions /\ DOMAIN mysql = Auctions BY DEF Init
  <2>2. redis = [a \in Auctions |-> redis[a]] /\ mysql = [a \in Auctions |-> mysql[a]] BY DEF Init
  <2>3. settling = {} BY DEF Init
  <2> QED BY <1>6, <2>2, <2>3 DEF StoresInv
<1> QED BY <1>2, <1>3, <1>4, <1>7 DEF BenchInv

----
(* The frame of a handler: its driver waits, one of its calls moves, and no *)
(* key is lost.                                                             *)
KeysKept == \A a \in Auctions : redis[a].hash # NoHash => redis'[a].hash # NoHash

(* One call moves on and the others stay where they may be. *)
LEMMA TaskMoves ==
  ASSUME BenchInv, NEW i \in DOMAIN task, NEW t, task' = [task EXCEPT ![i] = t],
         UNCHANGED <<script, step>>, KeysKept,
         CallHolds(Call(i), t, redis'[Call(i).on], mysql'[Call(i).on])
  PROVE  TaskInv'
<1>1. task # <<>> BY DEF BenchInv
<1>2. ~Finished /\ Current.op = "calls" /\ DOMAIN task = DOMAIN Current.calls
  BY <1>1 DEF BenchInv, TaskInv
<1>3. Finished' = Finished /\ Current' = Current /\ DOMAIN task' = DOMAIN task
  BY SameDriver DEF Finished, Current
<1>4. ASSUME NEW j \in DOMAIN task
      PROVE  CallHolds(Call(j), task'[j], redis'[Call(j).on], mysql'[Call(j).on])
  <2>1. CASE j = i BY <2>1
  <2>2. CASE j # i
    <3>1. CallSays(i) /\ CallSays(j) BY <1>2, CurrentCall DEF BenchInv
    <3>2. Call(j).kind # "start" BY <2>2, <3>1, <1>2 DEF CallSays
    <3>3. task'[j] = task[j] BY <2>2
    <3>4. CallHolds(Call(j), task[j], redis[Call(j).on], mysql[Call(j).on])
      BY <1>1 DEF BenchInv, TaskInv
    <3>5. Call(j).kind \in {"bid", "cancel"} => Call(j).on \in Auctions BY <3>1 DEF CallSays
    <3> QED BY <3>2, <3>3, <3>4, <3>5 DEF CallHolds, KeysKept
  <2> QED BY <2>1, <2>2
<1>5. \A j : Call(j)' = Call(j) BY <1>3 DEF Call
<1> QED BY <1>2, <1>3, <1>4, <1>5 DEF TaskInv

(* One auction is written, in Redis or in MySQL. *)
LEMMA RedisWrite ==
  ASSUME BenchInv, NEW a \in Auctions, NEW r \in InRedisType, redis' = [redis EXCEPT ![a] = r],
         r.hash # NoHash, StoreHolds(r, mysql[a], Pace), UNCHANGED <<script, mysql>>,
         settling' \subseteq settling \cup {a}
  PROVE  StoresInv' /\ KeysKept
<1>1. Auctions' = Auctions /\ Pace' = Pace BY SameDriver
<1>2. redis' \in [Auctions -> InRedisType] /\ redis'[a] = r /\ (\A b \in Auctions \ {a} : redis'[b] = redis[b])
  BY DEF BenchInv, StoresInv
<1>3. \A b \in Auctions : StoreHolds(redis'[b], mysql[b], Pace) BY <1>2 DEF BenchInv, StoresInv
<1>4. KeysKept BY <1>2 DEF KeysKept
<1>5. settling' \subseteq Auctions /\ \A b \in settling' : redis'[b].hash # NoHash
  BY <1>2, <1>4 DEF BenchInv, StoresInv, KeysKept
<1> QED BY <1>1, <1>2, <1>3, <1>4, <1>5 DEF BenchInv, StoresInv

(* The same for a row, a Bid row or an order in MySQL. *)
LEMMA MysqlWrite ==
  ASSUME BenchInv, NEW a \in Auctions, NEW m \in InMysqlType, mysql' = [mysql EXCEPT ![a] = m],
         StoreHolds(redis[a], m, Pace), UNCHANGED <<script, redis>>, settling' \subseteq settling
  PROVE  StoresInv' /\ KeysKept
<1>1. Auctions' = Auctions /\ Pace' = Pace BY SameDriver
<1>2. mysql' \in [Auctions -> InMysqlType] /\ mysql'[a] = m /\ (\A b \in Auctions \ {a} : mysql'[b] = mysql[b])
  BY DEF BenchInv, StoresInv
<1>3. \A b \in Auctions : StoreHolds(redis[b], mysql'[b], Pace) BY <1>2 DEF BenchInv, StoresInv
<1> QED BY <1>1, <1>2, <1>3 DEF BenchInv, StoresInv, KeysKept

(* Steps that leave stores, sockets or driver alone. *)
LEMMA StoresStay ==
  ASSUME BenchInv, UNCHANGED <<script, stores>>
  PROVE  StoresInv' /\ KeysKept
BY SameDriver DEF BenchInv, StoresInv, KeysKept, stores

(* The same for the rooms. *)
LEMMA RoomsStay ==
  ASSUME BenchInv, UNCHANGED <<script, room>>
  PROVE  RoomsInv'
BY SameDriver DEF BenchInv, RoomsInv

(* The same for the driver: of the clock only settling may change. *)
LEMMA DriverStays ==
  ASSUME BenchInv, UNCHANGED Driven, settling' = {} \/ settling' = settling \/ Pace = "timed"
  PROVE  DriverInv'
BY SameDriver DEF BenchInv, DriverInv, Driven

(* What is known when a handler runs. *)
LEMMA AtCall ==
  ASSUME BenchInv, NEW i \in DOMAIN task
  PROVE  /\ ~Finished /\ Current.op = "calls" /\ CallSays(i)
         /\ Place(task[i])
         /\ CallHolds(Call(i), task[i], redis[Call(i).on], mysql[Call(i).on])
         /\ Call(i).kind # "hear" =>
              /\ Call(i).on \in Auctions
              /\ redis[Call(i).on] \in InRedisType /\ mysql[Call(i).on] \in InMysqlType
              /\ StoreHolds(redis[Call(i).on], mysql[Call(i).on], Pace)
<1>1. task # <<>> BY DEF BenchInv
<1>2. /\ ~Finished /\ Current.op = "calls" /\ i \in DOMAIN Current.calls
      /\ CallHolds(Call(i), task[i], redis[Call(i).on], mysql[Call(i).on])
  BY <1>1 DEF BenchInv, TaskInv
<1>3. CallSays(i) BY <1>2, CurrentCall DEF BenchInv
<1>4. Call(i).kind # "hear" => Call(i).on \in Auctions BY <1>3 DEF CallSays
<1>5. Place(task[i]) BY <1>2 DEF CallHolds
<1> QED BY <1>2, <1>3, <1>4, <1>5 DEF BenchInv, StoresInv

----
(* Calls that only read and answer. *)
Moves(i, pc) == \E t : task' = [task EXCEPT ![i] = t] /\ Place(t) /\ t.pc = pc

(* To answer, to fail, to refuse and to go on are all moves of one call. *)
LEMMA AnswerMoves ==
  ASSUME BenchInv, NEW i \in DOMAIN task
  PROVE  /\ \A status, note, view : Answers(i, status, note, view) => Moves(i, "done")
         /\ Fails(i) => Moves(i, "done")
         /\ Refuses(i) => Moves(i, "done")
         /\ \A pc : Goes(i, pc) => Moves(i, pc)
<1>1. Place(task[i]) BY AtCall
<1>2. ASSUME NEW status, NEW note, NEW view, Answers(i, status, note, view) PROVE Moves(i, "done")
  <2> DEFINE reply == Answer(status, note, view)
             t == [task[i] EXCEPT !.pc = "done", !.answer = reply]
  <2> HIDE DEF reply
  <2>1. task' = [task EXCEPT ![i] = t] BY <1>2 DEF Answers, reply
  <2>2. Place(t) /\ t.pc = "done" BY <1>1 DEF Place
  <2> HIDE DEF t
  <2> QED BY <2>1, <2>2 DEF Moves
<1>3. ASSUME NEW pc, Goes(i, pc) PROVE Moves(i, pc)
  <2> DEFINE t == [task[i] EXCEPT !.pc = pc]
  <2>1. task' = [task EXCEPT ![i] = t] BY <1>3 DEF Goes
  <2>2. Place(t) /\ t.pc = pc BY <1>1 DEF Place
  <2> HIDE DEF t
  <2> QED BY <2>1, <2>2 DEF Moves
<1> QED BY <1>2, <1>3 DEF Fails, Refuses

(* A handler that leaves the stores alone and gets to a place where nothing *)
(* is asked of it.                                                          *)
LEMMA HandlerReads ==
  ASSUME BenchInv, NEW i \in DOMAIN task, NEW pc, Moves(i, pc),
         UNCHANGED <<Driven, stores>>, RoomsInv',
         pc \in {"done", "snapshot", "sent", "script", "reply"}
  PROVE  BenchInv'
<1>1. PICK t : task' = [task EXCEPT ![i] = t] /\ Place(t) /\ t.pc = pc BY DEF Moves
<1>2. StoresInv' /\ KeysKept BY StoresStay DEF Driven
<1>3. CallHolds(Call(i), t, redis'[Call(i).on], mysql'[Call(i).on]) BY <1>1 DEF CallHolds
<1>4. TaskInv' BY <1>1, <1>2, <1>3, TaskMoves DEF Driven
<1>5. DriverInv' BY DriverStays DEF stores
<1> QED BY <1>2, <1>4, <1>5 DEF BenchInv

(* Reads, waits and pauses of a driver change nothing but its own task. *)
LEMMA ReadersKeep ==
  ASSUME BenchInv, NEW i \in DOMAIN task,
         ReadStore(i) \/ PollEnds(i) \/ EventHeard(i) \/ SnapshotHeard(i) \/ BidReplies(i) \/ BidBegins(i)
  PROVE  BenchInv'
<1>1. UNCHANGED <<Driven, stores, sockets>>
  BY DEF ReadStore, PollEnds, EventHeard, SnapshotHeard, BidReplies, BidBegins
<1>2. RoomsInv' BY <1>1, RoomsStay DEF Driven, sockets
<1>3. Moves(i, "done") \/ Moves(i, "script")
  <2>1. CASE ReadStore(i) BY <2>1, AnswerMoves DEF ReadStore
  <2>2. CASE PollEnds(i) BY <2>2, AnswerMoves DEF PollEnds
  <2>3. CASE EventHeard(i) BY <2>3, AnswerMoves DEF EventHeard
  <2>4. CASE SnapshotHeard(i) BY <2>4, AnswerMoves DEF SnapshotHeard
  <2>5. CASE BidReplies(i) BY <2>5, AnswerMoves DEF BidReplies
  <2>6. CASE BidBegins(i)
    <3> DEFINE prev == Snapshot(Call(i).on).leader
               t == [task[i] EXCEPT !.pc = "script", !.prev = prev]
    <3>1. CASE Fails(i) BY <3>1, AnswerMoves
    <3>2. CASE task' = [task EXCEPT ![i].pc = "script", ![i].prev = Snapshot(Call(i).on).leader]
      <4> HIDE DEF prev
      <4>1. task' = [task EXCEPT ![i] = t] BY <3>2 DEF prev
      <4>2. Place(t) /\ t.pc = "script" BY AtCall DEF Place
      <4> HIDE DEF t
      <4> QED BY <4>1, <4>2 DEF Moves
    <3> QED BY <2>6, <3>1, <3>2 DEF BidBegins
  <2> QED BY <2>1, <2>2, <2>3, <2>4, <2>5, <2>6
<1> QED BY <1>1, <1>2, <1>3, HandlerReads

(* joinAuction: the socket is in the room, then it hears a snapshot. *)
LEMMA JoinsKeep ==
  ASSUME BenchInv, NEW i \in DOMAIN task, EnterRoom(i) \/ SendSnapshot(i)
  PROVE  BenchInv'
<1>1. CASE EnterRoom(i)
  <2>1. Call(i).kind = "join" BY <1>1 DEF EnterRoom, At
  <2>2. Call(i).on \in Auctions /\ Call(i).socket \in Sockets /\ Call(i).user \in Bidders \cup {NoUser}
    BY <2>1, AtCall DEF CallSays
  <2>3. Auctions' = Auctions BY <1>1, SameDriver DEF EnterRoom, Driven
  <2>4. RoomsInv' BY <1>1, <2>2, <2>3 DEF EnterRoom, BenchInv, RoomsInv
  <2>5. Moves(i, "snapshot") BY <1>1, AnswerMoves DEF EnterRoom
  <2> QED BY <1>1, <2>4, <2>5, HandlerReads DEF EnterRoom
<1>2. CASE SendSnapshot(i)
  <2>1. Moves(i, "sent") BY <1>2, AnswerMoves DEF SendSnapshot
  <2>2. RoomsInv' BY <1>2, RoomsStay DEF SendSnapshot, Driven
  <2> QED BY <1>2, <2>1, <2>2, HandlerReads DEF SendSnapshot
<1> QED BY <1>1, <1>2

(* The emits after a write. *)
LEMMA EmittersKeep ==
  ASSUME BenchInv, NEW i \in DOMAIN task, BidEmits(i) \/ CancelEmits(i)
  PROVE  BenchInv'
<1>1. UNCHANGED <<Driven, stores, room>> BY DEF BidEmits, CancelEmits
<1>2. RoomsInv' BY <1>1, RoomsStay DEF Driven
<1>3. Moves(i, "reply") \/ Moves(i, "done") BY AnswerMoves DEF BidEmits, CancelEmits
<1> QED BY <1>1, <1>2, <1>3, HandlerReads

----
(* A handler that writes one of the stores. *)
LEMMA HandlerWrites ==
  ASSUME BenchInv, NEW i \in DOMAIN task, NEW t, task' = [task EXCEPT ![i] = t],
         UNCHANGED <<Driven, settling, room>>, StoresInv', KeysKept,
         CallHolds(Call(i), t, redis'[Call(i).on], mysql'[Call(i).on])
  PROVE  BenchInv'
<1>1. TaskInv' BY TaskMoves DEF Driven
<1>2. DriverInv' BY DriverStays
<1>3. RoomsInv' BY RoomsStay DEF Driven
<1> QED BY <1>1, <1>2, <1>3 DEF BenchInv

(* A row put into its place, and a hash. *)
LEMMA PutRow ==
  ASSUME NEW m \in InMysqlType, NEW s \in State
  PROVE  /\ [m EXCEPT !.row = s] \in InMysqlType /\ [m EXCEPT !.row = s].row = s
         /\ [m EXCEPT !.row = s].bids = m.bids /\ [m EXCEPT !.row = s].order = m.order
BY DEF InMysqlType

(* The same for the hash in Redis. *)
LEMMA PutHash ==
  ASSUME NEW r \in InRedisType, NEW s \in State
  PROVE  [r EXCEPT !.hash = s] \in InRedisType /\ [r EXCEPT !.hash = s].hash = s
BY DEF InRedisType

(* start() in MySQL. *)
LEMMA StartRowKeeps ==
  ASSUME BenchInv, NEW i \in DOMAIN task, StartRow(i) PROVE BenchInv'
<1> DEFINE a == Call(i).on
           old == mysql[a]
           endAt == now + old.row.rules.duration
           version == old.row.version + 1
           s == [old.row EXCEPT !.status = "RUNNING", !.version = version, !.endAt = endAt]
           m == [old EXCEPT !.row = s]
           t == [task[i] EXCEPT !.pc = "redis"]
<1>1. Call(i).kind = "start" /\ UNCHANGED <<Driven, redis, settling, sockets>> BY DEF StartRow, At
<1>2. a \in Auctions /\ old \in InMysqlType /\ StoreHolds(redis[a], old, Pace) BY <1>1, AtCall
<1>3. CASE Draft(old.row)
  <2>1. old.row \in State BY <1>2 DEF InMysqlType
  <2>2. old.row.rules.duration \in Nat \ {0} BY <2>1, RulesAreTerms DEF State, Terms
  <2>3. endAt \in Nat /\ endAt > 0 /\ version \in Nat
    <3>1. now \in Nat BY DEF BenchInv, DriverInv
    <3>2. version \in Nat BY <2>1 DEF State
    <3> QED BY <2>2, <3>1, <3>2
  <2>4. /\ mysql' = [mysql EXCEPT ![a].row.status = "RUNNING", ![a].row.version = @ + 1,
                                  ![a].row.endAt = now + mysql[a].row.rules.duration]
        /\ Goes(i, "redis")
    BY <1>3 DEF StartRow, Draft
  <2>5. mysql' = [mysql EXCEPT ![a] = m] BY <2>4
  <2> HIDE DEF endAt, version
  <2>6. s \in State /\ s.status = "RUNNING" /\ s.endAt = endAt BY <2>1, <2>3 DEF State
  <2> HIDE DEF s
  <2>7. m \in InMysqlType /\ m.row = s /\ m.bids = old.bids BY <1>2, <2>6, PutRow
  <2> HIDE DEF m
  <2>8. StoreHolds(redis[a], m, Pace) BY <1>2, <1>3, <2>3, <2>6, <2>7 DEF StoreHolds, Draft
  <2>9. StoresInv' /\ KeysKept BY <1>1, <1>2, <2>5, <2>7, <2>8, MysqlWrite DEF Driven
  <2>10. task' = [task EXCEPT ![i] = t] BY <2>4 DEF Goes
  <2>11. mysql'[a] = m /\ redis'[a].hash = NoHash
    BY <1>1, <1>2, <1>3, <2>5 DEF BenchInv, StoresInv, StoreHolds
  <2>12. CallHolds(Call(i), t, redis'[a], mysql'[a])
    BY <1>1, <2>6, <2>7, <2>11, AtCall DEF CallHolds, Place
  <2> QED BY <1>1, <2>9, <2>10, <2>12, HandlerWrites DEF sockets
<1>4. CASE ~ Draft(old.row)
  <2>1. Moves(i, "done") /\ UNCHANGED mysql BY <1>4, AnswerMoves DEF StartRow, Draft
  <2>2. RoomsInv' BY <1>1, RoomsStay DEF Driven, sockets
  <2> QED BY <1>1, <2>1, <2>2, HandlerReads DEF stores
<1> QED BY <1>3, <1>4

(* start() in Redis: initialize copies the row. *)
LEMMA StartRedisKeeps ==
  ASSUME BenchInv, NEW i \in DOMAIN task, StartRedis(i) PROVE BenchInv'
<1> DEFINE a == Call(i).on
           s == mysql[a].row
           r == [redis[a] EXCEPT !.hash = s]
<1>1. Call(i).kind = "start" /\ task[i].pc = "redis" /\ UNCHANGED <<Driven, mysql, settling, room>>
      /\ redis' = [redis EXCEPT ![a].hash = mysql[a].row] /\ Moves(i, "done")
  BY AnswerMoves DEF StartRedis, At
<1>2. /\ a \in Auctions /\ mysql[a] \in InMysqlType /\ redis[a] \in InRedisType
      /\ StoreHolds(redis[a], mysql[a], Pace) /\ s.status = "RUNNING"
  BY <1>1, AtCall DEF CallHolds
<1>3. s \in State /\ s # NoHash BY <1>2, KeysHoldState DEF InMysqlType
<1>4. redis' = [redis EXCEPT ![a] = r] BY <1>1
<1>5. r \in InRedisType /\ r.hash = s BY <1>2, <1>3, PutHash
<1> HIDE DEF r
<1>6. StoreHolds(r, mysql[a], Pace) BY <1>2, <1>3, <1>5 DEF StoreHolds, Live, Draft
<1>7. StoresInv' /\ KeysKept BY <1>1, <1>2, <1>3, <1>4, <1>5, <1>6, RedisWrite DEF Driven
<1>8. PICK t : task' = [task EXCEPT ![i] = t] /\ Place(t) /\ t.pc = "done" BY <1>1 DEF Moves
<1>9. CallHolds(Call(i), t, redis'[a], mysql'[a]) BY <1>8 DEF CallHolds
<1> QED BY <1>1, <1>7, <1>8, <1>9, HandlerWrites

(* update(), before the start. *)
LEMMA UpdateRowKeeps ==
  ASSUME BenchInv, NEW i \in DOMAIN task, UpdateRow(i) PROVE BenchInv'
<1> DEFINE a == Call(i).on
           old == mysql[a]
           rules == Call(i).rules
           version == old.row.version + 1
           s == [old.row EXCEPT !.rules = rules, !.version = version]
           m == [old EXCEPT !.row = s]
<1>1. Call(i).kind = "update" /\ UNCHANGED <<Driven, redis, settling, sockets>> /\ Moves(i, "done")
  BY AnswerMoves DEF UpdateRow, At
<1>2. a \in Auctions /\ old \in InMysqlType /\ StoreHolds(redis[a], old, Pace) /\ rules \in AllRules
  BY <1>1, AtCall DEF CallSays
<1>3. CASE Draft(old.row)
  <2>1. old.row \in State BY <1>2 DEF InMysqlType
  <2>2. version \in Nat BY <2>1 DEF State
  <2>3. mysql' = [mysql EXCEPT ![a].row.rules = Call(i).rules, ![a].row.version = @ + 1]
    BY <1>3 DEF UpdateRow, Draft
  <2>4. mysql' = [mysql EXCEPT ![a] = m] BY <2>3
  <2> HIDE DEF rules, version
  <2>5. s \in State /\ s.status = old.row.status /\ s.endAt = old.row.endAt
    BY <1>2, <2>1, <2>2 DEF State
  <2> HIDE DEF s
  <2>6. m \in InMysqlType /\ m.row = s /\ m.bids = old.bids BY <1>2, <2>5, PutRow
  <2> HIDE DEF m
  <2>7. StoreHolds(redis[a], m, Pace) BY <1>2, <1>3, <2>5, <2>6 DEF StoreHolds, Draft
  <2>8. StoresInv' /\ KeysKept BY <1>1, <1>2, <2>4, <2>6, <2>7, MysqlWrite DEF Driven
  <2>9. PICK t : task' = [task EXCEPT ![i] = t] /\ Place(t) /\ t.pc = "done" BY <1>1 DEF Moves
  <2>10. CallHolds(Call(i), t, redis'[a], mysql'[a]) BY <2>9 DEF CallHolds
  <2> QED BY <1>1, <2>8, <2>9, <2>10, HandlerWrites DEF sockets
<1>4. CASE ~ Draft(old.row)
  <2>1. UNCHANGED mysql BY <1>4 DEF UpdateRow, Draft
  <2>2. RoomsInv' BY <1>1, RoomsStay DEF Driven, sockets
  <2> QED BY <1>1, <2>1, <2>2, HandlerReads DEF stores
<1> QED BY <1>3, <1>4

(* The payment of an order. *)
LEMMA PayOrderKeeps ==
  ASSUME BenchInv, NEW i \in DOMAIN task, PayOrder(i) PROVE BenchInv'
<1> DEFINE a == Call(i).on
           old == mysql[a]
           paid == [amount |-> old.order.amount, winner |-> old.order.winner, status |-> "PAID"]
           m == [row |-> old.row, bids |-> old.bids, order |-> paid]
           Due == old.order # Null /\ old.order.status = "PENDING_PAYMENT"
<1>1. Call(i).kind = "pay" /\ UNCHANGED <<Driven, redis, settling, sockets>> /\ Moves(i, "done")
  BY AnswerMoves DEF PayOrder, At
<1>2. a \in Auctions /\ old \in InMysqlType /\ StoreHolds(redis[a], old, Pace) BY <1>1, AtCall
<1>3. CASE Due
  <2>1. old.order \in Order BY <1>2, <1>3 DEF InMysqlType
  <2>2. paid \in Order BY <2>1 DEF Order
  <2>3. m \in InMysqlType BY <1>2, <2>2 DEF InMysqlType
  <2>4. mysql' = [mysql EXCEPT ![a] = m]
    <3> DEFINE pay == [old.order EXCEPT !.status = "PAID"]
    <3>1. mysql' = [mysql EXCEPT ![a] = [old EXCEPT !.order = pay]] BY <1>3 DEF PayOrder
    <3>2. pay = paid BY <2>1 DEF Order
    <3> HIDE DEF pay, paid
    <3>3. [old EXCEPT !.order = paid] = m BY <1>2 DEF InMysqlType
    <3> QED BY <3>1, <3>2, <3>3
  <2>5. StoreHolds(redis[a], m, Pace) BY <1>2 DEF StoreHolds
  <2>6. StoresInv' /\ KeysKept BY <1>1, <1>2, <2>3, <2>4, <2>5, MysqlWrite DEF Driven
  <2>7. PICK t : task' = [task EXCEPT ![i] = t] /\ Place(t) /\ t.pc = "done" BY <1>1 DEF Moves
  <2>8. CallHolds(Call(i), t, redis'[a], mysql'[a]) BY <2>7 DEF CallHolds
  <2> QED BY <1>1, <2>6, <2>7, <2>8, HandlerWrites DEF sockets
<1>4. CASE ~ Due
  <2>1. UNCHANGED mysql BY <1>4 DEF PayOrder
  <2>2. RoomsInv' BY <1>1, RoomsStay DEF Driven, sockets
  <2> QED BY <1>1, <2>1, <2>2, HandlerReads DEF stores
<1> QED BY <1>3, <1>4

----
(* A bid for a running auction leaves one that may be held in Redis. *)
LEMMA BidLives ==
  ASSUME NEW a \in Auctions, NEW u \in Bidders, NEW x \in Nat, now \in Nat,
         Live(redis[a].hash), redis[a].hash.status = "RUNNING"
  PROVE  Live(Keys(a)!AfterBid(redis[a].hash, u, x))
<1> DEFINE s == redis[a].hash
           won == Keys(a)!AfterBid(s, u, x)
           price == Keys(a)!AcceptedPrice(s, x)
           status == IF price < s.rules.cap THEN "RUNNING" ELSE "SOLD"
           endAt == IF Keys(a)!Extends(s, x) THEN s.endAt + s.rules.ext ELSE s.endAt
           version == s.version + 1
<1>1. s \in State /\ s.endAt > 0 BY DEF Live
<1>2. s.rules.cap \in Nat /\ s.rules.ext \in Nat BY <1>1, RulesAreTerms DEF State, Terms
<1>3. price \in Nat BY <1>2 DEF Keys!AcceptedPrice
<1>4. endAt \in Nat /\ endAt > 0 BY <1>1, <1>2 DEF State
<1>5. status \in {"RUNNING", "SOLD"} OBVIOUS
<1>6. won = [s EXCEPT !.status = status, !.price = price, !.leader = u, !.endAt = endAt,
                      !.version = version]
  BY DEF Keys!AfterBid
<1>7. version \in Nat BY <1>1 DEF State
<1> HIDE DEF status, price, endAt, version, won
<1>8. /\ won \in State /\ won.status = status /\ won.endAt = endAt /\ won.leader = u
  BY <1>1, <1>3, <1>4, <1>5, <1>6, <1>7 DEF State
<1> QED BY <1>4, <1>5, <1>8 DEF Live, Draft, won

(* placeBid reads the state its script left. *)
LEMMA BidReadsKeeps ==
  ASSUME BenchInv, NEW i \in DOMAIN task, BidReads(i) PROVE BenchInv'
<1> DEFINE a == Call(i).on
           t == [task[i] EXCEPT !.pc = "commit", !.won = redis[a].hash]
<1>1. Call(i).kind = "bid" /\ task[i].pc = "read" /\ UNCHANGED <<Driven, stores, sockets>>
  BY DEF BidReads, At
<1>2. redis[a].hash # NoHash /\ StoreHolds(redis[a], mysql[a], Pace) BY <1>1, AtCall DEF CallHolds
<1>3. task' = [task EXCEPT ![i] = t] BY AtCall DEF BidReads
<1>4. StoresInv' /\ KeysKept BY <1>1, StoresStay DEF Driven
<1>5. CallHolds(Call(i), t, redis'[a], mysql'[a])
  BY <1>1, <1>2, AtCall DEF CallHolds, StoreHolds, Place, stores
<1> QED BY <1>1, <1>3, <1>4, <1>5, HandlerWrites DEF stores, sockets

(* The bid script. *)
LEMMA BidScriptKeeps ==
  ASSUME BenchInv, NEW i \in DOMAIN task, BidScript(i) PROVE BenchInv'
<1> DEFINE a == Call(i).on
           u == Call(i).user
           x == Call(i).amount
           code == Keys(a)!BidCode(RequestId(i), u, x)
           won == Keys(a)!AfterBid(redis[a].hash, u, x)
           note == IF Keys(a)!Extends(redis[a].hash, x) THEN "extended" ELSE "plain"
<1>1. Call(i).kind = "bid" /\ UNCHANGED <<Driven, mysql, settling, sockets>> BY DEF BidScript, At
<1>2. /\ a \in Auctions /\ mysql[a] \in InMysqlType /\ redis[a] \in InRedisType
      /\ StoreHolds(redis[a], mysql[a], Pace)
      /\ u \in Bidders /\ x \in Nat /\ Call(i).req \in Nat /\ i \in Nat
  BY <1>1, AtCall DEF CallSays
<1>3. \/ /\ code = "MISSING" /\ mysql[a].row.endAt # 0
         /\ redis' = [redis EXCEPT ![a].hash = mysql[a].row]
         /\ task' = [task EXCEPT ![i].prev = mysql[a].row.leader]
      \/ /\ code = "ACCEPTED"
         /\ redis' = [redis EXCEPT ![a].hash = won, ![a].board[u] = won.price,
                                   ![a].keys = @ \cup {RequestId(i)}]
         /\ task' = [task EXCEPT ![i].pc = "read", ![i].answer.note = note]
      \/ Answers(i, "ok", "duplicate", Snapshot(a)) /\ UNCHANGED redis
      \/ Refuses(i) /\ UNCHANGED redis
  BY DEF BidScript
<1>5. ASSUME code = "MISSING", mysql[a].row.endAt # 0,
             redis' = [redis EXCEPT ![a].hash = mysql[a].row],
             task' = [task EXCEPT ![i].prev = mysql[a].row.leader]
      PROVE  BenchInv'
  <2> DEFINE r == [redis[a] EXCEPT !.hash = mysql[a].row]
             t == [task[i] EXCEPT !.prev = mysql[a].row.leader]
  <2>1. redis[a].hash = NoHash BY <1>5 DEF Keys!BidCode
  <2>2. mysql[a].row \in State BY <1>2 DEF InMysqlType
  <2>3. Live(mysql[a].row) BY <1>2, <1>5, <2>1, <2>2 DEF StoreHolds, Live
  <2>4. redis' = [redis EXCEPT ![a] = r] BY <1>5
  <2>5. r \in InRedisType /\ r.hash = mysql[a].row /\ r.hash # NoHash
    BY <1>2, <2>2, PutHash, KeysHoldState
  <2> HIDE DEF r
  <2>6. StoreHolds(r, mysql[a], Pace) BY <1>2, <2>3, <2>5 DEF StoreHolds, Live
  <2>7. StoresInv' /\ KeysKept BY <1>1, <1>2, <2>4, <2>5, <2>6, RedisWrite DEF Driven
  <2>8. task' = [task EXCEPT ![i] = t] BY <1>5, AtCall
  <2>9. task[i].pc = "script" BY DEF BidScript, At
  <2>10. CallHolds(Call(i), t, redis'[a], mysql'[a]) BY <1>1, <2>9, AtCall DEF CallHolds, Place
  <2> QED BY <1>1, <2>7, <2>8, <2>10, HandlerWrites DEF sockets
<1>6. ASSUME code = "ACCEPTED",
             redis' = [redis EXCEPT ![a].hash = won, ![a].board[u] = won.price,
                                    ![a].keys = @ \cup {RequestId(i)}],
             task' = [task EXCEPT ![i].pc = "read", ![i].answer.note = note]
      PROVE  BenchInv'
  <2> DEFINE scores == [redis[a].board EXCEPT ![u] = won.price]
             known == redis[a].keys \cup {RequestId(i)}
             r == [redis[a] EXCEPT !.hash = won, !.board = scores, !.keys = known]
             t == [task[i] EXCEPT !.pc = "read", !.answer.note = note]
  <2>1. redis[a].hash # NoHash /\ redis[a].hash.status = "RUNNING" BY <1>6 DEF Keys!BidCode
  <2>2. Live(redis[a].hash) BY <1>2, <2>1 DEF StoreHolds
  <2>3. Live(won) BY <1>2, <2>1, <2>2, BidLives DEF BenchInv, DriverInv
  <2>4. won \in State /\ won.price \in Nat BY <2>3 DEF Live, State
  <2>5. RequestId(i) \in Nat
    <3>1. step \in Nat BY DEF BenchInv, DriverInv
    <3> QED BY <1>2, <3>1 DEF RequestId
  <2> HIDE DEF won, note
  <2>6. redis' = [redis EXCEPT ![a] = r] BY <1>6
  <2>7. scores \in [Bidders -> Nat] /\ known \in SUBSET Nat BY <1>2, <2>4, <2>5 DEF InRedisType
  <2> HIDE DEF scores, known
  <2>8. r \in InRedisType /\ r.hash = won /\ r.hash # NoHash
    BY <1>2, <2>4, <2>7, KeysHoldState DEF InRedisType
  <2> HIDE DEF r
  <2>9. StoreHolds(r, mysql[a], Pace) BY <1>2, <2>1, <2>3, <2>8 DEF StoreHolds
  <2>10. StoresInv' /\ KeysKept BY <1>1, <1>2, <2>6, <2>8, <2>9, RedisWrite DEF Driven
  <2>11. task' = [task EXCEPT ![i] = t] BY <1>6, AtCall
  <2>12. redis'[a].hash # NoHash BY <1>2, <2>1, <2>10 DEF KeysKept
  <2>13. CallHolds(Call(i), t, redis'[a], mysql'[a]) BY <1>1, <2>12, AtCall DEF CallHolds, Place
  <2> QED BY <1>1, <2>10, <2>11, <2>13, HandlerWrites DEF sockets
<1>7. ASSUME Answers(i, "ok", "duplicate", Snapshot(a)) \/ Refuses(i), UNCHANGED redis PROVE BenchInv'
  <2>1. Moves(i, "done") BY <1>7, AnswerMoves
  <2>2. RoomsInv' BY <1>1, RoomsStay DEF Driven, sockets
  <2> QED BY <1>1, <1>7, <2>1, <2>2, HandlerReads DEF stores
<1> QED BY <1>3, <1>5, <1>6, <1>7

(* The score a user gets back from his bids. *)
LEMMA TopIsScore ==
  ASSUME NEW bids \in SUBSET (Nat \X Bidders), NEW v, HasTop(Own(bids, v))
  PROVE  Top({e \in bids : e[2] = v})[1] \in Nat
<1> DEFINE own == {e \in bids : e[2] = v}
<1>1. CASE own = {} BY <1>1 DEF Top
<1>2. CASE own # {}
  <2>1. PICK e \in own : \A f \in own : f[1] <= e[1] BY <1>2 DEF HasTop, Own
  <2>2. Top(own) = CHOOSE d \in own : \A f \in own : f[1] <= d[1] BY <1>2 DEF Top
  <2>3. Top(own) \in own BY <2>1, <2>2
  <2> QED BY <2>3
<1> QED BY <1>1, <1>2

(* One more bid, and each user still has a highest one. *)
LEMMA TopAfterBid ==
  ASSUME NEW bids \in SUBSET (Nat \X Bidders), NEW p \in Nat, NEW u \in Bidders, NEW v \in Bidders,
         HasTop(Own(bids, v))
  PROVE  HasTop(Own(bids \cup {<<p, u>>}, v))
<1> DEFINE own == Own(bids, v)
           new == Own(bids \cup {<<p, u>>}, v)
<1>1. CASE u # v
  <2>1. new = own BY <1>1 DEF Own
  <2> QED BY <2>1
<1>2. CASE u = v
  <2>1. new = own \cup {<<p, u>>} BY <1>2 DEF Own
  <2>2. \A e \in own : e[1] \in Nat BY DEF Own
  <2>3. CASE own = {}
    <3> HIDE DEF own, new
    <3>1. \A f \in new : f[1] <= <<p, u>>[1] BY <2>1, <2>3
    <3> QED BY <2>1, <3>1 DEF HasTop, new
  <2>4. CASE own # {}
    <3>1. PICK e \in own : \A f \in own : f[1] <= e[1] BY <2>4 DEF HasTop
    <3> HIDE DEF own, new
    <3>2. CASE p <= e[1]
      <4>1. \A f \in new : f[1] <= e[1] BY <2>1, <3>1, <3>2
      <4> QED BY <2>1, <4>1 DEF HasTop, new
    <3>3. CASE ~ (p <= e[1])
      <4>1. \A f \in new : f[1] <= <<p, u>>[1] BY <2>1, <2>2, <3>1, <3>3
      <4> QED BY <2>1, <4>1 DEF HasTop, new
    <3> QED BY <3>2, <3>3
  <2> QED BY <2>3, <2>4
<1> QED BY <1>1, <1>2

(* The undo of a bid whose order fails, by a driver that lets no time pass. *)
LEMMA BidUndone ==
  ASSUME BenchInv, NEW i \in DOMAIN task, BidCommits(i),
         task[i].won.status = "SOLD", Driver(script).failOrder
  PROVE  BenchInv'
<1> DEFINE a == Call(i).on
           old == mysql[a]
           scores == [v \in Bidders |-> Top({e \in old.bids : e[2] = v})[1]]
           known == redis[a].keys \ {RequestId(i)}
           r == [hash |-> old.row, board |-> scores, keys |-> known]
<1>1. /\ Call(i).kind = "bid" /\ task[i].pc = "commit"
      /\ UNCHANGED <<Driven, mysql, settling, sockets>>
      /\ redis' = [redis EXCEPT ![a] = r] /\ Fails(i)
  BY DEF BidCommits, At
<1>2. /\ a \in Auctions /\ old \in InMysqlType /\ redis[a] \in InRedisType
      /\ StoreHolds(redis[a], old, Pace) /\ redis[a].hash # NoHash
  BY <1>1, AtCall DEF CallHolds
<1>3. Pace = "still"
  <2>1. WellFormed(Driver(script), Pace)
    BY DriversSpeak, ScriptsAssumption DEF BenchInv, DriverInv, Pace
  <2> QED BY <2>1 DEF WellFormed
<1>4. old.row \in State /\ old.bids \in SUBSET (Nat \X Bidders) BY <1>2 DEF InMysqlType
<1>5. old.row # NoHash /\ Live(old.row) BY <1>2, <1>3, <1>4, KeysHoldState DEF StoreHolds, Live
<1>6. scores \in [Bidders -> Nat]
  <2>1. \A v \in Bidders : Top({e \in old.bids : e[2] = v})[1] \in Nat
    BY <1>2, <1>4, TopIsScore DEF StoreHolds
  <2> QED BY <2>1
<1>7. known \in SUBSET Nat BY <1>2 DEF InRedisType
<1> HIDE DEF scores, known
<1>8. r \in InRedisType /\ r.hash = old.row BY <1>4, <1>6, <1>7 DEF InRedisType
<1> HIDE DEF r
<1>9. StoreHolds(r, old, Pace) BY <1>2, <1>5, <1>8 DEF StoreHolds, Live
<1>10. StoresInv' /\ KeysKept BY <1>1, <1>2, <1>5, <1>8, <1>9, RedisWrite DEF Driven
<1>11. PICK t : task' = [task EXCEPT ![i] = t] /\ Place(t) /\ t.pc = "done"
  BY <1>1, AnswerMoves DEF Moves
<1>12. CallHolds(Call(i), t, redis'[a], mysql'[a]) BY <1>11 DEF CallHolds
<1> QED BY <1>1, <1>10, <1>11, <1>12, HandlerWrites DEF sockets

(* The transaction of a bid. *)
LEMMA BidCommitted ==
  ASSUME BenchInv, NEW i \in DOMAIN task, BidCommits(i),
         ~ (task[i].won.status = "SOLD" /\ Driver(script).failOrder)
  PROVE  BenchInv'
<1> DEFINE a == Call(i).on
           u == Call(i).user
           won == task[i].won
           old == mysql[a]
           row == Newer(old.row, won)
           bids == old.bids \cup {<<won.price, u>>}
           order == OrderOf(old.order, won, u)
           m == [row |-> row, bids |-> bids, order |-> order]
<1>1. /\ Call(i).kind = "bid" /\ task[i].pc = "commit"
      /\ UNCHANGED <<Driven, redis, settling, sockets>>
      /\ mysql' = [mysql EXCEPT ![a] = m] /\ Goes(i, "emit")
  BY DEF BidCommits, At
<1>2. /\ a \in Auctions /\ u \in Bidders /\ old \in InMysqlType
      /\ StoreHolds(redis[a], old, Pace) /\ redis[a].hash # NoHash /\ Live(won)
  BY <1>1, AtCall DEF CallHolds, CallSays
<1>3. won \in State /\ won.price \in Nat BY <1>2 DEF Live, State
<1>4. old.row \in State /\ old.bids \in SUBSET (Nat \X Bidders) /\ old.order \in Order \cup {Null}
  BY <1>2 DEF InMysqlType
<1>5. row \in State /\ (row = old.row \/ row = won) BY <1>3, <1>4 DEF Newer
<1>6. bids \in SUBSET (Nat \X Bidders) BY <1>2, <1>3, <1>4
<1>7. order \in Order \cup {Null} BY <1>2, <1>3, <1>4 DEF OrderOf, Order
<1>8. \A v \in Bidders : HasTop(Own(bids, v)) BY <1>2, <1>3, <1>4, TopAfterBid DEF StoreHolds
<1>9. ~ Draft(row) /\ row.endAt > 0 /\ (row.status = "SOLD" => row.leader \in Bidders \/ Pace = "timed")
  BY <1>2, <1>5 DEF StoreHolds, Live
<1> HIDE DEF row, bids, order
<1>10. m \in InMysqlType /\ m.row = row /\ m.bids = bids BY <1>5, <1>6, <1>7 DEF InMysqlType
<1> HIDE DEF m
<1>11. StoreHolds(redis[a], m, Pace) BY <1>2, <1>8, <1>9, <1>10 DEF StoreHolds
<1>12. StoresInv' /\ KeysKept BY <1>1, <1>2, <1>10, <1>11, MysqlWrite DEF Driven
<1>13. PICK t : task' = [task EXCEPT ![i] = t] /\ Place(t) /\ t.pc = "emit"
  BY <1>1, AnswerMoves DEF Moves
<1>14. CallHolds(Call(i), t, redis'[a], mysql'[a]) BY <1>1, <1>13 DEF CallHolds
<1> QED BY <1>1, <1>12, <1>13, <1>14, HandlerWrites DEF sockets

(* cancel() in Redis, of an auction that runs. *)
LEMMA CancelScriptKeeps ==
  ASSUME BenchInv, NEW i \in DOMAIN task, CancelScript(i) PROVE BenchInv'
<1> DEFINE a == Call(i).on
           old == redis[a].hash
           version == old.version + 1
           s == [old EXCEPT !.status = "CANCELLED", !.reason = "given", !.version = version]
           r == [redis[a] EXCEPT !.hash = s]
           Cancelled == mysql[a].row.status = "RUNNING" /\ Keys(a)!CancelCode = "CANCELLED"
<1>1. Call(i).kind = "cancel" /\ UNCHANGED <<Driven, mysql, settling, sockets>>
  BY DEF CancelScript, At
<1>2. /\ a \in Auctions /\ redis[a] \in InRedisType /\ mysql[a] \in InMysqlType
      /\ StoreHolds(redis[a], mysql[a], Pace)
  BY <1>1, AtCall
<1>3. CASE Cancelled
  <2>1. old # NoHash BY <1>3 DEF Keys!CancelCode
  <2>2. Live(old) BY <1>2, <2>1 DEF StoreHolds
  <2>3. old \in State /\ old.endAt > 0 /\ version \in Nat BY <2>2 DEF Live, State
  <2>4. /\ redis' = [redis EXCEPT ![a].hash.status = "CANCELLED", ![a].hash.reason = "given",
                                  ![a].hash.version = @ + 1]
        /\ task' = [task EXCEPT ![i].pc = "row", ![i].won = redis'[a].hash]
    BY <1>3 DEF CancelScript
  <2>5. redis' = [redis EXCEPT ![a] = r] BY <2>4
  <2> HIDE DEF version
  <2>6. s \in State /\ s.status = "CANCELLED" /\ s.endAt = old.endAt BY <2>3 DEF State
  <2> HIDE DEF s
  <2>7. Live(s) /\ s # NoHash BY <2>3, <2>6, KeysHoldState DEF Live, Draft
  <2>8. r \in InRedisType /\ r.hash = s BY <1>2, <2>6, PutHash
  <2> HIDE DEF r
  <2>9. StoreHolds(r, mysql[a], Pace) BY <1>2, <2>1, <2>7, <2>8 DEF StoreHolds
  <2>10. StoresInv' /\ KeysKept BY <1>1, <1>2, <2>5, <2>7, <2>8, <2>9, RedisWrite DEF Driven
  <2>11. redis'[a] = r BY <1>2, <2>5 DEF BenchInv, StoresInv
  <2> DEFINE t == [task[i] EXCEPT !.pc = "row", !.won = s]
  <2>12. task' = [task EXCEPT ![i] = t]
    <3>1. redis'[a].hash = s BY <2>8, <2>11
    <3>2. task' = [task EXCEPT ![i].pc = "row", ![i].won = s] BY <2>4, <3>1
    <3> QED BY <3>2
  <2>13. CallHolds(Call(i), t, redis'[a], mysql'[a])
    BY <1>1, <2>7, <2>8, <2>11, AtCall DEF CallHolds, Place
  <2> QED BY <1>1, <2>10, <2>12, <2>13, HandlerWrites DEF sockets
<1>4. CASE ~ Cancelled
  <2>1. Moves(i, "done") /\ UNCHANGED redis BY <1>4, AnswerMoves DEF CancelScript
  <2>2. RoomsInv' BY <1>1, RoomsStay DEF Driven, sockets
  <2> QED BY <1>1, <2>1, <2>2, HandlerReads DEF stores
<1> QED BY <1>3, <1>4

(* cancel() in MySQL. *)
LEMMA CancelRowKeeps ==
  ASSUME BenchInv, NEW i \in DOMAIN task, CancelRow(i) PROVE BenchInv'
<1> DEFINE a == Call(i).on
           old == mysql[a]
           version == task[i].won.version
           s == [old.row EXCEPT !.status = "CANCELLED", !.reason = "given", !.version = version]
           m == [old EXCEPT !.row = s]
<1>1. /\ Call(i).kind = "cancel" /\ task[i].pc = "row"
      /\ UNCHANGED <<Driven, redis, settling, sockets>> /\ Goes(i, "emit")
  BY DEF CancelRow, At
<1>2. /\ a \in Auctions /\ old \in InMysqlType /\ StoreHolds(redis[a], old, Pace)
      /\ redis[a].hash # NoHash /\ Live(task[i].won)
  BY <1>1, AtCall DEF CallHolds
<1>3. \/ mysql' = mysql
      \/ mysql' = [mysql EXCEPT ![a].row.status = "CANCELLED", ![a].row.reason = "given",
                                ![a].row.version = task[i].won.version]
  BY DEF CancelRow
<1>4. StoresInv' /\ KeysKept
  <2>1. CASE mysql' = mysql BY <1>1, <2>1, StoresStay DEF Driven, stores
  <2>2. CASE mysql' = [mysql EXCEPT ![a].row.status = "CANCELLED", ![a].row.reason = "given",
                                    ![a].row.version = task[i].won.version]
    <3>1. mysql' = [mysql EXCEPT ![a] = m] BY <2>2
    <3>2. old.row \in State /\ version \in Nat BY <1>2 DEF InMysqlType, Live, State
    <3> HIDE DEF version
    <3>3. s \in State /\ s.status = "CANCELLED" /\ s.endAt = old.row.endAt BY <3>2 DEF State
    <3> HIDE DEF s
    <3>4. m \in InMysqlType /\ m.row = s /\ m.bids = old.bids BY <1>2, <3>3, PutRow
    <3> HIDE DEF m
    <3>5. StoreHolds(redis[a], m, Pace) BY <1>2, <3>3, <3>4 DEF StoreHolds, Draft
    <3> QED BY <1>1, <1>2, <3>1, <3>4, <3>5, MysqlWrite DEF Driven
  <2> QED BY <1>3, <2>1, <2>2
<1>5. PICK t : task' = [task EXCEPT ![i] = t] /\ Place(t) /\ t.pc = "emit"
  BY <1>1, AnswerMoves DEF Moves
<1>6. CallHolds(Call(i), t, redis'[a], mysql'[a]) BY <1>1, <1>5 DEF CallHolds
<1> QED BY <1>1, <1>4, <1>5, <1>6, HandlerWrites DEF sockets

(* Every step of every handler keeps BenchInv. *)
LEMMA HandlersKeep ==
  ASSUME BenchInv, NEW i \in DOMAIN task, Handle(i) PROVE BenchInv'
<1>1. CASE BidCommits(i) BY <1>1, BidUndone, BidCommitted
<1>2. CASE \/ StartRow(i) \/ StartRedis(i) \/ UpdateRow(i) \/ PayOrder(i)
           \/ BidScript(i) \/ BidReads(i) \/ CancelScript(i) \/ CancelRow(i)
  BY <1>2, StartRowKeeps, StartRedisKeeps, UpdateRowKeeps, PayOrderKeeps, BidScriptKeeps,
     BidReadsKeeps, CancelScriptKeeps, CancelRowKeeps
<1>3. CASE \/ ReadStore(i) \/ PollEnds(i) \/ EventHeard(i) \/ SnapshotHeard(i) \/ BidReplies(i)
           \/ BidBegins(i) \/ EnterRoom(i) \/ SendSnapshot(i) \/ BidEmits(i) \/ CancelEmits(i)
  BY <1>3, ReadersKeep, JoinsKeep, EmittersKeep
<1> QED BY <1>1, <1>2, <1>3 DEF Handle

----
(* The settlement, which writes only where Redis has the auction. *)
LEMMA SettlementKeeps ==
  ASSUME BenchInv, UNCHANGED <<driver, now, down, room>>, StoresInv', KeysKept,
         settling' \subseteq settling \/ Pace = "timed",
         \A b \in Auctions : redis[b].hash = NoHash => redis'[b] = redis[b] /\ mysql'[b] = mysql[b]
  PROVE  BenchInv'
<1>1. UNCHANGED Driven BY DEF driver, Driven
<1>2. DriverInv' BY <1>1, SameDriver DEF BenchInv, DriverInv, Driven
<1>3. RoomsInv' BY RoomsStay DEF driver
<1>4. TaskInv'
  <2> SUFFICES ASSUME task # <<>> PROVE TaskInv' BY DEF TaskInv, driver
  <2>1. ~Finished /\ Current.op = "calls" /\ DOMAIN task = DOMAIN Current.calls
    BY DEF BenchInv, TaskInv
  <2>2. Finished' = Finished /\ Current' = Current /\ task' = task
    BY SameDriver DEF Finished, Current, driver
  <2>3. ASSUME NEW j \in DOMAIN task
        PROVE  CallHolds(Call(j), task[j], redis'[Call(j).on], mysql'[Call(j).on])
    <3>1. CallSays(j) /\ CallHolds(Call(j), task[j], redis[Call(j).on], mysql[Call(j).on]) BY AtCall
    <3>2. Call(j).kind \in {"bid", "cancel", "start"} => Call(j).on \in Auctions
      BY <3>1 DEF CallSays
    <3> QED BY <3>1, <3>2 DEF CallHolds, KeysKept
  <2>4. \A j : Call(j)' = Call(j) BY <2>2 DEF Call
  <2> QED BY <2>1, <2>2, <2>3, <2>4 DEF TaskInv
<1> QED BY <1>2, <1>3, <1>4 DEF BenchInv

(* The settlement in Redis. *)
LEMMA SettleScriptKeeps ==
  ASSUME BenchInv, NEW a \in Auctions, SettleScript(a) PROVE BenchInv'
<1> DEFINE old == redis[a].hash
           status == EndStatus(old)
           version == old.version + 1
           s == [old EXCEPT !.version = version, !.status = status]
           r == [redis[a] EXCEPT !.hash = s]
<1>1. /\ UNCHANGED <<driver, now, mysql, down, sockets>> /\ settling' = settling \cup {a}
      /\ redis' = [redis EXCEPT ![a].hash.version = @ + 1, ![a].hash.status = EndStatus(redis[a].hash)]
      /\ mysql[a].row.status = "RUNNING" /\ mysql[a].row.endAt <= now
  BY DEF SettleScript, Expired
<1>2. old # NoHash BY DEF SettleScript, Keys!FinishCode
<1>3. redis[a] \in InRedisType /\ mysql[a] \in InMysqlType /\ StoreHolds(redis[a], mysql[a], Pace)
  BY DEF BenchInv, StoresInv
<1>4. Live(old) BY <1>2, <1>3 DEF StoreHolds
<1>5. old \in State /\ old.endAt > 0 /\ version \in Nat BY <1>4 DEF Live, State
<1>6. status \in {"UNSOLD", "SOLD"} /\ (status = "SOLD" => old.leader \in Bidders)
  BY <1>5 DEF EndStatus, State
<1>7. redis' = [redis EXCEPT ![a] = r] BY <1>1
<1> HIDE DEF status, version
<1>8. s \in State /\ s.status = status /\ s.endAt = old.endAt /\ s.leader = old.leader
  BY <1>5, <1>6 DEF State
<1> HIDE DEF s
<1>9. Live(s) /\ s # NoHash BY <1>5, <1>6, <1>8, KeysHoldState DEF Live, Draft
<1>10. r \in InRedisType /\ r.hash = s BY <1>3, <1>8, PutHash
<1> HIDE DEF r
<1>11. StoreHolds(r, mysql[a], Pace) BY <1>2, <1>3, <1>9, <1>10 DEF StoreHolds
<1>12. StoresInv' /\ KeysKept BY <1>1, <1>7, <1>9, <1>10, <1>11, RedisWrite DEF driver
<1>13. Pace = "timed"
  <2>1. mysql[a].row.endAt > 0 BY <1>1, <1>3 DEF StoreHolds, Draft
  <2>2. mysql[a].row.endAt \in Nat /\ now \in Nat
    BY <1>3 DEF InMysqlType, State, BenchInv, DriverInv
  <2>3. Pace # "still" BY <1>1, <2>1, <2>2 DEF BenchInv, DriverInv
  <2> QED BY <2>3 DEF Pace, PaceOf
<1>14. \A b \in Auctions : redis[b].hash = NoHash => redis'[b] = redis[b]
  BY <1>2, <1>7 DEF BenchInv, StoresInv
<1> QED BY <1>1, <1>12, <1>13, <1>14, SettlementKeeps DEF sockets

(* The settlement in MySQL, with the order of a sale. *)
LEMMA SettleRowKeeps ==
  ASSUME BenchInv, NEW a \in Auctions, SettleRow(a) PROVE BenchInv'
<1> DEFINE state == redis[a].hash
           old == mysql[a]
           s == [old.row EXCEPT !.status = state.status, !.version = state.version]
           row == IF old.row.version < state.version THEN s ELSE old.row
           priced == [state EXCEPT !.price = old.row.price]
           order == IF state.status = "SOLD" THEN OrderOf(old.order, priced, state.leader) ELSE old.order
           m == [old EXCEPT !.row = row, !.order = order]
<1>1. /\ UNCHANGED <<driver, now, redis, down, room>> /\ a \in settling /\ settling' = settling \ {a}
      /\ mysql' = [mysql EXCEPT
           ![a].row = IF @.version < state.version
                      THEN [@ EXCEPT !.status = state.status, !.version = state.version] ELSE @,
           ![a].order = IF state.status = "SOLD" THEN OrderOf(@, [state EXCEPT !.price = old.row.price], state.leader)
                        ELSE @]
  BY DEF SettleRow
<1>2. /\ redis[a] \in InRedisType /\ old \in InMysqlType /\ StoreHolds(redis[a], old, Pace)
      /\ state # NoHash
  BY <1>1 DEF BenchInv, StoresInv
<1>3. Live(state) BY <1>2 DEF StoreHolds
<1>4. /\ state \in State /\ state.version \in Nat
      /\ state.status \in {"RUNNING", "SOLD", "UNSOLD", "CANCELLED"}
  BY <1>3 DEF Live, Draft, State
<1>5. /\ old.row \in State /\ old.row.price \in Nat /\ old.order \in Order \cup {Null}
      /\ ~ Draft(old.row) /\ old.row.endAt > 0
  BY <1>2 DEF InMysqlType, State, StoreHolds
<1>6. s \in State /\ s.status = state.status /\ s.endAt = old.row.endAt BY <1>4, <1>5 DEF State
<1>7. mysql' = [mysql EXCEPT ![a] = m] BY <1>1
<1>8. Pace = "timed"
  <2>1. Pace # "still" BY <1>1 DEF BenchInv, DriverInv
  <2> QED BY <2>1 DEF Pace, PaceOf
<1>9. order \in Order \cup {Null}
  <2>1. CASE state.status = "SOLD"
    <3>1. state.leader \in Bidders BY <1>3, <2>1 DEF Live
    <3>2. priced.price \in Nat BY <1>4, <1>5 DEF State
    <3> QED BY <1>5, <2>1, <3>1, <3>2 DEF OrderOf, Order
  <2>2. CASE state.status # "SOLD" BY <1>5, <2>2
  <2> QED BY <2>1, <2>2
<1> HIDE DEF s
<1>10. row \in State /\ ~ Draft(row) /\ row.endAt > 0 BY <1>4, <1>5, <1>6 DEF Draft
<1> HIDE DEF row, order
<1>11. m \in InMysqlType /\ m.row = row /\ m.bids = old.bids BY <1>2, <1>9, <1>10 DEF InMysqlType
<1> HIDE DEF m
<1>12. StoreHolds(redis[a], m, Pace) BY <1>2, <1>8, <1>10, <1>11 DEF StoreHolds
<1>13. StoresInv' /\ KeysKept BY <1>1, <1>7, <1>11, <1>12, MysqlWrite DEF driver
<1>14. \A b \in Auctions : redis[b].hash = NoHash => mysql'[b] = mysql[b]
  BY <1>2, <1>7 DEF BenchInv, StoresInv
<1> QED BY <1>1, <1>13, <1>14, SettlementKeeps

----
(* The driver makes the calls of its step. *)
LEMMA MakeCallsKeeps == ASSUME BenchInv, MakeCalls PROVE BenchInv'
<1>1. UNCHANGED <<script, step, elapsed, answers, now, stores, down, sockets>> /\ ~Finished /\ Current.op = "calls"
  BY DEF MakeCalls
<1>2. StoresInv' /\ RoomsInv' BY <1>1, StoresStay, RoomsStay DEF sockets
<1>3. DriverInv' BY <1>1, DriverStays DEF Driven, stores
<1>4. Finished' = Finished /\ Current' = Current BY <1>1, SameDriver DEF Finished, Current
<1>5. /\ DOMAIN task' = DOMAIN Current.calls
      /\ \A j \in DOMAIN task' : Place(task'[j]) /\ task'[j].pc = "new"
  BY DEF MakeCalls, Place
<1>6. \A j \in DOMAIN task' : CallHolds(Call(j), task'[j], redis'[Call(j).on], mysql'[Call(j).on])
  BY <1>5 DEF CallHolds
<1>7. \A j : Call(j)' = Call(j) BY <1>4 DEF Call
<1>8. TaskInv' BY <1>1, <1>4, <1>5, <1>6, <1>7 DEF TaskInv
<1> QED BY <1>2, <1>3, <1>8 DEF BenchInv

(* The driver goes on to its next step. *)
LEMMA NextStepKeeps ==
  ASSUME BenchInv, ~Finished, UNCHANGED <<script, now, settling>>, step' = step + 1, elapsed' = 0,
         task' = <<>>, down' \subseteq {"mysql", "redis"}, StoresInv', RoomsInv'
  PROVE  BenchInv'
<1>1. step' \in 1 .. Len(Steps)' + 1 BY CurrentStep, SameDriver DEF BenchInv
<1>2. DriverInv' BY <1>1, SameDriver DEF BenchInv, DriverInv
<1>3. TaskInv' BY DEF TaskInv
<1> QED BY <1>2, <1>3 DEF BenchInv

(* The steps of the driver itself. *)
LEMMA StepsKeep ==
  ASSUME BenchInv, CallsReturn \/ Wakes \/ Closes \/ Stops \/ Restarts PROVE BenchInv'
<1>1. CASE CallsReturn
  <2>1. ~Finished BY <1>1 DEF CallsReturn, BenchInv, TaskInv
  <2>2. /\ UNCHANGED <<script, now, stores, down, sockets>> /\ step' = step + 1 /\ elapsed' = 0
        /\ task' = <<>>
    BY <1>1 DEF CallsReturn
  <2>3. StoresInv' /\ RoomsInv' BY <2>2, StoresStay, RoomsStay DEF sockets
  <2> QED BY <2>1, <2>2, <2>3, NextStepKeeps DEF BenchInv, DriverInv, stores
<1>2. ASSUME NEW op, Advances(op), op # "calls"
      PROVE  /\ ~Finished /\ step' = step + 1 /\ elapsed' = 0 /\ task = <<>> /\ Current.op = op
             /\ Grammatical(Current, Driver(script).auctions, Pace)
  BY <1>2, CurrentStep DEF Advances, BenchInv, TaskInv
<1>3. CASE Wakes
  <2>1. Advances("sleep") /\ UNCHANGED <<script, task, answers, now, stores, down, sockets>>
    BY <1>3 DEF Wakes
  <2>2. StoresInv' /\ RoomsInv' BY <2>1, StoresStay, RoomsStay DEF sockets
  <2> QED BY <1>2, <2>1, <2>2, NextStepKeeps DEF BenchInv, DriverInv, stores
<1>4. CASE Closes
  <2>1. /\ Advances("close") /\ UNCHANGED <<script, task, answers, now, stores, down, heard>>
        /\ room' = [room EXCEPT ![Current.socket] = [on |-> 0, user |-> NoUser]]
    BY <1>4 DEF Closes
  <2>2. StoresInv' BY <2>1, StoresStay
  <2>3. RoomsInv' BY <2>1, SameDriver DEF BenchInv, RoomsInv
  <2> QED BY <1>2, <2>1, <2>2, <2>3, NextStepKeeps DEF BenchInv, DriverInv, stores
<1>5. CASE Stops
  <2>1. /\ Advances("stop") /\ UNCHANGED <<script, task, answers, now, stores, sockets>>
        /\ down' = down \cup {Current.store}
    BY <1>5 DEF Stops
  <2>2. StoresInv' /\ RoomsInv' BY <2>1, StoresStay, RoomsStay DEF sockets
  <2>3. Current.store \in {"mysql", "redis"} BY <1>2, <2>1 DEF Grammatical
  <2> QED BY <1>2, <2>1, <2>2, <2>3, NextStepKeeps DEF BenchInv, DriverInv, stores
<1>6. CASE Restarts
  <2>1. /\ Advances("restart") /\ UNCHANGED <<script, task, answers, now, mysql, settling, sockets>>
        /\ down' = down \ {Current.store}
        /\ \/ redis' = redis
           \/ /\ Current.store = "redis"
              /\ redis' = [a \in Auctions |-> [hash |-> NoHash, board |-> NobodyYet, keys |-> {}]]
    BY <1>6 DEF Restarts
  <2>2. RoomsInv' BY <2>1, RoomsStay DEF sockets
  <2>3. StoresInv'
    <3>1. CASE redis' = redis BY <2>1, <3>1, StoresStay DEF stores
    <3>2. CASE /\ Current.store = "redis"
               /\ redis' = [a \in Auctions |-> [hash |-> NoHash, board |-> NobodyYet, keys |-> {}]]
      <4>1. Pace = "still" BY <1>2, <2>1, <3>2 DEF Grammatical
      <4>2. settling = {} BY <4>1 DEF BenchInv, DriverInv
      <4>3. redis' \in [Auctions -> InRedisType] /\ \A a \in Auctions : redis'[a].hash = NoHash
        BY <3>2 DEF InRedisType, NobodyYet
      <4>4. \A a \in Auctions : StoreHolds(redis'[a], mysql[a], Pace)
        BY <4>1, <4>3 DEF BenchInv, StoresInv, StoreHolds
      <4>5. Auctions' = Auctions /\ Pace' = Pace BY <2>1, SameDriver
      <4> QED BY <2>1, <4>2, <4>3, <4>4, <4>5 DEF BenchInv, StoresInv
    <3> QED BY <2>1, <3>1, <3>2
  <2> QED BY <1>2, <2>1, <2>2, <2>3, NextStepKeeps DEF BenchInv, DriverInv
<1> QED BY <1>1, <1>3, <1>4, <1>5, <1>6

(* Time passes for a driver that sleeps or polls: a still one does neither. *)
LEMMA TickKeeps == ASSUME BenchInv, Tick PROVE BenchInv'
<1>1. /\ ~Finished /\ (Sleeps \/ Polls) /\ now' = now + 1 /\ elapsed' = elapsed + 1
      /\ UNCHANGED <<script, step, task, answers, stores, down, sockets>>
  BY DEF Tick
<1>2. StoresInv' /\ RoomsInv' BY <1>1, StoresStay, RoomsStay DEF sockets
<1>3. Pace = "timed"
  <2>1. CASE Sleeps
    <3>1. Current.op = "sleep" /\ elapsed < Current.units BY <2>1 DEF Sleeps
    <3>2. Grammatical(Current, Driver(script).auctions, Pace) BY <1>1, CurrentStep DEF BenchInv
    <3>3. elapsed \in Nat BY DEF BenchInv, DriverInv
    <3>4. Pace # "still" BY <3>1, <3>2, <3>3 DEF Grammatical
    <3> QED BY <3>4 DEF Pace, PaceOf
  <2>2. CASE Polls
    <3>1. PICK i \in DOMAIN task : At(i, "await", "new") BY <2>2 DEF Polls
    <3> QED BY <3>1, AtCall DEF At, CallSays
  <2> QED BY <1>1, <2>1, <2>2
<1>4. DriverInv' BY <1>1, <1>3, SameDriver DEF BenchInv, DriverInv
<1>5. TaskInv' BY <1>1, SameDriver DEF BenchInv, TaskInv, Finished, Current, Call, stores
<1> QED BY <1>2, <1>4, <1>5 DEF BenchInv

(* Events that arrive, and stuttering. *)
LEMMA StillKeeps ==
  ASSUME BenchInv, UNCHANGED <<driver, now, stores, down, room>> PROVE BenchInv'
<1>1. StoresInv' /\ RoomsInv' BY StoresStay, RoomsStay DEF driver
<1>2. DriverInv' BY DriverStays DEF driver, Driven, stores
<1>3. TaskInv' BY SameDriver DEF BenchInv, TaskInv, Finished, Current, Call, driver, stores
<1> QED BY <1>1, <1>2, <1>3 DEF BenchInv

(* BenchInv is inductive. *)
LEMMA NextKeeps == BenchInv /\ [Next]_vars => BenchInv'
<1> SUFFICES ASSUME BenchInv, [Next]_vars PROVE BenchInv' OBVIOUS
<1>1. CASE MakeCalls \/ Tick BY <1>1, MakeCallsKeeps, TickKeeps
<1>2. CASE CallsReturn \/ Wakes \/ Closes \/ Stops \/ Restarts BY <1>2, StepsKeep
<1>3. CASE \E i \in DOMAIN task : Handle(i) BY <1>3, HandlersKeep
<1>4. CASE \E a \in Auctions : SettleScript(a) \/ SettleRow(a)
  BY <1>4, SettleScriptKeeps, SettleRowKeeps
<1>5. CASE \E s \in Sockets : Deliver(s) BY <1>5, StillKeeps DEF Deliver
<1>6. CASE UNCHANGED vars BY <1>6, StillKeeps DEF vars, sockets
<1> QED BY <1>1, <1>2, <1>3, <1>4, <1>5, <1>6 DEF Next

(* Whatever drivers run, and however their calls, the settlement, stopped  *)
(* stores and events fall: rows, keys, bids and orders hold what they may, *)
(* an order names a buyer, and the driver is where it can be.              *)
THEOREM BenchTypeCorrect == Spec => []TypeOK
<1> QED BY InitInv, NextKeeps, TypesFollow, PTL DEF Spec
===============================================================================
