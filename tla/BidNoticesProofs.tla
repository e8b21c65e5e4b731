--------------------------- MODULE BidNoticesProofs ---------------------------
(***************************************************************************)
(* The rate limit, the snapshots and the notices of BidNotices for any     *)
(* users, calls, rules, limit and window.                                  *)
(***************************************************************************)
EXTENDS BidNotices, RedisScriptsProofs, FiniteSetTheorems, SequenceTheorems

WithState == {"commit", "hash", "board", "emit"}   \* awaits of a bid that knows its state
Accepted == {"read"} \cup WithState                \* awaits of a bid that Redis accepted

(* What a call may rely on at its await. *)
CallOK(c) ==
  /\ call[c].pc # "idle" => call[c].user \in Users
  /\ call[c].pc \in WithState => call[c].won \in AuctionState
  /\ call[c].pc \in {"board", "emit"} => call[c].head \in AuctionState

(* The price is below the cap while bids are taken, the leader on top, and  *)
(* no two scores tie.                                                      *)
PriceInv ==
  /\ hash.status \in {"RUNNING", "SOLD"}
  /\ hash.status = "RUNNING" => hash.price < hash.rules.cap
  /\ \A v \in Users : board[v] <= hash.price
  /\ hash.leader # NoUser => board[hash.leader] >= hash.price
  /\ \A v, w \in Users : v # w /\ board[v] > 0 => board[v] # board[w]

TypeInv == TypeOK /\ (\A c \in Calls : CallOK(c)) /\ PriceInv

----
(* Types *)

LEMMA InitTypes == Init => TypeInv
<1> SUFFICES ASSUME Init PROVE TypeInv OBVIOUS
<1>1. PICK r \in RuleSet :
        hash = [status |-> "RUNNING", price |-> r.start, leader |-> NoUser,
                endAt |-> MaxTime + r.duration, version |-> 1, reason |-> "none", rules |-> r]
  BY DEF Init
<1>2. r \in Rules /\ r.start < r.cap BY RulesAssumption
<1>3. hash \in AuctionState
  BY <1>1, <1>2, RateAssumption DEF AuctionState, Rules, Statuses, Reasons
<1>4. NoCall \in Call BY DEF NoCall, Call, PCs, EmptyBoard
<1>5. call \in [Calls -> Call] BY <1>4 DEF Init
<1>6. 0 \in 0 .. MaxTime BY RateAssumption, SMT
<1>7. <<>> \in Seq(0 .. MaxTime) OBVIOUS
<1>8. TypeOK
  <2>1. bucket \in [Users -> SUBSET Nat] /\ \A u \in Users : bucket[u] = {} BY DEF Init
  <2> QED BY <1>3, <1>5, <1>6, <1>7, <2>1 DEF Init, TypeOK, EmptyBoard
<1>9. \A c \in Calls : CallOK(c) BY DEF Init, CallOK, NoCall, WithState
<1>10. PriceInv BY <1>1, <1>2 DEF Init, PriceInv, EmptyBoard, Rules
<1> QED BY <1>8, <1>9, <1>10 DEF TypeInv

(* What an accepted bid does to the keys. *)
LEMMA BidRaises ==
  ASSUME TypeInv, NEW c \in Calls, NEW u \in Users, NEW amount \in Nat, AcceptBid(c, u, amount)
  PROVE  /\ hash.status = "RUNNING"
         /\ hash' \in AuctionState /\ board' \in [Users -> Nat] /\ keys' \subseteq Requests
         /\ hash'.version = hash.version + 1
         /\ PriceInv'
         /\ \A v \in Users : board[v] <= board'[v]
<1> DEFINE price == AcceptedPrice(hash, amount)
<1>1. /\ hash \in AuctionState /\ board \in [Users -> Nat] /\ keys \in SUBSET Requests
      /\ c \in Requests
  BY CallsAreRequests DEF TypeInv, TypeOK
<1>2. hash.status = "RUNNING" /\ ~ (amount < hash.price + hash.rules.inc)
  BY AcceptedBid DEF AcceptBid
<1>3. hash.price < hash.rules.cap BY <1>2 DEF TypeInv, PriceInv
<1>4. price \in Nat /\ hash.price < price BY <1>1, <1>2, <1>3, AcceptedPriceRises
<1>5. hash' \in AuctionState /\ board' \in [Users -> Nat] /\ keys' \subseteq Requests
  BY <1>1, AcceptedBidKeys
<1>6. /\ hash'.price = price /\ hash'.leader = u /\ hash'.rules = hash.rules
      /\ hash'.status = IF price < hash.rules.cap THEN "RUNNING" ELSE "SOLD"
  BY <1>1, AfterBidFields DEF AcceptBid
<1>7. hash'.version = hash.version + 1 BY <1>1 DEF AcceptBid, AfterBid, AuctionState
<1>8. board' = [board EXCEPT ![u] = price] BY DEF AcceptBid
<1> HIDE DEF price
<1>9. hash.price \in Nat /\ \A v \in Users : board[v] \in Nat /\ board[v] <= hash.price
  BY <1>1 DEF AuctionState, TypeInv, PriceInv
<1>10. \A v \in Users : board'[v] = IF v = u THEN price ELSE board[v] BY <1>1, <1>8
<1>11. PriceInv'
  <2>1. \A v, w \in Users : v # w /\ board'[v] > 0 => board'[v] # board'[w]
    <3> SUFFICES ASSUME NEW v \in Users, NEW w \in Users, v # w, board'[v] > 0
                 PROVE  board'[v] # board'[w]
      OBVIOUS
    <3>1. CASE v # u /\ w # u BY <1>10, <3>1 DEF TypeInv, PriceInv
    <3>2. CASE v = u BY <1>4, <1>9, <1>10, <3>2
    <3>3. CASE w = u BY <1>4, <1>9, <1>10, <3>3
    <3> QED BY <3>1, <3>2, <3>3
  <2> QED BY <1>4, <1>6, <1>9, <1>10, <2>1 DEF PriceInv
<1>12. \A v \in Users : board[v] <= board'[v] BY <1>4, <1>9, <1>10
<1> QED BY <1>2, <1>5, <1>7, <1>11, <1>12

(* A step that leaves the keys alone keeps what is said of them. *)
LEMMA KeysStay ==
  ASSUME TypeInv, UNCHANGED <<hash, board, keys>>
  PROVE  /\ hash' \in AuctionState /\ board' \in [Users -> Nat] /\ keys' \subseteq Requests
         /\ PriceInv'
BY DEF TypeInv, TypeOK, PriceInv

(* A step of one call replaces its record only. *)
LEMMA OneCall ==
  ASSUME TypeInv, NEW c \in Calls, NEW rec \in Call, call' = [call EXCEPT ![c] = rec],
         rec.pc # "idle" => rec.user \in Users,
         rec.pc \in WithState => rec.won \in AuctionState,
         rec.pc \in {"board", "emit"} => rec.head \in AuctionState
  PROVE  call' \in [Calls -> Call] /\ \A d \in Calls : CallOK(d)'
<1>1. call \in [Calls -> Call] BY DEF TypeInv, TypeOK
<1>2. call' \in [Calls -> Call] /\ call'[c] = rec /\ \A d \in Calls \ {c} : call'[d] = call[d]
  BY <1>1
<1>3. \A d \in Calls : CallOK(d) BY DEF TypeInv
<1>4. \A d \in Calls : CallOK(d)' BY <1>2, <1>3 DEF CallOK
<1> QED BY <1>2, <1>4

(* A leaderboard is read cut to its best entries, none of them changed.    *)
LEMMA BoardRead ==
  ASSUME TypeInv, NEW c \in Calls, ReadBoard(c), call[c].pc = "board"
  PROVE  \E S \in SUBSET Users, list \in [Users -> Nat] :
           /\ Best(board, S)
           /\ \A u \in Users : list[u] = IF u \in S THEN board[u] ELSE 0
           /\ call' = [call EXCEPT ![c].pc = "emit", ![c].list = list]
<1>1. call \in [Calls -> Call] /\ board \in [Users -> Nat] BY DEF TypeInv, TypeOK
<1>2. PICK S \in SUBSET Users :
        /\ Best(board, S)
        /\ call' = [call EXCEPT ![c].pc = IF @ = "board" THEN "emit" ELSE "board",
                                ![c].list = [u \in Users |-> IF u \in S THEN board[u] ELSE 0]]
  BY DEF ReadBoard
<1> DEFINE list == [u \in Users |-> IF u \in S THEN board[u] ELSE 0]
<1>3. list \in [Users -> Nat] /\ \A u \in Users : list[u] = IF u \in S THEN board[u] ELSE 0
  BY <1>1
<1>4. call' = [call EXCEPT ![c].pc = "emit", ![c].list = list]
  BY <1>1, <1>2 DEF Call
<1> HIDE DEF list
<1> QED BY <1>2, <1>3, <1>4

LEMMA NextTypes == TypeInv /\ [Next]_vars => TypeInv'
<1> SUFFICES ASSUME TypeInv, [Next]_vars PROVE TypeInv' OBVIOUS
<1> USE DEF vars, auction, rate, room, redisVars
<1>0. /\ TypeOK /\ call \in [Calls -> Call] /\ \A c \in Calls : call[c] \in Call /\ CallOK(c)
      /\ hash.rules.cap \in Nat
  BY RulesAssumption DEF TypeInv, TypeOK, AuctionState, Rules
<1>1. CASE UNCHANGED vars
  BY <1>1 DEF TypeInv, TypeOK, CallOK, PriceInv
<1>2. CASE ClockTicks
  <2>1. now + 1 \in 0 .. MaxTime BY <1>0, <1>2, RateAssumption DEF ClockTicks, TypeOK
  <2>2. TypeOK' BY <1>0, <1>2, <2>1 DEF ClockTicks, TypeOK
  <2> QED BY <1>2, <2>2 DEF ClockTicks, TypeInv, CallOK, PriceInv
<1>3. ASSUME NEW c \in Calls, NEW u \in Users, NEW amount \in 1 .. hash.rules.cap,
             RefuseFast(c, u, amount) \/ Admit(c, u, amount)
      PROVE  TypeInv'
  <2>0. amount \in Nat BY <1>0, <1>3
  <2>1. CASE RefuseFast(c, u, amount)
    <3> DEFINE rec == [NoCall EXCEPT !.pc = "done", !.user = u]
    <3>1. rec \in Call /\ rec.pc = "done" /\ rec.user = u BY DEF NoCall, Call, PCs, EmptyBoard
    <3>2. call' = [call EXCEPT ![c] = rec] BY <2>1 DEF RefuseFast
    <3> HIDE DEF rec
    <3>3. call' \in [Calls -> Call] /\ \A d \in Calls : CallOK(d)'
      BY <3>1, <3>2, OneCall DEF WithState
    <3>4. bucket \in [Users -> SUBSET Nat] /\ Recent(u) \subseteq bucket[u]
      BY <1>0 DEF TypeOK, Recent
    <3>5. bucket' \in [Users -> SUBSET Nat] BY <2>1, <3>4 DEF RefuseFast
    <3>6. \A v \in Users : bucket'[v] \subseteq 1 .. Len(admitted'[v])
      BY <1>0, <2>1, <3>4 DEF RefuseFast, TypeOK
    <3> QED BY <1>0, <2>1, <3>3, <3>5, <3>6, KeysStay DEF RefuseFast, TypeInv, TypeOK
  <2>2. CASE Admit(c, u, amount)
    <3> DEFINE rec == [NoCall EXCEPT !.pc = "leader", !.user = u, !.amount = amount]
    <3>1. rec \in Call /\ rec.pc = "leader" /\ rec.user = u
      BY <2>0 DEF NoCall, Call, PCs, EmptyBoard
    <3>2. call' = [call EXCEPT ![c] = rec] BY <2>2 DEF Admit
    <3> HIDE DEF rec
    <3>3. call' \in [Calls -> Call] /\ \A d \in Calls : CallOK(d)'
      BY <3>1, <3>2, OneCall DEF WithState
    <3>4. admitted[u] \in Seq(0 .. MaxTime) /\ now \in 0 .. MaxTime BY <1>0 DEF TypeOK
    <3>5. /\ Append(admitted[u], now) \in Seq(0 .. MaxTime)
          /\ Len(Append(admitted[u], now)) = Len(admitted[u]) + 1 /\ Len(admitted[u]) \in Nat
      BY <3>4, AppendProperties
    <3>6. admitted' \in [Users -> Seq(0 .. MaxTime)] BY <1>0, <2>2, <3>5 DEF Admit, TypeOK
    <3>7. bucket \in [Users -> SUBSET Nat] /\ Recent(u) \subseteq bucket[u]
      BY <1>0 DEF TypeOK, Recent
    <3>8. Len(admitted[u]) + 1 \in Nat BY <3>5
    <3>9. bucket' \in [Users -> SUBSET Nat] BY <2>2, <3>7, <3>8 DEF Admit
    <3>10. \A v \in Users : bucket'[v] \subseteq 1 .. Len(admitted'[v])
      <4> SUFFICES ASSUME NEW v \in Users PROVE bucket'[v] \subseteq 1 .. Len(admitted'[v])
        OBVIOUS
      <4>1. CASE v # u BY <1>0, <2>2, <4>1 DEF Admit, TypeOK
      <4>2. CASE v = u
        <5>1. bucket'[u] = Recent(u) \cup {Len(admitted[u]) + 1} BY <2>2, <3>7 DEF Admit
        <5>2. Len(admitted'[u]) = Len(admitted[u]) + 1 BY <1>0, <2>2, <3>5 DEF Admit, TypeOK
        <5>3. bucket[u] \subseteq 1 .. Len(admitted[u]) BY <1>0 DEF TypeOK
        <5> QED BY <3>5, <3>7, <4>2, <5>1, <5>2, <5>3
      <4> QED BY <4>1, <4>2
    <3> QED BY <1>0, <2>2, <3>3, <3>6, <3>9, <3>10, KeysStay DEF Admit, TypeInv, TypeOK
  <2> QED BY <1>3, <2>1, <2>2
<1>4. ASSUME NEW c \in Calls, ReadLeader(c) PROVE TypeInv'
  <2> DEFINE rec == [call[c] EXCEPT !.pc = "script", !.prev = hash.leader]
  <2>0. hash.leader \in Users \cup {NoUser} /\ call[c] \in Call /\ call[c].pc = "leader"
    BY <1>0, <1>4 DEF ReadLeader, TypeOK, AuctionState
  <2>1. rec \in Call /\ rec.pc = "script" /\ rec.user = call[c].user
    BY <2>0 DEF Call, PCs
  <2>2. call' = [call EXCEPT ![c] = rec] BY <1>0, <1>4 DEF ReadLeader
  <2>3. call[c].user \in Users BY <1>0, <2>0 DEF CallOK
  <2> HIDE DEF rec
  <2>4. call' \in [Calls -> Call] /\ \A d \in Calls : CallOK(d)'
    BY <2>1, <2>2, <2>3, OneCall DEF WithState
  <2> QED BY <1>0, <1>4, <2>4, KeysStay DEF ReadLeader, TypeInv, TypeOK
<1>5. ASSUME NEW c \in Calls, Script(c) PROVE TypeInv'
  <2>0. call[c].pc = "script" /\ call[c].user \in Users /\ call[c].amount \in Nat
    BY <1>0, <1>5 DEF Script, CallOK, Call
  <2>1. CASE AcceptBid(c, call[c].user, call[c].amount)
             /\ call' = [call EXCEPT ![c].pc = "read"]
             /\ overtaken' = overtaken \cup ({hash.leader} \ {NoUser})
    <3> DEFINE rec == [call[c] EXCEPT !.pc = "read"]
    <3>1. /\ hash' \in AuctionState /\ board' \in [Users -> Nat] /\ keys' \subseteq Requests
          /\ PriceInv'
      BY <2>0, <2>1, BidRaises
    <3>2. rec \in Call /\ rec.pc = "read" /\ rec.user = call[c].user BY <1>0 DEF Call, PCs
    <3>3. call' = [call EXCEPT ![c] = rec] BY <1>0, <2>1
    <3> HIDE DEF rec
    <3>4. call' \in [Calls -> Call] /\ \A d \in Calls : CallOK(d)'
      BY <2>0, <3>2, <3>3, OneCall DEF WithState
    <3>5. overtaken' \subseteq Users BY <1>0, <2>1 DEF TypeOK, AuctionState
    <3> QED BY <1>0, <1>5, <3>1, <3>4, <3>5 DEF Script, TypeInv, TypeOK
  <2>2. CASE call' = [call EXCEPT ![c].pc = "done"] /\ UNCHANGED <<redisVars, overtaken>>
    <3> DEFINE rec == [call[c] EXCEPT !.pc = "done"]
    <3>1. rec \in Call /\ rec.pc = "done" /\ rec.user = call[c].user BY <1>0 DEF Call, PCs
    <3>2. call' = [call EXCEPT ![c] = rec] BY <1>0, <2>2
    <3> HIDE DEF rec
    <3>3. call' \in [Calls -> Call] /\ \A d \in Calls : CallOK(d)'
      BY <2>0, <3>1, <3>2, OneCall DEF WithState
    <3> QED BY <1>0, <1>5, <2>2, <3>3, KeysStay DEF Script, TypeInv, TypeOK
  <2> QED BY <1>5, <2>1, <2>2 DEF Script
<1>6. ASSUME NEW c \in Calls, Commit(c) PROVE TypeInv'
  <2> DEFINE rec == [call[c] EXCEPT !.pc = "hash", !.ended = (row'.status = "SOLD")]
  <2>1. call[c].pc = "commit" /\ call[c].user \in Users /\ call[c].won \in AuctionState
    BY <1>0, <1>6 DEF Commit, CallOK, WithState
  <2>2. (row'.status = "SOLD") \in BOOLEAN OBVIOUS
  <2>3. rec \in Call /\ rec.pc = "hash" /\ rec.user = call[c].user /\ rec.won = call[c].won
    BY <1>0, <2>2 DEF Call, PCs
  <2>4. call' = [call EXCEPT ![c] = rec] BY <1>0, <1>6 DEF Commit
  <2>5. row' \in AuctionState BY <1>0, <1>6, <2>1 DEF Commit, TypeOK
  <2> HIDE DEF rec
  <2>6. call' \in [Calls -> Call] /\ \A d \in Calls : CallOK(d)'
    BY <2>1, <2>3, <2>4, OneCall DEF WithState
  <2> QED BY <1>0, <1>6, <2>5, <2>6, KeysStay DEF Commit, TypeInv, TypeOK
<1>7. ASSUME NEW c \in Calls, ReadHash(c) PROVE TypeInv'
  <2>0. /\ call[c].pc \in {"hash", "board"} /\ call[c].user \in Users
        /\ call[c].won \in AuctionState
        /\ call[c].pc = "board" => call[c].head \in AuctionState
        /\ hash \in AuctionState /\ board \in [Users -> Nat]
    BY <1>0, <1>7 DEF ReadHash, CallOK, WithState, TypeOK
  <2>1. PICK rec \in Call :
          /\ call' = [call EXCEPT ![c] = rec]
          /\ rec.user = call[c].user /\ rec.won = call[c].won /\ rec.head \in AuctionState
    <3>1. CASE call[c].pc = "hash"
      <4> DEFINE rec == [call[c] EXCEPT !.pc = "board", !.head = hash]
      <4>1. /\ rec \in Call /\ rec.user = call[c].user /\ rec.won = call[c].won
            /\ rec.head \in AuctionState
        BY <1>0, <2>0 DEF Call, PCs
      <4>2. call' = [call EXCEPT ![c] = rec] BY <1>0, <1>7, <3>1 DEF ReadHash
      <4> QED BY <4>1, <4>2
    <3>2. CASE call[c].pc = "board"
      <4>1. PICK list \in [Users -> Nat] : call' = [call EXCEPT ![c].pc = "emit", ![c].list = list]
        BY <1>7, <3>2, BoardRead DEF ReadHash
      <4> DEFINE rec == [call[c] EXCEPT !.pc = "emit", !.list = list]
      <4>2. /\ rec \in Call /\ rec.user = call[c].user /\ rec.won = call[c].won
            /\ rec.head \in AuctionState
        BY <1>0, <2>0, <3>2 DEF Call, PCs
      <4>3. call' = [call EXCEPT ![c] = rec] BY <1>0, <4>1
      <4> QED BY <4>2, <4>3
    <3> QED BY <2>0, <3>1, <3>2
  <2>3. call' \in [Calls -> Call] /\ \A d \in Calls : CallOK(d)'
    BY <2>0, <2>1, OneCall
  <2> QED BY <1>0, <1>7, <2>3, KeysStay DEF ReadHash, TypeInv, TypeOK
<1>8. ASSUME NEW c \in Calls, Emit(c) PROVE TypeInv'
  <2>1. call[c].user \in Users BY <1>0, <1>8 DEF Emit, CallOK
  <2> DEFINE rec == [call[c] EXCEPT !.pc = "done"]
  <2>2. rec \in Call /\ rec.pc = "done" /\ rec.user = call[c].user BY <1>0 DEF Call, PCs
  <2>3. call' = [call EXCEPT ![c] = rec] BY <1>0, <1>8 DEF Emit
  <2> HIDE DEF rec
  <2>4. call' \in [Calls -> Call] /\ \A d \in Calls : CallOK(d)'
    BY <2>1, <2>2, <2>3, OneCall DEF WithState
  <2>5. Notified(c) \subseteq Users BY <1>0 DEF Notified, Call
  <2>6. BringsOrder(c) \in BOOLEAN BY DEF BringsOrder
  <2>7. told' \subseteq Users BY <1>0, <1>8, <2>5 DEF Emit, TypeOK
  <2>8. endings' \subseteq BOOLEAN /\ order' \in BOOLEAN
    <3>1. CASE call[c].ended
      BY <1>0, <1>8, <2>6, <3>1 DEF Emit, TypeOK
    <3>2. CASE ~ call[c].ended
      BY <1>0, <1>8, <3>2 DEF Emit, TypeOK
    <3> QED BY <3>1, <3>2
  <2> QED BY <1>0, <1>8, <2>4, <2>7, <2>8, KeysStay DEF Emit, TypeInv, TypeOK
<1>9. ASSUME NEW c \in Calls, ReadBack(c) PROVE TypeInv'
  <2> DEFINE rec == [call[c] EXCEPT !.pc = "commit", !.won = hash]
  <2>1. call[c].pc = "read" /\ call[c].user \in Users /\ hash \in AuctionState
    BY <1>0, <1>9 DEF ReadBack, CallOK, TypeOK
  <2>2. rec \in Call /\ rec.pc = "commit" /\ rec.user = call[c].user /\ rec.won = hash
    BY <1>0, <2>1 DEF Call, PCs
  <2>3. call' = [call EXCEPT ![c] = rec] BY <1>0, <1>9 DEF ReadBack
  <2> HIDE DEF rec
  <2>4. call' \in [Calls -> Call] /\ \A d \in Calls : CallOK(d)'
    BY <2>1, <2>2, <2>3, OneCall
  <2> QED BY <1>0, <1>9, <2>4, KeysStay DEF ReadBack, TypeInv, TypeOK
<1> QED BY <1>1, <1>2, <1>3, <1>4, <1>5, <1>6, <1>7, <1>8, <1>9 DEF Next

LEMMA Types == Spec => []TypeInv
<1> QED BY InitTypes, NextTypes, PTL DEF Spec

(***************************************************************************)
(* Admission, reads, commit and events keep everything well typed; who is  *)
(* told anything is a user.                                                *)
(***************************************************************************)
THEOREM NoticeTypes == Spec => []TypeOK
<1>1. TypeInv => TypeOK BY DEF TypeInv
<1> QED BY Types, <1>1, PTL

----
(* The rate limit *)

(* The calls of a user are in order and past, what the array forgot is old. *)
LogInv(u) ==
  /\ \A i \in 1 .. Len(admitted[u]) :
       /\ admitted[u][i] <= now
       /\ i \notin bucket[u] => now - admitted[u][i] >= Window
  /\ \A i, j \in 1 .. Len(admitted[u]) : i <= j => admitted[u][i] <= admitted[u][j]
  /\ \A i \in 1 .. Len(admitted[u]) - Limit : admitted[u][i + Limit] - admitted[u][i] >= Window

RateInv == \A u \in Users : LogInv(u)

LEMMA UpTo == ASSUME NEW n \in Nat PROVE IsFiniteSet(1 .. n) /\ Cardinality(1 .. n) = n
<1>1. 1 \in Int /\ n \in Int OBVIOUS
<1>2. IsFiniteSet(1 .. n) /\ Cardinality(1 .. n) = IF 1 > n THEN 0 ELSE n - 1 + 1
  BY <1>1, FS_Interval
<1> QED BY <1>2

(* Counting the array is as good as looking limit calls back. *)
LEMMA RecentSpan ==
  ASSUME TypeOK, NEW u \in Users, LogInv(u)
  PROVE  LET n == Len(admitted[u]) IN
         Cardinality(Recent(u)) >= Limit <=>
           n >= Limit /\ now - admitted[u][n - Limit + 1] < Window
<1> DEFINE times == admitted[u]
           n == Len(times)
           k == n - Limit + 1
<1>1. /\ times \in Seq(0 .. MaxTime) /\ n \in Nat /\ now \in Nat /\ Limit \in Nat \ {0}
      /\ MaxTime \in Nat /\ Window \in Nat /\ bucket[u] \subseteq 1 .. n
  BY RateAssumption DEF TypeOK
<1>2. \A i \in 1 .. n : times[i] \in Nat
  BY <1>1, ElementOfSeq
<1>3. Recent(u) \subseteq 1 .. n /\ \A i \in Recent(u) : now - times[i] < Window
  BY <1>1 DEF Recent
<1>4. /\ \A i \in 1 .. n : now - times[i] < Window => i \in Recent(u)
      /\ \A i, j \in 1 .. n : i <= j => times[i] <= times[j]
  BY <1>1, <1>2 DEF LogInv, Recent
<1>5. IsFiniteSet(1 .. n) /\ Cardinality(1 .. n) = n
  BY <1>1, UpTo
<1>6. IsFiniteSet(Recent(u)) /\ Cardinality(Recent(u)) \in Nat /\ Cardinality(Recent(u)) <= n
  BY <1>3, <1>5, FS_Subset, FS_CardinalityType
<1> HIDE DEF times
<1>7. ASSUME Cardinality(Recent(u)) >= Limit PROVE n >= Limit /\ now - times[k] < Window
  <2>1. n >= Limit /\ k \in 1 .. n BY <1>1, <1>6, <1>7
  <2>2. ASSUME now - times[k] >= Window PROVE FALSE
    <3>1. \A i \in Recent(u) : i \in (k + 1) .. n
      <4> SUFFICES ASSUME NEW i \in Recent(u) PROVE i \in (k + 1) .. n OBVIOUS
      <4>1. i \in 1 .. n /\ now - times[i] < Window BY <1>3
      <4>2. ASSUME i <= k PROVE FALSE
        <5>1. times[i] <= times[k] BY <1>4, <2>1, <4>1, <4>2
        <5>2. now \in Nat /\ Window \in Nat /\ times[i] \in Nat /\ times[k] \in Nat
          BY <1>1, <1>2, <2>1, <4>1
        <5>3. now - times[k] >= Window /\ now - times[i] < Window BY <2>2, <4>1
        <5> HIDE DEF k
        <5> QED BY <5>1, <5>2, <5>3
      <4> QED BY <1>1, <2>1, <4>1, <4>2
    <3>2. k + 1 \in Int /\ n \in Int BY <1>1
    <3>3. IsFiniteSet((k + 1) .. n)
          /\ Cardinality((k + 1) .. n) = IF k + 1 > n THEN 0 ELSE n - (k + 1) + 1
      BY <3>2, FS_Interval
    <3>4. Cardinality(Recent(u)) <= Cardinality((k + 1) .. n)
      BY <3>1, <3>3, FS_Subset
    <3> QED BY <1>1, <1>6, <1>7, <3>3, <3>4
  <2> QED BY <1>1, <1>2, <2>1, <2>2
<1>8. ASSUME n >= Limit, now - times[k] < Window PROVE Cardinality(Recent(u)) >= Limit
  <2>1. k \in 1 .. n BY <1>1, <1>8
  <2>2. \A i \in k .. n : i \in Recent(u)
    <3> SUFFICES ASSUME NEW i \in k .. n PROVE i \in Recent(u) OBVIOUS
    <3>1. i \in 1 .. n /\ k <= i BY <1>1, <2>1
    <3>2. times[k] <= times[i] BY <1>4, <2>1, <3>1
    <3>3. now \in Nat /\ Window \in Nat /\ times[i] \in Nat /\ times[k] \in Nat
      BY <1>1, <1>2, <2>1, <3>1
    <3>4. now - times[i] < Window BY <1>8, <3>2, <3>3
    <3> QED BY <1>4, <3>1, <3>4
  <2>3. k \in Int /\ n \in Int BY <1>1
  <2>4. Cardinality(k .. n) = IF k > n THEN 0 ELSE n - k + 1 BY <2>3, FS_Interval
  <2>5. Cardinality(k .. n) <= Cardinality(Recent(u)) BY <1>6, <2>2, FS_Subset
  <2> QED BY <1>1, <1>6, <2>1, <2>4, <2>5
<1> QED BY <1>7, <1>8 DEF times

LEMMA InitRate == Init => RateInv
<1> SUFFICES ASSUME Init, NEW u \in Users PROVE LogInv(u) BY DEF RateInv
<1>1. Len(admitted[u]) = 0 /\ Limit \in Nat \ {0} BY RateAssumption DEF Init
<1> QED BY <1>1 DEF LogInv

(* A call let in joins the log; the limit calls before it are old enough. *)
LEMMA AdmitRate ==
  ASSUME TypeInv, RateInv, NEW c \in Calls, NEW u \in Users, NEW amount \in Nat,
         Admit(c, u, amount), NEW v \in Users
  PROVE  LogInv(v)'
<1>0. TypeOK /\ LogInv(v) BY DEF TypeInv, RateInv
<1>1. /\ admitted[v] \in Seq(0 .. MaxTime) /\ Len(admitted[v]) \in Nat /\ now \in 0 .. MaxTime
      /\ Limit \in Nat \ {0} /\ MaxTime \in Nat /\ Window \in Nat \ {0} /\ now' = now
  BY <1>0, RateAssumption DEF TypeOK, Admit
<1>2. \A i \in 1 .. Len(admitted[v]) : admitted[v][i] \in Nat BY <1>1, ElementOfSeq
<1>3. CASE v # u
  <2>1. admitted'[v] = admitted[v] /\ bucket'[v] = bucket[v] BY <1>0, <1>3 DEF Admit, TypeOK
  <2> QED BY <1>0, <1>1, <2>1 DEF LogInv
<1>4. CASE v = u
  <2> DEFINE old == admitted[u]
             n == Len(old)
             new == Append(old, now)
  <2>1. admitted'[u] = new BY <1>0 DEF Admit, TypeOK
  <2>2. /\ Len(new) = n + 1 /\ new[n + 1] = now
        /\ \A i \in 1 .. n : new[i] = old[i]
    BY <1>1, <1>4, AppendProperties
  <2>3. bucket'[v] = Recent(v) \cup {n + 1} BY <1>0, <1>4 DEF Admit, TypeOK
  <2>4. ~ (n >= Limit /\ now - old[n - Limit + 1] < Window)
    <3>1. Cardinality(Recent(u)) < Limit BY DEF Admit
    <3>2. Recent(u) \subseteq 1 .. n BY <1>0 DEF Recent, TypeOK
    <3>3. IsFiniteSet(1 .. n) BY <1>1, <1>4, UpTo
    <3>4. Cardinality(Recent(u)) \in Nat BY <3>2, <3>3, FS_Subset, FS_CardinalityType
    <3>5. ~ (Cardinality(Recent(u)) >= Limit) BY <1>1, <3>1, <3>4
    <3> QED BY <1>0, <1>4, <3>5, RecentSpan
  <2>5. /\ \A i \in 1 .. n : old[i] \in Nat /\ old[i] <= now
        /\ \A i, j \in 1 .. n : i <= j => old[i] <= old[j]
        /\ \A i \in 1 .. n - Limit : old[i + Limit] - old[i] >= Window
    BY <1>0, <1>2, <1>4 DEF LogInv
  <2>6. \A i \in 1 .. n : i \notin Recent(u) => now - old[i] >= Window
    BY <1>0, <1>1, <1>2, <1>4 DEF LogInv, Recent
  <2> HIDE DEF old, new
  <2>7. n \in Nat BY <1>1, <1>4 DEF old
  <2>8. now \in Nat /\ Window \in Nat /\ Limit \in Nat BY <1>1
  <2> HIDE DEF n
  <2>9. \A i \in 1 .. n + 1 : i \in 1 .. n \/ i = n + 1 BY <2>7
  <2>10. \A i \in 1 .. n + 1 : /\ new[i] <= now
                               /\ i \notin bucket'[v] => now - new[i] >= Window
    <3> SUFFICES ASSUME NEW i \in 1 .. n + 1
                 PROVE  new[i] <= now /\ (i \notin bucket'[v] => now - new[i] >= Window)
      OBVIOUS
    <3>1. CASE i = n + 1 BY <2>2, <2>3, <2>8, <3>1
    <3>2. CASE i \in 1 .. n
      <4>1. new[i] = old[i] /\ old[i] <= now BY <2>2, <2>5, <3>2
      <4>2. i \notin bucket'[v] => i \notin Recent(u) BY <1>4, <2>3
      <4> QED BY <2>6, <3>2, <4>1, <4>2
    <3> QED BY <2>9, <3>1, <3>2
  <2>11. \A i, j \in 1 .. n + 1 : i <= j => new[i] <= new[j]
    <3> SUFFICES ASSUME NEW i \in 1 .. n + 1, NEW j \in 1 .. n + 1, i <= j
                 PROVE  new[i] <= new[j]
      OBVIOUS
    <3>1. CASE j = n + 1 BY <2>2, <2>10, <3>1
    <3>2. CASE j \in 1 .. n
      <4>1. i \in 1 .. n BY <2>7, <3>2
      <4>2. new[i] = old[i] /\ new[j] = old[j] BY <2>2, <3>2, <4>1
      <4>3. old[i] <= old[j] BY <2>5, <3>2, <4>1
      <4> QED BY <4>2, <4>3
    <3> QED BY <2>9, <3>1, <3>2
  <2>12. \A i \in 1 .. n + 1 - Limit : new[i + Limit] - new[i] >= Window
    <3> SUFFICES ASSUME NEW i \in 1 .. n + 1 - Limit PROVE new[i + Limit] - new[i] >= Window
      OBVIOUS
    <3>0. Limit >= 1 /\ i \in 1 .. n /\ i + Limit \in 1 .. n + 1 BY <1>1, <2>7
    <3>1. CASE i + Limit \in 1 .. n
      <4>1. i \in 1 .. n - Limit BY <2>7, <2>8, <3>0, <3>1
      <4>2. new[i] = old[i] /\ new[i + Limit] = old[i + Limit] BY <2>2, <3>0, <3>1
      <4> QED BY <2>5, <4>1, <4>2
    <3>2. CASE i + Limit = n + 1
      <4>1. i = n - Limit + 1 /\ n >= Limit BY <2>7, <2>8, <3>0, <3>2
      <4>2. ~ (now - old[i] < Window) BY <2>4, <4>1
      <4>3. old[i] \in Nat BY <2>5, <3>0
      <4>4. now - old[i] >= Window BY <2>8, <4>2, <4>3
      <4>5. new[i] = old[i] /\ new[i + Limit] = now BY <2>2, <3>0, <3>2
      <4> QED BY <4>4, <4>5
    <3> QED BY <2>9, <3>0, <3>1, <3>2
  <2> QED BY <1>1, <1>4, <2>1, <2>2, <2>10, <2>11, <2>12 DEF LogInv, n
<1> QED BY <1>3, <1>4

LEMMA NextRate == TypeInv /\ RateInv /\ [Next]_vars => RateInv'
<1> SUFFICES ASSUME TypeInv, RateInv, [Next]_vars, NEW v \in Users PROVE LogInv(v)'
  BY DEF RateInv
<1> USE DEF vars, auction, rate, room
<1>0. /\ TypeOK /\ LogInv(v) /\ hash.rules.cap \in Nat
  BY RulesAssumption DEF TypeInv, TypeOK, RateInv, AuctionState, Rules
<1>1. /\ admitted[v] \in Seq(0 .. MaxTime) /\ now \in Nat /\ Window \in Nat
      /\ \A i \in 1 .. Len(admitted[v]) : admitted[v][i] \in Nat
  BY <1>0, RateAssumption, ElementOfSeq DEF TypeOK
<1>2. CASE UNCHANGED <<now, rate>> BY <1>0, <1>2 DEF LogInv
<1>3. CASE ClockTicks
  <2>1. now' = now + 1 /\ UNCHANGED rate BY <1>3 DEF ClockTicks
  <2> QED BY <1>0, <1>1, <2>1 DEF LogInv
<1>4. ASSUME NEW c \in Calls, NEW u \in Users, NEW amount \in 1 .. hash.rules.cap,
             RefuseFast(c, u, amount)
      PROVE  LogInv(v)'
  <2>1. /\ now' = now /\ admitted'[v] = admitted[v]
        /\ bucket'[v] = bucket[v] \/ bucket'[v] = Recent(v)
    BY <1>0, <1>4 DEF RefuseFast, TypeOK
  <2>2. \A i \in 1 .. Len(admitted[v]) : i \notin bucket'[v] => now - admitted[v][i] >= Window
    BY <1>0, <1>1, <2>1 DEF LogInv, Recent
  <2> QED BY <1>0, <2>1, <2>2 DEF LogInv
<1>5. ASSUME NEW c \in Calls, NEW u \in Users, NEW amount \in 1 .. hash.rules.cap,
             Admit(c, u, amount)
      PROVE  LogInv(v)'
  <2>1. amount \in Nat BY <1>0, <1>5
  <2> QED BY <1>5, <2>1, AdmitRate
<1>6. ASSUME NEW c \in Calls, ReadLeader(c) \/ Script(c) \/ ReadBack(c) \/ Commit(c)
                              \/ ReadHash(c) \/ Emit(c)
      PROVE  UNCHANGED <<now, rate>>
  BY <1>6 DEF ReadLeader, Script, ReadBack, Commit, ReadHash, Emit
<1> QED BY <1>2, <1>3, <1>4, <1>5, <1>6 DEF Next

LEMMA Rate == Spec => []RateInv
<1> QED BY InitRate, NextRate, Types, PTL DEF Spec

(***************************************************************************)
(* ensureBidRateLimit keeps its promise for any limit and window: no span  *)
(* of windowMs holds more than limit admitted calls of a user.             *)
(***************************************************************************)
THEOREM RateLimit == Spec => []RateHolds
<1>1. RateInv => RateHolds BY DEF RateInv, LogInv, RateHolds
<1> QED BY Rate, <1>1, PTL

(***************************************************************************)
(* It refuses nobody else: who gets a 429 has limit calls in the window.   *)
(***************************************************************************)
THEOREM RefusalsAreDue == Spec => RefusedWhenFull
<1>1. TypeInv /\ RateInv /\ [Next]_vars =>
        [\A c \in Calls : call[c].pc = "idle" /\ call'[c].pc = "done" =>
           LET times == admitted[call'[c].user] IN
           /\ Len(times) >= Limit
           /\ now - times[Len(times) - Limit + 1] < Window]_vars
  <2> SUFFICES ASSUME TypeInv, RateInv, Next, NEW c \in Calls,
                      call[c].pc = "idle", call'[c].pc = "done"
               PROVE  LET times == admitted[call'[c].user] IN
                      /\ Len(times) >= Limit
                      /\ now - times[Len(times) - Limit + 1] < Window
    BY DEF vars
  <2>0. TypeOK /\ call \in [Calls -> Call] BY DEF TypeInv, TypeOK
  <2>1. ~ ClockTicks BY DEF ClockTicks
  <2>2. ~ \E d \in Calls : \/ ReadLeader(d) \/ Script(d) \/ ReadBack(d) \/ Commit(d)
                            \/ ReadHash(d) \/ Emit(d)
    <3> SUFFICES ASSUME NEW d \in Calls PROVE ~ \/ ReadLeader(d) \/ Script(d) \/ ReadBack(d)
                                                \/ Commit(d) \/ ReadHash(d) \/ Emit(d)
      OBVIOUS
    <3>1. ~ (ReadLeader(d) \/ Script(d) \/ ReadBack(d) \/ Commit(d) \/ Emit(d))
      BY <2>0 DEF ReadLeader, Script, ReadBack, Commit, Emit
    <3>2. ~ ReadHash(d) BY <2>0 DEF ReadHash, ReadBoard
    <3> QED BY <3>1, <3>2
  <2>3. PICK d \in Calls, u \in Users : \E amount \in 1 .. hash.rules.cap :
          RefuseFast(d, u, amount) \/ Admit(d, u, amount)
    BY <2>1, <2>2 DEF Next
  <2>4. PICK amount \in 1 .. hash.rules.cap : RefuseFast(d, u, amount)
    BY <2>0, <2>3 DEF Admit, NoCall
  <2>5. d = c /\ call'[c].user = u /\ Cardinality(Recent(u)) >= Limit
    BY <2>0, <2>4 DEF RefuseFast, NoCall
  <2>6. LogInv(u) BY DEF RateInv
  <2> QED BY <2>0, <2>5, <2>6, RecentSpan
<1> QED BY <1>1, Types, Rate, PTL DEF Spec, RefusedWhenFull

----
(* The snapshot *)

(* Scores only rise, so the leader read with the hash has his price since,  *)
(* and who takes his place in the list has more.                           *)
SnapshotOK(c) ==
  LET head == call[c].head IN
  /\ call[c].pc = "board" /\ head.leader # NoUser => board[head.leader] >= head.price
  /\ call[c].pc = "emit" /\ head.leader # NoUser =>
       \/ call[c].list[head.leader] >= head.price
       \/ Cardinality({u \in Users : call[c].list[u] > head.price}) = TopN

SnapshotInv == \A c \in Calls : SnapshotOK(c)

(* Every step of a call but its reads. *)
OtherStep(c) ==
  \/ \E u \in Users : \E amount \in 1 .. hash.rules.cap :
       RefuseFast(c, u, amount) \/ Admit(c, u, amount)
  \/ ReadLeader(c) \/ Script(c) \/ ReadBack(c) \/ Commit(c) \/ Emit(c)

(* Only call c moves, and not to one of its reads. *)
MovesPast(c) ==
  /\ call'[c].pc \notin {"board", "emit"}
  /\ \A d \in Calls \ {c} : call'[d] = call[d]

(* A step that is not a read moves its call past the reads. *)
LEMMA OtherStepPC ==
  ASSUME TypeInv, NEW c \in Calls, OtherStep(c)
  PROVE  /\ call'[c].pc \notin {"board", "emit"}
         /\ \A d \in Calls \ {c} : call'[d] = call[d]
<1>1. call \in [Calls -> Call] BY DEF TypeInv, TypeOK
<1>2. ASSUME NEW u \in Users, NEW amount \in 1 .. hash.rules.cap, RefuseFast(c, u, amount)
      PROVE  MovesPast(c)
  BY <1>1, <1>2 DEF RefuseFast, NoCall, MovesPast
<1>3. ASSUME NEW u \in Users, NEW amount \in 1 .. hash.rules.cap, Admit(c, u, amount)
      PROVE  MovesPast(c)
  BY <1>1, <1>3 DEF Admit, NoCall, MovesPast
<1>4. CASE ReadLeader(c) BY <1>1, <1>4 DEF ReadLeader, Call, MovesPast
<1>5. CASE Script(c) BY <1>1, <1>5 DEF Script, Call, MovesPast
<1>6. CASE Commit(c) BY <1>1, <1>6 DEF Commit, Call, MovesPast
<1>7. CASE Emit(c) BY <1>1, <1>7 DEF Emit, Call, MovesPast
<1>8. CASE ReadBack(c) BY <1>1, <1>8 DEF ReadBack, Call, MovesPast
<1> QED BY <1>2, <1>3, <1>4, <1>5, <1>6, <1>7, <1>8 DEF OtherStep, MovesPast

(* No step takes a score down. *)
LEMMA ScoresRise ==
  ASSUME TypeInv, [Next]_vars
  PROVE  \A v \in Users : board[v] \in Nat /\ board'[v] \in Nat /\ board[v] <= board'[v]
<1>0. /\ TypeOK /\ call \in [Calls -> Call] /\ \A c \in Calls : CallOK(c)
      /\ board \in [Users -> Nat]
  BY DEF TypeInv, TypeOK
<1>1. CASE UNCHANGED board BY <1>0, <1>1
<1>2. ASSUME NEW c \in Calls, Script(c), board' # board
      PROVE  \A v \in Users : board'[v] \in Nat /\ board[v] <= board'[v]
  <2>1. AcceptBid(c, call[c].user, call[c].amount) BY <1>2 DEF Script, redisVars
  <2>2. call[c].user \in Users /\ call[c].amount \in Nat
    BY <1>0, <1>2 DEF Script, CallOK, Call
  <2> QED BY <2>1, <2>2, BidRaises
<1>3. ASSUME Next PROVE UNCHANGED board \/ \E c \in Calls : Script(c)
  BY <1>3 DEF Next, ClockTicks, RefuseFast, Admit, ReadLeader, ReadBack, Commit, ReadHash, Emit,
              auction, redisVars
<1> QED BY <1>0, <1>1, <1>2, <1>3 DEF vars, auction

(* Who is cut from the list has TopN others above him: scores do not tie.  *)
LEMMA CutShowsLeader ==
  ASSUME TypeInv, NEW S \in SUBSET Users, NEW list \in [Users -> Nat], Best(board, S),
         \A u \in Users : list[u] = IF u \in S THEN board[u] ELSE 0,
         NEW leader \in Users, NEW price \in Nat, board[leader] >= price
  PROVE  list[leader] >= price \/ Cardinality({u \in Users : list[u] > price}) = TopN
<1> DEFINE ranked == {u \in Users : board[u] > 0}
<1>1. board \in [Users -> Nat] /\ S \subseteq ranked BY DEF TypeInv, TypeOK, Best
<1>2. CASE leader \in S \/ board[leader] = 0 BY <1>1, <1>2
<1>3. CASE leader \notin S /\ board[leader] # 0
  <2>1. leader \in ranked \ S BY <1>1, <1>3
  <2>2. Cardinality(S) = TopN /\ \A u \in S : board[leader] <= board[u]
    <3> HIDE DEF ranked
    <3>1. /\ Cardinality(S) = TopN \/ (Cardinality(ranked) < TopN /\ S = ranked)
          /\ \A u \in S, v \in ranked \ S : board[v] <= board[u]
      BY DEF Best, ranked
    <3> QED BY <2>1, <3>1
  <2>3. ASSUME NEW u \in S PROVE list[u] > price
    <3>1. u \in Users /\ u # leader /\ board[u] > 0 BY <1>1, <1>3
    <3>2. board[u] # board[leader] BY <3>1 DEF TypeInv, PriceInv
    <3>3. list[u] = board[u] /\ board[leader] <= board[u] BY <2>2, <3>1
    <3>4. board[u] \in Nat /\ board[leader] \in Nat BY <1>1, <3>1
    <3> QED BY <3>2, <3>3, <3>4
  <2>4. ASSUME NEW u \in Users, list[u] > price PROVE u \in S BY <2>4
  <2>5. {u \in Users : list[u] > price} = S BY <2>3, <2>4
  <2> QED BY <2>2, <2>5
<1> QED BY <1>2, <1>3

LEMMA NextSnapshot == TypeInv /\ SnapshotInv /\ [Next]_vars => SnapshotInv'
<1> SUFFICES ASSUME TypeInv, SnapshotInv, [Next]_vars, NEW d \in Calls
             PROVE  SnapshotOK(d)'
  BY DEF SnapshotInv
<1>0. /\ call \in [Calls -> Call] /\ SnapshotOK(d) /\ CallOK(d) /\ hash \in AuctionState
  BY DEF TypeInv, TypeOK, SnapshotInv
<1>1. \A v \in Users : board[v] \in Nat /\ board'[v] \in Nat /\ board[v] <= board'[v]
  BY ScoresRise
<1>2. CASE call'[d] = call[d]
  <2>1. CASE call[d].pc = "board" /\ call[d].head.leader # NoUser
    <3>1. call[d].head.leader \in Users /\ call[d].head.price \in Nat
      BY <1>0, <2>1 DEF CallOK, AuctionState
    <3> QED BY <1>0, <1>1, <1>2, <2>1, <3>1 DEF SnapshotOK
  <2>2. CASE ~ (call[d].pc = "board" /\ call[d].head.leader # NoUser)
    BY <1>0, <1>2, <2>2 DEF SnapshotOK
  <2> QED BY <2>1, <2>2
<1>3. CASE call'[d].pc \notin {"board", "emit"} BY <1>3 DEF SnapshotOK
<1>4. CASE ReadHash(d)
  <2>1. CASE call[d].pc = "hash"
    <3>1. call'[d].pc = "board" /\ call'[d].head = hash /\ board' = board
      BY <1>0, <1>4, <2>1 DEF ReadHash, Call, auction
    <3>2. hash.leader # NoUser => board[hash.leader] >= hash.price
      BY DEF TypeInv, PriceInv
    <3> QED BY <3>1, <3>2 DEF SnapshotOK
  <2>2. CASE call[d].pc = "board"
    <3>1. PICK S \in SUBSET Users, list \in [Users -> Nat] :
            /\ Best(board, S)
            /\ \A u \in Users : list[u] = IF u \in S THEN board[u] ELSE 0
            /\ call' = [call EXCEPT ![d].pc = "emit", ![d].list = list]
      BY <1>4, <2>2, BoardRead DEF ReadHash
    <3>2. call'[d].pc = "emit" /\ call'[d].head = call[d].head /\ call'[d].list = list
      BY <1>0, <3>1 DEF Call
    <3>3. call[d].head \in AuctionState BY <1>0, <2>2 DEF CallOK
    <3>4. call[d].head.leader # NoUser => \/ list[call[d].head.leader] >= call[d].head.price
                                          \/ Cardinality({u \in Users :
                                                list[u] > call[d].head.price}) = TopN
      <4> SUFFICES ASSUME call[d].head.leader # NoUser
                   PROVE  \/ list[call[d].head.leader] >= call[d].head.price
                          \/ Cardinality({u \in Users : list[u] > call[d].head.price}) = TopN
        OBVIOUS
      <4>1. call[d].head.leader \in Users /\ call[d].head.price \in Nat
        BY <3>3 DEF AuctionState
      <4>2. board[call[d].head.leader] >= call[d].head.price BY <1>0, <2>2 DEF SnapshotOK
      <4> QED BY <3>1, <4>1, <4>2, CutShowsLeader
    <3> QED BY <3>2, <3>4 DEF SnapshotOK
  <2> QED BY <1>4, <2>1, <2>2 DEF ReadHash
<1>5. ASSUME NEW c \in Calls, OtherStep(c)
      PROVE  call'[d] = call[d] \/ call'[d].pc \notin {"board", "emit"}
  BY <1>5, OtherStepPC
<1>6. ASSUME NEW c \in Calls, ReadHash(c), c # d PROVE call'[d] = call[d]
  BY <1>0, <1>6 DEF ReadHash, ReadBoard
<1>7. CASE UNCHANGED vars \/ ClockTicks BY <1>2, <1>7 DEF vars, ClockTicks
<1> QED BY <1>2, <1>3, <1>4, <1>5, <1>6, <1>7 DEF Next, OtherStep

LEMMA Snapshots == Spec => []SnapshotInv
<1>1. Init => SnapshotInv BY DEF Init, SnapshotInv, SnapshotOK, NoCall
<1> QED BY <1>1, NextSnapshot, Types, PTL DEF Spec

(***************************************************************************)
(* toSnapshot reads hash and leaderboard apart, and its leaderboard is     *)
(* never behind its leader: whoever takes his place has bid more.          *)
(***************************************************************************)
THEOREM SnapshotsShowTheirLeader == Spec => []BoardNotBehind
<1>1. SnapshotInv => BoardNotBehind BY DEF SnapshotInv, SnapshotOK, BoardNotBehind
<1> QED BY Snapshots, <1>1, PTL

----
(* The outbid notice *)

(* The leader a call has read leads still or was overtaken, by it at last. *)
NoticeOK(c) ==
  /\ call[c].pc = "script" => call[c].prev \in overtaken \cup {NoUser, hash.leader}
  /\ call[c].pc \in Accepted => call[c].prev \in overtaken \cup {NoUser}

NoticeInv == told \subseteq overtaken /\ (\A c \in Calls : NoticeOK(c))

LEMMA NextNotice == TypeInv /\ NoticeInv /\ [Next]_vars => NoticeInv'
<1> SUFFICES ASSUME TypeInv, NoticeInv, [Next]_vars PROVE NoticeInv' OBVIOUS
<1> USE DEF vars, auction, rate, room, redisVars
<1>0. /\ call \in [Calls -> Call] /\ told \subseteq overtaken
      /\ \A c \in Calls : NoticeOK(c)
  BY DEF TypeInv, TypeOK, NoticeInv
<1>1. CASE UNCHANGED vars \/ ClockTicks
  BY <1>0, <1>1 DEF ClockTicks, NoticeInv, NoticeOK
<1>2. ASSUME NEW c \in Calls, NEW u \in Users, NEW amount \in 1 .. hash.rules.cap,
             RefuseFast(c, u, amount) \/ Admit(c, u, amount)
      PROVE  NoticeInv'
  <2>1. /\ UNCHANGED <<hash, overtaken, told>> /\ call'[c].pc \in {"leader", "done"}
        /\ \A d \in Calls \ {c} : call'[d] = call[d]
    BY <1>0, <1>2 DEF RefuseFast, Admit, NoCall
  <2> QED BY <1>0, <2>1 DEF NoticeInv, NoticeOK, Accepted, WithState
<1>3. ASSUME NEW c \in Calls, ReadLeader(c) PROVE NoticeInv'
  <2>1. /\ UNCHANGED <<hash, overtaken, told>> /\ call'[c].pc = "script"
        /\ call'[c].prev = hash.leader /\ \A d \in Calls \ {c} : call'[d] = call[d]
    BY <1>0, <1>3 DEF ReadLeader, Call
  <2> QED BY <1>0, <2>1 DEF NoticeInv, NoticeOK, Accepted, WithState
<1>4. ASSUME NEW c \in Calls, Script(c) PROVE NoticeInv'
  <2>0. call[c].pc = "script" /\ UNCHANGED told BY <1>4 DEF Script
  <2>1. CASE /\ call' = [call EXCEPT ![c].pc = "read"]
             /\ overtaken' = overtaken \cup ({hash.leader} \ {NoUser})
    <3>1. /\ call'[c].pc = "read" /\ call'[c].prev = call[c].prev
          /\ \A d \in Calls \ {c} : call'[d] = call[d]
      BY <1>0, <2>1 DEF Call
    <3>2. overtaken \subseteq overtaken'
          /\ overtaken \cup {NoUser, hash.leader} \subseteq overtaken' \cup {NoUser}
      BY <2>1
    <3>3. \A d \in Calls : call[d].pc \in {"script"} \cup Accepted
                             => call[d].prev \in overtaken' \cup {NoUser}
      BY <1>0, <3>2 DEF NoticeOK
    <3> QED BY <1>0, <2>0, <3>1, <3>2, <3>3 DEF NoticeInv, NoticeOK, Accepted, WithState
  <2>2. CASE call' = [call EXCEPT ![c].pc = "done"] /\ UNCHANGED <<redisVars, overtaken>>
    <3>1. call'[c].pc = "done" /\ \A d \in Calls \ {c} : call'[d] = call[d]
      BY <1>0, <2>2 DEF Call
    <3> QED BY <1>0, <2>0, <2>2, <3>1 DEF NoticeInv, NoticeOK, Accepted, WithState
  <2> QED BY <1>4, <2>1, <2>2 DEF Script
<1>5. ASSUME NEW c \in Calls, ReadBack(c) \/ Commit(c) \/ ReadHash(c) PROVE NoticeInv'
  <2>1. /\ UNCHANGED <<hash, overtaken, told>> /\ call[c].pc \in Accepted
        /\ call'[c].pc \in Accepted /\ call'[c].prev = call[c].prev
        /\ \A d \in Calls \ {c} : call'[d] = call[d]
    <3>1. CASE ReadBack(c) \/ Commit(c)
      BY <1>0, <3>1 DEF ReadBack, Commit, Call, Accepted, WithState
    <3>2. CASE ReadHash(c) BY <1>0, <3>2 DEF ReadHash, ReadBoard, Call, Accepted, WithState
    <3> QED BY <1>5, <3>1, <3>2
  <2> QED BY <1>0, <2>1 DEF NoticeInv, NoticeOK, Accepted, WithState
<1>6. ASSUME NEW c \in Calls, Emit(c) PROVE NoticeInv'
  <2>1. /\ UNCHANGED <<hash, overtaken>> /\ call[c].pc = "emit" /\ call'[c].pc = "done"
        /\ told' = told \cup Notified(c) /\ \A d \in Calls \ {c} : call'[d] = call[d]
    BY <1>0, <1>6 DEF Emit, Call
  <2>2. Notified(c) \subseteq overtaken
    BY <1>0, <2>1 DEF NoticeOK, Notified, Accepted, WithState
  <2> QED BY <1>0, <2>1, <2>2 DEF NoticeInv, NoticeOK, Accepted, WithState
<1> QED BY <1>1, <1>2, <1>3, <1>4, <1>5, <1>6 DEF Next

(***************************************************************************)
(* The outbid notice goes to the leader read before the script: however    *)
(* late, it tells nobody who was not overtaken.                            *)
(***************************************************************************)
THEOREM NoticesAreTrue == Spec => []NoticeIsTrue
<1>1. Init => NoticeInv
  BY DEF Init, NoticeInv, NoticeOK, NoCall, Accepted, WithState
<1>2. NoticeInv => NoticeIsTrue BY DEF NoticeInv, NoticeIsTrue
<1> QED BY <1>1, <1>2, NextNotice, Types, PTL DEF Spec

----
(* The announcement of a sale *)

(* A record of the auction is of an earlier version, or the hash itself.   *)
Behind(rec) == rec.version <= hash.version /\ (rec.version = hash.version => rec = hash)

(* A sale read back is the last version; the commit reads SOLD back.       *)
SaleOK(c) ==
  call[c].pc \in WithState =>
    /\ Behind(call[c].won)
    /\ call[c].won.status = "SOLD" => call[c].won = hash /\ (call[c].pc = "commit" \/ call[c].ended)

(* Once there is a sale: the call is going to announce it.                 *)
Sells(c) == call[c].pc = "read" \/ (call[c].pc \in WithState /\ call[c].won.status = "SOLD")

SaleInv ==
  /\ Behind(row)
  /\ \A c \in Calls : SaleOK(c)
  /\ hash.status = "SOLD" => TRUE \in endings \/ \E c \in Calls : Sells(c)

(* A step that leaves the stores, the accepted bids and the events alone.  *)
LEMMA SaleStays ==
  ASSUME SaleInv, UNCHANGED <<hash, row, endings>>,
         \A d \in Calls : \/ call'[d] = call[d]
                          \/ call[d].pc \notin Accepted /\ call'[d].pc \notin Accepted
  PROVE  SaleInv'
<1>1. \A d \in Calls : SaleOK(d)' BY DEF SaleInv, SaleOK, Behind, Accepted
<1>2. \A d \in Calls : Sells(d) => Sells(d)' BY DEF Sells, Accepted
<1> QED BY <1>1, <1>2 DEF SaleInv, Behind

(* An accepted bid makes a new version; no earlier one was a sale.         *)
LEMMA ScriptSale ==
  ASSUME TypeInv, SaleInv, NEW c \in Calls, Script(c) PROVE SaleInv'
<1>0. /\ call \in [Calls -> Call] /\ \A d \in Calls : SaleOK(d) /\ CallOK(d)
      /\ Behind(row) /\ hash \in AuctionState /\ row \in AuctionState
      /\ call[c].pc = "script" /\ call[c].user \in Users /\ call[c].amount \in Nat
      /\ UNCHANGED <<row, endings>>
  BY DEF TypeInv, TypeOK, SaleInv, Script, CallOK, Call
<1>1. CASE /\ AcceptBid(c, call[c].user, call[c].amount)
           /\ call' = [call EXCEPT ![c].pc = "read"]
  <2>1. /\ hash.status = "RUNNING" /\ hash'.version = hash.version + 1
        /\ hash.version \in Nat /\ hash'.version \in Nat /\ row.version \in Nat
    BY <1>0, <1>1, BidRaises DEF AuctionState
  <2>2. call'[c].pc = "read" /\ \A d \in Calls \ {c} : call'[d] = call[d]
    BY <1>0, <1>1 DEF Call
  <2>3. \A d \in Calls : call[d].pc \in WithState =>
          call[d].won.version \in Nat /\ call[d].won.status # "SOLD"
    BY <1>0, <2>1 DEF SaleOK, CallOK, AuctionState
  <2>4. Behind(row)' BY <1>0, <2>1 DEF Behind
  <2>5. \A d \in Calls \ {c} : SaleOK(d)' BY <1>0, <2>1, <2>2, <2>3 DEF SaleOK, Behind
  <2>6. SaleOK(c)' BY <2>2 DEF SaleOK, WithState
  <2>7. Sells(c)' BY <2>2 DEF Sells
  <2> QED BY <2>4, <2>5, <2>6, <2>7 DEF SaleInv
<1>2. CASE call' = [call EXCEPT ![c].pc = "done"] /\ UNCHANGED redisVars
  <2>1. \A d \in Calls : \/ call'[d] = call[d]
                         \/ call[d].pc \notin Accepted /\ call'[d].pc \notin Accepted
    BY <1>0, <1>2 DEF Accepted, WithState, Call
  <2> QED BY <1>0, <1>2, <2>1, SaleStays DEF redisVars
<1> QED BY <1>1, <1>2 DEF Script

(* What is read back is the last version, and the sale if there was one.   *)
LEMMA ReadBackSale ==
  ASSUME TypeInv, SaleInv, NEW c \in Calls, ReadBack(c) PROVE SaleInv'
<1>0. /\ call \in [Calls -> Call] /\ \A d \in Calls : SaleOK(d)
      /\ UNCHANGED <<hash, row, endings>> /\ hash \in AuctionState
  BY DEF TypeInv, TypeOK, SaleInv, ReadBack, auction, room
<1>1. /\ call'[c].pc = "commit" /\ call'[c].won = hash
      /\ \A d \in Calls \ {c} : call'[d] = call[d]
  BY <1>0 DEF ReadBack, Call
<1>2. SaleOK(c)' BY <1>0, <1>1 DEF SaleOK, Behind, AuctionState
<1>3. \A d \in Calls \ {c} : SaleOK(d)' BY <1>0, <1>1 DEF SaleOK, Behind
<1>4. hash.status = "SOLD" => Sells(c)' BY <1>1 DEF Sells, WithState
<1>5. \A d \in Calls \ {c} : Sells(d) => Sells(d)' BY <1>1 DEF Sells
<1> QED BY <1>0, <1>2, <1>3, <1>4, <1>5 DEF SaleInv, Behind

(* The row is read back sold by the transaction of the bid that sold.      *)
LEMMA CommitSale ==
  ASSUME TypeInv, SaleInv, NEW c \in Calls, Commit(c) PROVE SaleInv'
<1>0. /\ call \in [Calls -> Call] /\ \A d \in Calls : SaleOK(d)
      /\ Behind(row) /\ call[c].pc = "commit" /\ call[c].won \in AuctionState
      /\ row.version \in Nat /\ call[c].won.version \in Nat
      /\ UNCHANGED <<hash, endings>>
  BY DEF TypeInv, TypeOK, SaleInv, Commit, CallOK, WithState, AuctionState, auction, redisVars, room
<1>1. Behind(call[c].won) /\ (call[c].won.status = "SOLD" => call[c].won = hash)
  BY <1>0 DEF SaleOK, WithState
<1>2. row' = IF row.version < call[c].won.version THEN call[c].won ELSE row BY DEF Commit
<1>3. Behind(row)' BY <1>0, <1>1, <1>2 DEF Behind
<1>4. call[c].won.status = "SOLD" => row'.status = "SOLD"
  BY <1>0, <1>1, <1>2 DEF Behind
<1>5. /\ call'[c].pc = "hash" /\ call'[c].won = call[c].won
      /\ call'[c].ended = (row'.status = "SOLD")
      /\ \A d \in Calls \ {c} : call'[d] = call[d]
  BY <1>0 DEF Commit, Call
<1>6. SaleOK(c)' BY <1>0, <1>1, <1>4, <1>5 DEF SaleOK, Behind
<1>7. \A d \in Calls \ {c} : SaleOK(d)' BY <1>0, <1>5 DEF SaleOK, Behind
<1>8. \A d \in Calls : Sells(d) => Sells(d)' BY <1>0, <1>5 DEF Sells, WithState
<1> QED BY <1>0, <1>3, <1>6, <1>7, <1>8 DEF SaleInv

LEMMA NextSale == TypeInv /\ SaleInv /\ [Next]_vars => SaleInv'
<1> SUFFICES ASSUME TypeInv, SaleInv, [Next]_vars PROVE SaleInv' OBVIOUS
<1> USE DEF vars, auction, rate, room, redisVars
<1>0. /\ call \in [Calls -> Call] /\ \A d \in Calls : SaleOK(d)
  BY DEF TypeInv, TypeOK, SaleInv
<1>1. CASE UNCHANGED vars \/ ClockTicks BY <1>1, SaleStays DEF ClockTicks
<1>2. ASSUME NEW c \in Calls, NEW u \in Users, NEW amount \in 1 .. hash.rules.cap,
             RefuseFast(c, u, amount) \/ Admit(c, u, amount)
      PROVE  SaleInv'
  <2>1. /\ UNCHANGED <<hash, row, endings>> /\ call[c].pc = "idle"
        /\ call'[c].pc \in {"leader", "done"} /\ \A d \in Calls \ {c} : call'[d] = call[d]
    BY <1>0, <1>2 DEF RefuseFast, Admit, NoCall
  <2> QED BY <2>1, SaleStays DEF Accepted, WithState
<1>3. ASSUME NEW c \in Calls, ReadLeader(c) PROVE SaleInv'
  <2>1. /\ UNCHANGED <<hash, row, endings>> /\ call[c].pc = "leader"
        /\ call'[c].pc = "script" /\ \A d \in Calls \ {c} : call'[d] = call[d]
    BY <1>0, <1>3 DEF ReadLeader, Call
  <2> QED BY <2>1, SaleStays DEF Accepted, WithState
<1>4. ASSUME NEW c \in Calls, ReadHash(c) PROVE SaleInv'
  <2>1. /\ UNCHANGED <<hash, row, endings>> /\ call[c].pc \in {"hash", "board"}
        /\ call'[c].pc \in {"board", "emit"} /\ call'[c].won = call[c].won
        /\ call'[c].ended = call[c].ended /\ \A d \in Calls \ {c} : call'[d] = call[d]
    BY <1>0, <1>4 DEF ReadHash, ReadBoard, Call
  <2>2. \A d \in Calls : SaleOK(d)' BY <1>0, <2>1 DEF SaleOK, Behind, WithState
  <2>3. \A d \in Calls : Sells(d) => Sells(d)' BY <2>1 DEF Sells, WithState
  <2> QED BY <2>1, <2>2, <2>3 DEF SaleInv, Behind
<1>5. ASSUME NEW c \in Calls, Emit(c) PROVE SaleInv'
  <2>1. /\ UNCHANGED <<hash, row>> /\ call[c].pc = "emit" /\ call'[c].pc = "done"
        /\ \A d \in Calls \ {c} : call'[d] = call[d]
    BY <1>0, <1>5 DEF Emit, Call
  <2>2. endings' = IF call[c].ended THEN endings \cup {call[c].won.status = "SOLD"} ELSE endings
    BY <1>5 DEF Emit, BringsOrder
  <2>3. \A d \in Calls : SaleOK(d)' BY <1>0, <2>1 DEF SaleOK, Behind, WithState
  <2>4. Sells(c) => TRUE \in endings'
    <3> SUFFICES ASSUME Sells(c) PROVE TRUE \in endings' OBVIOUS
    <3>1. call[c].won.status = "SOLD" /\ call[c].ended BY <1>0, <2>1 DEF Sells, SaleOK, WithState
    <3>2. (call[c].won.status = "SOLD") = TRUE BY <3>1
    <3> QED BY <2>2, <3>1, <3>2
  <2>5. \A d \in Calls \ {c} : Sells(d) => Sells(d)' BY <2>1 DEF Sells
  <2>6. TRUE \in endings => TRUE \in endings' BY <2>2
  <2> QED BY <2>1, <2>3, <2>4, <2>5, <2>6 DEF SaleInv, Behind
<1> QED BY <1>1, <1>2, <1>3, <1>4, <1>5, ScriptSale, ReadBackSale, CommitSale DEF Next

LEMMA Sales == Spec => []SaleInv
<1>1. Init => SaleInv
  <2> SUFFICES ASSUME Init PROVE SaleInv OBVIOUS
  <2>1. row = hash /\ hash.status = "RUNNING" /\ \A c \in Calls : call[c].pc = "idle"
    BY DEF Init, NoCall
  <2>2. hash \in AuctionState BY InitTypes DEF TypeInv, TypeOK
  <2>3. Behind(row) BY <2>1, <2>2 DEF Behind, AuctionState
  <2> QED BY <2>1, <2>3 DEF SaleInv, SaleOK, WithState
<1> QED BY <1>1, NextSale, Types, PTL DEF Spec

(***************************************************************************)
(* Whatever overlaps the bid that sells, the room hears of the sale with   *)
(* its order.                                                              *)
(***************************************************************************)
THEOREM SalesAreAnnounced == Spec => []SaleIsAnnounced
<1>1. SaleInv => SaleIsAnnounced
  BY DEF SaleInv, Sells, SaleIsAnnounced, WithState
<1> QED BY Sales, <1>1, PTL
===============================================================================
