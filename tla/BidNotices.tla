------------------------------ MODULE BidNotices ------------------------------
(***************************************************************************)
(* One call of placeBid from its admission to what it tells the room:      *)
(* the rate limit kept in the memory of the API, the leader read before    *)
(* the script and the state after it, the transaction, the snapshot read   *)
(* hash first and leaderboard second, and the events sent on its strength. *)
(*                                                                         *)
(* AuctionService has the stores of an auction, failures and the other     *)
(* calls; here the auction runs, its end is far and nothing fails.  Events *)
(* reach the pages in the order they are sent (LiveRoom has the delays).   *)
(***************************************************************************)
EXTENDS RedisScripts, Sequences, FiniteSets

CONSTANTS
  Calls,    \* requests to place a bid
  Window,   \* windowMs of ensureBidRateLimit
  Limit,    \* limit of ensureBidRateLimit
  TopN,     \* length of a leaderboard: 5 in the code
  MaxTime   \* bound: the clock

ASSUME RateAssumption == Window \in Nat \ {0} /\ Limit \in Nat \ {0} /\ MaxTime \in Nat
ASSUME TopAssumption == TopN \in Nat
ASSUME CallsAreRequests == Calls \subseteq Requests

VARIABLES
  row,        \* the MySQL row of the auction
  admitted,   \* when the calls of each user were let in, all of them in order
  bucket,     \* bidRateBuckets: which of these the array still holds
  call,       \* the handlers
  overtaken,  \* the users another bid has replaced as leader
  told,       \* the users an outbid event was sent to
  endings,    \* whether an order came with the auctionEnded events of the room
  order       \* the order card of a page in the room is shown

auction == <<hash, board, keys, row>>
rate == <<admitted, bucket>>
room == <<overtaken, told, endings, order>>
vars == <<now, auction, rate, call, room>>

PCs == {"idle", "leader", "script", "read", "commit", "hash", "board", "emit", "done"}
Call == [pc : PCs, user : Users \cup {NoUser}, amount : Nat, prev : Users \cup {NoUser},
         won : AuctionState \cup {NoHash}, ended : BOOLEAN,
         head : AuctionState \cup {NoHash}, list : [Users -> Nat]]
NoCall == [pc |-> "idle", user |-> NoUser, amount |-> 0, prev |-> NoUser, won |-> NoHash,
           ended |-> FALSE, head |-> NoHash, list |-> EmptyBoard]

(* A started auction without bids, its end beyond the clock of the model. *)
Init ==
  /\ \E r \in RuleSet :
       hash = [status |-> "RUNNING", price |-> r.start, leader |-> NoUser,
               endAt |-> MaxTime + r.duration, version |-> 1, reason |-> "none", rules |-> r]
  /\ board = EmptyBoard /\ keys = {} /\ now = 0
  /\ row = hash
  /\ admitted = [u \in Users |-> <<>>] /\ bucket = [u \in Users |-> {}]
  /\ call = [c \in Calls |-> NoCall]
  /\ overtaken = {} /\ told = {} /\ endings = {} /\ order = FALSE

ClockTicks ==
  /\ now < MaxTime
  /\ now' = now + 1
  /\ UNCHANGED <<auction, rate, call, room>>

----
(* Mutant of Recent: a call of exactly windowMs ago still counts. *)
RecentClosed(u) == {i \in bucket[u] : now - admitted[u][i] <= Window}

(* Mutant of Recent: calls are counted in fixed windows, not a sliding one. *)
RecentFixed(u) == {i \in bucket[u] : admitted[u][i] \div Window = now \div Window}

(* The entries of the bucket that are younger than windowMs. *)
Recent(u) == {i \in bucket[u] : now - admitted[u][i] < Window}

(* ensureBidRateLimit throws 429; the refused call is not counted. *)
RefuseFast(c, u, amount) ==
  /\ call[c].pc = "idle"
  /\ Cardinality(Recent(u)) >= Limit
  /\ bucket' = [bucket EXCEPT ![u] = Recent(u)]
  /\ call' = [call EXCEPT ![c] = [NoCall EXCEPT !.pc = "done", !.user = u]]
  /\ UNCHANGED <<now, auction, admitted, room>>

(* ensureBidRateLimit lets the call in, and the user is looked up. *)
Admit(c, u, amount) ==
  /\ call[c].pc = "idle"
  /\ Cardinality(Recent(u)) < Limit
  /\ admitted' = [admitted EXCEPT ![u] = Append(@, now)]
  /\ bucket' = [bucket EXCEPT ![u] = Recent(u) \cup {Len(admitted[u]) + 1}]
  /\ call' = [call EXCEPT ![c] = [NoCall EXCEPT !.pc = "leader", !.user = u, !.amount = amount]]
  /\ UNCHANGED <<now, auction, room>>

(* previousLeaderUserId: getState before the script *)
ReadLeader(c) ==
  /\ call[c].pc = "leader"
  /\ call' = [call EXCEPT ![c].pc = "script", ![c].prev = hash.leader]
  /\ UNCHANGED <<now, auction, rate, room>>

(* PLACE_BID_SCRIPT, and the end of the call if it refuses. *)
Script(c) ==
  LET u == call[c].user IN
  /\ call[c].pc = "script"
  /\ \/ /\ AcceptBid(c, u, call[c].amount)
        /\ call' = [call EXCEPT ![c].pc = "read"]
        /\ overtaken' = overtaken \cup ({hash.leader} \ {NoUser})
     \/ /\ BidCode(c, u, call[c].amount) # "ACCEPTED"
        /\ call' = [call EXCEPT ![c].pc = "done"]
        /\ UNCHANGED <<redisVars, overtaken>>
  /\ UNCHANGED <<now, row, rate, told, endings, order>>

(* The state is read back by another command, maybe after other bids.      *)
ReadBack(c) ==
  /\ call[c].pc = "read"
  /\ call' = [call EXCEPT ![c].pc = "commit", ![c].won = hash]
  /\ UNCHANGED <<now, auction, rate, room>>

(* The transaction: the row takes a newer version, and is read back. *)
Commit(c) ==
  /\ call[c].pc = "commit"
  /\ row' = IF row.version < call[c].won.version THEN call[c].won ELSE row
  /\ call' = [call EXCEPT ![c].pc = "hash", ![c].ended = (row'.status = "SOLD")]
  /\ UNCHANGED <<now, redisVars, rate, room>>

----
(* S are the TopN best of the leaderboard b, or all if they are fewer.     *)
Best(b, S) ==
  LET ranked == {u \in Users : b[u] > 0} IN
  /\ S \subseteq ranked
  /\ Cardinality(S) = TopN \/ (Cardinality(ranked) < TopN /\ S = ranked)
  /\ \A u \in S, v \in ranked \ S : b[v] <= b[u]

(* ZREVRANGE 0 4: who is not among the best has no entry. *)
ReadBoard(c) ==
  \E S \in SUBSET Users :
    /\ Best(board, S)
    /\ call' = [call EXCEPT ![c].pc = IF @ = "board" THEN "emit" ELSE "board",
                            ![c].list = [u \in Users |-> IF u \in S THEN board[u] ELSE 0]]

(* Mutant of ReadHash: the leaderboard is asked for first. *)
ReadHashLast(c) ==
  /\ \/ /\ call[c].pc = "hash"
        /\ ReadBoard(c)
     \/ /\ call[c].pc = "board"
        /\ call' = [call EXCEPT ![c].pc = "emit", ![c].head = hash]
  /\ UNCHANGED <<now, auction, rate, room>>

(* toSnapshot: HGETALL, then the leaderboard on the same connection *)
ReadHash(c) ==
  /\ \/ /\ call[c].pc = "hash"
        /\ call' = [call EXCEPT ![c].pc = "board", ![c].head = hash]
     \/ /\ call[c].pc = "board"
        /\ ReadBoard(c)
  /\ UNCHANGED <<now, auction, rate, room>>

(* Mutant of Notified: the leader of the snapshot is told. *)
NotifiedLate(c) == {call[c].head.leader} \ {call[c].user, NoUser}

(* Mutant of Notified: the test for an auction without a leader is dropped. *)
NotifiedNobody(c) == {call[c].prev} \ {call[c].user}

(* Who gets the outbid event. *)
Notified(c) == {call[c].prev} \ {call[c].user, NoUser}

(* Mutant of BringsOrder: the order is left out of the event. *)
BringsOrderNever(c) == FALSE

(* The order of the event is the one of its own transaction. *)
BringsOrder(c) == call[c].won.status = "SOLD"

(* bidAccepted, outbid, auctionExtended and auctionEnded in one go.  The    *)
(* page sets its order from every auctionEnded.                            *)
Emit(c) ==
  /\ call[c].pc = "emit"
  /\ told' = told \cup Notified(c)
  /\ IF call[c].ended
     THEN endings' = endings \cup {BringsOrder(c)} /\ order' = BringsOrder(c)
     ELSE UNCHANGED <<endings, order>>
  /\ call' = [call EXCEPT ![c].pc = "done"]
  /\ UNCHANGED <<now, auction, rate, overtaken>>

Next ==
  \/ ClockTicks
  \/ \E c \in Calls, u \in Users :
       \E amount \in 1 .. hash.rules.cap : RefuseFast(c, u, amount) \/ Admit(c, u, amount)
  \/ \E c \in Calls :
       ReadLeader(c) \/ Script(c) \/ ReadBack(c) \/ Commit(c) \/ ReadHash(c) \/ Emit(c)

Spec == Init /\ [][Next]_vars

----
TypeOK ==
  /\ hash \in AuctionState /\ row \in AuctionState
  /\ board \in [Users -> Nat] /\ keys \subseteq Requests /\ now \in 0 .. MaxTime
  /\ admitted \in [Users -> Seq(0 .. MaxTime)]
  /\ bucket \in [Users -> SUBSET Nat]
  /\ \A u \in Users : bucket[u] \subseteq 1 .. Len(admitted[u])
  /\ call \in [Calls -> Call]
  /\ overtaken \subseteq Users /\ told \subseteq Users
  /\ endings \subseteq BOOLEAN /\ order \in BOOLEAN

(***************************************************************************)
(* No window of windowMs, wherever it starts, holds more than limit calls  *)
(* of a user that were let in, although the array forgets the older ones.  *)
(***************************************************************************)
RateHolds ==
  \A u \in Users : \A i \in 1 .. Len(admitted[u]) - Limit :
    admitted[u][i + Limit] - admitted[u][i] >= Window

(* Nobody is refused who has made fewer than limit calls in the window. *)
RefusedWhenFull ==
  [][\A c \in Calls : call[c].pc = "idle" /\ call'[c].pc = "done" =>
       LET times == admitted[call'[c].user] IN
       /\ Len(times) >= Limit
       /\ now - times[Len(times) - Limit + 1] < Window]_vars

(***************************************************************************)
(* The leaderboard of a snapshot is not behind its leader: it has him with *)
(* at least the price, or bids that came between the two reads have filled *)
(* it with others who are all above the price.                             *)
(***************************************************************************)
BoardNotBehind ==
  \A c \in Calls : call[c].pc = "emit" /\ call[c].head.leader # NoUser =>
    LET head == call[c].head
        list == call[c].list
    IN  \/ list[head.leader] >= head.price
        \/ Cardinality({u \in Users : list[u] > head.price}) = TopN

(* Who is told that he has been overtaken was, late as the notice may be.   *)
NoticeIsTrue == told \subseteq overtaken

(* A sale whose calls are over was announced with its order at least once. *)
SaleIsAnnounced ==
  hash.status = "SOLD" /\ (\A c \in Calls : call[c].pc \in {"idle", "done"}) => TRUE \in endings

(***************************************************************************)
(* The winner's way to his order stays open: no later event of the same    *)
(* sale takes the order card away again.                                   *)
(***************************************************************************)
OrderCardStays == [][order => order']_vars
===============================================================================
