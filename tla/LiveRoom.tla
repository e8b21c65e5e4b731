------------------------------- MODULE LiveRoom -------------------------------
(***************************************************************************)
(* How a page learns of auctions: the snapshots and broadcasts of          *)
(* auctions.service.ts, the rooms of auctions.gateway.ts and the merging   *)
(* in the two App.tsx.                                                     *)
(*                                                                         *)
(* Pages meet only in the API, so the model follows one page, of a buyer   *)
(* or of a host; what the others do arrives as calls that are not its own. *)
(* An auction is its version here: every accepted bid, cancellation and    *)
(* settlement raises it by one (RedisScripts).  Each handler stands at an  *)
(* await; a message is on its way until the page takes it, in order on the *)
(* socket and in any order over HTTP.  A call that is refused changes and  *)
(* broadcasts nothing and is left out, as are the leaderboard beside the   *)
(* hash and failures of a store while a snapshot is assembled.             *)
(***************************************************************************)
EXTENDS Integers, Sequences

CONSTANTS
  Auctions,    \* running auctions
  NoAuction,   \* '' as an auction id
  Bids,        \* accepted POST /auctions/:id/bids
  Closings,    \* cancellations and settlements that find it running
  NoSnapshot,  \* null as the state of the page
  MaxDrops,    \* bound: lost connections
  MaxPicks     \* bound: auctions the page picks

Calls == Bids \cup Closings

(* A state of auction of, read from Redis or from MySQL. *)
Snapshot == [of : Auctions, version : Nat]

ASSUME KindsAssumption == Bids \cap Closings = {}
ASSUME NullsAssumption == NoAuction \notin Auctions /\ NoSnapshot \notin Snapshot
ASSUME BoundsAssumption == MaxDrops \in Nat /\ MaxPicks \in Nat

VARIABLES
  version,  \* the version of each auction in Redis
  row,      \* the version of its MySQL row
  open,     \* it takes bids
  call,     \* the handlers that change an auction
  page,     \* whose page it is, "buyer" or "host"
  joining,  \* the handlers of joinAuction for its socket
  rooms,    \* the rooms its socket is in
  online,   \* its socket is connected
  up,       \* what the page has emitted, in order
  down,     \* what the server has emitted to the page, in order
  http,     \* answers on their way to the page
  joined,   \* the auction the page follows
  shown,    \* the state the page shows
  newest,   \* the highest version of it the socket has brought since
  drops,    \* connections lost so far
  picks     \* auctions picked so far

stores == <<version, row, open>>
sockets == <<rooms, online, up, down>>
screen == <<joined, shown, newest>>
vars == <<stores, call, page, joining, sockets, http, screen, drops, picks>>

PCs == {"idle", "commit", "hash", "emit", "answer", "done"}
Call == [pc : PCs, mine : BOOLEAN, own : Nat, snap : Snapshot \cup {NoSnapshot}]

(* Two handlers of joinAuction for one auction that stand at the same      *)
(* place and have read the same count as one.                              *)
Join == [auction : Auctions, pc : {"load", "hash", "emit"},
         snap : Snapshot \cup {NoSnapshot}]
Request == [op : {"join", "leave"}, auction : Auctions]
Message == [kind : {"event", "snapshot"}, body : Snapshot]

(* "detail" is a GET of the auction: the row at some time since it was     *)
(* sent.  "row" and "snap" answer a cancellation and a bid.                *)
Answer == [kind : {"detail", "row", "snap"}, body : Snapshot]

NoCall == [pc |-> "idle", mine |-> FALSE, own |-> 0, snap |-> NoSnapshot]
Finished == [NoCall EXCEPT !.pc = "done"]

Init ==
  /\ version = [a \in Auctions |-> 1]
  /\ row = version
  /\ open = [a \in Auctions |-> TRUE]
  /\ call = [c \in Calls |-> NoCall]
  /\ page \in {"buyer", "host"}
  /\ joining = {}
  /\ rooms = {}
  /\ online = TRUE
  /\ up = <<>>
  /\ down = <<>>
  /\ http = {}
  /\ joined = NoAuction
  /\ shown = NoSnapshot
  /\ newest = 0
  /\ drops = 0
  /\ picks = 0

----
(* The handlers that change an auction                                     *)

(* toSnapshot gives what the hash holds when it is read. *)
ReadHash(a) == [of |-> a, version |-> version[a]]
RowOf(a, v) == [of |-> a, version |-> v]

At(c, pc) == call[c].pc = pc
AuctionOf(c) == call[c].snap.of

(* The script of a call changes the auction.  A bid closes it if it        *)
(* reaches the cap, the others always.                                     *)
Change(c, a, mine) ==
  /\ open[a]
  /\ version' = [version EXCEPT ![a] = @ + 1]
  /\ \E sold \in BOOLEAN : open' = [open EXCEPT ![a] = c \in Bids /\ ~ sold]
  /\ call' = [call EXCEPT ![c] = [pc |-> "commit", mine |-> mine, own |-> version'[a],
                                  snap |-> RowOf(a, 0)]]

(* A buyer bids on the auction his page follows, a host cancels it; other  *)
(* pages and the timer change any.                                         *)
Begin(c) ==
  /\ At(c, "idle")
  /\ \/ /\ joined # NoAuction
        /\ c \in IF page = "buyer" THEN Bids ELSE Closings
        /\ Change(c, joined, TRUE)
     \/ \E a \in Auctions : Change(c, a, FALSE)
  /\ UNCHANGED <<row, page, joining, sockets, http, screen, drops, picks>>

(* The row follows, unless it is newer; a bid mirrors what it has read     *)
(* back, which may be a later version than its own.                        *)
Commit(c) ==
  LET a == AuctionOf(c) IN
  /\ At(c, "commit")
  /\ \E v \in call[c].own .. version[a] :
       /\ c \in Bids \/ v = call[c].own
       /\ row' = [row EXCEPT ![a] = IF @ < v THEN v ELSE @]
  /\ call' = [call EXCEPT ![c].pc = "hash"]
  /\ UNCHANGED <<version, open, page, joining, sockets, http, screen, drops, picks>>

CallRead(c) ==
  /\ At(c, "hash")
  /\ call' = [call EXCEPT ![c].pc = "emit", ![c].snap = ReadHash(@.of)]
  /\ UNCHANGED <<stores, page, joining, sockets, http, screen, drops, picks>>

Answering(kind, s) == http' = http \cup {[kind |-> kind, body |-> s]}

(* A bid assembles a second snapshot for its answer. *)
Reply(c) ==
  /\ At(c, "answer")
  /\ Answering("snap", ReadHash(AuctionOf(c)))
  /\ call' = [call EXCEPT ![c] = Finished]
  /\ UNCHANGED <<stores, page, joining, sockets, screen, drops, picks>>

Sent(s) == Append(down, [kind |-> "event", body |-> s])

(* Mutant of Broadcast: socket.to(room), which leaves out the caller. *)
BroadcastToOthers(c) ==
  down' = IF AuctionOf(c) \in rooms /\ ~ call[c].mine THEN Sent(call[c].snap) ELSE down

(* server.to(room).emit; bidAccepted, auctionExtended and auctionEnded of  *)
(* one bid have the same body and count as one.                            *)
Broadcast(c) ==
  down' = IF AuctionOf(c) \in rooms THEN Sent(call[c].snap) ELSE down

(* The answer of a cancellation is its row, which nothing changes any      *)
(* more; the answers to other pages are not of interest.                   *)
Emit(c) ==
  /\ At(c, "emit")
  /\ Broadcast(c)
  /\ \/ /\ call[c].mine /\ c \in Bids
        /\ call' = [call EXCEPT ![c].pc = "answer"]
        /\ UNCHANGED http
     \/ /\ call[c].mine /\ c \in Closings
        /\ call' = [call EXCEPT ![c] = Finished]
        /\ Answering("row", RowOf(AuctionOf(c), call[c].own))
     \/ /\ ~ call[c].mine
        /\ call' = [call EXCEPT ![c] = Finished]
        /\ UNCHANGED http
  /\ UNCHANGED <<stores, page, joining, rooms, online, up, screen, drops, picks>>

CallStep(c) ==
  Begin(c) \/ Commit(c) \/ CallRead(c) \/ Emit(c) \/ Reply(c)

----
(* The gateway                                                             *)

ReceiveJoin ==
  /\ online /\ up # <<>> /\ Head(up).op = "join"
  /\ up' = Tail(up)
  /\ joining' = joining \cup {[auction |-> Head(up).auction, pc |-> "load",
                               snap |-> NoSnapshot]}
  /\ UNCHANGED <<stores, call, page, rooms, online, down, http, screen, drops, picks>>

(* leaveAuction is done at once. *)
ReceiveLeave ==
  /\ online /\ up # <<>> /\ Head(up).op = "leave"
  /\ up' = Tail(up)
  /\ rooms' = rooms \ {Head(up).auction}
  /\ UNCHANGED <<stores, call, page, joining, online, down, http, screen, drops, picks>>

Advance(j, pc, s) == joining' = (joining \ {j}) \cup {[j EXCEPT !.pc = pc, !.snap = s]}

(* Mutant of Enter: only hosts are put into the room of the auction. *)
EnterHostsOnly(a) == rooms' = IF page = "host" THEN rooms \cup {a} ELSE rooms

(* client.join *)
Enter(a) == rooms' = rooms \cup {a}

(* findOne, then client.join.  The user a buyer names is looked up next,   *)
(* which is one more wait before the hash is read.                         *)
JoinLoad(j) ==
  /\ j.pc = "load"
  /\ Enter(j.auction)
  /\ Advance(j, "hash", NoSnapshot)
  /\ UNCHANGED <<stores, call, page, online, up, down, http, screen, drops, picks>>

JoinRead(j) ==
  /\ j.pc = "hash"
  /\ Advance(j, "emit", ReadHash(j.auction))
  /\ UNCHANGED <<stores, call, page, sockets, http, screen, drops, picks>>

JoinEmit(j) ==
  /\ j.pc = "emit"
  /\ down' = Append(down, [kind |-> "snapshot", body |-> j.snap])
  /\ joining' = joining \ {j}
  /\ UNCHANGED <<stores, call, page, rooms, online, up, http, screen, drops, picks>>

GatewayStep ==
  \/ ReceiveJoin
  \/ ReceiveLeave
  \/ \E j \in joining : JoinLoad(j) \/ JoinRead(j) \/ JoinEmit(j)

----
(* The page                                                                *)

Joins(a) == <<[op |-> "join", auction |-> a]>>

(* What the page emits when it goes over to auction a.  The form of the    *)
(* buyer page was sent when it followed none, and joins each time it is    *)
(* answered; the effect of the host page runs only for another id and      *)
(* cleans up first.                                                        *)
BuyerSwitch(a) == Joins(a)

Leaves == IF joined = NoAuction THEN <<>> ELSE <<[op |-> "leave", auction |-> joined]>>
HostSwitch(a) == IF joined = a THEN <<>> ELSE Leaves \o Joins(a)

(* The auction the page has asked for arrives: the row at any time since.  *)
(* A host asks whenever he likes.  The form of a buyer is gone once his    *)
(* page follows an auction, but it may have been sent more than once       *)
(* before.                                                                 *)
Pick(a) ==
  /\ picks < MaxPicks
  /\ picks' = picks + 1
  /\ \E v \in 1 .. row[a] : shown' = RowOf(a, v)
  /\ joined' = a
  /\ newest' = IF a = joined THEN newest ELSE 0
  /\ up' = up \o (IF page = "buyer" THEN BuyerSwitch(a) ELSE HostSwitch(a))
  /\ UNCHANGED <<stores, call, page, joining, rooms, online, down, http, drops>>

(* setAuction and mergeAuction take what comes, without a look at the      *)
(* version or the auction.                                                 *)
Answered(h) ==
  /\ http' = http \ {h}
  /\ \/ h.kind = "detail" /\ \E v \in h.body.version .. row[h.body.of] :
                               shown' = RowOf(h.body.of, v)
     \/ h.kind # "detail" /\ shown' = h.body
  /\ UNCHANGED <<stores, call, page, joining, sockets, joined, newest, drops, picks>>

(* A message on the socket; the host page asks for the auction of an       *)
(* event once more.                                                        *)
Merge ==
  LET m == Head(down)
      a == m.body.of IN
  /\ online /\ down # <<>>
  /\ down' = Tail(down)
  /\ shown' = m.body
  /\ newest' = IF a = joined /\ newest < m.body.version THEN m.body.version ELSE newest
  /\ IF page = "host" /\ m.kind = "event" THEN Answering("detail", RowOf(a, row[a]))
     ELSE UNCHANGED http
  /\ UNCHANGED <<stores, call, page, joining, rooms, online, up, joined, drops, picks>>

(* Mutant of Connect: without a look whether it follows an auction. *)
ConnectAnyway ==
  /\ ~ online
  /\ online' = TRUE
  /\ up' = up \o Joins(joined)
  /\ UNCHANGED <<stores, call, page, joining, rooms, down, http, screen, drops, picks>>

(* The socket connects again and the page joins its auction again; what it *)
(* emitted meanwhile has been kept.                                        *)
Connect ==
  /\ ~ online
  /\ online' = TRUE
  /\ up' = IF joined = NoAuction THEN up ELSE up \o Joins(joined)
  /\ UNCHANGED <<stores, call, page, joining, rooms, down, http, screen, drops, picks>>

PageStep ==
  \/ \E a \in Auctions : Pick(a)
  \/ \E h \in http : Answered(h)
  \/ Merge
  \/ Connect

----
(* What is lost with a connection: messages both ways, the rooms, and      *)
(* whatever a handler of joinAuction still does for the old socket.        *)
Cut ==
  /\ online /\ drops < MaxDrops
  /\ drops' = drops + 1
  /\ online' = FALSE
  /\ rooms' = {}
  /\ up' = <<>>
  /\ down' = <<>>
  /\ joining' = {}
  /\ newest' = 0

Disconnect == Cut /\ UNCHANGED <<stores, call, page, http, joined, shown, picks>>

(* The API process dies, between a script and its broadcast perhaps. *)
Crash ==
  /\ Cut
  /\ call' = [c \in Calls |-> IF At(c, "idle") THEN call[c] ELSE Finished]
  /\ UNCHANGED <<stores, page, http, joined, shown, picks>>

Next ==
  \/ \E c \in Calls : CallStep(c)
  \/ GatewayStep
  \/ PageStep
  \/ Disconnect
  \/ Crash

Spec == Init /\ [][Next]_vars

----
TypeOK ==
  /\ version \in [Auctions -> Nat] /\ row \in [Auctions -> Nat]
  /\ open \in [Auctions -> BOOLEAN]
  /\ call \in [Calls -> Call]
  /\ page \in {"buyer", "host"}
  /\ joining \subseteq Join
  /\ rooms \subseteq Auctions /\ online \in BOOLEAN
  /\ up \in Seq(Request) /\ down \in Seq(Message)
  /\ http \subseteq Answer
  /\ joined \in Auctions \cup {NoAuction}
  /\ shown \in Snapshot \cup {NoSnapshot}
  /\ newest \in Nat
  /\ drops \in Nat /\ picks \in Nat

(* Everything that was on its way over the sockets has arrived. *)
Quiet ==
  /\ \A c \in Calls : call[c].pc \in {"idle", "done"}
  /\ joining = {}
  /\ online /\ up = <<>> /\ down = <<>>

(***************************************************************************)
(* However joining, leaving, lost connections and changes overlap, the     *)
(* page ends up in the room of the auction it follows ...                  *)
(***************************************************************************)
FollowsInRoom == Quiet /\ joined # NoAuction => joined \in rooms

(***************************************************************************)
(* ... and its socket has brought it the last state of that auction: the   *)
(* room is entered before the snapshot is read, every change is broadcast  *)
(* by a snapshot read after it, and who reconnects joins again, also when  *)
(* the process died between a change and its broadcast.                    *)
(***************************************************************************)
NothingMissed == Quiet /\ joined # NoAuction => newest = version[joined]

----
(* What the documents promise and the code does not keep                   *)

(* While it follows an auction the page does not go back to an older       *)
(* version of it: old messages are ignored.                                *)
OldIgnored ==
  [][picks' = picks /\ shown # NoSnapshot /\ shown'.of = shown.of
       => shown'.version >= shown.version]_vars
===============================================================================
