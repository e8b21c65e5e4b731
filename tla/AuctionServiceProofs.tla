------------------------- MODULE AuctionServiceProofs -------------------------
(***************************************************************************)
(* What AuctionService keeps whatever fails and however many calls there   *)
(* are: every constant is arbitrary, Faults included.  The last part, from *)
(* RecordedRequests on, is about calls that come one after the other.      *)
(***************************************************************************)
EXTENDS AuctionService, RedisScriptsProofs, FiniteSetTheorems

(* A bid of the call is in MySQL, under its requestId and its user. *)
Recorded(c) ==
  /\ bids[input[c].req] # NoBid
  /\ bids[input[c].req].user = input[c].user

(***************************************************************************)
(* What is true of one call.  Where a step uses what was read earlier,     *)
(* something was read; a call that has committed a bid, or has said so,    *)
(* has its row, and the order if it was the sale.                          *)
(***************************************************************************)
CallOK(c) ==
  /\ call[c].pc \in {"commit", "emit", "ensure", "init", "undo.board", "undo.exec"}
       => call[c].seen # NoHash
  /\ call[c].pc = "save"
       => IF c \in PayCalls THEN order # NoOrder ELSE call[c].seen # NoHash
  /\ c = Timer /\ call[c].pc = "save" /\ call[c].seen.status = "SOLD"
       => call[c].seen.leader # NoUser
  /\ c \in BidCalls /\ call[c].pc = "emit"
       => Recorded(c) /\ (call[c].seen.status = "SOLD" => order # NoOrder)
  /\ c \in BidCalls /\ call[c].reply \in {"accepted", "sold"}
       => Recorded(c) /\ (call[c].reply = "sold" => order # NoOrder)

(* The stores, without the calls. *)
StoresOK ==
  /\ hash \in AuctionState \cup {NoHash}
  /\ board \in [Users -> Nat]
  /\ keys \in SUBSET Requests
  /\ now \in Nat
  /\ row \in AuctionState
  /\ bids \in [Requests -> BidRow \cup {NoBid}]
  /\ order \in OrderRow \cup {NoOrder}
  /\ input \in [BidCalls -> Inputs]
  /\ RowSoldHasOrder

(* The inductive invariant. *)
ServiceInv ==
  /\ StoresOK
  /\ call \in [Calls -> CallState]
  /\ \A c \in Calls : CallOK(c)

(* Rows are only ever added. *)
RowsStay ==
  /\ \A r \in Requests : bids[r] # NoBid => bids'[r] = bids[r]
  /\ order # NoOrder => order' # NoOrder
  /\ input' = input

(* Of the calls only c moves. *)
Moves(c) ==
  /\ call' \in [Calls -> CallState]
  /\ \A d \in Calls \ {c} : call'[d] = call[d]

ReadOnly == UNCHANGED <<redisVars, now, dbVars, input>>

----
(* The three ways a call moves. *)
LEMMA FreshState == Fresh \in CallState
BY DEF Fresh, CallState, PCs, Replies, EmptyBoard

(* Going on to another await changes nothing else of the call. *)
LEMMA GotoMoves ==
  ASSUME call \in [Calls -> CallState], NEW c \in Calls, NEW pc \in PCs, Goto(c, pc)
  PROVE  /\ Moves(c)
         /\ call'[c].pc = pc
         /\ call'[c].seen = call[c].seen
         /\ call'[c].reply = call[c].reply
<1> DEFINE t == [call[c] EXCEPT !.pc = pc]
<1>1. call[c] \in CallState OBVIOUS
<1>2. t \in CallState BY <1>1 DEF CallState
<1>3. t.pc = pc /\ t.seen = call[c].seen /\ t.reply = call[c].reply BY <1>1 DEF CallState
<1>4. call' = [call EXCEPT ![c] = t] BY DEF Goto
<1> HIDE DEF t
<1> QED BY <1>2, <1>3, <1>4 DEF Moves

(* Going on with what was read changes the place and what was seen. *)
LEMMA GotoSeeingMoves ==
  ASSUME call \in [Calls -> CallState], NEW c \in Calls, NEW pc \in PCs,
         NEW s \in AuctionState, GotoSeeing(c, pc, s)
  PROVE  /\ Moves(c)
         /\ call'[c].pc = pc
         /\ call'[c].seen = s
         /\ call'[c].reply = call[c].reply
<1> DEFINE t == [call[c] EXCEPT !.pc = pc, !.seen = s]
<1>1. call[c] \in CallState OBVIOUS
<1>2. t \in CallState BY <1>1 DEF CallState
<1>3. t.pc = pc /\ t.seen = s /\ t.reply = call[c].reply BY <1>1 DEF CallState
<1>4. call' = [call EXCEPT ![c] = t] BY DEF GotoSeeing
<1> HIDE DEF t
<1> QED BY <1>2, <1>3, <1>4 DEF Moves

(* An answered call is idle or done and has at most this reply. *)
LEMMA AnswerMoves ==
  ASSUME call \in [Calls -> CallState], NEW c \in Calls, NEW reply \in Replies, Answer(c, reply)
  PROVE  /\ Moves(c)
         /\ call'[c].pc \in {"idle", "done"}
         /\ call'[c].reply \in {"none", reply}
<1> DEFINE t == IF c = Timer THEN Fresh ELSE [Fresh EXCEPT !.pc = "done", !.reply = reply]
<1>1. [Fresh EXCEPT !.pc = "done", !.reply = reply] \in CallState
  BY FreshState DEF CallState, PCs
<1>2. t \in CallState BY <1>1, FreshState
<1>3. t.pc \in {"idle", "done"} /\ t.reply \in {"none", reply} BY DEF Fresh
<1>4. call' = [call EXCEPT ![c] = t] BY DEF Answer
<1> HIDE DEF t
<1> QED BY <1>2, <1>3, <1>4 DEF Moves

(* A step of one call keeps the invariant if its own part and the stores'  *)
(* part hold afterwards and no row goes away.                              *)
LEMMA OneMoves ==
  ASSUME ServiceInv, NEW c \in Calls, Moves(c), RowsStay, StoresOK', CallOK(c)'
  PROVE  ServiceInv'
<1>1. ASSUME NEW d \in Calls, d # c PROVE CallOK(d)'
  <2>1. call'[d] = call[d] /\ input' = input /\ CallOK(d)
    BY <1>1 DEF Moves, RowsStay, ServiceInv
  <2>2. order # NoOrder => order' # NoOrder BY DEF RowsStay
  <2>3. ASSUME d \in BidCalls, Recorded(d) PROVE Recorded(d)'
    <3>1. input[d] \in Inputs BY <2>3 DEF ServiceInv, StoresOK
    <3>2. input[d].req \in Requests BY <3>1, InputsAssumption
    <3>3. bids'[input[d].req] = bids[input[d].req] BY <2>3, <3>2 DEF Recorded, RowsStay
    <3> QED BY <2>1, <2>3, <3>3 DEF Recorded
  <2> QED BY <2>1, <2>2, <2>3 DEF CallOK
<1> QED BY <1>1 DEF ServiceInv, Moves

(* A step that writes nothing keeps rows and stores. *)
LEMMA ReadOnlyStep ==
  ASSUME ServiceInv, ReadOnly PROVE RowsStay /\ StoresOK'
BY DEF ServiceInv, StoresOK, ReadOnly, RowsStay, RowSoldHasOrder, redisVars, dbVars

(* A call that has been answered claims only what its reply says. *)
LEMMA AnsweredOK ==
  ASSUME NEW c \in Calls, call'[c].pc \in {"idle", "done"},
         call'[c].reply \notin {"accepted", "sold"}
  PROVE  CallOK(c)'
BY DEF CallOK

(* Answering without a write and without a claim keeps the invariant. *)
LEMMA ReadOnlyAnswer ==
  ASSUME ServiceInv, ReadOnly, NEW c \in Calls, NEW reply \in Replies \ {"accepted", "sold"},
         Answer(c, reply)
  PROVE  ServiceInv'
<1>1. /\ Moves(c)
      /\ call'[c].pc \in {"idle", "done"}
      /\ call'[c].reply \in {"none", reply}
  BY AnswerMoves DEF ServiceInv
<1>2. CallOK(c)' BY <1>1, AnsweredOK
<1> QED BY <1>1, <1>2, ReadOnlyStep, OneMoves

(* Going on to a place where nothing is claimed but that something was seen. *)
Plain == {"eval", "read", "load", "undo.load"}

(* A call that goes on to such a place keeps its part of the invariant. *)
LEMMA PlainGotoOK ==
  ASSUME ServiceInv, RowsStay, NEW c \in Calls, NEW pc \in Plain, Goto(c, pc)
  PROVE  Moves(c) /\ CallOK(c)'
<1>1. /\ Moves(c) /\ call'[c].pc = pc /\ call'[c].reply = call[c].reply
  BY GotoMoves DEF ServiceInv, Plain, PCs
<1>2. CallOK(c) BY DEF ServiceInv
<1>3. c \in BidCalls => input[c].req \in Requests
  BY InputsAssumption DEF ServiceInv, StoresOK
<1>4. c \in BidCalls /\ Recorded(c) => Recorded(c)' BY <1>3 DEF Recorded, RowsStay
<1> QED BY <1>1, <1>2, <1>4 DEF CallOK, RowsStay, Plain

(* The same for a call that goes on with a row or a hash it has just read. *)
LEMMA SeeingOK ==
  ASSUME ServiceInv, RowsStay, NEW c \in Calls,
         NEW pc \in {"commit", "ensure", "init", "undo.board", "save"},
         NEW s \in AuctionState,
         GotoSeeing(c, pc, s),
         pc = "save" => c \notin PayCalls,
         pc = "save" /\ c = Timer /\ s.status = "SOLD" => s.leader # NoUser
  PROVE  Moves(c) /\ CallOK(c)'
<1>1. /\ Moves(c) /\ call'[c].pc = pc /\ call'[c].seen = s /\ call'[c].reply = call[c].reply
  BY GotoSeeingMoves DEF ServiceInv, PCs
<1>2. CallOK(c) BY DEF ServiceInv
<1>3. c \in BidCalls => input[c].req \in Requests
  BY InputsAssumption DEF ServiceInv, StoresOK
<1>4. c \in BidCalls /\ Recorded(c) => Recorded(c)' BY <1>3 DEF Recorded, RowsStay
<1>5. s # NoHash BY NoHashAssumption
<1> QED BY <1>1, <1>2, <1>4, <1>5 DEF CallOK, RowsStay

(* What a call has seen, if anything, is the state of an auction. *)
LEMMA Seen ==
  ASSUME ServiceInv, NEW c \in Calls, call[c].seen # NoHash
  PROVE  call[c].seen \in AuctionState
BY DEF ServiceInv, CallState

(* The body of a bid call is well typed (the DTO has been validated). *)
LEMMA BidInput ==
  ASSUME ServiceInv, NEW c \in BidCalls
  PROVE  c \in Calls /\ input[c].req \in Requests /\ input[c].user \in Users /\ input[c].amount \in Nat
<1>1. input[c] \in Inputs BY DEF ServiceInv, StoresOK
<1> QED BY <1>1, InputsAssumption DEF Calls

(* An accepted bid, whoever learns of it. *)
LEMMA AcceptedStores ==
  ASSUME ServiceInv, NEW c \in BidCalls,
         AcceptBid(input[c].req, input[c].user, input[c].amount), UNCHANGED <<now, dbVars, input>>
  PROVE  RowsStay /\ StoresOK'
<1>1. hash' \in AuctionState /\ board' \in [Users -> Nat] /\ keys' \in SUBSET Requests
  BY BidInput, AcceptedBidKeys DEF ServiceInv, StoresOK
<1> QED BY <1>1 DEF ServiceInv, StoresOK, RowsStay, RowSoldHasOrder, dbVars

(* The mirror update leaves a well-typed row and one of two statuses. *)
LEMMA MirrorType ==
  ASSUME row \in AuctionState, NEW s \in AuctionState, Mirror(s)
  PROVE  row' \in AuctionState /\ row'.status \in {row.status, s.status}
<1> DEFINE t == [row EXCEPT !.status = s.status, !.price = s.price, !.leader = s.leader,
                            !.endAt = s.endAt, !.version = s.version]
<1>1. t \in AuctionState /\ t.status = s.status BY DEF AuctionState
<1>2. row' = IF row.version < s.version THEN t ELSE row BY DEF Mirror
<1> HIDE DEF t
<1> QED BY <1>1, <1>2

(* After the upsert there is an order, the old one or the new one. *)
LEMMA UpsertType ==
  ASSUME order \in OrderRow \cup {NoOrder}, NEW u \in Users, NEW amount \in Nat,
         UpsertOrder(u, amount)
  PROVE  order' \in OrderRow /\ order' # NoOrder
<1>1. order' \in OrderRow BY DEF UpsertOrder, OrderRow
<1> QED BY <1>1, NoRowAssumption

(* The transaction of a bid records it, and its sale. *)
LEMMA CommitStores ==
  ASSUME ServiceInv, NEW c \in BidCalls, BidCommit(c)
  PROVE  RowsStay /\ StoresOK' /\ Moves(c) /\ CallOK(c)'
<1> DEFINE s == call[c].seen
           r == input[c].req
           u == input[c].user
           b == [user |-> u, amount |-> s.price]
<1>1. c \in Calls /\ r \in Requests /\ u \in Users BY BidInput
<1>2. CallOK(c) BY <1>1 DEF ServiceInv
<1>3. s \in AuctionState BY <1>1, <1>2, Seen DEF BidCommit, At, CallOK
<1>4. b \in BidRow /\ s.price \in Nat BY <1>1, <1>3 DEF BidRow, AuctionState
<1>5. bids' = [bids EXCEPT ![r] = b] /\ bids[r] = NoBid BY DEF BidCommit
<1>6. bids \in [Requests -> BidRow \cup {NoBid}] BY DEF ServiceInv, StoresOK
<1>7. /\ bids' \in [Requests -> BidRow \cup {NoBid}]
      /\ bids'[r] = b
      /\ \A q \in Requests : bids[q] # NoBid => bids'[q] = bids[q]
  BY <1>1, <1>4, <1>5, <1>6
<1>8. b # NoBid /\ b.user = u BY <1>4, NoRowAssumption
<1>9. row' \in AuctionState /\ row'.status \in {row.status, s.status}
  BY <1>3, MirrorType DEF BidCommit, ServiceInv, StoresOK
<1>10. /\ order' \in OrderRow \cup {NoOrder}
       /\ order # NoOrder => order' # NoOrder
       /\ s.status = "SOLD" => order' # NoOrder
  <2>1. CASE s.status = "SOLD"
    BY <1>1, <1>4, <2>1, UpsertType DEF BidCommit, ServiceInv, StoresOK
  <2>2. CASE s.status # "SOLD"
    BY <2>2 DEF BidCommit, ServiceInv, StoresOK
  <2> QED BY <2>1, <2>2
<1>11. UNCHANGED redisVars /\ now' = now /\ input' = input BY DEF BidCommit
<1>12. RowsStay BY <1>7, <1>10, <1>11 DEF RowsStay
<1>13. StoresOK'
  <2>1. RowSoldHasOrder' BY <1>9, <1>10 DEF ServiceInv, StoresOK, RowSoldHasOrder
  <2> QED BY <1>7, <1>9, <1>10, <1>11, <2>1 DEF ServiceInv, StoresOK, redisVars
<1>14. /\ Moves(c) /\ call'[c].pc = "emit" /\ call'[c].seen = s
       /\ call'[c].reply = call[c].reply
  BY <1>1, GotoMoves DEF BidCommit, ServiceInv, PCs
<1>15. Recorded(c)' BY <1>7, <1>8, <1>11 DEF Recorded
<1>16. CallOK(c)'
  BY <1>2, <1>3, <1>10, <1>14, <1>15, NoHashAssumption DEF CallOK
<1> QED BY <1>12, <1>13, <1>14, <1>16

(* The steps of the undo that read the standings. *)
LEMMA UndoBoardMoves ==
  ASSUME ServiceInv, NEW c \in BidCalls, UndoBoard(c)
  PROVE  Moves(c) /\ CallOK(c)'
<1>1. c \in Calls /\ call[c] \in CallState BY BidInput DEF ServiceInv
<1>2. PICK e \in [Users -> Amounts], S \in SUBSET Users :
        call' = [call EXCEPT ![c].pc = "undo.exec",
                             ![c].entries = [u \in Users |-> IF u \in S THEN e[u] ELSE 0]]
  BY DEF UndoBoard
<1>3. Amounts \subseteq Nat
  <2>1. ASSUME NEW u \in Users PROVE AmountsOf(u) \subseteq Nat
    BY DEF AmountsOf, ServiceInv, StoresOK, BidRow
  <2> QED BY <2>1 DEF Amounts
<1> DEFINE entries == [u \in Users |-> IF u \in S THEN e[u] ELSE 0]
           t == [call[c] EXCEPT !.pc = "undo.exec", !.entries = entries]
<1>4. entries \in [Users -> Nat] BY <1>3
<1>5. call' = [call EXCEPT ![c] = t] BY <1>2
<1> HIDE DEF entries
<1>6. t \in CallState /\ t.pc = "undo.exec" /\ t.seen = call[c].seen /\ t.reply = call[c].reply
  BY <1>1, <1>4 DEF CallState, PCs
<1> HIDE DEF t
<1>7. /\ Moves(c) /\ call'[c].pc = "undo.exec" /\ call'[c].seen = call[c].seen
      /\ call'[c].reply = call[c].reply
  BY <1>1, <1>5, <1>6 DEF Moves, ServiceInv
<1>8. CallOK(c) /\ call[c].pc = "undo.board" BY <1>1 DEF UndoBoard, At, ServiceInv
<1>9. UNCHANGED <<bids, order, input>> BY DEF UndoBoard, dbVars
<1>10. CallOK(c)' BY <1>7, <1>8, <1>9 DEF CallOK, Recorded
<1> QED BY <1>7, <1>10

(* placeBid and its undo keep the invariant, await by await. *)
LEMMA BidStepKeeps ==
  ASSUME ServiceInv, NEW c \in BidCalls, BidStep(c)
  PROVE  ServiceInv'
<1>0. /\ c \in Calls /\ CallOK(c) /\ call[c] \in CallState
      /\ input[c].req \in Requests /\ input[c].user \in Users /\ input[c].amount \in Nat
  BY BidInput DEF ServiceInv
<1>1. CASE BidArrives(c)
  <2>1. ReadOnly /\ Goto(c, "eval") BY <1>1 DEF BidArrives, ReadOnly
  <2> QED BY <1>0, <2>1, ReadOnlyStep, PlainGotoOK, OneMoves DEF Plain
<1>2. CASE BidEval(c)
  <2>1. RowsStay /\ StoresOK' BY <1>2, AcceptedStores DEF BidEval
  <2>2. Goto(c, "read") BY <1>2 DEF BidEval
  <2> QED BY <1>0, <2>1, <2>2, PlainGotoOK, OneMoves DEF Plain
<1>3. CASE BidMisses(c)
  <2>1. ReadOnly /\ (Answer(c, "rejected") \/ Goto(c, "load"))
    BY <1>3 DEF BidMisses, ReadOnly
  <2>2. CASE Answer(c, "rejected") BY <1>0, <2>1, <2>2, ReadOnlyAnswer DEF Replies
  <2>3. CASE Goto(c, "load")
    BY <1>0, <2>1, <2>3, ReadOnlyStep, PlainGotoOK, OneMoves DEF Plain
  <2> QED BY <2>1, <2>2, <2>3
<1>4. CASE BidRefused(c)
  <2>1. ReadOnly /\ (Answer(c, "rejected") \/ Answer(c, "duplicate"))
    BY <1>4 DEF BidRefused, ReadOnly
  <2> QED BY <1>0, <2>1, ReadOnlyAnswer DEF Replies
<1>5. CASE BidRead(c)
  <2>1. ReadOnly BY <1>5 DEF BidRead, ReadOnly
  <2>2. \/ hash # NoHash /\ GotoSeeing(c, "commit", hash)
        \/ Answer(c, "rejected")
        \/ Goto(c, "load")
    BY <1>5 DEF BidRead
  <2>3. CASE hash # NoHash /\ GotoSeeing(c, "commit", hash)
    <3>1. hash \in AuctionState BY <2>3 DEF ServiceInv, StoresOK
    <3>2. RowsStay /\ StoresOK' BY <2>1, ReadOnlyStep
    <3>3. Moves(c) /\ CallOK(c)' BY <1>0, <2>3, <3>1, <3>2, SeeingOK
    <3> QED BY <1>0, <3>2, <3>3, OneMoves
  <2>4. CASE Answer(c, "rejected") BY <1>0, <2>1, <2>4, ReadOnlyAnswer DEF Replies
  <2>5. CASE Goto(c, "load")
    BY <1>0, <2>1, <2>5, ReadOnlyStep, PlainGotoOK, OneMoves DEF Plain
  <2> QED BY <2>2, <2>3, <2>4, <2>5
<1>6. CASE BidLoad(c)
  <2> DEFINE t == [call[c] EXCEPT !.pc = "ensure", !.seen = row, !.again = TRUE]
  <2>1. row \in AuctionState BY DEF ServiceInv, StoresOK
  <2>2. t \in CallState /\ t.pc = "ensure" /\ t.seen = row /\ t.reply = call[c].reply
    BY <1>0, <2>1 DEF CallState, PCs
  <2>3. call' = [call EXCEPT ![c] = t] BY <1>6 DEF BidLoad
  <2> HIDE DEF t
  <2>4. /\ Moves(c) /\ call'[c].pc = "ensure" /\ call'[c].seen = row
        /\ call'[c].reply = call[c].reply
    BY <1>0, <2>2, <2>3 DEF Moves, ServiceInv
  <2>5. ReadOnly BY <1>6 DEF BidLoad, ReadOnly
  <2>6. CallOK(c)'
    BY <1>0, <2>1, <2>4, <2>5, NoHashAssumption DEF CallOK, Recorded, ReadOnly, dbVars
  <2> QED BY <1>0, <2>4, <2>5, <2>6, ReadOnlyStep, OneMoves
<1>7. CASE BidCommit(c)
  BY <1>0, <1>7, CommitStores, OneMoves
<1>8. CASE BidConflicts(c)
  <2>1. ReadOnly /\ Goto(c, "undo.load") BY <1>8 DEF BidConflicts, ReadOnly
  <2> QED BY <1>0, <2>1, ReadOnlyStep, PlainGotoOK, OneMoves DEF Plain
<1>9. CASE BidReply(c)
  <2> DEFINE reply == IF call[c].seen.status = "SOLD" THEN "sold" ELSE "accepted"
  <2>1. ReadOnly /\ Answer(c, reply) /\ call[c].pc = "emit" BY <1>9 DEF BidReply, ReadOnly, At
  <2>2. reply \in Replies BY DEF Replies
  <2>3. reply = "sold" => order # NoOrder BY <1>0, <2>1 DEF CallOK
  <2>4. Recorded(c) BY <1>0, <2>1 DEF CallOK
  <2> HIDE DEF reply
  <2>5. Moves(c) /\ call'[c].pc \in {"idle", "done"} /\ call'[c].reply \in {"none", reply}
    BY <1>0, <2>1, <2>2, AnswerMoves DEF ServiceInv
  <2>6. CallOK(c)'
    BY <2>1, <2>3, <2>4, <2>5 DEF CallOK, Recorded, ReadOnly, dbVars
  <2> QED BY <1>0, <2>1, <2>5, <2>6, ReadOnlyStep, OneMoves
<1>10. CASE UndoLoad(c)
  <2>1. ReadOnly /\ GotoSeeing(c, "undo.board", row) BY <1>10 DEF UndoLoad, ReadOnly
  <2>2. row \in AuctionState BY DEF ServiceInv, StoresOK
  <2>3. RowsStay /\ StoresOK' BY <2>1, ReadOnlyStep
  <2>4. Moves(c) /\ CallOK(c)' BY <1>0, <2>1, <2>2, <2>3, SeeingOK
  <2> QED BY <1>0, <2>3, <2>4, OneMoves
<1>11. CASE UndoBoard(c)
  <2>1. ReadOnly BY <1>11 DEF UndoBoard, ReadOnly
  <2> QED BY <1>0, <1>11, <2>1, UndoBoardMoves, ReadOnlyStep, OneMoves
<1>12. CASE UndoExec(c)
  <2>1. call[c].seen \in AuctionState BY <1>0, <1>12, Seen DEF UndoExec, At, CallOK
  <2>2. call[c].entries \in [Users -> Nat] BY <1>0 DEF CallState
  <2>3. RowsStay /\ StoresOK'
    BY <1>12, <2>1, <2>2
    DEF UndoExec, RestoreFromDatabase, ServiceInv, StoresOK, RowsStay, RowSoldHasOrder, dbVars
  <2>4. Moves(c) /\ call'[c].pc \in {"idle", "done"} /\ call'[c].reply \in {"none", "error"}
    BY <1>0, <1>12, AnswerMoves DEF UndoExec, ServiceInv, Replies
  <2>5. CallOK(c)' BY <1>0, <2>4, AnsweredOK
  <2> QED BY <1>0, <2>3, <2>4, <2>5, OneMoves
<1> QED
  BY <1>1, <1>2, <1>3, <1>4, <1>5, <1>6, <1>7, <1>8, <1>9, <1>10, <1>11, <1>12 DEF BidStep

(* ensureRedisState and initialize keep the invariant. *)
LEMMA EnsureKeeps ==
  ASSUME ServiceInv, NEW c \in Calls, Ensure(c) \/ InitRedis(c)
  PROVE  ServiceInv'
<1>0. CallOK(c) BY DEF ServiceInv
<1>1. CASE Ensure(c)
  <2>1. ReadOnly /\ (Goto(c, "eval") \/ Answer(c, "rejected") \/ Goto(c, "init"))
    BY <1>1 DEF Ensure, ReadOnly
  <2>2. CASE Goto(c, "eval")
    BY <2>1, <2>2, ReadOnlyStep, PlainGotoOK, OneMoves DEF Plain
  <2>3. CASE Answer(c, "rejected")
    BY <2>1, <2>3, ReadOnlyAnswer DEF Replies
  <2>4. CASE Goto(c, "init")
    <3>1. /\ Moves(c) /\ call'[c].pc = "init" /\ call'[c].seen = call[c].seen
          /\ call'[c].reply = call[c].reply
      BY <2>4, GotoMoves DEF ServiceInv, PCs
    <3>2. call[c].seen # NoHash BY <1>0, <1>1 DEF Ensure, At, CallOK
    <3>3. CallOK(c)'
      BY <1>0, <2>1, <3>1, <3>2 DEF CallOK, Recorded, ReadOnly, dbVars
    <3> QED BY <2>1, <3>1, <3>3, ReadOnlyStep, OneMoves
  <2> QED BY <2>1, <2>2, <2>3, <2>4
<1>2. CASE InitRedis(c)
  <2>1. call[c].seen \in AuctionState BY <1>0, <1>2, Seen DEF InitRedis, At, CallOK
  <2>2. RowsStay /\ StoresOK'
    BY <1>2, <2>1
    DEF InitRedis, Initialize, ServiceInv, StoresOK, RowsStay, RowSoldHasOrder, dbVars
  <2>3. CASE Answer(c, "done")
    <3>1. Moves(c) /\ call'[c].pc \in {"idle", "done"} /\ call'[c].reply \in {"none", "done"}
      BY <2>3, AnswerMoves DEF ServiceInv, Replies
    <3>2. CallOK(c)' BY <3>1, AnsweredOK
    <3> QED BY <2>2, <3>1, <3>2, OneMoves
  <2>4. CASE Goto(c, "eval")
    BY <2>2, <2>4, PlainGotoOK, OneMoves DEF Plain
  <2> QED BY <1>2, <2>3, <2>4 DEF InitRedis
<1> QED BY <1>1, <1>2

(* The last step of a call that writes the stores and answers. *)
LEMMA WriteAndAnswer ==
  ASSUME ServiceInv, NEW c \in Calls, NEW reply \in Replies \ {"accepted", "sold"},
         Answer(c, reply), RowsStay, StoresOK'
  PROVE  ServiceInv'
<1>1. Moves(c) /\ call'[c].pc \in {"idle", "done"} /\ call'[c].reply \in {"none", reply}
  BY AnswerMoves DEF ServiceInv
<1>2. CallOK(c)' BY <1>1, AnsweredOK
<1> QED BY <1>1, <1>2, OneMoves

(* A script that only writes the hash. *)
LEMMA HashStores ==
  ASSUME ServiceInv, hash' \in AuctionState, UNCHANGED <<board, keys, now, dbVars, input>>
  PROVE  RowsStay /\ StoresOK'
BY DEF ServiceInv, StoresOK, RowsStay, RowSoldHasOrder, dbVars

(* A write of the row alone, that does not say SOLD unless the row did. *)
LEMMA RowStores ==
  ASSUME ServiceInv, row' \in AuctionState, row'.status = "SOLD" => row.status = "SOLD",
         UNCHANGED <<redisVars, now, bids, order, input>>
  PROVE  RowsStay /\ StoresOK'
BY DEF ServiceInv, StoresOK, RowsStay, RowSoldHasOrder, redisVars

(* cancel() keeps the invariant. *)
LEMMA CancelStepKeeps ==
  ASSUME ServiceInv, NEW c \in CancelCalls, CancelStep(c)
  PROVE  ServiceInv'
<1>0. /\ c \in Calls /\ c \notin PayCalls /\ c # Timer /\ CallOK(c)
      /\ row \in AuctionState /\ hash \in AuctionState \cup {NoHash}
  BY CallsAssumption DEF ServiceInv, StoresOK, Calls
<1>1. CASE CancelLoad(c)
  <2>1. ReadOnly /\ (GotoSeeing(c, "ensure", row) \/ Answer(c, "rejected"))
    BY <1>1 DEF CancelLoad, ReadOnly
  <2>2. CASE GotoSeeing(c, "ensure", row)
    BY <1>0, <2>1, <2>2, ReadOnlyStep, SeeingOK, OneMoves
  <2>3. CASE Answer(c, "rejected") BY <1>0, <2>1, <2>3, ReadOnlyAnswer DEF Replies
  <2> QED BY <2>1, <2>2, <2>3
<1>2. CASE CancelEval(c)
  <2>1. hash' \in AuctionState BY <1>0, <1>2, CancelledHash DEF CancelEval
  <2>2. RowsStay /\ StoresOK'
    BY <1>2, <2>1, HashStores DEF CancelEval, CancelRunning
  <2>3. Moves(c) /\ CallOK(c)' BY <1>0, <1>2, <2>1, <2>2, SeeingOK DEF CancelEval
  <2> QED BY <1>0, <2>2, <2>3, OneMoves
<1>3. CASE CancelRefused(c)
  BY <1>0, <1>3, ReadOnlyAnswer DEF CancelRefused, ReadOnly, Replies
<1>4. CASE CancelSave(c)
  <2> DEFINE s == call[c].seen
             t == [row EXCEPT !.status = "CANCELLED", !.reason = "given", !.version = s.version]
  <2>1. s \in AuctionState BY <1>0, <1>4, Seen DEF CancelSave, At, CallOK
  <2>2. t \in AuctionState /\ t.status = "CANCELLED"
    BY <1>0, <2>1 DEF AuctionState, Statuses, Reasons
  <2>3. row' = IF row.version < s.version THEN t ELSE row BY <1>4 DEF CancelSave
  <2> HIDE DEF t
  <2>4. row' \in AuctionState /\ (row'.status = "SOLD" => row.status = "SOLD")
    BY <1>0, <2>2, <2>3
  <2>5. RowsStay /\ StoresOK' BY <1>4, <2>4, RowStores DEF CancelSave
  <2> QED BY <1>0, <1>4, <2>5, WriteAndAnswer DEF CancelSave, Replies
<1> QED BY <1>1, <1>2, <1>3, <1>4 DEF CancelStep

(* A pass of the settlement timer keeps the invariant. *)
LEMMA SettleStepKeeps ==
  ASSUME ServiceInv, SettleStep
  PROVE  ServiceInv'
<1>0. /\ Timer \in Calls /\ Timer \notin PayCalls /\ CallOK(Timer)
      /\ row \in AuctionState /\ hash \in AuctionState \cup {NoHash}
  BY CallsAssumption DEF ServiceInv, StoresOK, Calls
<1>1. CASE SettleScan
  <2>1. ReadOnly /\ GotoSeeing(Timer, "ensure", row) BY <1>1 DEF SettleScan, ReadOnly
  <2> QED BY <1>0, <2>1, ReadOnlyStep, SeeingOK, OneMoves
<1>2. CASE SettleEval
  <2>1. hash' \in AuctionState /\ (hash'.status = "SOLD" => hash'.leader # NoUser)
    BY <1>0, <1>2, FinishedHash DEF SettleEval
  <2>2. RowsStay /\ StoresOK' BY <1>2, <2>1, HashStores DEF SettleEval, FinishExpired
  <2>3. Moves(Timer) /\ CallOK(Timer)' BY <1>0, <1>2, <2>1, <2>2, SeeingOK DEF SettleEval
  <2> QED BY <1>0, <2>2, <2>3, OneMoves
<1>3. CASE SettleSkips
  BY <1>0, <1>3, ReadOnlyAnswer DEF SettleSkips, ReadOnly, Replies
<1>4. CASE SettleSave
  <2> DEFINE s == call[Timer].seen
             t == [row EXCEPT !.status = s.status, !.version = s.version]
  <2>1. s \in AuctionState /\ (s.status = "SOLD" => s.leader # NoUser)
    BY <1>0, <1>4, Seen DEF SettleSave, At, CallOK
  <2>2. t \in AuctionState /\ t.status = s.status BY <1>0, <2>1 DEF AuctionState
  <2>3. row' = IF row.version < s.version THEN t ELSE row BY <1>4 DEF SettleSave
  <2> HIDE DEF t
  <2>4. row' \in AuctionState /\ row'.status \in {row.status, s.status} BY <1>0, <2>2, <2>3
  <2>5. /\ order' \in OrderRow \cup {NoOrder}
        /\ order # NoOrder => order' # NoOrder
        /\ s.status = "SOLD" => order' # NoOrder
    <3>1. CASE s.status = "SOLD"
      <4>1. s.leader \in Users /\ row.price \in Nat BY <1>0, <2>1, <3>1 DEF AuctionState
      <4> QED BY <1>4, <3>1, <4>1, UpsertType DEF SettleSave, ServiceInv, StoresOK
    <3>2. CASE s.status # "SOLD" BY <1>4, <3>2 DEF SettleSave, ServiceInv, StoresOK
    <3> QED BY <3>1, <3>2
  <2>6. RowsStay /\ StoresOK'
    <3>1. UNCHANGED <<redisVars, now, bids, input>> BY <1>4 DEF SettleSave
    <3> QED
      BY <2>4, <2>5, <3>1 DEF ServiceInv, StoresOK, RowsStay, RowSoldHasOrder, redisVars
  <2> QED BY <1>0, <1>4, <2>6, WriteAndAnswer DEF SettleSave, Replies
<1> QED BY <1>1, <1>2, <1>3, <1>4 DEF SettleStep

(* start() keeps the invariant. *)
LEMMA StartStepKeeps ==
  ASSUME ServiceInv, NEW c \in StartCalls, StartStep(c)
  PROVE  ServiceInv'
<1>0. /\ c \in Calls /\ c \notin PayCalls /\ c # Timer /\ CallOK(c)
      /\ row \in AuctionState /\ now \in Nat
  BY CallsAssumption DEF ServiceInv, StoresOK, Calls
<1>1. CASE StartLoad(c)
  <2> DEFINE s == [row EXCEPT !.endAt = now + row.rules.duration]
  <2>1. ReadOnly /\ (GotoSeeing(c, "save", s) \/ Answer(c, "rejected"))
    BY <1>1 DEF StartLoad, ReadOnly
  <2>2. row.rules.duration \in Nat BY <1>0, RulesAssumption DEF AuctionState, Rules
  <2>3. s \in AuctionState BY <1>0, <2>2 DEF AuctionState
  <2> HIDE DEF s
  <2>4. CASE GotoSeeing(c, "save", s)
    BY <1>0, <2>1, <2>3, <2>4, ReadOnlyStep, SeeingOK, OneMoves
  <2>5. CASE Answer(c, "rejected") BY <1>0, <2>1, <2>5, ReadOnlyAnswer DEF Replies
  <2> QED BY <2>1, <2>4, <2>5
<1>2. CASE StartSave(c)
  <2>1. call[c].seen \in AuctionState BY <1>0, <1>2, Seen DEF StartSave, At, CallOK
  <2>2. row' \in AuctionState /\ row'.status = "RUNNING"
    <3> DEFINE endAt == call[c].seen.endAt
               version == row.version + 1
    <3>1. endAt \in Nat /\ version \in Nat /\ "RUNNING" \in Statuses
      BY <1>0, <2>1 DEF AuctionState, Statuses
    <3>2. row' = [row EXCEPT !.status = "RUNNING", !.endAt = endAt, !.version = version]
      BY <1>2 DEF StartSave, Started
    <3> HIDE DEF endAt, version
    <3> QED BY <1>0, <3>1, <3>2 DEF AuctionState
  <2>3. RowsStay /\ StoresOK' BY <1>2, <2>2, RowStores DEF StartSave
  <2>4. Moves(c) /\ CallOK(c)' BY <1>0, <1>2, <2>2, <2>3, SeeingOK DEF StartSave
  <2> QED BY <1>0, <2>3, <2>4, OneMoves
<1> QED BY <1>1, <1>2 DEF StartStep

(* update() keeps the invariant. *)
LEMMA UpdateStepKeeps ==
  ASSUME ServiceInv, NEW c \in UpdateCalls, UpdateStep(c)
  PROVE  ServiceInv'
<1>0. /\ c \in Calls /\ c \notin PayCalls /\ c # Timer /\ CallOK(c) /\ row \in AuctionState
  BY CallsAssumption DEF ServiceInv, StoresOK, Calls
<1>1. CASE UpdateLoad(c)
  <2>1. PICK rules \in RuleSet :
          GotoSeeing(c, "save", [row EXCEPT !.rules = rules]) \/ Answer(c, "rejected")
    BY <1>1 DEF UpdateLoad
  <2> DEFINE s == [row EXCEPT !.rules = rules]
  <2>2. s \in AuctionState BY <1>0 DEF AuctionState
  <2>3. GotoSeeing(c, "save", s) \/ Answer(c, "rejected") BY <2>1
  <2> HIDE DEF s
  <2>4. ReadOnly BY <1>1 DEF UpdateLoad, ReadOnly
  <2>5. CASE GotoSeeing(c, "save", s)
    BY <1>0, <2>2, <2>4, <2>5, ReadOnlyStep, SeeingOK, OneMoves
  <2>6. CASE Answer(c, "rejected") BY <1>0, <2>4, <2>6, ReadOnlyAnswer DEF Replies
  <2> QED BY <2>3, <2>5, <2>6
<1>2. CASE UpdateSave(c)
  <2> DEFINE rules == call[c].seen.rules
  <2>1. call[c].seen \in AuctionState BY <1>0, <1>2, Seen DEF UpdateSave, At, CallOK
  <2>2. rules \in RuleSet /\ rules.start \in Nat BY <2>1, RulesAssumption DEF AuctionState, Rules
  <2>3. row' = [row EXCEPT !.rules = rules, !.price = rules.start, !.version = @ + 1]
    BY <1>2 DEF UpdateSave
  <2> HIDE DEF rules
  <2>4. row' \in AuctionState /\ row'.status = row.status
    <3> DEFINE price == rules.start
               version == row.version + 1
    <3>1. price \in Nat /\ version \in Nat BY <1>0, <2>2 DEF AuctionState
    <3>2. row' = [row EXCEPT !.rules = rules, !.price = price, !.version = version]
      BY <2>3
    <3> HIDE DEF price, version
    <3> QED BY <1>0, <2>2, <3>1, <3>2 DEF AuctionState
  <2>5. RowsStay /\ StoresOK' BY <1>2, <2>4, RowStores DEF UpdateSave
  <2> QED BY <1>0, <1>2, <2>5, WriteAndAnswer DEF UpdateSave, Replies
<1> QED BY <1>1, <1>2 DEF UpdateStep

(* pay() keeps the invariant: it writes only to an order that is there. *)
LEMMA PayStepKeeps ==
  ASSUME ServiceInv, NEW c \in PayCalls, PayStep(c)
  PROVE  ServiceInv'
<1>0. c \in Calls /\ c # Timer /\ c \notin BidCalls /\ CallOK(c)
  BY CallsAssumption DEF ServiceInv, Calls
<1>1. CASE PayLoad(c)
  <2>1. ReadOnly /\ order # NoOrder /\ (Answer(c, "done") \/ Goto(c, "save"))
    BY <1>1 DEF PayLoad, ReadOnly
  <2>2. CASE Answer(c, "done") BY <1>0, <2>1, <2>2, ReadOnlyAnswer DEF Replies
  <2>3. CASE Goto(c, "save")
    <3>1. Moves(c) /\ call'[c].pc = "save" BY <1>0, <2>3, GotoMoves DEF ServiceInv, PCs
    <3>2. CallOK(c)' BY <1>0, <2>1, <3>1 DEF CallOK, ReadOnly, dbVars
    <3> QED BY <1>0, <2>1, <3>1, <3>2, ReadOnlyStep, OneMoves
  <2> QED BY <2>1, <2>2, <2>3
<1>2. CASE PaySave(c)
  <2>1. order \in OrderRow BY <1>0, <1>2 DEF PaySave, At, CallOK, ServiceInv, StoresOK
  <2>2. order' \in OrderRow BY <1>2, <2>1 DEF PaySave, OrderRow
  <2>3. order' # NoOrder BY <2>2, NoRowAssumption
  <2>4. RowsStay /\ StoresOK'
    BY <1>2, <2>2, <2>3
    DEF PaySave, ServiceInv, StoresOK, RowsStay, RowSoldHasOrder, redisVars
  <2> QED BY <1>0, <1>2, <2>4, WriteAndAnswer DEF PaySave, Replies
<1> QED BY <1>1, <1>2 DEF PayStep

(* What a fault of one call does: it answers or undoes, without writing. *)
LEMMA FaultOfCallKeeps ==
  ASSUME ServiceInv, NEW c \in Calls,
         DbFails(c) \/ BidRollsBack(c) \/ RedisFails(c)
  PROVE  ServiceInv'
<1>1. ReadOnly /\ (Answer(c, "error") \/ Goto(c, "undo.load"))
  BY DEF DbFails, BidRollsBack, RedisFails, ReadOnly
<1>2. CASE Answer(c, "error") BY <1>1, <1>2, ReadOnlyAnswer DEF Replies
<1>3. CASE Goto(c, "undo.load")
  BY <1>1, <1>3, ReadOnlyStep, PlainGotoOK, OneMoves DEF Plain
<1> QED BY <1>1, <1>2, <1>3

(* A script that is sent twice keeps the invariant. *)
LEMMA ResendKeeps ==
  ASSUME ServiceInv, NEW c \in Calls, BidResent(c) \/ CancelResent(c) \/ (c = Timer /\ SettleResent)
  PROVE  ServiceInv'
<1>0. hash \in AuctionState \cup {NoHash} BY DEF ServiceInv, StoresOK
<1>1. CASE BidResent(c)
  <2>1. RowsStay /\ StoresOK' BY <1>1, AcceptedStores DEF BidResent
  <2> QED BY <1>1, <2>1, WriteAndAnswer DEF BidResent, Replies
<1>2. CASE CancelResent(c)
  <2>1. hash' \in AuctionState BY <1>0, <1>2, CancelledHash DEF CancelResent
  <2>2. RowsStay /\ StoresOK' BY <1>2, <2>1, HashStores DEF CancelResent, CancelRunning
  <2> QED BY <1>2, <2>2, WriteAndAnswer DEF CancelResent, Replies
<1>3. CASE c = Timer /\ SettleResent
  <2>1. hash' \in AuctionState BY <1>0, <1>3, FinishedHash DEF SettleResent
  <2>2. RowsStay /\ StoresOK' BY <1>3, <2>1, HashStores DEF SettleResent, FinishExpired
  <2> QED BY <1>3, <2>2, WriteAndAnswer DEF SettleResent, Replies
<1> QED BY <1>1, <1>2, <1>3

(* A step of the clock or of Redis alone leaves every call its part. *)
LEMMA CallsUntouched ==
  ASSUME ServiceInv, UNCHANGED <<bids, order, input, call>>, StoresOK'
  PROVE  ServiceInv'
BY DEF ServiceInv, CallOK, Recorded

(* No failure, restart or crash breaks the invariant. *)
LEMMA FaultKeeps == ASSUME ServiceInv, Fault PROVE ServiceInv'
<1>1. CASE \E c \in Calls : DbFails(c) \/ BidRollsBack(c) \/ RedisFails(c)
                            \/ BidResent(c) \/ CancelResent(c)
  BY <1>1, FaultOfCallKeeps, ResendKeeps
<1>2. CASE SettleResent BY <1>2, ResendKeeps DEF Calls
<1>3. CASE Evict
  <2>1. StoresOK' BY <1>3 DEF Evict, ServiceInv, StoresOK, RowSoldHasOrder, dbVars
  <2> QED BY <1>3, <2>1, CallsUntouched DEF Evict, dbVars
<1>4. CASE Flush
  <2>1. StoresOK'
    BY <1>4 DEF Flush, ServiceInv, StoresOK, RowSoldHasOrder, EmptyBoard, dbVars
  <2> QED BY <1>4, <2>1, CallsUntouched DEF Flush, dbVars
<1>5. CASE Crash
  <2> DEFINE after(c) == IF c \notin InFlight THEN call[c]
                         ELSE IF c = Timer THEN Fresh
                         ELSE [Fresh EXCEPT !.pc = "done", !.reply = "error"]
  <2>1. call' = [c \in Calls |-> after(c)] BY <1>5 DEF Crash
  <2>2. ReadOnly BY <1>5 DEF Crash, ReadOnly
  <2>3. StoresOK' BY <2>2, ReadOnlyStep
  <2>4. [Fresh EXCEPT !.pc = "done", !.reply = "error"] \in CallState
    BY FreshState DEF CallState, PCs, Replies
  <2>5. ASSUME NEW c \in Calls PROVE after(c) \in CallState
    BY <2>4, FreshState DEF ServiceInv
  <2>6. ASSUME NEW c \in Calls PROVE CallOK(c)'
    <3>1. call'[c] = after(c) BY <2>1
    <3>2. CASE c \notin InFlight
      BY <2>2, <3>1, <3>2 DEF ServiceInv, CallOK, Recorded, ReadOnly, dbVars
    <3>3. CASE c \in InFlight
      <4>1. call'[c].pc \in {"idle", "done"} /\ call'[c].reply \in {"none", "error"}
        BY <3>1, <3>3 DEF Fresh
      <4> QED BY <4>1, AnsweredOK
    <3> QED BY <3>2, <3>3
  <2> HIDE DEF after
  <2>7. call' \in [Calls -> CallState] BY <2>1, <2>5
  <2> QED BY <2>3, <2>6, <2>7 DEF ServiceInv
<1> QED BY <1>1, <1>2, <1>3, <1>4, <1>5 DEF Fault

----
(* A created or started auction satisfies the invariant. *)
LEMMA InitService == Init => ServiceInv
<1> SUFFICES ASSUME Init PROVE ServiceInv OBVIOUS
<1>1. PICK rules \in RuleSet :
        \/ row = Created(rules) /\ hash = NoHash
        \/ row = Started(Created(rules), rules.duration) /\ hash = row
  BY DEF Init
<1>2. rules \in Rules BY RulesAssumption
<1>3. rules.start \in Nat /\ rules.duration \in Nat BY <1>2 DEF Rules
<1>4. Created(rules) \in AuctionState BY <1>3 DEF Created, AuctionState, Statuses, Reasons
<1>5. Created(rules).status = "DRAFT" BY DEF Created
<1>6. /\ Started(Created(rules), rules.duration) \in AuctionState
      /\ Started(Created(rules), rules.duration).status = "RUNNING"
  <2> DEFINE s == Created(rules)
             version == s.version + 1
  <2>1. version \in Nat /\ "RUNNING" \in Statuses BY <1>4 DEF AuctionState, Statuses
  <2>2. Started(s, rules.duration)
          = [s EXCEPT !.status = "RUNNING", !.endAt = rules.duration, !.version = version]
    BY DEF Started
  <2> HIDE DEF s, version
  <2>3. s \in AuctionState BY <1>4 DEF s
  <2>4. /\ Started(s, rules.duration) \in AuctionState
        /\ Started(s, rules.duration).status = "RUNNING"
    BY <1>3, <2>1, <2>2, <2>3 DEF AuctionState
  <2> QED BY <2>4 DEF s
<1>7. row \in AuctionState /\ hash \in AuctionState \cup {NoHash} /\ row.status # "SOLD"
  BY <1>1, <1>4, <1>5, <1>6
<1>8. StoresOK BY <1>7 DEF Init, StoresOK, EmptyBoard, RowSoldHasOrder
<1>9. call \in [Calls -> CallState] BY FreshState DEF Init
<1>10. \A c \in Calls : CallOK(c) BY DEF Init, CallOK, Fresh
<1> QED BY <1>8, <1>9, <1>10 DEF ServiceInv

(* Every step keeps the invariant. *)
LEMMA NextService == ServiceInv /\ [Next]_vars => ServiceInv'
<1> SUFFICES ASSUME ServiceInv, [Next]_vars PROVE ServiceInv' OBVIOUS
<1>1. CASE \E c \in BidCalls : BidStep(c) BY <1>1, BidStepKeeps
<1>2. CASE \E c \in CancelCalls : CancelStep(c) BY <1>2, CancelStepKeeps
<1>3. CASE \E c \in StartCalls : StartStep(c) BY <1>3, StartStepKeeps
<1>4. CASE \E c \in UpdateCalls : UpdateStep(c) BY <1>4, UpdateStepKeeps
<1>5. CASE \E c \in PayCalls : PayStep(c) BY <1>5, PayStepKeeps
<1>6. CASE \E c \in Calls : Ensure(c) \/ InitRedis(c) BY <1>6, EnsureKeeps
<1>7. CASE SettleStep BY <1>7, SettleStepKeeps
<1>8. CASE Fault BY <1>8, FaultKeeps
<1>9. CASE Tick
  <2>1. StoresOK'
    BY <1>9 DEF Tick, ServiceInv, StoresOK, RowSoldHasOrder, redisVars, dbVars
  <2> QED BY <1>9, <2>1, CallsUntouched DEF Tick, dbVars
<1>10. CASE UNCHANGED vars
  <2>1. StoresOK' BY <1>10 DEF vars, ServiceInv, StoresOK, RowSoldHasOrder
  <2> QED BY <1>10, <2>1, CallsUntouched DEF vars
<1> QED
  BY <1>1, <1>2, <1>3, <1>4, <1>5, <1>6, <1>7, <1>8, <1>9, <1>10 DEF Next

(* Whatever fails and however the calls overlap, the invariant holds.      *)
THEOREM ServiceInvariant == Spec => []ServiceInv
<1> QED BY InitService, NextService, PTL DEF Spec

(* All the state of the service is well typed.                             *)
THEOREM TypeCorrect == Spec => []TypeOK
<1>1. ServiceInv => TypeOK BY DEF ServiceInv, StoresOK, TypeOK
<1> QED BY <1>1, ServiceInvariant, PTL

(* A row that says SOLD comes with an order, whatever fails.               *)
THEOREM SoldRowHasOrder == Spec => []RowSoldHasOrder
<1>1. ServiceInv => RowSoldHasOrder BY DEF ServiceInv, StoresOK
<1> QED BY <1>1, ServiceInvariant, PTL

(* A bid that was answered as accepted is in MySQL, a sale has its order,  *)
(* whatever fails.                                                         *)
THEOREM AcknowledgedBidIsDurable == Spec => []AckedBidDurable
<1>1. ServiceInv => AckedBidDurable
  BY BidInput DEF ServiceInv, CallOK, Recorded, AckedBidDurable
<1> QED BY <1>1, ServiceInvariant, PTL

----
(* The six steps that write the auction row or the order. *)
LEMMA WhoWrites ==
  ASSUME Next
  PROVE  \/ UNCHANGED <<row, order>>
         \/ \E c \in BidCalls : BidCommit(c)
         \/ \E c \in CancelCalls : CancelSave(c)
         \/ SettleSave
         \/ \E c \in StartCalls : StartSave(c)
         \/ \E c \in UpdateCalls : UpdateSave(c)
         \/ \E c \in PayCalls : PaySave(c)
<1>1. ASSUME NEW c \in BidCalls, BidStep(c), ~ BidCommit(c) PROVE UNCHANGED <<row, order>>
  BY <1>1 DEF BidStep, BidArrives, BidEval, BidMisses, BidRefused, BidRead, BidLoad,
              BidConflicts, BidReply, UndoLoad, UndoBoard, UndoExec, dbVars
<1>2. ASSUME NEW c \in CancelCalls, CancelStep(c), ~ CancelSave(c) PROVE UNCHANGED <<row, order>>
  BY <1>2 DEF CancelStep, CancelLoad, CancelEval, CancelRefused, dbVars
<1>3. ASSUME SettleStep, ~ SettleSave PROVE UNCHANGED <<row, order>>
  BY <1>3 DEF SettleStep, SettleScan, SettleEval, SettleSkips, dbVars
<1>4. ASSUME NEW c \in StartCalls, StartStep(c), ~ StartSave(c) PROVE UNCHANGED <<row, order>>
  BY <1>4 DEF StartStep, StartLoad, dbVars
<1>5. ASSUME NEW c \in UpdateCalls, UpdateStep(c), ~ UpdateSave(c) PROVE UNCHANGED <<row, order>>
  BY <1>5 DEF UpdateStep, UpdateLoad, dbVars
<1>6. ASSUME NEW c \in PayCalls, PayStep(c), ~ PaySave(c) PROVE UNCHANGED <<row, order>>
  BY <1>6 DEF PayStep, PayLoad, dbVars
<1>7. ASSUME NEW c \in Calls, Ensure(c) \/ InitRedis(c) PROVE UNCHANGED <<row, order>>
  BY <1>7 DEF Ensure, InitRedis, dbVars
<1>8. ASSUME Fault PROVE UNCHANGED <<row, order>>
  BY <1>8 DEF Fault, DbFails, BidRollsBack, RedisFails, BidResent, CancelResent, SettleResent,
              Evict, Flush, Crash, dbVars
<1>9. ASSUME Tick PROVE UNCHANGED <<row, order>>
  BY <1>9 DEF Tick, dbVars
<1> QED BY <1>1, <1>2, <1>3, <1>4, <1>5, <1>6, <1>7, <1>8, <1>9 DEF Next

(* No write of the row, however late, takes it back to an earlier version. *)
THEOREM MirrorIsMonotone == Spec => MirrorNeverRewinds
<1>1. ServiceInv /\ [Next]_vars => [row'.version >= row.version]_vars
  <2> SUFFICES ASSUME ServiceInv, Next PROVE row'.version >= row.version
    BY DEF vars
  <2>0. row \in AuctionState /\ row.version \in Nat
    BY DEF ServiceInv, StoresOK, AuctionState
  <2>1. CASE UNCHANGED <<row, order>> BY <2>0, <2>1
  <2>2. CASE \E c \in BidCalls : BidCommit(c)
    <3>1. PICK c \in BidCalls : BidCommit(c) BY <2>2
    <3>2. call[c].seen \in AuctionState
      BY <3>1, BidInput, Seen DEF BidCommit, At, CallOK, ServiceInv
    <3>3. call[c].seen.version \in Nat BY <3>2 DEF AuctionState
    <3> DEFINE s == call[c].seen
               t == [row EXCEPT !.status = s.status, !.price = s.price, !.leader = s.leader,
                                !.endAt = s.endAt, !.version = s.version]
    <3>4. t.version = s.version BY <2>0 DEF AuctionState
    <3>5. row' = IF row.version < s.version THEN t ELSE row BY <3>1 DEF BidCommit, Mirror
    <3> HIDE DEF t
    <3> QED BY <2>0, <3>3, <3>4, <3>5
  <2>3. CASE \E c \in CancelCalls : CancelSave(c)
    <3>1. PICK c \in CancelCalls : CancelSave(c) BY <2>3
    <3>2. c \in Calls /\ c \notin PayCalls BY CallsAssumption DEF Calls
    <3>3. call[c].seen \in AuctionState
      BY <3>1, <3>2, Seen DEF CancelSave, At, CallOK, ServiceInv
    <3>4. call[c].seen.version \in Nat BY <3>3 DEF AuctionState
    <3> QED BY <2>0, <3>1, <3>4 DEF CancelSave, AuctionState
  <2>4. CASE SettleSave
    <3>1. Timer \in Calls /\ Timer \notin PayCalls BY CallsAssumption DEF Calls
    <3>2. call[Timer].seen \in AuctionState
      BY <2>4, <3>1, Seen DEF SettleSave, At, CallOK, ServiceInv
    <3>3. call[Timer].seen.version \in Nat BY <3>2 DEF AuctionState
    <3> QED BY <2>0, <2>4, <3>3 DEF SettleSave, AuctionState
  <2>5. CASE \E c \in StartCalls : StartSave(c)
    BY <2>0, <2>5 DEF StartSave, Started, AuctionState
  <2>6. CASE \E c \in UpdateCalls : UpdateSave(c)
    BY <2>0, <2>6 DEF UpdateSave, AuctionState
  <2>7. CASE \E c \in PayCalls : PaySave(c)
    BY <2>0, <2>7 DEF PaySave
  <2> QED BY <2>1, <2>2, <2>3, <2>4, <2>5, <2>6, <2>7, WhoWrites
<1> QED BY <1>1, ServiceInvariant, PTL DEF Spec, MirrorNeverRewinds

(* The first order of an auction is never replaced and its payment stays.  *)
THEOREM OrderIsFinal == Spec => OrderStands
<1> DEFINE Stands == order # NoOrder =>
                       /\ order' # NoOrder
                       /\ order'.winner = order.winner /\ order'.amount = order.amount
                       /\ order.status = "PAID" => order'.status = "PAID"
<1>1. ServiceInv /\ [Next]_vars => [Stands]_vars
  <2> SUFFICES ASSUME ServiceInv, Next, order # NoOrder
               PROVE  /\ order' # NoOrder
                      /\ order'.winner = order.winner /\ order'.amount = order.amount
                      /\ order.status = "PAID" => order'.status = "PAID"
    BY DEF vars
  <2>1. CASE UNCHANGED <<row, order>> BY <2>1
  <2>2. CASE \E c \in BidCalls : BidCommit(c) BY <2>2 DEF BidCommit, UpsertOrder
  <2>3. CASE \E c \in CancelCalls : CancelSave(c) BY <2>3 DEF CancelSave
  <2>4. CASE SettleSave BY <2>4 DEF SettleSave, UpsertOrder
  <2>5. CASE \E c \in StartCalls : StartSave(c) BY <2>5 DEF StartSave
  <2>6. CASE \E c \in UpdateCalls : UpdateSave(c) BY <2>6 DEF UpdateSave
  <2>7. CASE \E c \in PayCalls : PaySave(c)
    <3>1. order \in OrderRow BY DEF ServiceInv, StoresOK
    <3>2. /\ order' \in OrderRow /\ order'.status = "PAID"
          /\ order'.winner = order.winner /\ order'.amount = order.amount
      BY <2>7, <3>1 DEF PaySave, OrderRow
    <3> QED BY <3>2, NoRowAssumption
  <2> QED BY <2>1, <2>2, <2>3, <2>4, <2>5, <2>6, <2>7, WhoWrites
<1> QED BY <1>1, ServiceInvariant, PTL DEF Spec, OrderStands

----
(***************************************************************************)
(* An auction that has been started: it has an end and is not waiting for  *)
(* its start.  The row is a draft without an end or is started, and once   *)
(* started it stays so; whoever is about to write Redis or the row from    *)
(* what was read earlier has read a started auction, or will notice that   *)
(* it has not (ensure).                                                    *)
(***************************************************************************)
Live(s) == s.endAt > 0 /\ s.status \notin {"DRAFT", "SCHEDULED"}

CallLive(c) ==
  /\ call[c].pc \in {"read", "undo.load"} => Live(row)
  /\ call[c].pc \in {"commit", "emit", "init", "undo.board", "undo.exec"}
       => Live(row) /\ Live(call[c].seen)
  /\ call[c].pc = "ensure" => call[c].seen.endAt = 0 \/ (Live(row) /\ Live(call[c].seen))
  /\ call[c].pc = "save" /\ (c \in CancelCalls \/ c = Timer) => Live(row) /\ Live(call[c].seen)
  /\ call[c].pc = "save" /\ c \in StartCalls => call[c].seen.endAt > 0

StartedInv ==
  /\ Live(row) \/ (row.status = "DRAFT" /\ row.endAt = 0)
  /\ hash # NoHash => Live(row) /\ Live(hash)
  /\ \A c \in Calls : CallLive(c)

(* A step of one call keeps the invariant if the stores do, and the call.  *)
LEMMA OneStarts ==
  ASSUME StartedInv, NEW c \in Calls, Moves(c),
         Live(row) => Live(row'),
         Live(row') \/ (row'.status = "DRAFT" /\ row'.endAt = 0),
         hash' # NoHash => Live(row') /\ Live(hash'),
         CallLive(c)'
  PROVE  StartedInv'
<1>1. ASSUME NEW d \in Calls, d # c PROVE CallLive(d)'
  <2>1. call'[d] = call[d] /\ CallLive(d) BY <1>1 DEF Moves, StartedInv
  <2> QED BY <2>1 DEF CallLive
<1> QED BY <1>1 DEF StartedInv

(* A call that writes nothing and goes where it may keeps it. *)
LEMMA ReadOnlyStarts ==
  ASSUME StartedInv, ReadOnly, NEW c \in Calls, Moves(c), CallLive(c)'
  PROVE  StartedInv'
<1>1. row' = row /\ hash' = hash BY DEF ReadOnly, redisVars, dbVars
<1> QED BY <1>1, OneStarts DEF StartedInv

(* A call that is answered has nothing left to write. *)
LEMMA AnswerStarts ==
  ASSUME ServiceInv, NEW c \in Calls, NEW reply \in Replies, Answer(c, reply)
  PROVE  Moves(c) /\ CallLive(c)'
<1>1. Moves(c) /\ call'[c].pc \in {"idle", "done"} BY AnswerMoves DEF ServiceInv
<1> QED BY <1>1 DEF CallLive

(* An accepted bid leaves a started auction started. *)
LEMMA LiveBid ==
  ASSUME ServiceInv, NEW r \in Requests, NEW u \in Users, NEW amount \in Nat, Live(hash),
         AcceptBid(r, u, amount)
  PROVE  hash' \in AuctionState /\ Live(hash')
<1>1. /\ hash # NoHash /\ hash \in AuctionState /\ hash.status = "RUNNING"
      /\ ~ (hash.endAt <= now)
  BY AcceptedBid DEF AcceptBid, ServiceInv, StoresOK
<1>2. hash.rules \in Rules BY <1>1, RulesAssumption DEF AuctionState
<1>3. hash.endAt \in Nat /\ hash.rules.ext \in Nat BY <1>1, <1>2 DEF AuctionState, Rules
<1>4. /\ hash' \in AuctionState
      /\ hash'.status \in {"RUNNING", "SOLD"}
      /\ hash'.endAt \in {hash.endAt, hash.endAt + hash.rules.ext}
  BY <1>1, AfterBidFields DEF AcceptBid
<1>5. hash'.endAt > 0 BY <1>3, <1>4 DEF Live
<1> QED BY <1>4, <1>5 DEF Live

(* placeBid: only started auctions pass ensure, and then the row is one. *)
LEMMA BidStepStarts ==
  ASSUME ServiceInv, StartedInv, NEW c \in BidCalls, BidStep(c)
  PROVE  StartedInv'
<1>0. /\ c \in Calls /\ call \in [Calls -> CallState] /\ CallLive(c) /\ CallOK(c)
      /\ input[c].req \in Requests /\ input[c].user \in Users /\ input[c].amount \in Nat
      /\ row \in AuctionState /\ hash \in AuctionState \cup {NoHash}
      /\ c \notin CancelCalls /\ c \notin StartCalls /\ c # Timer
  BY BidInput, CallsAssumption DEF ServiceInv, StoresOK, StartedInv
<1>1. ASSUME ReadOnly, NEW reply \in Replies, Answer(c, reply) PROVE StartedInv'
  BY <1>0, <1>1, AnswerStarts, ReadOnlyStarts
<1>2. ASSUME ReadOnly, NEW pc \in PCs, Goto(c, pc), call[c].pc # "save",
             \/ pc \in {"eval", "load"}
             \/ pc = "undo.load" /\ Live(row)
             \/ pc = "emit" /\ Live(row) /\ Live(call[c].seen)
      PROVE  StartedInv'
  <2>1. Moves(c) /\ call'[c].pc = pc /\ call'[c].seen = call[c].seen
    BY <1>0, <1>2, GotoMoves
  <2>2. CallLive(c)' BY <1>2, <2>1 DEF CallLive, ReadOnly, dbVars
  <2> QED BY <1>0, <1>2, <2>1, <2>2, ReadOnlyStarts
<1>3. CASE BidArrives(c)
  BY <1>2, <1>3 DEF BidArrives, ReadOnly, Arrives, At, PCs
<1>4. CASE BidEval(c)
  <2>1. hash # NoHash BY <1>4 DEF BidEval, AcceptBid, BidCode
  <2>2. Live(row) /\ Live(hash) BY <2>1 DEF StartedInv
  <2>3. Live(hash') BY <1>0, <1>4, <2>2, LiveBid DEF BidEval
  <2>4. row' = row BY <1>4 DEF BidEval, dbVars
  <2>5. Moves(c) /\ call'[c].pc = "read" BY <1>0, <1>4, GotoMoves DEF BidEval, PCs
  <2>6. CallLive(c)' BY <2>2, <2>4, <2>5 DEF CallLive
  <2> QED BY <1>0, <2>2, <2>3, <2>4, <2>5, <2>6, OneStarts
<1>5. CASE BidMisses(c)
  BY <1>1, <1>2, <1>5 DEF BidMisses, ReadOnly, At, PCs, Replies
<1>6. CASE BidRefused(c)
  BY <1>1, <1>6 DEF BidRefused, ReadOnly, Replies
<1>7. CASE BidRead(c)
  <2>1. ReadOnly /\ call[c].pc = "read" BY <1>7 DEF BidRead, ReadOnly, At
  <2>2. CASE hash # NoHash
    <3>1. GotoSeeing(c, "commit", hash) BY <1>7, <2>2 DEF BidRead
    <3>2. Moves(c) /\ call'[c].pc = "commit" /\ call'[c].seen = hash
      BY <1>0, <2>2, <3>1, GotoSeeingMoves DEF PCs
    <3>3. Live(row) /\ Live(hash) BY <2>2 DEF StartedInv
    <3>4. CallLive(c)' BY <2>1, <3>2, <3>3 DEF CallLive, ReadOnly, dbVars
    <3> QED BY <1>0, <2>1, <3>2, <3>4, ReadOnlyStarts
  <2>3. CASE hash = NoHash
    BY <1>1, <1>2, <1>7, <2>1, <2>3 DEF BidRead, PCs, Replies
  <2> QED BY <2>2, <2>3
<1>8. CASE BidLoad(c)
  <2> DEFINE t == [call[c] EXCEPT !.pc = "ensure", !.seen = row, !.again = TRUE]
  <2>1. call[c] \in CallState BY <1>0
  <2>2. t \in CallState /\ t.pc = "ensure" /\ t.seen = row
    BY <1>0, <2>1 DEF CallState, PCs
  <2>3. call' = [call EXCEPT ![c] = t] BY <1>8 DEF BidLoad
  <2> HIDE DEF t
  <2>4. Moves(c) /\ call'[c].pc = "ensure" /\ call'[c].seen = row
    BY <1>0, <2>2, <2>3 DEF Moves
  <2>5. ReadOnly BY <1>8 DEF BidLoad, ReadOnly
  <2>6. CallLive(c)' BY <1>0, <2>4, <2>5 DEF CallLive, StartedInv, ReadOnly, dbVars
  <2> QED BY <1>0, <2>4, <2>5, <2>6, ReadOnlyStarts
<1>9. CASE BidCommit(c)
  <2> DEFINE s == call[c].seen
             t == [row EXCEPT !.status = s.status, !.price = s.price, !.leader = s.leader,
                              !.endAt = s.endAt, !.version = s.version]
  <2>1. s \in AuctionState BY <1>0, <1>9, Seen DEF BidCommit, At, CallOK
  <2>2. Live(row) /\ Live(s) BY <1>0, <1>9 DEF BidCommit, At, CallLive
  <2>3. t.status = s.status /\ t.endAt = s.endAt BY <1>0 DEF AuctionState
  <2>4. row' = IF row.version < s.version THEN t ELSE row BY <1>9 DEF BidCommit, Mirror
  <2> HIDE DEF t
  <2>5. Live(row') BY <2>2, <2>3, <2>4 DEF Live
  <2>6. hash' = hash BY <1>9 DEF BidCommit, redisVars
  <2>7. Moves(c) /\ call'[c].pc = "emit" /\ call'[c].seen = s
    BY <1>0, <1>9, GotoMoves DEF BidCommit, PCs
  <2>8. CallLive(c)' BY <2>2, <2>5, <2>7 DEF CallLive
  <2> QED BY <1>0, <2>5, <2>6, <2>7, <2>8, OneStarts DEF StartedInv
<1>10. CASE BidConflicts(c)
  BY <1>0, <1>2, <1>10 DEF BidConflicts, ReadOnly, At, CallLive, PCs
<1>11. CASE BidReply(c)
  BY <1>1, <1>11 DEF BidReply, ReadOnly, Replies
<1>12. CASE UndoLoad(c)
  <2>1. ReadOnly /\ Live(row) BY <1>0, <1>12 DEF UndoLoad, ReadOnly, At, CallLive
  <2>2. Moves(c) /\ call'[c].pc = "undo.board" /\ call'[c].seen = row
    BY <1>0, <1>12, GotoSeeingMoves DEF UndoLoad, PCs
  <2>3. CallLive(c)' BY <2>1, <2>2 DEF CallLive, ReadOnly, dbVars
  <2> QED BY <1>0, <2>1, <2>2, <2>3, ReadOnlyStarts
<1>13. CASE UndoBoard(c)
  <2>1. ReadOnly /\ Live(row) /\ Live(call[c].seen)
    BY <1>0, <1>13 DEF UndoBoard, ReadOnly, At, CallLive
  <2>2. Moves(c) BY <1>13, UndoBoardMoves
  <2>3. call'[c].pc = "undo.exec" /\ call'[c].seen = call[c].seen
    BY <1>0, <1>13 DEF UndoBoard, CallState
  <2>4. CallLive(c)' BY <2>1, <2>3 DEF CallLive, ReadOnly, dbVars
  <2> QED BY <1>0, <2>1, <2>2, <2>4, ReadOnlyStarts
<1>14. CASE UndoExec(c)
  <2>1. Live(row) /\ Live(call[c].seen) BY <1>0, <1>14 DEF UndoExec, At, CallLive
  <2>2. hash' = call[c].seen /\ row' = row BY <1>14 DEF UndoExec, RestoreFromDatabase, dbVars
  <2>3. Moves(c) /\ CallLive(c)' BY <1>0, <1>14, AnswerStarts DEF UndoExec, Replies
  <2> QED BY <1>0, <2>1, <2>2, <2>3, OneStarts
<1> QED
  BY <1>3, <1>4, <1>5, <1>6, <1>7, <1>8, <1>9, <1>10, <1>11, <1>12, <1>13, <1>14 DEF BidStep

(* ensureRedisState and initialize: what was read without an end is never  *)
(* put into Redis.                                                         *)
LEMMA EnsureStarts ==
  ASSUME ServiceInv, StartedInv, NEW c \in Calls, Ensure(c) \/ InitRedis(c)
  PROVE  StartedInv'
<1>0. /\ call \in [Calls -> CallState] /\ CallLive(c)
  BY DEF ServiceInv, StartedInv
<1>1. CASE Ensure(c)
  <2>1. /\ ReadOnly /\ call[c].pc = "ensure"
        /\ Goto(c, "eval") \/ Answer(c, "rejected")
           \/ (Goto(c, "init") /\ call[c].seen.endAt # 0)
    BY <1>1 DEF Ensure, ReadOnly, At
  <2>2. CASE Goto(c, "eval")
    <3>1. Moves(c) /\ call'[c].pc = "eval" BY <1>0, <2>2, GotoMoves DEF PCs
    <3>2. CallLive(c)' BY <3>1 DEF CallLive
    <3> QED BY <2>1, <3>1, <3>2, ReadOnlyStarts
  <2>3. CASE Answer(c, "rejected")
    BY <2>1, <2>3, AnswerStarts, ReadOnlyStarts DEF Replies
  <2>4. CASE Goto(c, "init") /\ call[c].seen.endAt # 0
    <3>1. Moves(c) /\ call'[c].pc = "init" /\ call'[c].seen = call[c].seen
      BY <1>0, <2>4, GotoMoves DEF PCs
    <3>2. Live(row) /\ Live(call[c].seen) BY <1>0, <2>1, <2>4 DEF CallLive
    <3>3. CallLive(c)' BY <2>1, <3>1, <3>2 DEF CallLive, ReadOnly, dbVars
    <3> QED BY <2>1, <3>1, <3>3, ReadOnlyStarts
  <2> QED BY <2>1, <2>2, <2>3, <2>4
<1>2. CASE InitRedis(c)
  <2>1. Live(row) /\ Live(call[c].seen) BY <1>0, <1>2 DEF InitRedis, At, CallLive
  <2>2. hash' = call[c].seen /\ row' = row BY <1>2 DEF InitRedis, Initialize, dbVars
  <2>3. Moves(c) /\ CallLive(c)'
    <3>1. CASE Answer(c, "done") BY <3>1, AnswerStarts DEF Replies
    <3>2. CASE Goto(c, "eval")
      <4>1. Moves(c) /\ call'[c].pc = "eval" BY <1>0, <3>2, GotoMoves DEF PCs
      <4> QED BY <4>1 DEF CallLive
    <3> QED BY <1>2, <3>1, <3>2 DEF InitRedis
  <2> QED BY <2>1, <2>2, <2>3, OneStarts
<1> QED BY <1>1, <1>2

(* cancel() writes to a started auction only. *)
LEMMA CancelStepStarts ==
  ASSUME ServiceInv, StartedInv, NEW c \in CancelCalls, CancelStep(c)
  PROVE  StartedInv'
<1>0. /\ c \in Calls /\ c \notin PayCalls /\ c \notin StartCalls /\ c # Timer
      /\ call \in [Calls -> CallState] /\ CallLive(c) /\ CallOK(c)
      /\ row \in AuctionState /\ hash \in AuctionState \cup {NoHash}
  BY CallsAssumption DEF ServiceInv, StoresOK, StartedInv, Calls
<1>1. CASE CancelLoad(c)
  <2>1. ReadOnly BY <1>1 DEF CancelLoad, ReadOnly
  <2>2. CASE row.status = "RUNNING"
    <3>1. Moves(c) /\ call'[c].pc = "ensure" /\ call'[c].seen = row
      BY <1>0, <1>1, <2>2, GotoSeeingMoves DEF CancelLoad, PCs
    <3>2. Live(row) BY <2>2 DEF StartedInv
    <3>3. CallLive(c)' BY <2>1, <3>1, <3>2 DEF CallLive, ReadOnly, dbVars
    <3> QED BY <1>0, <2>1, <3>1, <3>3, ReadOnlyStarts
  <2>3. CASE row.status # "RUNNING"
    BY <1>0, <1>1, <2>1, <2>3, AnswerStarts, ReadOnlyStarts DEF CancelLoad, Replies
  <2> QED BY <2>2, <2>3
<1>2. CASE CancelEval(c)
  <2>1. hash # NoHash /\ CancelRunning BY <1>2 DEF CancelEval, CancelRunning, CancelCode
  <2>2. Live(row) /\ Live(hash) BY <2>1 DEF StartedInv
  <2>3. hash' \in AuctionState BY <1>0, <2>1, CancelledHash
  <2>4. hash'.status = "CANCELLED" /\ hash'.endAt = hash.endAt
    BY <1>0, <2>1 DEF CancelRunning, AuctionState
  <2>5. Live(hash') BY <2>2, <2>4 DEF Live
  <2>6. Moves(c) /\ call'[c].pc = "save" /\ call'[c].seen = hash'
    BY <1>0, <1>2, <2>3, GotoSeeingMoves DEF CancelEval, PCs
  <2>7. row' = row BY <1>2 DEF CancelEval, dbVars
  <2>8. CallLive(c)' BY <1>0, <2>2, <2>5, <2>6, <2>7 DEF CallLive
  <2> QED BY <1>0, <2>2, <2>5, <2>6, <2>7, <2>8, OneStarts
<1>3. CASE CancelRefused(c)
  BY <1>0, <1>3, AnswerStarts, ReadOnlyStarts DEF CancelRefused, ReadOnly, Replies
<1>4. CASE CancelSave(c)
  <2>1. Live(row) BY <1>0, <1>4 DEF CancelSave, At, CallLive
  <2>2. Live(row') BY <1>0, <1>4, <2>1 DEF CancelSave, Live, AuctionState
  <2>3. hash' = hash BY <1>4 DEF CancelSave, redisVars
  <2>4. Moves(c) /\ CallLive(c)' BY <1>0, <1>4, AnswerStarts DEF CancelSave, Replies
  <2> QED BY <1>0, <2>2, <2>3, <2>4, OneStarts DEF StartedInv
<1> QED BY <1>1, <1>2, <1>3, <1>4 DEF CancelStep

(* The settlement finishes and saves a started auction only. *)
LEMMA SettleStepStarts ==
  ASSUME ServiceInv, StartedInv, SettleStep
  PROVE  StartedInv'
<1>0. /\ Timer \in Calls /\ Timer \notin PayCalls /\ Timer \notin StartCalls
      /\ call \in [Calls -> CallState] /\ CallLive(Timer) /\ CallOK(Timer)
      /\ row \in AuctionState /\ hash \in AuctionState \cup {NoHash}
  BY CallsAssumption DEF ServiceInv, StoresOK, StartedInv, Calls
<1>1. CASE SettleScan
  <2>1. ReadOnly /\ row.status = "RUNNING" BY <1>1 DEF SettleScan, ReadOnly
  <2>2. Moves(Timer) /\ call'[Timer].pc = "ensure" /\ call'[Timer].seen = row
    BY <1>0, <1>1, GotoSeeingMoves DEF SettleScan, PCs
  <2>3. Live(row) BY <2>1 DEF StartedInv
  <2>4. CallLive(Timer)' BY <2>1, <2>2, <2>3 DEF CallLive, ReadOnly, dbVars
  <2> QED BY <1>0, <2>1, <2>2, <2>4, ReadOnlyStarts
<1>2. CASE SettleEval
  <2>1. hash # NoHash /\ FinishExpired BY <1>2 DEF SettleEval, FinishExpired, FinishCode
  <2>2. Live(row) /\ Live(hash) BY <2>1 DEF StartedInv
  <2>3. hash' \in AuctionState BY <1>0, <2>1, FinishedHash
  <2>4. hash'.status \in {"SOLD", "UNSOLD"} /\ hash'.endAt = hash.endAt
    BY <1>0, <2>1 DEF FinishExpired, AuctionState
  <2>5. Live(hash') BY <2>2, <2>4 DEF Live
  <2>6. Moves(Timer) /\ call'[Timer].pc = "save" /\ call'[Timer].seen = hash'
    BY <1>0, <1>2, <2>3, GotoSeeingMoves DEF SettleEval, PCs
  <2>7. row' = row BY <1>2 DEF SettleEval, dbVars
  <2>8. CallLive(Timer)' BY <1>0, <2>2, <2>5, <2>6, <2>7 DEF CallLive
  <2> QED BY <1>0, <2>2, <2>5, <2>6, <2>7, <2>8, OneStarts
<1>3. CASE SettleSkips
  BY <1>0, <1>3, AnswerStarts, ReadOnlyStarts DEF SettleSkips, ReadOnly, Replies
<1>4. CASE SettleSave
  <2>1. Live(row) /\ Live(call[Timer].seen) BY <1>0, <1>4 DEF SettleSave, At, CallLive
  <2>2. Live(row') BY <1>0, <1>4, <2>1 DEF SettleSave, Live, AuctionState
  <2>3. hash' = hash BY <1>4 DEF SettleSave, redisVars
  <2>4. Moves(Timer) /\ CallLive(Timer)'
    BY <1>0, <1>4, AnswerStarts DEF SettleSave, Replies
  <2> QED BY <1>0, <2>2, <2>3, <2>4, OneStarts DEF StartedInv
<1> QED BY <1>1, <1>2, <1>3, <1>4 DEF SettleStep

(* start() saves an end after now, and gives Redis the row it has saved. *)
LEMMA StartStepStarts ==
  ASSUME ServiceInv, StartedInv, NEW c \in StartCalls, StartStep(c)
  PROVE  StartedInv'
<1>0. /\ c \in Calls /\ c \notin PayCalls /\ c \notin CancelCalls /\ c # Timer
      /\ call \in [Calls -> CallState] /\ CallLive(c) /\ CallOK(c)
      /\ row \in AuctionState /\ now \in Nat
  BY CallsAssumption DEF ServiceInv, StoresOK, StartedInv, Calls
<1>1. CASE StartLoad(c)
  <2> DEFINE end == now + row.rules.duration
             s == [row EXCEPT !.endAt = end]
  <2>1. ReadOnly /\ (GotoSeeing(c, "save", s) \/ Answer(c, "rejected"))
    BY <1>1 DEF StartLoad, ReadOnly
  <2>2. row.rules.duration \in Nat \ {0} BY <1>0, RulesAssumption DEF AuctionState, Rules
  <2>3. end \in Nat /\ end > 0 BY <1>0, <2>2
  <2> HIDE DEF end
  <2>4. s \in AuctionState /\ s.endAt = end BY <1>0, <2>3 DEF AuctionState
  <2> HIDE DEF s
  <2>5. CASE GotoSeeing(c, "save", s)
    <3>1. Moves(c) /\ call'[c].pc = "save" /\ call'[c].seen = s
      BY <1>0, <2>4, <2>5, GotoSeeingMoves DEF PCs
    <3>2. CallLive(c)' BY <1>0, <2>3, <2>4, <3>1 DEF CallLive
    <3> QED BY <1>0, <2>1, <3>1, <3>2, ReadOnlyStarts
  <2>6. CASE Answer(c, "rejected")
    BY <1>0, <2>1, <2>6, AnswerStarts, ReadOnlyStarts DEF Replies
  <2> QED BY <2>1, <2>5, <2>6
<1>2. CASE StartSave(c)
  <2>1. call[c].seen \in AuctionState BY <1>0, <1>2, Seen DEF StartSave, At, CallOK
  <2>2. call[c].seen.endAt > 0 BY <1>0, <1>2 DEF StartSave, At, CallLive
  <2> DEFINE endAt == call[c].seen.endAt
             version == row.version + 1
  <2>3. endAt \in Nat /\ version \in Nat /\ "RUNNING" \in Statuses
    BY <1>0, <2>1 DEF AuctionState, Statuses
  <2>4. row' = [row EXCEPT !.status = "RUNNING", !.endAt = endAt, !.version = version]
    BY <1>2 DEF StartSave, Started
  <2>5. endAt > 0 BY <2>2
  <2> HIDE DEF endAt, version
  <2>6. row' \in AuctionState /\ row'.status = "RUNNING" /\ row'.endAt = endAt
    BY <1>0, <2>3, <2>4 DEF AuctionState
  <2>7. Live(row') BY <2>5, <2>6 DEF Live
  <2>8. Moves(c) /\ call'[c].pc = "init" /\ call'[c].seen = row'
    BY <1>0, <1>2, <2>6, GotoSeeingMoves DEF StartSave, PCs
  <2>9. CallLive(c)' BY <2>7, <2>8 DEF CallLive
  <2>10. hash' = hash BY <1>2 DEF StartSave, redisVars
  <2> QED BY <1>0, <2>7, <2>8, <2>9, <2>10, OneStarts DEF StartedInv
<1> QED BY <1>1, <1>2 DEF StartStep

(* update() changes neither the status nor the end of the row, pay() not   *)
(* even the row.                                                           *)
LEMMA EditStepStarts ==
  ASSUME ServiceInv, StartedInv, NEW c \in UpdateCalls \cup PayCalls, UpdateStep(c) \/ PayStep(c)
  PROVE  StartedInv'
<1>0. /\ c \in Calls /\ call \in [Calls -> CallState] /\ row \in AuctionState
      /\ c \notin CancelCalls /\ c \notin StartCalls /\ c # Timer
  BY CallsAssumption DEF ServiceInv, StoresOK, Calls
<1>1. ASSUME Moves(c), call'[c].pc \in {"idle", "done", "save"} PROVE CallLive(c)'
  BY <1>0, <1>1 DEF CallLive
<1>2. ASSUME NEW reply \in Replies, Answer(c, reply)
      PROVE  Moves(c) /\ CallLive(c)'
  BY <1>0, <1>2, AnswerStarts
<1>3. CASE UpdateLoad(c)
  <2>1. PICK rules \in RuleSet :
          GotoSeeing(c, "save", [row EXCEPT !.rules = rules]) \/ Answer(c, "rejected")
    BY <1>3 DEF UpdateLoad
  <2> DEFINE s == [row EXCEPT !.rules = rules]
  <2>2. s \in AuctionState BY <1>0 DEF AuctionState
  <2>3. GotoSeeing(c, "save", s) \/ Answer(c, "rejected") BY <2>1
  <2> HIDE DEF s
  <2>4. GotoSeeing(c, "save", s) => Moves(c) /\ call'[c].pc = "save"
    BY <1>0, <2>2, GotoSeeingMoves DEF PCs
  <2>5. ReadOnly BY <1>3 DEF UpdateLoad, ReadOnly
  <2> QED BY <1>0, <1>1, <1>2, <2>3, <2>4, <2>5, ReadOnlyStarts DEF Replies
<1>4. CASE UpdateSave(c)
  <2>1. row'.status = row.status /\ row'.endAt = row.endAt
    BY <1>0, <1>4 DEF UpdateSave, AuctionState
  <2>2. hash' = hash BY <1>4 DEF UpdateSave, redisVars
  <2>3. Live(row') <=> Live(row) BY <2>1 DEF Live
  <2>4. Moves(c) /\ CallLive(c)' BY <1>2, <1>4 DEF UpdateSave, Replies
  <2> QED BY <1>0, <2>1, <2>2, <2>3, <2>4, OneStarts DEF StartedInv
<1>5. CASE PayLoad(c)
  <2>1. ReadOnly /\ (Answer(c, "done") \/ Goto(c, "save")) BY <1>5 DEF PayLoad, ReadOnly
  <2>2. Goto(c, "save") => Moves(c) /\ call'[c].pc = "save" BY <1>0, GotoMoves DEF PCs
  <2> QED BY <1>0, <1>1, <1>2, <2>1, <2>2, ReadOnlyStarts DEF Replies
<1>6. CASE PaySave(c)
  <2>1. row' = row /\ hash' = hash BY <1>6 DEF PaySave, redisVars
  <2>2. Moves(c) /\ CallLive(c)' BY <1>2, <1>6 DEF PaySave, Replies
  <2> QED BY <1>0, <2>1, <2>2, OneStarts DEF StartedInv
<1> QED BY <1>3, <1>4, <1>5, <1>6 DEF UpdateStep, PayStep

(* A failed access goes to undo.load only where the row is started. *)
LEMMA FaultStarts ==
  ASSUME ServiceInv, StartedInv, Fault
  PROVE  StartedInv'
<1>0. /\ call \in [Calls -> CallState]
      /\ row \in AuctionState /\ hash \in AuctionState \cup {NoHash}
  BY DEF ServiceInv, StoresOK
<1>1. CASE \E c \in Calls : DbFails(c) \/ BidRollsBack(c) \/ RedisFails(c)
  <2>1. PICK c \in Calls : DbFails(c) \/ BidRollsBack(c) \/ RedisFails(c) BY <1>1
  <2>2. /\ ReadOnly
        /\ \/ Answer(c, "error")
           \/ Goto(c, "undo.load") /\ call[c].pc \in {"commit", "emit"}
    BY <2>1 DEF DbFails, BidRollsBack, RedisFails, ReadOnly, At
  <2>3. CASE Answer(c, "error") BY <2>2, <2>3, AnswerStarts, ReadOnlyStarts DEF Replies
  <2>4. CASE Goto(c, "undo.load") /\ call[c].pc \in {"commit", "emit"}
    <3>1. Live(row) BY <2>4 DEF StartedInv, CallLive
    <3>2. Moves(c) /\ call'[c].pc = "undo.load" BY <1>0, <2>4, GotoMoves DEF PCs
    <3>3. CallLive(c)' BY <2>2, <3>1, <3>2 DEF CallLive, ReadOnly, dbVars
    <3> QED BY <2>2, <3>2, <3>3, ReadOnlyStarts
  <2> QED BY <2>2, <2>3, <2>4
<1>2. ASSUME NEW c \in Calls, Answer(c, "duplicate") \/ Answer(c, "rejected") \/ Answer(c, "done"),
             hash # NoHash, Live(hash'), UNCHANGED dbVars
      PROVE  StartedInv'
  <2>1. Moves(c) /\ CallLive(c)' BY <1>2, AnswerStarts DEF Replies
  <2>2. row' = row /\ Live(row) BY <1>2 DEF dbVars, StartedInv
  <2> QED BY <1>2, <2>1, <2>2, OneStarts
<1>3. CASE \E c \in Calls : BidResent(c)
  <2>1. PICK c \in Calls : BidResent(c) BY <1>3
  <2>2. c \in BidCalls /\ hash # NoHash BY <2>1 DEF BidResent, AcceptBid, BidCode
  <2>3. Live(hash) BY <2>2 DEF StartedInv
  <2>4. Live(hash') BY <2>1, <2>2, <2>3, BidInput, LiveBid DEF BidResent
  <2> QED BY <1>2, <2>1, <2>2, <2>4 DEF BidResent
<1>4. CASE \E c \in Calls : CancelResent(c)
  <2>1. PICK c \in Calls : CancelResent(c) BY <1>4
  <2>2. hash # NoHash /\ CancelRunning BY <2>1 DEF CancelResent, CancelRunning, CancelCode
  <2>3. Live(hash) BY <2>2 DEF StartedInv
  <2>4. hash'.status = "CANCELLED" /\ hash'.endAt = hash.endAt
    BY <1>0, <2>2 DEF CancelRunning, AuctionState
  <2>5. Live(hash') BY <2>3, <2>4 DEF Live
  <2> QED BY <1>2, <2>1, <2>2, <2>5 DEF CancelResent
<1>5. CASE SettleResent
  <2>1. hash # NoHash /\ FinishExpired BY <1>5 DEF SettleResent, FinishExpired, FinishCode
  <2>2. Live(hash) BY <2>1 DEF StartedInv
  <2>3. hash'.status \in {"SOLD", "UNSOLD"} /\ hash'.endAt = hash.endAt
    BY <1>0, <2>1 DEF FinishExpired, AuctionState
  <2>4. Live(hash') BY <2>2, <2>3 DEF Live
  <2> QED BY <1>2, <1>5, <2>1, <2>4 DEF SettleResent, Calls
<1>6. CASE Evict \/ Flush
  <2>1. hash' = NoHash /\ row' = row /\ call' = call BY <1>6 DEF Evict, Flush, dbVars
  <2> QED BY <2>1 DEF StartedInv, CallLive
<1>7. CASE Crash
  <2>1. hash' = hash /\ row' = row BY <1>7 DEF Crash, redisVars, dbVars
  <2>2. ASSUME NEW c \in Calls PROVE CallLive(c)'
    <3>1. call'[c] = call[c] \/ call'[c].pc \in {"idle", "done"}
      BY <1>7 DEF Crash, Fresh
    <3> QED BY <2>1, <3>1 DEF StartedInv, CallLive
  <2> QED BY <2>1, <2>2 DEF StartedInv
<1> QED BY <1>1, <1>3, <1>4, <1>5, <1>6, <1>7 DEF Fault

(* An auction is created as a draft or has been started. *)
LEMMA InitStarts == Init => StartedInv
<1> SUFFICES ASSUME Init PROVE StartedInv OBVIOUS
<1>1. PICK rules \in RuleSet :
        \/ row = Created(rules) /\ hash = NoHash
        \/ row = Started(Created(rules), rules.duration) /\ hash = row
  BY DEF Init
<1>2. rules.duration \in Nat \ {0} BY RulesAssumption DEF Rules
<1>3. Created(rules).status = "DRAFT" /\ Created(rules).endAt = 0 BY DEF Created
<1>4. Live(Started(Created(rules), rules.duration)) BY <1>2 DEF Started, Created, Live
<1>5. \A c \in Calls : CallLive(c) BY DEF Init, CallLive, Fresh
<1> QED BY <1>1, <1>3, <1>4, <1>5 DEF StartedInv

(* Every step keeps the row and Redis started. *)
LEMMA NextStarts == ServiceInv /\ StartedInv /\ [Next]_vars => StartedInv'
<1> SUFFICES ASSUME ServiceInv, StartedInv, [Next]_vars PROVE StartedInv' OBVIOUS
<1>1. CASE \E c \in BidCalls : BidStep(c) BY <1>1, BidStepStarts
<1>2. CASE \E c \in CancelCalls : CancelStep(c) BY <1>2, CancelStepStarts
<1>3. CASE \E c \in StartCalls : StartStep(c) BY <1>3, StartStepStarts
<1>4. CASE \E c \in UpdateCalls : UpdateStep(c) BY <1>4, EditStepStarts
<1>5. CASE \E c \in PayCalls : PayStep(c) BY <1>5, EditStepStarts
<1>6. CASE \E c \in Calls : Ensure(c) \/ InitRedis(c) BY <1>6, EnsureStarts
<1>7. CASE SettleStep BY <1>7, SettleStepStarts
<1>8. CASE Fault BY <1>8, FaultStarts
<1>9. CASE Tick BY <1>9 DEF Tick, redisVars, dbVars, StartedInv, CallLive
<1>10. CASE UNCHANGED vars BY <1>10 DEF vars, StartedInv, CallLive
<1> QED
  BY <1>1, <1>2, <1>3, <1>4, <1>5, <1>6, <1>7, <1>8, <1>9, <1>10 DEF Next

(* Redis holds started auctions only, whatever fails and however bids,     *)
(* cancellations, start() and update() overlap: a call that found no state *)
(* key never puts an auction there that has not been started.              *)
THEOREM RedisHoldsStarted == Spec => []OnlyStartedInRedis
<1>1. StartedInv => OnlyStartedInRedis BY DEF StartedInv, OnlyStartedInRedis, Live
<1> QED BY <1>1, InitStarts, NextStarts, ServiceInvariant, PTL DEF Spec
----
(***************************************************************************)
(* What it keeps besides when its calls come one after the other and       *)
(* nothing fails but transactions of placeBid, which roll back: these      *)
(* theorems assume MaxInFlight <= 1, Faults \subseteq {"rollback"} and     *)
(* finitely many users, and leave every other constant arbitrary (which    *)
(* calls there are and in which order they come, the rules, the length of  *)
(* the leaderboard, the clock).                                            *)
(***************************************************************************)
RecordedRequests == {r \in Requests : bids[r] # NoBid}

(* The leaderboard b leaves out nobody who is among the TopN. *)
Covers(b) ==
  \A u \in Users : \A a \in AmountsOf(u) :
    \/ a <= b[u]
    \/ b[u] = 0 /\ Cardinality({v \in Users : b[v] > a}) >= TopN

(* Every score of b but that of u is the amount of a Bid row. *)
Backed(b, u) == \A v \in Users \ {u} : b[v] > 0 => b[v] \in AmountsOf(v)

(* The rows agree with each other, at any time. *)
RowsAgree ==
  /\ row.price <= row.rules.cap
  /\ row.price = row.rules.cap => row.status = "SOLD"
  /\ row.status = "DRAFT" => RecordedRequests = {}
  /\ \A r \in RecordedRequests : bids[r].amount <= row.price
  /\ \A q, r \in RecordedRequests : bids[q].amount = bids[r].amount => q = r
  /\ row.status = "SOLD" <=> order # NoOrder
  /\ order # NoOrder => order.winner = row.leader /\ order.amount = row.price

(* Redis agrees with the rows, between the writes of a call. *)
RedisAgrees ==
  /\ hash = IF row.status = "DRAFT" THEN NoHash ELSE row
  /\ BoardShowsBest
  /\ keys = RecordedRequests

(* The awaits of a call after which Redis and the rows differ. *)
Raising(c) == c \in BidCalls /\ call[c].pc \in {"read", "commit", "undo.load", "undo.board", "undo.exec"}
ClosingOne(c) == (c \in CancelCalls \/ c = Timer) /\ call[c].pc = "save"
Opening(c) == call[c].pc = "init"

(* Redis has accepted a bid that MySQL does not have. *)
Raised(s) ==
  /\ s.status \in {"RUNNING", "SOLD"}
  /\ s.version > row.version /\ s.price > row.price
  /\ s.price <= s.rules.cap
  /\ s.price = s.rules.cap => s.status = "SOLD"
  /\ s.rules = row.rules /\ s.reason = row.reason

RaisedBy(c) ==
  LET u == input[c].user IN
  /\ row.status = "RUNNING"
  /\ hash # NoHash /\ Raised(hash) /\ hash.leader = u
  /\ board[u] = hash.price /\ Backed(board, u) /\ Covers(board)
  /\ bids[input[c].req] = NoBid
  /\ keys = RecordedRequests \cup {input[c].req}
  /\ call[c].pc = "commit" => call[c].seen = hash
  /\ call[c].pc \in {"undo.board", "undo.exec"} => call[c].seen = row
  /\ call[c].pc = "undo.exec" =>
       Backed(call[c].entries, NoUser) /\ Covers(call[c].entries)

(* Redis has closed the auction, the row still runs. *)
ClosedBy(c) ==
  /\ row.status = "RUNNING"
  /\ hash # NoHash /\ hash = call[c].seen
  /\ BoardShowsBest
  /\ keys = RecordedRequests
  /\ hash.version > row.version
  /\ hash.price = row.price /\ hash.leader = row.leader /\ hash.endAt = row.endAt
  /\ hash.rules = row.rules
  /\ IF c = Timer THEN hash.status \in {"SOLD", "UNSOLD"} /\ hash.reason = row.reason
     ELSE hash.status = "CANCELLED" /\ hash.reason = "given"

(* The row runs, Redis has not been told. *)
OpenedBy(c) ==
  /\ c \in StartCalls
  /\ row.status = "RUNNING" /\ call[c].seen = row
  /\ BoardShowsBest
  /\ keys = RecordedRequests

(* What the one call in flight has done so far. *)
Stage(c) ==
  /\ Raising(c) => RaisedBy(c)
  /\ ClosingOne(c) => ClosedBy(c)
  /\ Opening(c) => OpenedBy(c)
  /\ ~ Raising(c) /\ ~ ClosingOne(c) /\ ~ Opening(c) => RedisAgrees
  /\ call[c].pc = "save" /\ c \in StartCalls \cup UpdateCalls => row.status = "DRAFT"

(* A call whose bid is recorded and which was not refused. *)
Owns(c, r) ==
  /\ input[c].req = r
  /\ call[c].pc = "emit" \/ call[c].reply \in {"accepted", "sold"}

OneInFlight == \A c, d \in InFlight : c = d
Answered(c) == call[c].reply # "none" => call[c].pc = "done"

(* The inductive invariant. *)
SerialInv ==
  /\ ServiceInv
  /\ StartedInv
  /\ RowsAgree
  /\ OneInFlight
  /\ Quiet => RedisAgrees
  /\ \A c \in InFlight : Stage(c)
  /\ \A r \in RecordedRequests : \E c \in BidCalls : Owns(c, r)
  /\ \A c \in Calls : Answered(c)

Serial == MaxInFlight <= 1 /\ Faults \subseteq {"rollback"} /\ IsFiniteSet(Users)

----
(* Whose turn it is.                                                       *)

(* The call that moves is the only one in flight. *)
Turn(c) == InFlight \subseteq {c} /\ call[c].reply = "none" /\ Stage(c)

(* A step is one of a call in flight, or of one let in when there is none. *)
LEMMA TakesTurn ==
  ASSUME Serial, SerialInv, NEW c \in Calls,
         call[c].pc \notin {"idle", "done"} \/ Arrives(c)
  PROVE  Turn(c)
<1>1. call[c].reply = "none" BY DEF SerialInv, Answered, Arrives, At
<1>2. CASE call[c].pc \notin {"idle", "done"}
  <2>1. c \in InFlight BY <1>2 DEF InFlight
  <2> QED BY <1>1, <2>1 DEF Turn, SerialInv, OneInFlight
<1>3. CASE Arrives(c)
  <2>1. call[c].pc = "idle" /\ Cardinality(InFlight) < MaxInFlight /\ MaxInFlight <= 1
    BY <1>3 DEF Arrives, At, Serial
  <2>2. InFlight = {}
    <3>1. SUFFICES ASSUME NEW d \in InFlight PROVE FALSE OBVIOUS
    <3>2. InFlight = {d} BY DEF SerialInv, OneInFlight
    <3>3. Cardinality(InFlight) = 1 BY <3>2, FS_Singleton
    <3> QED BY <2>1, <3>3, BoundsAssumption
  <2>3. RedisAgrees BY <2>2 DEF SerialInv, Quiet
  <2>4. Stage(c) BY <2>1, <2>3 DEF Stage, Raising, ClosingOne, Opening
  <2> QED BY <1>1, <2>2, <2>4 DEF Turn
<1> QED BY <1>2, <1>3

(* What its step must show for the invariant to hold again. *)
LEMMA TurnKeeps ==
  ASSUME SerialInv, ServiceInv', StartedInv', NEW c \in Calls, Turn(c), Moves(c), input' = input,
         call'[c].reply # "none" => call'[c].pc = "done",
         call[c].pc = "emit" => call'[c].reply \in {"accepted", "sold"},
         \A r \in RecordedRequests' : r \in RecordedRequests \/ (c \in BidCalls /\ Owns(c, r)'),
         RowsAgree', Stage(c)'
  PROVE  SerialInv'
<1>1. \A d \in Calls \ {c} : call'[d] = call[d] BY DEF Moves
<1>2. InFlight' \subseteq {c} BY <1>1 DEF InFlight, Turn
<1>3. Quiet' => RedisAgrees'
  <2>1. Quiet' => call'[c].pc \in {"idle", "done"} BY DEF Quiet, InFlight
  <2> QED BY <2>1 DEF Stage, Raising, ClosingOne, Opening
<1>4. ASSUME NEW r \in RecordedRequests' PROVE \E d \in BidCalls : Owns(d, r)'
  <2>1. CASE r \in RecordedRequests
    <3>1. PICK d \in BidCalls : Owns(d, r) BY <2>1 DEF SerialInv
    <3>2. d \in Calls BY DEF Calls
    <3>3. CASE d = c BY <3>1, <3>3 DEF Owns, Turn
    <3>4. CASE d # c BY <1>1, <3>1, <3>2, <3>4 DEF Owns
    <3> QED BY <3>3, <3>4
  <2> QED BY <2>1
<1>5. ASSUME NEW d \in Calls PROVE Answered(d)'
  BY <1>1 DEF SerialInv, Answered
<1>6. OneInFlight' /\ \A d \in InFlight' : Stage(d)' BY <1>2 DEF OneInFlight
<1> QED BY <1>3, <1>4, <1>5, <1>6 DEF SerialInv

(* Away from the awaits at which the stores differ, that is agreement. *)
LEMMA AgreedStage ==
  ASSUME NEW c \in Calls, RedisAgrees', call'[c].pc \in {"idle", "done", "eval", "load", "ensure", "emit"}
  PROVE  Stage(c)'
BY DEF Stage, Raising, ClosingOne, Opening

(* A call goes on. *)
LEMMA TurnGoes ==
  ASSUME SerialInv, ServiceInv', StartedInv', NEW c \in Calls, Turn(c), Moves(c), input' = input,
         call'[c].reply = call[c].reply, call[c].pc # "emit",
         RecordedRequests' = RecordedRequests, RowsAgree', Stage(c)'
  PROVE  SerialInv'
BY TurnKeeps DEF Turn

(* A call is answered. *)
LEMMA TurnEnds ==
  ASSUME SerialInv, ServiceInv', StartedInv', NEW c \in Calls, Turn(c), input' = input,
         NEW reply \in Replies, Answer(c, reply),
         call[c].pc = "emit" => c # Timer /\ reply \in {"accepted", "sold"},
         RecordedRequests' = RecordedRequests, RowsAgree', RedisAgrees'
  PROVE  SerialInv'
<1>1. Moves(c) /\ call'[c].pc \in {"idle", "done"} BY AnswerMoves DEF SerialInv, ServiceInv
<1>2. /\ call'[c].reply # "none" => call'[c].pc = "done"
      /\ c # Timer => call'[c].reply = reply
  BY DEF Answer, Fresh, SerialInv, ServiceInv
<1>3. Stage(c)' BY <1>1, AgreedStage
<1> QED BY <1>1, <1>2, <1>3, TurnKeeps

(* What a step that writes nothing keeps. *)
LEMMA NothingWritten ==
  ASSUME ReadOnly
  PROVE  /\ RecordedRequests' = RecordedRequests /\ input' = input
         /\ row' = row /\ hash' = hash /\ board' = board /\ keys' = keys
         /\ RowsAgree => RowsAgree'
         /\ RedisAgrees => RedisAgrees'
         /\ BoardShowsBest => BoardShowsBest'
<1>1. UNCHANGED <<row, bids, order, hash, board, keys, input>> BY DEF ReadOnly, redisVars, dbVars
<1>2. RecordedRequests' = RecordedRequests BY <1>1 DEF RecordedRequests
<1>3. \A u : AmountsOf(u)' = AmountsOf(u) BY <1>1 DEF AmountsOf
<1>4. BoardShowsBest => BoardShowsBest' BY <1>1, <1>3 DEF BoardShowsBest
<1>5. RowsAgree => RowsAgree' BY <1>1, <1>2 DEF RowsAgree
<1> QED BY <1>1, <1>2, <1>4, <1>5 DEF RedisAgrees

(* A call that writes nothing and goes on where the stores agree. *)
LEMMA AgreeingGoes ==
  ASSUME SerialInv, ServiceInv', StartedInv', NEW c \in Calls, Turn(c), Moves(c), ReadOnly,
         RedisAgrees, call'[c].reply = call[c].reply, call[c].pc # "emit",
         call'[c].pc \in {"eval", "load", "ensure"}
  PROVE  SerialInv'
<1>1. /\ RecordedRequests' = RecordedRequests /\ input' = input /\ RowsAgree' /\ RedisAgrees'
  BY NothingWritten DEF SerialInv
<1>2. Stage(c)' BY <1>1, AgreedStage
<1> QED BY <1>1, <1>2, TurnGoes

(* A call that is answered where the stores agree. *)
LEMMA AgreeingEnds ==
  ASSUME SerialInv, ServiceInv', StartedInv', NEW c \in Calls, Turn(c), ReadOnly, RedisAgrees,
         NEW reply \in Replies, Answer(c, reply),
         call[c].pc = "emit" => c # Timer /\ reply \in {"accepted", "sold"}
  PROVE  SerialInv'
<1>1. /\ RecordedRequests' = RecordedRequests /\ input' = input /\ RowsAgree' /\ RedisAgrees'
  BY NothingWritten DEF SerialInv
<1> QED BY <1>1, TurnEnds

----
(* placeBid.                                                               *)

(* Where Redis agrees and has the auction, it has the row. *)
LEMMA RedisHasRow ==
  ASSUME RedisAgrees, hash # NoHash
  PROVE  hash = row /\ row.status # "DRAFT"
BY DEF RedisAgrees

(* Where it has not, the auction has not been started. *)
LEMMA RedisHasNone ==
  ASSUME RedisAgrees, hash = NoHash, row \in AuctionState
  PROVE  row.status = "DRAFT"
BY NoHashAssumption DEF RedisAgrees

(* The rows say the same as long as nothing is written to MySQL. *)
LEMMA SameRows ==
  ASSUME UNCHANGED dbVars
  PROVE  /\ row' = row /\ bids' = bids /\ order' = order
         /\ RecordedRequests' = RecordedRequests
         /\ \A u : AmountsOf(u)' = AmountsOf(u)
         /\ RowsAgree => RowsAgree'
<1>1. UNCHANGED <<row, bids, order>> BY DEF dbVars
<1>2. RecordedRequests' = RecordedRequests BY <1>1 DEF RecordedRequests
<1>3. \A u : AmountsOf(u)' = AmountsOf(u) BY <1>1 DEF AmountsOf
<1>4. RowsAgree => RowsAgree' BY <1>1, <1>2 DEF RowsAgree
<1> QED BY <1>1, <1>2, <1>3, <1>4

(* The amounts on record are numbers, and none is above the price. *)
LEMMA AmountsBelowPrice ==
  ASSUME ServiceInv, RowsAgree, NEW u \in Users, NEW a \in AmountsOf(u)
  PROVE  a \in Nat /\ a <= row.price
<1>1. PICK r \in Requests : bids[r] # NoBid /\ bids[r].user = u /\ a = bids[r].amount
  BY DEF AmountsOf
<1>2. r \in RecordedRequests BY <1>1 DEF RecordedRequests
<1>3. bids[r] \in BidRow BY <1>1 DEF ServiceInv, StoresOK
<1> QED BY <1>1, <1>2, <1>3 DEF RowsAgree, BidRow

(* Raising one score above all amounts leaves the others as well covered. *)
LEMMA CoversRaised ==
  ASSUME Serial, ServiceInv, RowsAgree, Covers(board),
         NEW u \in Users, NEW p \in Nat, p > row.price, UNCHANGED dbVars,
         board' = [board EXCEPT ![u] = p]
  PROVE  Covers(board)'
<1>0. \A v : AmountsOf(v)' = AmountsOf(v) BY SameRows
<1>1. board \in [Users -> Nat] /\ row.price \in Nat BY DEF ServiceInv, StoresOK, AuctionState
<1>2. board' \in [Users -> Nat] /\ board'[u] = p /\ \A v \in Users \ {u} : board'[v] = board[v]
  BY <1>1
<1>3. ASSUME NEW v \in Users, NEW a \in AmountsOf(v)
      PROVE  \/ a <= board'[v]
             \/ board'[v] = 0 /\ Cardinality({w \in Users : board'[w] > a}) >= TopN
  <2>1. a \in Nat /\ a <= row.price BY <1>3, AmountsBelowPrice
  <2>2. CASE v = u BY <1>1, <1>2, <2>1, <2>2
  <2>3. CASE v # u
    <3>1. board'[v] = board[v] BY <1>2, <2>3
    <3>2. CASE a <= board[v] BY <3>1, <3>2
    <3>3. CASE board[v] = 0 /\ Cardinality({w \in Users : board[w] > a}) >= TopN
      <4> DEFINE S == {w \in Users : board[w] > a}
                 T == {w \in Users : board'[w] > a}
      <4>1. T \subseteq Users /\ IsFiniteSet(T) BY FS_Subset DEF Serial
      <4>2. S \subseteq T
        <5> SUFFICES ASSUME NEW w \in S PROVE w \in T OBVIOUS
        <5>1. w \in Users /\ board[w] > a OBVIOUS
        <5>2. board'[w] > a BY <1>1, <1>2, <2>1, <5>1
        <5> QED BY <5>1, <5>2
      <4>3. Cardinality(S) \in Nat /\ Cardinality(T) \in Nat
        BY <4>1, <4>2, FS_Subset, FS_CardinalityType
      <4>4. Cardinality(S) <= Cardinality(T) BY <4>1, <4>2, FS_Subset
      <4>5. Cardinality(T) >= TopN BY <3>3, <4>3, <4>4, BoundsAssumption
      <4> QED BY <3>1, <3>3, <4>5
    <3> QED BY <1>3, <3>2, <3>3 DEF Covers
  <2> QED BY <2>2, <2>3
<1> QED BY <1>0, <1>3 DEF Covers

(* The script accepts. *)
LEMMA SerialEval ==
  ASSUME Serial, SerialInv, ServiceInv', StartedInv', NEW c \in BidCalls, Turn(c), BidEval(c)
  PROVE  SerialInv'
<1> DEFINE r == input[c].req
           u == input[c].user
           amount == input[c].amount
           price == AcceptedPrice(hash, amount)
<1>0. /\ ServiceInv /\ RowsAgree /\ c \in Calls /\ row \in AuctionState
      /\ r \in Requests /\ u \in Users /\ amount \in Nat
      /\ call \in [Calls -> CallState] /\ board \in [Users -> Nat]
  BY BidInput DEF SerialInv, ServiceInv, StoresOK
<1>1. Moves(c) /\ call'[c].pc = "read" /\ call'[c].reply = call[c].reply
  BY <1>0, GotoMoves DEF BidEval, PCs
<1>2. UNCHANGED dbVars /\ input' = input /\ call[c].pc = "eval" BY DEF BidEval, At
<1>3. RedisAgrees BY <1>2 DEF Turn, Stage, Raising, ClosingOne, Opening
<1>4. /\ hash # NoHash /\ hash.status = "RUNNING" /\ r \notin keys
      /\ ~ (amount < hash.price + hash.rules.inc)
  BY AcceptedBid DEF BidEval, AcceptBid
<1>5. hash = row BY <1>3, <1>4, RedisHasRow
<1>6. hash.rules \in Rules BY <1>0, <1>5, RulesAssumption DEF AuctionState
<1>7. hash.price \in Nat /\ hash.rules.cap \in Nat BY <1>0, <1>5, <1>6 DEF AuctionState, Rules
<1>8. hash.price < hash.rules.cap BY <1>0, <1>4, <1>5, <1>7 DEF RowsAgree
<1>9. price \in Nat /\ hash.price < price /\ price <= hash.rules.cap
  BY <1>0, <1>4, <1>5, <1>8, AcceptedPriceRises
<1>10. /\ hash' \in AuctionState /\ hash'.price = price /\ hash'.leader = u
       /\ hash'.rules = hash.rules
       /\ hash'.status = IF price < hash.rules.cap THEN "RUNNING" ELSE "SOLD"
  BY <1>0, <1>5, AfterBidFields DEF BidEval, AcceptBid
<1>11. hash'.version = hash.version + 1 /\ hash'.reason = hash.reason /\ hash.version \in Nat
  BY <1>0, <1>5 DEF BidEval, AcceptBid, AfterBid, AuctionState
<1>12. board' = [board EXCEPT ![u] = price] /\ keys' = keys \cup {r} BY DEF BidEval, AcceptBid
<1>13. /\ row' = row /\ bids' = bids /\ RecordedRequests' = RecordedRequests
       /\ \A v : AmountsOf(v)' = AmountsOf(v)
       /\ RowsAgree'
  BY <1>0, <1>2, SameRows
<1> HIDE DEF r, u, amount, price
<1>14. Raised(hash)' BY <1>5, <1>7, <1>9, <1>10, <1>11, <1>13 DEF Raised
<1>15. Covers(board)'
  <2>1. Covers(board) BY <1>3 DEF RedisAgrees, BoardShowsBest, Covers
  <2> QED BY <1>0, <1>2, <1>5, <1>9, <1>12, <2>1, CoversRaised
<1>16. \A v \in Users \ {u} : board'[v] > 0 => board'[v] \in AmountsOf(v)'
  <2>1. Backed(board, u) BY <1>3 DEF RedisAgrees, BoardShowsBest, Backed
  <2> QED BY <1>0, <1>12, <1>13, <2>1 DEF Backed
<1>17. bids[r] = NoBid /\ keys' = RecordedRequests \cup {r}
  BY <1>0, <1>3, <1>4, <1>12 DEF RedisAgrees, RecordedRequests
<1>18. RaisedBy(c)'
  <2>1. hash' # NoHash /\ board'[u] = price BY <1>0, <1>10, <1>12, NoHashAssumption
  <2>2. Backed(board, input[c].user)' BY <1>2, <1>16 DEF Backed, u
  <2>3. row'.status = "RUNNING" /\ hash'.leader = input'[c].user /\ bids'[input'[c].req] = NoBid
        /\ keys' = RecordedRequests' \cup {input'[c].req}
        /\ board'[input'[c].user] = hash'.price
    BY <1>2, <1>4, <1>5, <1>10, <1>13, <1>17, <2>1 DEF r, u
  <2> QED BY <1>1, <1>14, <1>15, <2>1, <2>2, <2>3 DEF RaisedBy
<1>19. Stage(c)'
  <2>1. c \notin CancelCalls \cup StartCalls \cup UpdateCalls \cup {Timer} BY CallsAssumption
  <2> QED BY <1>1, <1>18, <2>1 DEF Stage, Raising, ClosingOne, Opening
<1> QED BY <1>0, <1>1, <1>2, <1>13, <1>19, TurnGoes

(* The mirror of an accepted bid is the hash. *)
LEMMA MirrorIsHash ==
  ASSUME row \in AuctionState, NEW s \in AuctionState, Raised(s), Mirror(s)
  PROVE  row' = s
<1>1. row.version < s.version BY DEF Raised, AuctionState
<1> DEFINE t == [row EXCEPT !.status = s.status, !.price = s.price, !.leader = s.leader,
                            !.endAt = s.endAt, !.version = s.version]
<1>2. row' = t BY <1>1 DEF Mirror
<1>3. /\ t \in AuctionState
      /\ t.status = s.status /\ t.price = s.price /\ t.leader = s.leader
      /\ t.endAt = s.endAt /\ t.version = s.version /\ t.rules = s.rules /\ t.reason = s.reason
  BY DEF AuctionState, Raised
<1> HIDE DEF t
<1>4. t = s BY <1>3 DEF AuctionState
<1> QED BY <1>2, <1>4

(* A new row adds its amount to those of its user. *)
LEMMA AmountsAfter ==
  ASSUME bids \in [Requests -> BidRow \cup {NoBid}], NEW r \in Requests, bids[r] = NoBid,
         NEW b \in BidRow, bids' = [bids EXCEPT ![r] = b]
  PROVE  /\ RecordedRequests' = RecordedRequests \cup {r}
         /\ \A q \in RecordedRequests : q # r /\ bids'[q] = bids[q]
         /\ bids'[r] = b
         /\ \A v : AmountsOf(v)' = IF v = b.user THEN AmountsOf(v) \cup {b.amount} ELSE AmountsOf(v)
<1>1. b # NoBid BY NoRowAssumption
<1>2. bids'[r] = b /\ \A q \in Requests \ {r} : bids'[q] = bids[q] OBVIOUS
<1>3. RecordedRequests' = RecordedRequests \cup {r} BY <1>1, <1>2 DEF RecordedRequests
<1>4. \A q \in RecordedRequests : q # r /\ bids'[q] = bids[q] BY <1>2 DEF RecordedRequests
<1>5. ASSUME NEW v
      PROVE AmountsOf(v)' = IF v = b.user THEN AmountsOf(v) \cup {b.amount} ELSE AmountsOf(v)
  <2> DEFINE Of == {q \in Requests : bids[q] # NoBid /\ bids[q].user = v}
             Now == {q \in Requests : bids'[q] # NoBid /\ bids'[q].user = v}
  <2>1. Now = IF v = b.user THEN Of \cup {r} ELSE Of BY <1>1, <1>2
  <2>2. r \notin Of /\ Of \subseteq Requests OBVIOUS
  <2>3. AmountsOf(v) = {bids[q].amount : q \in Of} BY DEF AmountsOf
  <2>4. AmountsOf(v)' = {bids'[q].amount : q \in Now} BY DEF AmountsOf
  <2> HIDE DEF Of, Now
  <2>5. {bids'[q].amount : q \in Of} = {bids[q].amount : q \in Of} BY <1>2, <2>2
  <2>6. CASE v = b.user
    <3>1. Now = Of \cup {r} BY <2>1, <2>6
    <3>2. {bids'[q].amount : q \in Of \cup {r}} = {bids'[q].amount : q \in Of} \cup {b.amount}
      BY <1>2
    <3> QED BY <2>3, <2>4, <2>5, <2>6, <3>1, <3>2
  <2>7. CASE v # b.user
    <3>1. Now = Of BY <2>1, <2>7
    <3> QED BY <2>3, <2>4, <2>5, <2>7, <3>1
  <2> QED BY <2>6, <2>7
<1> QED BY <1>2, <1>3, <1>4, <1>5

(* The transaction commits: the rows have the bid, and its sale. *)
LEMMA SerialCommit ==
  ASSUME Serial, SerialInv, ServiceInv', StartedInv', NEW c \in BidCalls, Turn(c), BidCommit(c)
  PROVE  SerialInv'
<1> DEFINE s == call[c].seen
           r == input[c].req
           u == input[c].user
           b == [user |-> u, amount |-> s.price]
<1>0. /\ ServiceInv /\ RowsAgree /\ c \in Calls /\ row \in AuctionState
      /\ r \in Requests /\ u \in Users
      /\ call \in [Calls -> CallState] /\ board \in [Users -> Nat]
      /\ bids \in [Requests -> BidRow \cup {NoBid}]
      /\ order \in OrderRow \cup {NoOrder} /\ row' \in AuctionState
  BY BidInput DEF SerialInv, ServiceInv, StoresOK
<1>1. Moves(c) /\ call'[c].pc = "emit" /\ call'[c].reply = call[c].reply
  BY <1>0, GotoMoves DEF BidCommit, PCs
<1>2. /\ UNCHANGED <<hash, board, keys>> /\ input' = input /\ call[c].pc = "commit"
      /\ bids' = [bids EXCEPT ![r] = b] /\ bids[r] = NoBid /\ Mirror(s)
      /\ IF s.status = "SOLD" THEN UpsertOrder(u, s.price) ELSE UNCHANGED order
  BY DEF BidCommit, At, redisVars
<1>3. RaisedBy(c) BY <1>2 DEF Turn, Stage, Raising
<1>4. /\ s = hash /\ hash # NoHash /\ Raised(s) /\ s.leader = u /\ row.status = "RUNNING"
      /\ board[u] = s.price /\ Backed(board, u) /\ Covers(board)
      /\ keys = RecordedRequests \cup {r}
  BY <1>2, <1>3 DEF RaisedBy
<1>5. s \in AuctionState BY <1>0, <1>4 DEF ServiceInv, StoresOK
<1>6. s.price \in Nat /\ row.price \in Nat /\ s.price > row.price
  BY <1>0, <1>4, <1>5 DEF AuctionState, Raised
<1>7. b \in BidRow /\ b.user = u /\ b.amount = s.price BY <1>0, <1>6 DEF BidRow
<1> HIDE DEF b
<1>8. row' = s BY <1>0, <1>2, <1>4, <1>5, MirrorIsHash
<1>9. /\ RecordedRequests' = RecordedRequests \cup {r}
      /\ \A q \in RecordedRequests : q # r /\ bids'[q] = bids[q]
      /\ bids'[r] = b
      /\ \A v : AmountsOf(v)' = IF v = u THEN AmountsOf(v) \cup {s.price} ELSE AmountsOf(v)
  <2> HIDE DEF r, u, s
  <2>1. bids' = [bids EXCEPT ![r] = b] /\ bids[r] = NoBid BY <1>2
  <2>2. /\ RecordedRequests' = RecordedRequests \cup {r}
        /\ \A q \in RecordedRequests : q # r /\ bids'[q] = bids[q]
        /\ bids'[r] = b
        /\ \A v : AmountsOf(v)' = IF v = b.user THEN AmountsOf(v) \cup {b.amount} ELSE AmountsOf(v)
    BY <1>0, <1>7, <2>1, AmountsAfter
  <2> QED BY <1>7, <2>2
<1>10. \A q \in RecordedRequests : bids[q].amount \in Nat /\ bids[q].amount <= row.price
  BY <1>0 DEF RecordedRequests, BidRow, RowsAgree
<1>11. order = NoOrder BY <1>0, <1>4 DEF RowsAgree
<1>12. IF s.status = "SOLD"
       THEN order' # NoOrder /\ order'.winner = u /\ order'.amount = s.price
       ELSE order' = NoOrder
  <2>1. CASE s.status = "SOLD"
    <3>1. order' = [winner |-> u, amount |-> s.price, status |-> "PENDING_PAYMENT"]
      BY <1>2, <1>11, <2>1 DEF UpsertOrder
    <3>2. order' \in OrderRow BY <1>0, <1>6, <3>1 DEF OrderRow
    <3>3. order' # NoOrder BY <3>2, NoRowAssumption
    <3> QED BY <2>1, <3>1, <3>3
  <2>2. CASE s.status # "SOLD" BY <1>2, <1>11, <2>2
  <2> QED BY <2>1, <2>2
<1> HIDE DEF s, r, u
<1>13. RowsAgree'
  <2>1. /\ row'.price <= row'.rules.cap
        /\ row'.price = row'.rules.cap => row'.status = "SOLD"
        /\ row'.status # "DRAFT"
    BY <1>4, <1>8 DEF Raised
  <2>2. \A q \in RecordedRequests' : bids'[q].amount <= row'.price
    BY <1>6, <1>7, <1>8, <1>9, <1>10
  <2>3. \A p, q \in RecordedRequests' : bids'[p].amount = bids'[q].amount => p = q
    <3>1. \A q \in RecordedRequests : bids'[q].amount # bids'[r].amount
      BY <1>6, <1>7, <1>9, <1>10
    <3>2. \A p, q \in RecordedRequests : bids'[p].amount = bids'[q].amount => p = q
      BY <1>0, <1>9 DEF RowsAgree
    <3> QED BY <1>9, <3>1, <3>2
  <2>4. row'.status = "SOLD" <=> order' # NoOrder BY <1>8, <1>12
  <2>5. order' # NoOrder => order'.winner = row'.leader /\ order'.amount = row'.price
    BY <1>4, <1>8, <1>12
  <2> QED BY <2>1, <2>2, <2>3, <2>4, <2>5 DEF RowsAgree
<1>14. RedisAgrees'
  <2>1. hash' = row' /\ row'.status # "DRAFT" BY <1>2, <1>4, <1>8 DEF Raised
  <2>2. keys' = RecordedRequests' BY <1>2, <1>4, <1>9
  <2>3. ASSUME NEW v \in Users, board'[v] > 0 PROVE board'[v] \in AmountsOf(v)'
    <3>1. CASE v = u BY <1>2, <1>4, <1>9, <3>1
    <3>2. CASE v # u BY <1>2, <1>4, <1>9, <2>3, <3>2 DEF Backed
    <3> QED BY <3>1, <3>2
  <2>4. ASSUME NEW v \in Users, NEW a \in AmountsOf(v)'
        PROVE  \/ a <= board'[v]
               \/ board'[v] = 0 /\ Cardinality({w \in Users : board'[w] > a}) >= TopN
    <3>1. CASE a \in AmountsOf(v) BY <1>2, <1>4, <3>1 DEF Covers
    <3>2. CASE a \notin AmountsOf(v)
      <4>1. v = u /\ a = s.price BY <1>9, <2>4, <3>2
      <4> QED BY <1>2, <1>4, <1>6, <4>1
    <3> QED BY <3>1, <3>2
  <2>5. BoardShowsBest' BY <2>3, <2>4 DEF BoardShowsBest
  <2> QED BY <2>1, <2>2, <2>5 DEF RedisAgrees
<1>15. Stage(c)' BY <1>0, <1>1, <1>14, AgreedStage
<1>16. Owns(c, r)' BY <1>1, <1>2 DEF Owns, r
<1>17. \A q \in RecordedRequests' : q \in RecordedRequests \/ (c \in BidCalls /\ Owns(c, q)')
  BY <1>9, <1>16, <1>2 DEF Owns, r
<1> QED BY <1>0, <1>1, <1>2, <1>13, <1>15, <1>17, TurnKeeps DEF Turn

----
(* The undo.                                                               *)

(* A bid under way keeps what Redis and the rows say as long as nothing is *)
(* written.                                                                *)
LEMMA RaisedStays ==
  ASSUME NEW c \in BidCalls, RaisedBy(c), ReadOnly,
         call'[c].pc = "commit" => call'[c].seen = hash,
         call'[c].pc \in {"undo.board", "undo.exec"} => call'[c].seen = row,
         call'[c].pc = "undo.exec" =>
           Backed(call'[c].entries, NoUser) /\ Covers(call'[c].entries)
  PROVE  RaisedBy(c)'
<1>1. /\ row' = row /\ hash' = hash /\ board' = board /\ keys' = keys /\ bids' = bids
      /\ input' = input /\ RecordedRequests' = RecordedRequests
  BY NothingWritten DEF ReadOnly, dbVars
<1>2. \A v : AmountsOf(v)' = AmountsOf(v) BY SameRows DEF ReadOnly
<1>3. Raised(hash)' BY <1>1 DEF RaisedBy, Raised
<1>4. Backed(board, input[c].user)' /\ Covers(board)'
  BY <1>1, <1>2 DEF RaisedBy, Backed, Covers
<1>5. call'[c].pc = "undo.exec" => Backed(call[c].entries, NoUser)' /\ Covers(call[c].entries)'
  BY <1>2 DEF Backed, Covers
<1> QED BY <1>1, <1>3, <1>4, <1>5 DEF RaisedBy

(* And so does its step to the next await. *)
LEMMA RaisedGoes ==
  ASSUME SerialInv, ServiceInv', StartedInv', NEW c \in BidCalls, Turn(c), Moves(c), ReadOnly,
         call'[c].reply = call[c].reply, call[c].pc # "emit",
         call'[c].pc \in {"read", "commit", "undo.load", "undo.board", "undo.exec"},
         RaisedBy(c)'
  PROVE  SerialInv'
<1>1. c \in Calls /\ c \notin CancelCalls \cup StartCalls \cup UpdateCalls \cup {Timer}
  BY CallsAssumption DEF Calls
<1>2. Stage(c)' BY <1>1 DEF Stage, Raising, ClosingOne, Opening
<1>3. input' = input /\ RecordedRequests' = RecordedRequests /\ RowsAgree'
  BY NothingWritten DEF SerialInv
<1> QED BY <1>1, <1>2, <1>3, TurnGoes

(* The TopN of the standings leave out nobody who is among the TopN: who   *)
(* is missing has been beaten by each of them, and amounts never tie.      *)
LEMMA PodiumCovers ==
  ASSUME Serial, ServiceInv, RowsAgree, NEW e \in [Users -> Nat], NEW S \in SUBSET Users,
         Standings(e), Podium(e, S)
  PROVE  LET entries == [u \in Users |-> IF u \in S THEN e[u] ELSE 0] IN
         Backed(entries, NoUser) /\ Covers(entries)
<1> DEFINE entries == [u \in Users |-> IF u \in S THEN e[u] ELSE 0]
           bidders == {u \in Users : e[u] > 0}
<1>1. ASSUME NEW u \in Users, e[u] > 0 PROVE e[u] \in AmountsOf(u)
  BY <1>1 DEF Standings
<1>2. \A u \in Users : entries[u] = (IF u \in S THEN e[u] ELSE 0) /\ entries[u] \in Nat OBVIOUS
<1>3. S \subseteq bidders BY DEF Podium
<1> HIDE DEF entries
<1>4. Backed(entries, NoUser) BY <1>1, <1>2 DEF Backed
<1>5. ASSUME NEW u \in Users, NEW a \in AmountsOf(u), ~ (a <= entries[u])
      PROVE  entries[u] = 0 /\ Cardinality({v \in Users : entries[v] > a}) >= TopN
  <2>1. a \in Nat BY AmountsBelowPrice
  <2>2. a <= e[u] BY <1>5 DEF Standings
  <2>3. u \notin S BY <1>2, <1>5, <2>2
  <2>4. entries[u] = 0 BY <1>2, <2>3
  <2>5. e[u] > 0 BY <1>5, <2>1, <2>2, <2>4
  <2>6. u \in bidders \ S BY <2>3, <2>5
  <2>7. Cardinality(S) = TopN /\ \A w \in S : e[u] <= e[w]
    <3> HIDE DEF bidders
    <3>1. /\ Cardinality(S) = TopN \/ (Cardinality(bidders) < TopN /\ S = bidders)
          /\ \A w \in S, v \in bidders \ S : e[v] <= e[w]
      BY DEF Podium, bidders
    <3> QED BY <2>6, <3>1
  <2>8. ASSUME NEW w \in S PROVE e[w] > a
    <3>1. w \in Users /\ e[w] > 0 /\ w # u BY <1>3, <2>3
    <3>2. e[w] \in AmountsOf(w) /\ e[u] \in AmountsOf(u) BY <1>1, <2>5, <3>1
    <3>3. PICK q \in Requests : bids[q] # NoBid /\ bids[q].user = w /\ bids[q].amount = e[w]
      BY <3>2 DEF AmountsOf
    <3>4. PICK r \in Requests : bids[r] # NoBid /\ bids[r].user = u /\ bids[r].amount = e[u]
      BY <3>2 DEF AmountsOf
    <3>5. q # r BY <3>1, <3>3, <3>4
    <3>6. e[w] # e[u] BY <3>3, <3>4, <3>5 DEF RowsAgree, RecordedRequests
    <3> QED BY <2>1, <2>2, <2>7, <3>1, <3>6
  <2> DEFINE T == {v \in Users : entries[v] > a}
  <2>9. S \subseteq T BY <1>2, <2>8
  <2>10. T \subseteq Users /\ IsFiniteSet(T) BY FS_Subset DEF Serial
  <2>11. Cardinality(S) \in Nat /\ Cardinality(T) \in Nat /\ Cardinality(S) <= Cardinality(T)
    BY <2>9, <2>10, FS_Subset, FS_CardinalityType
  <2>12. Cardinality(T) >= TopN BY <2>7, <2>11
  <2> QED BY <2>4, <2>12
<1>6. Covers(entries)
  <2> SUFFICES ASSUME NEW u \in Users, NEW a \in AmountsOf(u)
               PROVE  \/ a <= entries[u]
                      \/ entries[u] = 0 /\ Cardinality({v \in Users : entries[v] > a}) >= TopN
    BY DEF Covers
  <2> QED BY <1>5
<1> QED BY <1>4, <1>6 DEF entries

(* Reading the standings back. *)
LEMMA SerialBoard ==
  ASSUME Serial, SerialInv, ServiceInv', StartedInv', NEW c \in BidCalls, Turn(c), UndoBoard(c)
  PROVE  SerialInv'
<1>0. ServiceInv /\ RowsAgree /\ call \in [Calls -> CallState] /\ c \in Calls
  BY BidInput DEF SerialInv, ServiceInv
<1>1. PICK e \in [Users -> Amounts], S \in SUBSET Users :
        /\ Standings(e) /\ Podium(e, S)
        /\ call' = [call EXCEPT ![c].pc = "undo.exec",
                                ![c].entries = [u \in Users |-> IF u \in S THEN e[u] ELSE 0]]
  BY DEF UndoBoard
<1>2. Amounts \subseteq Nat
  <2>1. ASSUME NEW u \in Users PROVE AmountsOf(u) \subseteq Nat BY <1>0, AmountsBelowPrice
  <2> QED BY <2>1 DEF Amounts
<1>3. e \in [Users -> Nat] BY <1>2
<1> DEFINE entries == [u \in Users |-> IF u \in S THEN e[u] ELSE 0]
<1>4. Backed(entries, NoUser) /\ Covers(entries) BY <1>0, <1>1, <1>3, PodiumCovers
<1> HIDE DEF entries
<1>5. /\ call'[c].pc = "undo.exec" /\ call'[c].entries = entries
      /\ call'[c].seen = call[c].seen /\ call'[c].reply = call[c].reply
  BY <1>0, <1>1 DEF CallState, entries
<1>6. ReadOnly /\ call[c].pc = "undo.board" BY DEF UndoBoard, At, ReadOnly
<1>7. RaisedBy(c) BY <1>6 DEF Turn, Stage, Raising
<1>8. call[c].seen = row BY <1>6, <1>7 DEF RaisedBy
<1>9. RaisedBy(c)' BY <1>4, <1>5, <1>6, <1>7, <1>8, RaisedStays
<1> QED BY <1>0, <1>5, <1>6, <1>9, UndoBoardMoves, RaisedGoes

(* Restoring the row, the leaderboard and the key of the request. *)
LEMMA SerialExec ==
  ASSUME Serial, SerialInv, ServiceInv', StartedInv', NEW c \in BidCalls, Turn(c), UndoExec(c)
  PROVE  SerialInv'
<1>0. c \in Calls BY DEF Calls
<1>1. /\ RestoreFromDatabase(call[c].seen, call[c].entries, input[c].req)
      /\ Answer(c, "error") /\ UNCHANGED <<dbVars, input>> /\ call[c].pc = "undo.exec"
  BY DEF UndoExec, At
<1>2. RaisedBy(c) BY <1>1 DEF Turn, Stage, Raising
<1>3. hash' = row /\ board' = call[c].entries /\ keys' = RecordedRequests
  <2>1. keys' = (RecordedRequests \cup {input[c].req}) \ {input[c].req}
    BY <1>1, <1>2 DEF RaisedBy, RestoreFromDatabase
  <2>2. input[c].req \notin RecordedRequests BY <1>2 DEF RaisedBy, RecordedRequests
  <2> QED BY <1>1, <1>2, <2>1, <2>2 DEF RaisedBy, RestoreFromDatabase
<1>4. /\ row' = row /\ RecordedRequests' = RecordedRequests
      /\ \A v : AmountsOf(v)' = AmountsOf(v)
      /\ RowsAgree'
  BY <1>1, SameRows DEF SerialInv
<1>5. BoardShowsBest'
  <2>1. Backed(board', NoUser) /\ Covers(board') BY <1>1, <1>2, <1>3 DEF RaisedBy
  <2> QED BY <1>4, <2>1, NoUserAssumption DEF BoardShowsBest, Backed, Covers
<1>6. RedisAgrees' BY <1>2, <1>3, <1>4, <1>5 DEF RedisAgrees, RaisedBy
<1> QED BY <1>0, <1>1, <1>4, <1>6, TurnEnds DEF Replies

----
(* placeBid, await by await. *)
LEMMA SerialBid ==
  ASSUME Serial, SerialInv, ServiceInv', StartedInv', NEW c \in BidCalls, BidStep(c)
  PROVE  SerialInv'
<1>0. /\ c \in Calls /\ ServiceInv /\ call \in [Calls -> CallState] /\ row \in AuctionState
      /\ hash \in AuctionState \cup {NoHash} /\ c # Timer
  BY CallsAssumption, BidInput DEF SerialInv, ServiceInv, StoresOK
<1>1. Turn(c)
  <2>1. call[c].pc \notin {"idle", "done"} \/ Arrives(c)
    BY DEF BidStep, BidArrives, BidEval, BidMisses, BidRefused, BidRead, BidLoad, BidCommit,
           BidConflicts, BidReply, UndoLoad, UndoBoard, UndoExec, At
  <2> QED BY <1>0, <2>1, TakesTurn
<1>2. call[c].pc \in {"idle", "eval", "load", "ensure", "emit"} => RedisAgrees
  BY <1>1 DEF Turn, Stage, Raising, ClosingOne, Opening
<1>3. call[c].pc \in {"read", "commit", "undo.load", "undo.board", "undo.exec"} => RaisedBy(c)
  BY <1>1 DEF Turn, Stage, Raising
<1>4. CASE BidArrives(c)
  <2>1. ReadOnly /\ Goto(c, "eval") /\ call[c].pc = "idle"
    BY <1>4 DEF BidArrives, Arrives, At, ReadOnly
  <2>2. Moves(c) /\ call'[c].pc = "eval" /\ call'[c].reply = call[c].reply
    BY <1>0, <2>1, GotoMoves DEF PCs
  <2> QED BY <1>0, <1>1, <1>2, <2>1, <2>2, AgreeingGoes
<1>5. CASE BidEval(c) BY <1>1, <1>5, SerialEval
<1>6. CASE BidMisses(c)
  <2>1. ReadOnly /\ call[c].pc = "eval" /\ (Answer(c, "rejected") \/ Goto(c, "load"))
    BY <1>6 DEF BidMisses, At, ReadOnly
  <2>2. CASE Answer(c, "rejected") BY <1>0, <1>1, <1>2, <2>1, <2>2, AgreeingEnds DEF Replies
  <2>3. CASE Goto(c, "load")
    <3>1. Moves(c) /\ call'[c].pc = "load" /\ call'[c].reply = call[c].reply
      BY <1>0, <2>3, GotoMoves DEF PCs
    <3> QED BY <1>0, <1>1, <1>2, <2>1, <3>1, AgreeingGoes
  <2> QED BY <2>1, <2>2, <2>3
<1>7. CASE BidRefused(c)
  <2>1. /\ ReadOnly /\ call[c].pc = "eval"
        /\ \E reply \in {"duplicate", "rejected"} : Answer(c, reply)
    BY <1>7 DEF BidRefused, At, ReadOnly
  <2> QED BY <1>0, <1>1, <1>2, <2>1, AgreeingEnds DEF Replies
<1>8. CASE BidRead(c)
  <2>1. ReadOnly /\ call[c].pc = "read" BY <1>8 DEF BidRead, At, ReadOnly
  <2>2. RaisedBy(c) /\ hash \in AuctionState BY <1>0, <1>3, <2>1 DEF RaisedBy
  <2>3. GotoSeeing(c, "commit", hash) BY <1>8, <2>2 DEF BidRead, RaisedBy
  <2>4. /\ Moves(c) /\ call'[c].pc = "commit" /\ call'[c].seen = hash
        /\ call'[c].reply = call[c].reply
    BY <1>0, <2>2, <2>3, GotoSeeingMoves DEF PCs
  <2>5. RaisedBy(c)' BY <2>1, <2>2, <2>4, RaisedStays
  <2> QED BY <1>1, <2>1, <2>4, <2>5, RaisedGoes
<1>9. CASE BidLoad(c)
  <2> DEFINE t == [call[c] EXCEPT !.pc = "ensure", !.seen = row, !.again = TRUE]
  <2>1. t.pc = "ensure" /\ t.reply = call[c].reply /\ t \in CallState
    BY <1>0 DEF CallState, PCs
  <2>2. call' = [call EXCEPT ![c] = t] BY <1>9 DEF BidLoad
  <2> HIDE DEF t
  <2>3. Moves(c) /\ call'[c].pc = "ensure" /\ call'[c].reply = call[c].reply
    BY <1>0, <2>1, <2>2 DEF Moves
  <2>4. ReadOnly /\ call[c].pc = "load" BY <1>9 DEF BidLoad, At, ReadOnly
  <2> QED BY <1>0, <1>1, <1>2, <2>3, <2>4, AgreeingGoes
<1>10. CASE BidCommit(c) BY <1>1, <1>10, SerialCommit
<1>11. CASE BidConflicts(c) BY <1>3, <1>11 DEF BidConflicts, At, RaisedBy
<1>12. CASE BidReply(c)
  <2>1. /\ ReadOnly /\ call[c].pc = "emit"
        /\ \E reply \in {"sold", "accepted"} : Answer(c, reply)
    BY <1>12 DEF BidReply, At, ReadOnly
  <2> QED BY <1>0, <1>1, <1>2, <2>1, AgreeingEnds DEF Replies
<1>13. CASE UndoLoad(c)
  <2>1. ReadOnly /\ call[c].pc = "undo.load" /\ GotoSeeing(c, "undo.board", row)
    BY <1>13 DEF UndoLoad, At, ReadOnly
  <2>2. /\ Moves(c) /\ call'[c].pc = "undo.board" /\ call'[c].seen = row
        /\ call'[c].reply = call[c].reply
    BY <1>0, <2>1, GotoSeeingMoves DEF PCs
  <2>3. RaisedBy(c)' BY <1>3, <2>1, <2>2, RaisedStays
  <2> QED BY <1>1, <2>1, <2>2, <2>3, RaisedGoes
<1>14. CASE UndoBoard(c) BY <1>1, <1>14, SerialBoard
<1>15. CASE UndoExec(c) BY <1>1, <1>15, SerialExec
<1> QED BY <1>4, <1>5, <1>6, <1>7, <1>8, <1>9, <1>10, <1>11, <1>12, <1>13, <1>14, <1>15 DEF BidStep

(* The transaction of a bid rolls back: the undo begins. *)
LEMMA SerialRollback ==
  ASSUME Serial, SerialInv, ServiceInv', StartedInv', NEW c \in Calls, BidRollsBack(c)
  PROVE  SerialInv'
<1>1. c \in BidCalls /\ call[c].pc = "commit" /\ ReadOnly /\ Goto(c, "undo.load")
  BY DEF BidRollsBack, At, ReadOnly
<1>2. Turn(c) BY <1>1, TakesTurn
<1>3. RaisedBy(c) BY <1>1, <1>2 DEF Turn, Stage, Raising
<1>4. Moves(c) /\ call'[c].pc = "undo.load" /\ call'[c].reply = call[c].reply
  BY <1>1, GotoMoves DEF PCs, SerialInv, ServiceInv
<1>5. RaisedBy(c)' BY <1>1, <1>3, <1>4, RaisedStays
<1> QED BY <1>1, <1>2, <1>4, <1>5, RaisedGoes

----
(* The other handlers.                                                     *)

(* ensureRedisState: Redis has every auction that was started. *)
LEMMA SerialEnsure ==
  ASSUME Serial, SerialInv, ServiceInv', StartedInv', NEW c \in Calls, Ensure(c)
  PROVE  SerialInv'
<1>0. ServiceInv /\ call \in [Calls -> CallState] /\ row \in AuctionState
  BY DEF SerialInv, ServiceInv, StoresOK
<1>1. ReadOnly /\ call[c].pc = "ensure" BY DEF Ensure, At, ReadOnly
<1>2. Turn(c) BY <1>1, TakesTurn
<1>3. RedisAgrees BY <1>1, <1>2 DEF Turn, Stage, Raising, ClosingOne, Opening
<1>4. hash = NoHash => call[c].seen.endAt = 0
  <2>1. hash = NoHash => ~ Live(row) BY <1>0, <1>3, RedisHasNone DEF Live
  <2> QED BY <1>1, <2>1 DEF SerialInv, StartedInv, CallLive
<1>5. Goto(c, "eval") \/ Answer(c, "rejected") BY <1>4 DEF Ensure
<1>6. CASE Goto(c, "eval")
  <2>1. Moves(c) /\ call'[c].pc = "eval" /\ call'[c].reply = call[c].reply
    BY <1>0, <1>6, GotoMoves DEF PCs
  <2> QED BY <1>1, <1>2, <1>3, <2>1, AgreeingGoes
<1>7. CASE Answer(c, "rejected") BY <1>1, <1>2, <1>3, <1>7, AgreeingEnds DEF Replies
<1> QED BY <1>5, <1>6, <1>7

(* initialize, which only start() reaches: Redis is told of the row. *)
LEMMA SerialInit ==
  ASSUME Serial, SerialInv, ServiceInv', StartedInv', NEW c \in Calls, InitRedis(c)
  PROVE  SerialInv'
<1>1. /\ call[c].pc = "init" /\ Initialize(call[c].seen) /\ UNCHANGED <<now, dbVars, input>>
      /\ IF c \in StartCalls THEN Answer(c, "done") ELSE Goto(c, "eval")
  BY DEF InitRedis, At
<1>2. Turn(c) BY <1>1, TakesTurn
<1>3. OpenedBy(c) BY <1>1, <1>2 DEF Turn, Stage, Opening
<1>4. /\ row' = row /\ RecordedRequests' = RecordedRequests
      /\ \A v : AmountsOf(v)' = AmountsOf(v)
      /\ RowsAgree'
  BY <1>1, SameRows DEF SerialInv
<1>5. hash' = row /\ board' = board /\ keys' = keys BY <1>1, <1>3 DEF Initialize, OpenedBy
<1>6. BoardShowsBest' BY <1>3, <1>4, <1>5 DEF OpenedBy, BoardShowsBest
<1>7. RedisAgrees' BY <1>3, <1>4, <1>5, <1>6 DEF RedisAgrees, OpenedBy
<1> QED BY <1>1, <1>2, <1>3, <1>4, <1>7, TurnEnds DEF Replies, OpenedBy

(* A script closes the auction and its call knows it. *)
LEMMA ScriptCloses ==
  ASSUME SerialInv, ServiceInv', StartedInv', NEW c \in Calls, Turn(c),
         c \in CancelCalls \/ c = Timer, call[c].pc = "eval",
         RedisAgrees, row.status = "RUNNING", hash' \in AuctionState,
         hash'.version > row.version,
         hash'.price = row.price, hash'.leader = row.leader, hash'.endAt = row.endAt,
         hash'.rules = row.rules,
         IF c = Timer THEN hash'.status \in {"SOLD", "UNSOLD"} /\ hash'.reason = row.reason
         ELSE hash'.status = "CANCELLED" /\ hash'.reason = "given",
         GotoSeeing(c, "save", hash'), UNCHANGED <<board, keys, now, dbVars, input>>
  PROVE  SerialInv'
<1>1. /\ Moves(c) /\ call'[c].pc = "save" /\ call'[c].seen = hash'
      /\ call'[c].reply = call[c].reply
  BY GotoSeeingMoves DEF PCs, SerialInv, ServiceInv
<1>2. /\ row' = row /\ RecordedRequests' = RecordedRequests
      /\ \A v : AmountsOf(v)' = AmountsOf(v)
      /\ RowsAgree'
  BY SameRows DEF SerialInv
<1>3. BoardShowsBest' BY <1>2 DEF RedisAgrees, BoardShowsBest
<1>4. hash' # NoHash BY NoHashAssumption
<1>5. ClosedBy(c)' BY <1>1, <1>2, <1>3, <1>4 DEF ClosedBy, RedisAgrees
<1>6. c \notin BidCalls \cup StartCalls \cup UpdateCalls BY CallsAssumption
<1>7. Stage(c)' BY <1>1, <1>5, <1>6 DEF Stage, Raising, ClosingOne, Opening
<1> QED BY <1>1, <1>2, <1>7, TurnGoes

(* The row is closed too: status, version and reason are those of Redis. *)
LEMMA ClosedRow ==
  ASSUME row \in AuctionState, hash \in AuctionState, NEW c, ClosedBy(c), row' \in AuctionState,
         row.version < hash.version =>
           /\ row'.status = hash.status /\ row'.version = hash.version
           /\ row'.reason = hash.reason
           /\ row'.price = row.price /\ row'.leader = row.leader
           /\ row'.endAt = row.endAt /\ row'.rules = row.rules
  PROVE  row' = hash
<1>1. row.version < hash.version BY DEF ClosedBy, AuctionState
<1>2. /\ row'.status = hash.status /\ row'.price = hash.price /\ row'.leader = hash.leader
      /\ row'.endAt = hash.endAt /\ row'.version = hash.version /\ row'.rules = hash.rules
      /\ row'.reason = hash.reason
  BY <1>1 DEF ClosedBy
<1> QED BY <1>2 DEF AuctionState

(* The rows agree after a closing, and Redis with them. *)
LEMMA RowCloses ==
  ASSUME SerialInv, ServiceInv', StartedInv', NEW c \in Calls, Turn(c), ClosingOne(c), ClosedBy(c),
         row' = hash, UNCHANGED <<redisVars, bids, input>>,
         IF hash.status = "SOLD"
         THEN order' # NoOrder /\ order'.winner = row.leader /\ order'.amount = row.price
         ELSE order' = order,
         NEW reply \in Replies, Answer(c, reply)
  PROVE  SerialInv'
<1>1. /\ hash' = hash /\ board' = board /\ keys' = keys /\ bids' = bids /\ input' = input
      /\ RecordedRequests' = RecordedRequests /\ \A v : AmountsOf(v)' = AmountsOf(v)
  BY DEF redisVars, RecordedRequests, AmountsOf
<1>2. RowsAgree /\ order = NoOrder /\ row.price # row.rules.cap
  BY DEF SerialInv, RowsAgree, ClosedBy
<1>3. /\ row'.price = row.price /\ row'.rules = row.rules /\ row'.leader = row.leader
      /\ row'.status = hash.status /\ row'.status # "DRAFT"
  BY DEF ClosedBy
<1>4. RowsAgree'
  <2>1. row'.status = "SOLD" <=> order' # NoOrder BY <1>2, <1>3
  <2>2. order' # NoOrder => order'.winner = row'.leader /\ order'.amount = row'.price
    BY <1>2, <1>3
  <2> QED BY <1>1, <1>2, <1>3, <2>1, <2>2 DEF RowsAgree
<1>5. BoardShowsBest' BY <1>1 DEF ClosedBy, BoardShowsBest
<1>6. RedisAgrees' BY <1>1, <1>3, <1>5 DEF RedisAgrees, ClosedBy
<1>7. call[c].pc # "emit" BY DEF ClosingOne
<1> QED BY <1>1, <1>4, <1>6, <1>7, TurnEnds

(* cancel. *)
LEMMA SerialCancel ==
  ASSUME Serial, SerialInv, ServiceInv', StartedInv', NEW c \in CancelCalls, CancelStep(c)
  PROVE  SerialInv'
<1>0. /\ c \in Calls /\ c # Timer /\ ServiceInv /\ call \in [Calls -> CallState]
      /\ row \in AuctionState /\ hash \in AuctionState \cup {NoHash} /\ row' \in AuctionState
  BY CallsAssumption DEF Calls, SerialInv, ServiceInv, StoresOK
<1>1. Turn(c)
  <2>1. call[c].pc \notin {"idle", "done"} \/ Arrives(c)
    BY DEF CancelStep, CancelLoad, CancelEval, CancelRefused, CancelSave, At
  <2> QED BY <1>0, <2>1, TakesTurn
<1>2. call[c].pc \in {"idle", "eval"} => RedisAgrees
  BY <1>1 DEF Turn, Stage, Raising, ClosingOne, Opening
<1>3. CASE CancelLoad(c)
  <2>1. /\ ReadOnly /\ call[c].pc = "idle"
        /\ GotoSeeing(c, "ensure", row) \/ Answer(c, "rejected")
    BY <1>3 DEF CancelLoad, Arrives, At, ReadOnly
  <2>2. CASE GotoSeeing(c, "ensure", row)
    <3>1. Moves(c) /\ call'[c].pc = "ensure" /\ call'[c].reply = call[c].reply
      BY <1>0, <2>2, GotoSeeingMoves DEF PCs
    <3> QED BY <1>0, <1>1, <1>2, <2>1, <3>1, AgreeingGoes
  <2>3. CASE Answer(c, "rejected") BY <1>0, <1>1, <1>2, <2>1, <2>3, AgreeingEnds DEF Replies
  <2> QED BY <2>1, <2>2, <2>3
<1>4. CASE CancelEval(c)
  <2>1. /\ CancelRunning /\ call[c].pc = "eval" /\ GotoSeeing(c, "save", hash')
        /\ UNCHANGED <<board, keys, now, dbVars, input>>
    BY <1>4 DEF CancelEval, At, CancelRunning
  <2>2. /\ hash # NoHash /\ hash.status = "RUNNING" /\ hash' \in AuctionState
        /\ hash' = [hash EXCEPT !.status = "CANCELLED", !.reason = "given", !.version = @ + 1]
    BY <1>0, <2>1, CancelledHash
  <2>3. hash = row BY <1>2, <2>1, <2>2, RedisHasRow
  <2>4. /\ hash'.version = row.version + 1 /\ row.version \in Nat
        /\ hash'.price = row.price /\ hash'.leader = row.leader /\ hash'.endAt = row.endAt
        /\ hash'.rules = row.rules /\ hash'.status = "CANCELLED" /\ hash'.reason = "given"
    BY <1>0, <2>2, <2>3 DEF AuctionState
  <2> QED BY <1>0, <1>1, <1>2, <2>1, <2>2, <2>3, <2>4, ScriptCloses
<1>5. CASE CancelRefused(c)
  <2>1. ReadOnly /\ call[c].pc = "eval" /\ Answer(c, "rejected")
    BY <1>5 DEF CancelRefused, At, ReadOnly
  <2> QED BY <1>0, <1>1, <1>2, <2>1, AgreeingEnds DEF Replies
<1>6. CASE CancelSave(c)
  <2>1. /\ call[c].pc = "save" /\ UNCHANGED <<redisVars, bids, order, input>>
        /\ Answer(c, "done")
    BY <1>6 DEF CancelSave, At
  <2>2. ClosingOne(c) BY <2>1 DEF ClosingOne
  <2>3. ClosedBy(c) BY <1>1, <2>2 DEF Turn, Stage
  <2>4. /\ hash \in AuctionState /\ call[c].seen = hash
        /\ hash.status = "CANCELLED" /\ hash.reason = "given"
    BY <1>0, <2>3 DEF ClosedBy
  <2>5. row.version < hash.version =>
          row' = [row EXCEPT !.status = "CANCELLED", !.reason = "given", !.version = hash.version]
    BY <1>6, <2>4 DEF CancelSave
  <2>6. row.version < hash.version =>
          /\ row'.status = hash.status /\ row'.version = hash.version
          /\ row'.reason = hash.reason
          /\ row'.price = row.price /\ row'.leader = row.leader
          /\ row'.endAt = row.endAt /\ row'.rules = row.rules
    BY <1>0, <2>4, <2>5 DEF AuctionState
  <2>7. row' = hash BY <1>0, <2>3, <2>4, <2>6, ClosedRow
  <2> QED BY <1>0, <1>1, <2>1, <2>2, <2>3, <2>4, <2>7, RowCloses DEF Replies
<1> QED BY <1>3, <1>4, <1>5, <1>6 DEF CancelStep

(* The settlement of this auction. *)
LEMMA SerialSettle ==
  ASSUME Serial, SerialInv, ServiceInv', StartedInv', SettleStep
  PROVE  SerialInv'
<1>0. /\ Timer \in Calls /\ Timer \notin CancelCalls /\ ServiceInv /\ call \in [Calls -> CallState]
      /\ row \in AuctionState /\ hash \in AuctionState \cup {NoHash}
      /\ order \in OrderRow \cup {NoOrder} /\ row' \in AuctionState
  BY CallsAssumption DEF Calls, SerialInv, ServiceInv, StoresOK
<1>1. Turn(Timer)
  <2>1. call[Timer].pc \notin {"idle", "done"} \/ Arrives(Timer)
    BY DEF SettleStep, SettleScan, SettleEval, SettleSkips, SettleSave, At
  <2> QED BY <1>0, <2>1, TakesTurn
<1>2. call[Timer].pc \in {"idle", "eval"} => RedisAgrees
  BY <1>1 DEF Turn, Stage, Raising, ClosingOne, Opening
<1>3. CASE SettleScan
  <2>1. ReadOnly /\ call[Timer].pc = "idle" /\ GotoSeeing(Timer, "ensure", row)
    BY <1>3 DEF SettleScan, Arrives, At, ReadOnly
  <2>2. Moves(Timer) /\ call'[Timer].pc = "ensure" /\ call'[Timer].reply = call[Timer].reply
    BY <1>0, <2>1, GotoSeeingMoves DEF PCs
  <2> QED BY <1>0, <1>1, <1>2, <2>1, <2>2, AgreeingGoes
<1>4. CASE SettleEval
  <2>1. /\ FinishExpired /\ call[Timer].pc = "eval" /\ GotoSeeing(Timer, "save", hash')
        /\ UNCHANGED <<board, keys, now, dbVars, input>>
    BY <1>4 DEF SettleEval, At, FinishExpired
  <2>2. /\ hash # NoHash /\ hash.status = "RUNNING" /\ hash' \in AuctionState
        /\ hash'.leader = hash.leader /\ hash'.status \in {"SOLD", "UNSOLD"}
    BY <1>0, <2>1, FinishedHash
  <2>3. hash = row BY <1>2, <2>1, <2>2, RedisHasRow
  <2>4. /\ hash'.version = row.version + 1 /\ row.version \in Nat
        /\ hash'.price = row.price /\ hash'.endAt = row.endAt
        /\ hash'.rules = row.rules /\ hash'.reason = row.reason
    BY <1>0, <2>1, <2>3 DEF AuctionState, FinishExpired
  <2> QED BY <1>0, <1>1, <1>2, <2>1, <2>2, <2>3, <2>4, ScriptCloses
<1>5. CASE SettleSkips
  <2>1. ReadOnly /\ call[Timer].pc = "eval" /\ Answer(Timer, "done")
    BY <1>5 DEF SettleSkips, At, ReadOnly
  <2> QED BY <1>0, <1>1, <1>2, <2>1, AgreeingEnds DEF Replies
<1>6. CASE SettleSave
  <2>1. /\ call[Timer].pc = "save" /\ UNCHANGED <<redisVars, bids, input>>
        /\ Answer(Timer, "done")
    BY <1>6 DEF SettleSave, At
  <2>2. ClosingOne(Timer) BY <2>1 DEF ClosingOne
  <2>3. ClosedBy(Timer) BY <1>1, <2>2 DEF Turn, Stage
  <2>4. hash \in AuctionState /\ call[Timer].seen = hash /\ hash.reason = row.reason
    BY <1>0, <2>3 DEF ClosedBy
  <2>5. row.version < hash.version =>
          row' = [row EXCEPT !.status = hash.status, !.version = hash.version]
    BY <1>6, <2>4 DEF SettleSave
  <2>6. row.version < hash.version =>
          /\ row'.status = hash.status /\ row'.version = hash.version
          /\ row'.reason = hash.reason
          /\ row'.price = row.price /\ row'.leader = row.leader
          /\ row'.endAt = row.endAt /\ row'.rules = row.rules
    BY <1>0, <2>4, <2>5 DEF AuctionState
  <2>7. row' = hash BY <1>0, <2>3, <2>4, <2>6, ClosedRow
  <2>8. IF hash.status = "SOLD"
        THEN order' # NoOrder /\ order'.winner = row.leader /\ order'.amount = row.price
        ELSE order' = order
    <3>1. order = NoOrder BY <2>3 DEF SerialInv, RowsAgree, ClosedBy
    <3>2. CASE hash.status = "SOLD"
      <4>1. hash.leader = row.leader /\ hash.leader # NoUser
        BY <1>0, <2>1, <2>3, <2>4, <3>2 DEF ClosedBy, ServiceInv, CallOK
      <4>2. row.leader \in Users /\ row.price \in Nat BY <1>0, <4>1 DEF AuctionState
      <4>3. order' = [winner |-> row.leader, amount |-> row.price, status |-> "PENDING_PAYMENT"]
        BY <1>6, <2>4, <3>1, <3>2, <4>1 DEF SettleSave, UpsertOrder
      <4>4. order' \in OrderRow BY <4>2, <4>3 DEF OrderRow
      <4>5. order' # NoOrder BY <4>4, NoRowAssumption
      <4> QED BY <3>2, <4>3, <4>5
    <3>3. CASE hash.status # "SOLD" BY <1>6, <2>4, <3>3 DEF SettleSave
    <3> QED BY <3>2, <3>3
  <2> QED BY <1>0, <1>1, <2>1, <2>2, <2>3, <2>7, <2>8, RowCloses DEF Replies
<1> QED BY <1>3, <1>4, <1>5, <1>6 DEF SettleStep

(* A call that is about to write to a draft. *)
LEMMA DraftGoes ==
  ASSUME SerialInv, ServiceInv', StartedInv', NEW c \in StartCalls \cup UpdateCalls, c \in Calls,
         Turn(c), call[c].pc = "idle", RedisAgrees, ReadOnly,
         Editable, NEW s \in AuctionState, GotoSeeing(c, "save", s)
  PROVE  SerialInv'
<1>1. Moves(c) /\ call'[c].pc = "save" /\ call'[c].reply = call[c].reply
  BY GotoSeeingMoves DEF PCs, SerialInv, ServiceInv
<1>2. /\ RecordedRequests' = RecordedRequests /\ input' = input /\ RowsAgree' /\ RedisAgrees'
      /\ row' = row
  BY NothingWritten DEF SerialInv
<1>3. row.status = "DRAFT" BY DEF Editable, SerialInv, StartedInv, Live
<1>4. c \notin BidCalls \cup CancelCalls \cup {Timer} BY CallsAssumption
<1>5. Stage(c)' BY <1>1, <1>2, <1>3, <1>4 DEF Stage, Raising, ClosingOne, Opening
<1> QED BY <1>1, <1>2, <1>5, TurnGoes

(* start(): the row runs, then Redis is told. *)
LEMMA SerialStart ==
  ASSUME Serial, SerialInv, ServiceInv', StartedInv', NEW c \in StartCalls, StartStep(c)
  PROVE  SerialInv'
<1>0. /\ c \in Calls /\ c \notin BidCalls \cup CancelCalls \cup UpdateCalls \cup {Timer}
      /\ ServiceInv /\ call \in [Calls -> CallState] /\ row \in AuctionState /\ now \in Nat
      /\ row' \in AuctionState
  BY CallsAssumption DEF Calls, SerialInv, ServiceInv, StoresOK
<1>1. Turn(c)
  <2>1. call[c].pc \notin {"idle", "done"} \/ Arrives(c)
    BY DEF StartStep, StartLoad, StartSave, At
  <2> QED BY <1>0, <2>1, TakesTurn
<1>2. CASE StartLoad(c)
  <2> DEFINE s == [row EXCEPT !.endAt = now + row.rules.duration]
  <2>1. /\ ReadOnly /\ call[c].pc = "idle"
        /\ (Editable /\ GotoSeeing(c, "save", s)) \/ Answer(c, "rejected")
    BY <1>2 DEF StartLoad, Arrives, At, ReadOnly
  <2>2. RedisAgrees BY <1>1, <2>1 DEF Turn, Stage, Raising, ClosingOne, Opening
  <2>3. row.rules \in Rules BY <1>0, RulesAssumption DEF AuctionState
  <2>4. now + row.rules.duration \in Nat BY <1>0, <2>3 DEF Rules
  <2>5. s \in AuctionState BY <1>0, <2>4 DEF AuctionState
  <2> HIDE DEF s
  <2>6. CASE Editable /\ GotoSeeing(c, "save", s)
    BY <1>0, <1>1, <2>1, <2>2, <2>5, <2>6, DraftGoes
  <2>7. CASE Answer(c, "rejected") BY <1>0, <1>1, <2>1, <2>2, <2>7, AgreeingEnds DEF Replies
  <2> QED BY <2>1, <2>6, <2>7
<1>3. CASE StartSave(c)
  <2>1. /\ call[c].pc = "save" /\ row' = Started(row, call[c].seen.endAt)
        /\ GotoSeeing(c, "init", row') /\ UNCHANGED <<redisVars, now, bids, order, input>>
    BY <1>3 DEF StartSave, At
  <2>2. row.status = "DRAFT" /\ RedisAgrees
    BY <1>0, <1>1, <2>1 DEF Turn, Stage, Raising, ClosingOne, Opening
  <2>3. /\ row'.status = "RUNNING" /\ row'.price = row.price /\ row'.rules = row.rules
    BY <1>0, <2>1 DEF Started, AuctionState
  <2>4. /\ Moves(c) /\ call'[c].pc = "init" /\ call'[c].seen = row'
        /\ call'[c].reply = call[c].reply
    BY <1>0, <2>1, GotoSeeingMoves DEF PCs
  <2>5. /\ hash' = hash /\ board' = board /\ keys' = keys /\ bids' = bids /\ order' = order
        /\ input' = input /\ RecordedRequests' = RecordedRequests
        /\ \A v : AmountsOf(v)' = AmountsOf(v)
    BY <2>1 DEF redisVars, RecordedRequests, AmountsOf
  <2>6. RowsAgree' BY <2>2, <2>3, <2>5 DEF SerialInv, RowsAgree
  <2>7. BoardShowsBest' BY <2>2, <2>5 DEF RedisAgrees, BoardShowsBest
  <2>8. OpenedBy(c)' BY <2>2, <2>3, <2>4, <2>5, <2>7 DEF OpenedBy, RedisAgrees
  <2>9. Stage(c)' BY <1>0, <2>4, <2>8 DEF Stage, Raising, ClosingOne, Opening
  <2> QED BY <1>0, <1>1, <2>1, <2>4, <2>5, <2>6, <2>9, TurnGoes
<1> QED BY <1>2, <1>3 DEF StartStep

(* update(): the rules of a draft. *)
LEMMA SerialUpdate ==
  ASSUME Serial, SerialInv, ServiceInv', StartedInv', NEW c \in UpdateCalls, UpdateStep(c)
  PROVE  SerialInv'
<1>0. /\ c \in Calls /\ c \notin BidCalls \cup CancelCalls \cup StartCalls \cup {Timer}
      /\ ServiceInv /\ call \in [Calls -> CallState] /\ row \in AuctionState
  BY CallsAssumption DEF Calls, SerialInv, ServiceInv, StoresOK
<1>1. Turn(c)
  <2>1. call[c].pc \notin {"idle", "done"} \/ Arrives(c)
    BY DEF UpdateStep, UpdateLoad, UpdateSave, At
  <2> QED BY <1>0, <2>1, TakesTurn
<1>2. CASE UpdateLoad(c)
  <2>1. PICK rules \in RuleSet :
          IF Editable THEN GotoSeeing(c, "save", [row EXCEPT !.rules = rules])
          ELSE Answer(c, "rejected")
    BY <1>2 DEF UpdateLoad
  <2> DEFINE s == [row EXCEPT !.rules = rules]
  <2>2. s \in AuctionState BY <1>0 DEF AuctionState
  <2>3. /\ ReadOnly /\ call[c].pc = "idle"
        /\ (Editable /\ GotoSeeing(c, "save", s)) \/ Answer(c, "rejected")
    BY <1>2, <2>1 DEF UpdateLoad, Arrives, At, ReadOnly
  <2>4. RedisAgrees BY <1>1, <2>3 DEF Turn, Stage, Raising, ClosingOne, Opening
  <2> HIDE DEF s
  <2>5. CASE Editable /\ GotoSeeing(c, "save", s)
    BY <1>0, <1>1, <2>2, <2>3, <2>4, <2>5, DraftGoes
  <2>6. CASE Answer(c, "rejected") BY <1>0, <1>1, <2>3, <2>4, <2>6, AgreeingEnds DEF Replies
  <2> QED BY <2>3, <2>5, <2>6
<1>3. CASE UpdateSave(c)
  <2> DEFINE rules == call[c].seen.rules
  <2>1. /\ call[c].pc = "save" /\ Answer(c, "done")
        /\ row' = [row EXCEPT !.rules = rules, !.price = rules.start, !.version = @ + 1]
        /\ UNCHANGED <<redisVars, now, bids, order, input>>
    BY <1>3 DEF UpdateSave, At
  <2>2. row.status = "DRAFT" /\ RedisAgrees
    BY <1>0, <1>1, <2>1 DEF Turn, Stage, Raising, ClosingOne, Opening
  <2>3. call[c].seen \in AuctionState
    <3>1. c \notin PayCalls BY CallsAssumption
    <3>2. CallOK(c) BY <1>0 DEF ServiceInv
    <3> QED BY <1>0, <2>1, <3>1, <3>2, Seen DEF CallOK
  <2>4. rules \in RuleSet /\ rules \in Rules /\ rules.start < rules.cap
    BY <2>3, RulesAssumption DEF AuctionState
  <2>5. rules.start \in Nat /\ rules.cap \in Nat BY <2>4 DEF Rules
  <2> HIDE DEF rules
  <2>6. /\ row'.status = "DRAFT" /\ row'.price = rules.start /\ row'.rules = rules
        /\ row'.leader = row.leader
    BY <1>0, <2>1, <2>2 DEF AuctionState
  <2>7. /\ hash' = hash /\ board' = board /\ keys' = keys /\ bids' = bids /\ order' = order
        /\ input' = input /\ RecordedRequests' = RecordedRequests
        /\ \A v : AmountsOf(v)' = AmountsOf(v)
    BY <2>1 DEF redisVars, RecordedRequests, AmountsOf
  <2>8. RowsAgree /\ order = NoOrder /\ RecordedRequests = {} BY <2>2 DEF SerialInv, RowsAgree
  <2>9. RowsAgree' BY <2>4, <2>5, <2>6, <2>7, <2>8 DEF RowsAgree
  <2>10. BoardShowsBest' BY <2>2, <2>7 DEF RedisAgrees, BoardShowsBest
  <2>11. RedisAgrees' BY <2>2, <2>6, <2>7, <2>10 DEF RedisAgrees
  <2> QED BY <1>0, <1>1, <2>1, <2>7, <2>9, <2>11, TurnEnds DEF Replies
<1> QED BY <1>2, <1>3 DEF UpdateStep

(* OrdersService.pay: the order is paid, and otherwise as it was. *)
LEMMA SerialPay ==
  ASSUME Serial, SerialInv, ServiceInv', StartedInv', NEW c \in PayCalls, PayStep(c)
  PROVE  SerialInv'
<1>0. /\ c \in Calls /\ c \notin BidCalls \cup CancelCalls \cup StartCalls \cup UpdateCalls \cup {Timer}
      /\ ServiceInv /\ call \in [Calls -> CallState] /\ order \in OrderRow \cup {NoOrder}
  BY CallsAssumption DEF Calls, SerialInv, ServiceInv, StoresOK
<1>1. Turn(c)
  <2>1. call[c].pc \notin {"idle", "done"} \/ Arrives(c)
    BY DEF PayStep, PayLoad, PaySave, At
  <2> QED BY <1>0, <2>1, TakesTurn
<1>2. CASE PayLoad(c)
  <2>1. ReadOnly /\ call[c].pc = "idle" /\ (Answer(c, "done") \/ Goto(c, "save"))
    BY <1>2 DEF PayLoad, Arrives, At, ReadOnly
  <2>2. RedisAgrees BY <1>1, <2>1 DEF Turn, Stage, Raising, ClosingOne, Opening
  <2>3. CASE Answer(c, "done") BY <1>0, <1>1, <2>1, <2>2, <2>3, AgreeingEnds DEF Replies
  <2>4. CASE Goto(c, "save")
    <3>1. Moves(c) /\ call'[c].pc = "save" /\ call'[c].reply = call[c].reply
      BY <1>0, <2>4, GotoMoves DEF PCs
    <3>2. /\ RecordedRequests' = RecordedRequests /\ input' = input /\ RowsAgree' /\ RedisAgrees'
      BY <2>1, <2>2, NothingWritten DEF SerialInv
    <3>3. Stage(c)' BY <1>0, <3>1, <3>2 DEF Stage, Raising, ClosingOne, Opening
    <3> QED BY <1>0, <1>1, <2>1, <3>1, <3>2, <3>3, TurnGoes
  <2> QED BY <2>1, <2>3, <2>4
<1>3. CASE PaySave(c)
  <2>1. /\ call[c].pc = "save" /\ Answer(c, "done") /\ order' = [order EXCEPT !.status = "PAID"]
        /\ UNCHANGED <<redisVars, now, row, bids, input>>
    BY <1>3 DEF PaySave, At
  <2>2. RedisAgrees BY <1>0, <1>1, <2>1 DEF Turn, Stage, Raising, ClosingOne, Opening
  <2>3. order # NoOrder BY <1>0, <2>1 DEF ServiceInv, CallOK
  <2>4. order' \in OrderRow /\ order'.winner = order.winner /\ order'.amount = order.amount
    BY <1>0, <2>1, <2>3 DEF OrderRow
  <2>5. order' # NoOrder BY <2>4, NoRowAssumption
  <2>6. /\ hash' = hash /\ board' = board /\ keys' = keys /\ bids' = bids /\ row' = row
        /\ input' = input /\ RecordedRequests' = RecordedRequests
        /\ \A v : AmountsOf(v)' = AmountsOf(v)
    BY <2>1 DEF redisVars, RecordedRequests, AmountsOf
  <2>7. RowsAgree' BY <2>3, <2>4, <2>5, <2>6 DEF SerialInv, RowsAgree
  <2>8. BoardShowsBest' BY <2>2, <2>6 DEF RedisAgrees, BoardShowsBest
  <2>9. RedisAgrees' BY <2>2, <2>6, <2>8 DEF RedisAgrees
  <2> QED BY <1>0, <1>1, <2>1, <2>6, <2>7, <2>9, TurnEnds DEF Replies
<1> QED BY <1>2, <1>3 DEF PayStep

----
(* The invariant, and what follows.                                        *)

(* Where nothing but the clock changes, nothing else does. *)
LEMMA SerialRests ==
  ASSUME SerialInv, ServiceInv', StartedInv', UNCHANGED <<redisVars, dbVars, input, call>>
  PROVE  SerialInv'
<1>1. UNCHANGED <<row, bids, order, hash, board, keys, input, call>> BY DEF redisVars, dbVars
<1>2. /\ RecordedRequests' = RecordedRequests /\ \A v : AmountsOf(v)' = AmountsOf(v) /\ RowsAgree'
  BY SameRows DEF SerialInv
<1>3. BoardShowsBest <=> BoardShowsBest' BY <1>1, <1>2 DEF BoardShowsBest
<1>4. RedisAgrees <=> RedisAgrees' BY <1>1, <1>2, <1>3 DEF RedisAgrees
<1>5. InFlight' = InFlight BY <1>1 DEF InFlight
<1>6. ASSUME NEW c \in InFlight PROVE Stage(c)'
  <2>1. Stage(c) BY DEF SerialInv
  <2>2. RaisedBy(c) => RaisedBy(c)'
    <3>1. \A b, u : (Backed(b, u) => Backed(b, u)') BY <1>2 DEF Backed
    <3>2. \A b : (Covers(b) => Covers(b)') BY <1>2 DEF Covers
    <3> QED BY <1>1, <1>2 DEF RaisedBy, Raised, Backed, Covers
  <2>3. ClosedBy(c) => ClosedBy(c)' BY <1>1, <1>2, <1>3 DEF ClosedBy
  <2>4. OpenedBy(c) => OpenedBy(c)' BY <1>1, <1>2, <1>3 DEF OpenedBy
  <2> QED BY <1>1, <1>4, <2>1, <2>2, <2>3, <2>4 DEF Stage, Raising, ClosingOne, Opening
<1>7. \A r \in RecordedRequests' : \E c \in BidCalls : Owns(c, r)'
  BY <1>1, <1>2 DEF SerialInv, Owns
<1> QED BY <1>1, <1>2, <1>4, <1>5, <1>6, <1>7 DEF SerialInv, OneInFlight, Quiet, Answered

(* Every step keeps it. *)
LEMMA NextSerial ==
  ASSUME Serial, SerialInv, ServiceInv', StartedInv', [Next]_vars
  PROVE  SerialInv'
<1>1. CASE \E c \in BidCalls : BidStep(c) BY <1>1, SerialBid
<1>2. CASE \E c \in CancelCalls : CancelStep(c) BY <1>2, SerialCancel
<1>3. CASE \E c \in StartCalls : StartStep(c) BY <1>3, SerialStart
<1>4. CASE \E c \in UpdateCalls : UpdateStep(c) BY <1>4, SerialUpdate
<1>5. CASE \E c \in PayCalls : PayStep(c) BY <1>5, SerialPay
<1>6. CASE \E c \in Calls : Ensure(c) \/ InitRedis(c) BY <1>6, SerialEnsure, SerialInit
<1>7. CASE SettleStep BY <1>7, SerialSettle
<1>8. CASE Fault
  <2>1. \E c \in Calls : BidRollsBack(c)
    BY <1>8 DEF Serial, Fault, DbFails, RedisFails, BidResent, CancelResent, SettleResent, Evict,
                Flush, Crash
  <2> QED BY <2>1, SerialRollback
<1>9. CASE Tick BY <1>9, SerialRests DEF Tick
<1>10. CASE UNCHANGED vars BY <1>10, SerialRests DEF vars, redisVars, dbVars
<1> QED BY <1>1, <1>2, <1>3, <1>4, <1>5, <1>6, <1>7, <1>8, <1>9, <1>10 DEF Next

(* A new auction, and one just started, satisfy it. *)
LEMMA InitSerial ==
  ASSUME Init PROVE SerialInv
<1>1. ServiceInv /\ StartedInv BY InitService, InitStarts
<1>2. /\ board = EmptyBoard /\ keys = {} /\ bids = [r \in Requests |-> NoBid] /\ order = NoOrder
      /\ call = [c \in Calls |-> Fresh]
  BY DEF Init
<1>3. RecordedRequests = {} BY <1>2 DEF RecordedRequests
<1>4. \A u \in Users : AmountsOf(u) = {} BY <1>2 DEF AmountsOf
<1>5. \A c \in Calls : call[c].pc = "idle" /\ call[c].reply = "none" BY <1>2 DEF Fresh
<1>6. InFlight = {} BY <1>5 DEF InFlight
<1>7. PICK rules \in RuleSet :
        \/ row = Created(rules) /\ hash = NoHash
        \/ row = Started(Created(rules), rules.duration) /\ hash = row
  BY DEF Init
<1>8. rules \in Rules /\ rules.start < rules.cap BY RulesAssumption
<1>9. /\ row.price = rules.start /\ row.rules = rules
      /\ (row.status = "DRAFT" /\ hash = NoHash) \/ (row.status = "RUNNING" /\ hash = row)
  <2>1. CASE row = Created(rules) /\ hash = NoHash BY <2>1 DEF Created
  <2>2. CASE row = Started(Created(rules), rules.duration) /\ hash = row
    <3>1. /\ row.price = Created(rules).price /\ row.rules = Created(rules).rules
          /\ row.status = "RUNNING"
      BY <2>2 DEF Created, Started
    <3> QED BY <2>2, <3>1 DEF Created
  <2> QED BY <1>7, <2>1, <2>2
<1>10. RowsAgree BY <1>2, <1>3, <1>8, <1>9 DEF RowsAgree, Rules
<1>11. BoardShowsBest
  <2>1. \A u \in Users : board[u] = 0 BY <1>2 DEF EmptyBoard
  <2>2. ASSUME NEW u \in Users PROVE ~ (board[u] > 0)
    <3>1. board[u] = 0 BY <2>1
    <3> QED BY <3>1
  <2>3. \A u \in Users : \A a \in AmountsOf(u) : FALSE BY <1>4
  <2> QED BY <2>2, <2>3, Zenon DEF BoardShowsBest
<1>12. RedisAgrees BY <1>2, <1>3, <1>9, <1>11 DEF RedisAgrees
<1> QED BY <1>1, <1>3, <1>5, <1>6, <1>10, <1>12 DEF SerialInv, OneInFlight, Answered

(* One call at a time, whatever transactions roll back: what the one call  *)
(* in flight has done so far, and that the stores agree when there is none.*)
THEOREM SerialInvariant == ASSUME Serial PROVE Spec => []SerialInv
<1>1. Init => SerialInv BY InitSerial
<1>2. ServiceInv /\ ServiceInv' /\ SerialInv /\ [Next]_vars => SerialInv'
  BY NextSerial, NextStarts DEF SerialInv
<1> QED BY <1>1, <1>2, ServiceInvariant, PTL DEF Spec

(* Between calls Redis and MySQL tell one story: placeBid, its undo,       *)
(* cancel, start, update, pay and the settlement leave nothing half done.  *)
THEOREM StoresAgreeWhenQuiet == ASSUME Serial PROVE Spec => []StoresAgree
<1>1. SerialInv => StoresAgree
  BY DEF SerialInv, RowsAgree, RedisAgrees, RecordedRequests, StoresAgree
<1> QED BY <1>1, SerialInvariant, PTL

(* A bid that was rejected, or undone, is in neither store: its requestId  *)
(* is free for a retry.                                                    *)
THEOREM RefusalsLeaveNoTrace == ASSUME Serial PROVE Spec => []RefusedLeavesNoTrace
<1>1. SerialInv => RefusedLeavesNoTrace
  <2> SUFFICES ASSUME SerialInv, NEW c \in BidCalls, Quiet, call[c].reply \in {"rejected", "error"},
                      \A d \in BidCalls \ {c} : input[d].req # input[c].req
               PROVE  input[c].req \notin keys /\ bids[input[c].req] = NoBid
    BY DEF RefusedLeavesNoTrace
  <2>1. input[c].req \in Requests /\ c \in Calls BY BidInput DEF SerialInv
  <2>2. ~ Owns(c, input[c].req)
    BY <2>1 DEF Owns, Quiet, InFlight
  <2>3. \A d \in BidCalls \ {c} : ~ Owns(d, input[c].req) BY DEF Owns
  <2>4. input[c].req \notin RecordedRequests BY <2>2, <2>3 DEF SerialInv
  <2> QED BY <2>1, <2>4 DEF SerialInv, RedisAgrees, RecordedRequests
<1> QED BY <1>1, SerialInvariant, PTL
===============================================================================
