--------------------------- MODULE AuctionRunProofs ---------------------------
(***************************************************************************)
(* What AuctionService keeps from the moment the auction runs, although    *)
(* the process may die at any await and ioredis may send any script twice: *)
(* the theorems assume Faults \subseteq {"crash", "resend"} and            *)
(* StartCalls = {}, and leave every other constant arbitrary (the bids,    *)
(* cancellations, updates and payments, how many overlap, the rules, the   *)
(* clock).  Only what is said of a quiet service needs Faults = {}.        *)
(***************************************************************************)
EXTENDS AuctionServiceProofs

(***************************************************************************)
(* Redis accepted the bid of the call, and MySQL does not have it yet.     *)
(***************************************************************************)
Accepted(c) == c \in BidCalls /\ call[c].pc \in {"read", "commit"}

(* The call knows how Redis closed the auction and is about to write it. *)
Closing(c) == (c \in CancelCalls \/ c = Timer) /\ call[c].pc = "save"

(* Before start(): Redis knows nothing, and every call finds that out. *)
DraftCall(c) ==
  /\ call[c].pc \in {"idle", "done", "eval", "load", "ensure", "save"}
  /\ call[c].pc = "save" => c \in UpdateCalls
  /\ call[c].pc \in {"eval", "load"} => c \in BidCalls
  /\ call[c].pc = "ensure" => call[c].seen.endAt = 0

DraftInv ==
  /\ row.status = "DRAFT" /\ row.endAt = 0
  /\ keys = {}
  /\ order = NoOrder
  /\ \A r \in Requests : bids[r] = NoBid
  /\ \A c \in Calls : DraftCall(c)

(* s was the state of the auction once: it is now, or the auction ran then. *)
Earlier(s) ==
  \/ s = hash
  \/ s.version < hash.version /\ s.status = "RUNNING" /\ s.price <= hash.price

(* The row is an earlier state too, or shows how the auction was closed; a *)
(* closing writes the status but not the price.                            *)
RowEarlier ==
  /\ row.rules = hash.rules
  /\ hash.status = "RUNNING" => row.reason = hash.reason
  /\ \/ Earlier(row)
     \/ /\ row.version = hash.version /\ row.status = hash.status
        /\ row.status \in Closed /\ row.price <= hash.price

(* Two states that were read at different times are in order. *)
InOrder(s, t) == s.version < t.version => s.price <= t.price

(* What is true of one call while the auction runs or is closed. *)
RunCall(c) ==
  /\ call[c].pc \notin {"load", "init", "undo.load", "undo.board", "undo.exec"}
  /\ c \in UpdateCalls => call[c].pc # "save"
  /\ Accepted(c) => bids[input[c].req] = NoBid /\ board[input[c].user] > 0
  /\ Accepted(c) /\ call[c].pc = "commit" =>
       Earlier(call[c].seen) /\ InOrder(row, call[c].seen)
  /\ Closing(c) => call[c].seen = hash /\ hash.status \in Closed
  /\ Closing(c) /\ c \in CancelCalls => hash.status = "CANCELLED"

(* Two accepted bids that MySQL does not have yet. *)
Distinct(c, d) ==
  /\ input[c].req # input[d].req
  /\ call[c].pc = "commit" /\ call[d].pc = "commit" => InOrder(call[c].seen, call[d].seen)

Apart == \A c, d \in Calls : c # d /\ Accepted(c) /\ Accepted(d) => Distinct(c, d)

(* Whatever Redis has and MySQL has not, some call is bringing, unless the *)
(* call died or took its own change for another's.                         *)
Brings(c) ==
  \/ Accepted(c) /\ (call[c].pc = "commit" => call[c].seen = hash)
  \/ Closing(c)

Brought == Faults = {} /\ row.version < hash.version => \E c \in Calls : Brings(c)

(* A bid is recorded, or on its way. *)
Taken(r) == bids[r] # NoBid \/ \E c \in Calls : Accepted(c) /\ input[c].req = r

(* The keys of the requests have the recorded bids and those on their way, *)
(* and no others while nothing fails.                                      *)
KeysInv ==
  \A r \in Requests : /\ Taken(r) => r \in keys
                      /\ Faults = {} /\ r \in keys => Taken(r)

(* A recorded bid is on the leaderboard, at a price that was reached. *)
RowsReached ==
  \A r \in Requests : bids[r] # NoBid =>
    board[bids[r].user] > 0 /\ bids[r].amount <= hash.price

RunningInv ==
  /\ RowEarlier
  /\ \A c \in Calls : RunCall(c)
  /\ Apart
  /\ Brought
  /\ KeysInv
  /\ RowsReached

(* The inductive invariant. *)
RunInv ==
  /\ ServiceInv
  /\ StartedInv
  /\ AuctionInv
  /\ IF hash = NoHash THEN DraftInv ELSE RunningInv
  /\ OrderMeansSold

(* No store loses a key or refuses a command, and nobody calls start() any *)
(* more; the process may die, and scripts may be sent twice.               *)
Steady == Faults \subseteq {"crash", "resend"} /\ StartCalls = {}

(* Nothing fails at all. *)
Undisturbed == Faults = {} /\ StartCalls = {}

----
(* Before start().                                                         *)

(* A step of one call keeps a draft a draft if it writes no more than the  *)
(* rules, the price and the version of the row.                            *)
LEMMA DraftMoves ==
  ASSUME DraftInv, NEW c \in Calls, Moves(c), DraftCall(c)',
         row'.status = row.status, row'.endAt = row.endAt, UNCHANGED <<keys, bids, order>>
  PROVE  DraftInv'
<1>1. ASSUME NEW d \in Calls, d # c PROVE DraftCall(d)'
  BY <1>1 DEF Moves, DraftInv, DraftCall
<1> QED BY <1>1 DEF DraftInv

(* A call that is answered keeps it. *)
LEMMA DraftAnswer ==
  ASSUME ServiceInv, DraftInv, NEW c \in Calls, NEW reply \in Replies, Answer(c, reply),
         row'.status = row.status, row'.endAt = row.endAt, UNCHANGED <<keys, bids, order>>
  PROVE  DraftInv'
<1>1. Moves(c) /\ call'[c].pc \in {"idle", "done"} BY AnswerMoves DEF ServiceInv
<1>2. DraftCall(c)' BY <1>1 DEF DraftCall
<1> QED BY <1>1, <1>2, DraftMoves

(* Bids on a draft: they look into Redis, load the row and are rejected. *)
LEMMA DraftBid ==
  ASSUME ServiceInv, hash = NoHash, DraftInv, NEW c \in BidCalls, BidStep(c)
  PROVE  ReadOnly /\ DraftInv'
<1>0. /\ c \in Calls /\ call \in [Calls -> CallState] /\ DraftCall(c)
      /\ c \notin UpdateCalls /\ row.endAt = 0
      /\ input[c].req \in Requests /\ input[c].user \in Users /\ input[c].amount \in Nat
  BY BidInput, CallsAssumption DEF ServiceInv, DraftInv
<1>1. call[c].pc \in {"idle", "done", "eval", "load", "ensure"} BY <1>0 DEF DraftCall
<1>2. ReadOnly => /\ row'.status = row.status /\ row'.endAt = row.endAt
                  /\ UNCHANGED <<keys, bids, order>>
  BY DEF ReadOnly, redisVars, dbVars
<1>3. ASSUME NEW pc \in {"eval", "load"}, Goto(c, pc), ReadOnly PROVE DraftInv'
  <2>1. Moves(c) /\ call'[c].pc = pc BY <1>0, <1>3, GotoMoves DEF PCs
  <2>2. DraftCall(c)' BY <2>1 DEF DraftCall
  <2> QED BY <1>0, <1>2, <1>3, <2>1, <2>2, DraftMoves
<1>4. ASSUME Answer(c, "rejected"), ReadOnly PROVE DraftInv'
  BY <1>0, <1>2, <1>4, DraftAnswer DEF Replies
<1>5. CASE BidArrives(c) BY <1>3, <1>5 DEF BidArrives, ReadOnly
<1>6. CASE BidMisses(c) BY <1>3, <1>4, <1>6 DEF BidMisses, ReadOnly
<1>7. CASE BidLoad(c)
  <2> DEFINE t == [call[c] EXCEPT !.pc = "ensure", !.seen = row, !.again = TRUE]
  <2>1. t.pc = "ensure" /\ t.seen = row /\ t \in CallState
    BY <1>0 DEF CallState, PCs, ServiceInv, StoresOK
  <2>2. call' = [call EXCEPT ![c] = t] BY <1>7 DEF BidLoad
  <2> HIDE DEF t
  <2>3. Moves(c) /\ call'[c].pc = "ensure" /\ call'[c].seen = row
    BY <1>0, <2>1, <2>2 DEF Moves
  <2>4. ReadOnly BY <1>7 DEF BidLoad, ReadOnly
  <2>5. DraftCall(c)' BY <1>0, <2>3 DEF DraftCall
  <2> QED BY <1>0, <1>2, <2>3, <2>4, <2>5, DraftMoves
<1>8. ~ BidEval(c) /\ ~ BidRefused(c)
  BY DEF BidEval, BidRefused, AcceptBid, BidCode
<1>9. /\ ~ BidRead(c) /\ ~ BidCommit(c) /\ ~ BidConflicts(c) /\ ~ BidReply(c)
      /\ ~ UndoLoad(c) /\ ~ UndoBoard(c) /\ ~ UndoExec(c)
  BY <1>1 DEF BidRead, BidCommit, BidConflicts, BidReply, UndoLoad, UndoBoard, UndoExec, At
<1>10. BidArrives(c) \/ BidMisses(c) \/ BidLoad(c) BY <1>8, <1>9 DEF BidStep
<1> QED
  BY <1>5, <1>6, <1>7, <1>10 DEF BidArrives, BidMisses, BidLoad, ReadOnly

(* The only faults there are. *)
LEMMA SteadyFaults ==
  ASSUME Steady, Fault
  PROVE  /\ Faults # {}
         /\ \/ \E c \in BidCalls : BidResent(c)
            \/ \E c \in CancelCalls : CancelResent(c)
            \/ SettleResent
            \/ Crash
BY DEF Steady, Fault, DbFails, BidRollsBack, RedisFails, BidResent, CancelResent, SettleResent,
       Evict, Flush, Crash

(* After a crash no call is in flight, and nothing else has changed. *)
LEMMA CrashEnds ==
  ASSUME Crash
  PROVE  /\ UNCHANGED <<redisVars, now, dbVars, input>>
         /\ \A c \in Calls : call'[c].pc \in {"idle", "done"}
<1> DEFINE after(c) == IF c \notin InFlight THEN call[c]
                       ELSE IF c = Timer THEN Fresh
                       ELSE [Fresh EXCEPT !.pc = "done", !.reply = "error"]
<1>1. call' = [c \in Calls |-> after(c)] BY DEF Crash
<1>2. ASSUME NEW c \in Calls PROVE after(c).pc \in {"idle", "done"}
  BY DEF InFlight, Fresh
<1> HIDE DEF after
<1> QED BY <1>1, <1>2 DEF Crash

(* Without start() a draft stays a draft, and Redis stays without it. *)
LEMMA DraftStep ==
  ASSUME Steady, ServiceInv, hash = NoHash, DraftInv, Next
  PROVE  UNCHANGED redisVars /\ UNCHANGED order /\ now' \in Nat /\ DraftInv'
<1>0. /\ call \in [Calls -> CallState] /\ row \in AuctionState /\ now \in Nat
      /\ row.status = "DRAFT" /\ row.endAt = 0 /\ order = NoOrder
  BY DEF ServiceInv, StoresOK, DraftInv
<1>1. ASSUME ReadOnly PROVE UNCHANGED redisVars /\ UNCHANGED order /\ now' \in Nat
  BY <1>0, <1>1 DEF ReadOnly, dbVars
<1>2. ASSUME ReadOnly, NEW c \in Calls, NEW reply \in Replies, Answer(c, reply) PROVE DraftInv'
  BY <1>2, DraftAnswer DEF ReadOnly, redisVars, dbVars
<1>3. CASE \E c \in BidCalls : BidStep(c) BY <1>1, <1>3, DraftBid
<1>4. CASE \E c \in CancelCalls : CancelStep(c)
  <2>1. PICK c \in CancelCalls : CancelStep(c) BY <1>4
  <2>2. c \in Calls /\ c \notin BidCalls /\ c \notin UpdateCalls /\ DraftCall(c)
    BY CallsAssumption DEF Calls, DraftInv
  <2>3. CancelLoad(c)
    BY <2>1, <2>2 DEF CancelStep, CancelEval, CancelRefused, CancelSave, At, DraftCall
  <2>4. ReadOnly /\ Answer(c, "rejected") BY <1>0, <2>3 DEF CancelLoad, ReadOnly
  <2> QED BY <1>1, <1>2, <2>2, <2>4 DEF Replies
<1>5. CASE \E c \in UpdateCalls : UpdateStep(c)
  <2>1. PICK c \in UpdateCalls : UpdateStep(c) BY <1>5
  <2>2. c \in Calls BY DEF Calls
  <2>3. CASE UpdateLoad(c)
    <3>1. PICK rules \in RuleSet :
            GotoSeeing(c, "save", [row EXCEPT !.rules = rules]) \/ Answer(c, "rejected")
      BY <2>3 DEF UpdateLoad
    <3> DEFINE s == [row EXCEPT !.rules = rules]
    <3>2. s \in AuctionState BY <1>0 DEF AuctionState
    <3>3. GotoSeeing(c, "save", s) \/ Answer(c, "rejected") BY <3>1
    <3> HIDE DEF s
    <3>4. ReadOnly BY <2>3 DEF UpdateLoad, ReadOnly
    <3>5. ASSUME GotoSeeing(c, "save", s) PROVE DraftInv'
      <4>1. Moves(c) /\ call'[c].pc = "save"
        BY <1>0, <2>2, <3>2, <3>5, GotoSeeingMoves DEF PCs
      <4>2. DraftCall(c)' BY <4>1 DEF DraftCall
      <4> QED BY <2>2, <3>4, <4>1, <4>2, DraftMoves DEF ReadOnly, redisVars, dbVars
    <3> QED BY <1>1, <1>2, <2>2, <3>3, <3>4, <3>5 DEF Replies
  <2>4. CASE UpdateSave(c)
    <3>1. UNCHANGED <<redisVars, now, bids, order>> /\ Answer(c, "done")
      BY <2>4 DEF UpdateSave
    <3>2. row'.status = row.status /\ row'.endAt = row.endAt
      BY <1>0, <2>4 DEF UpdateSave, AuctionState
    <3> QED BY <1>0, <2>2, <3>1, <3>2, DraftAnswer DEF redisVars, Replies
  <2> QED BY <2>1, <2>3, <2>4 DEF UpdateStep
<1>6. ~ \E c \in PayCalls : PayStep(c)
  <2>1. ASSUME NEW c \in PayCalls, PayStep(c) PROVE FALSE
    <3>1. c \in Calls /\ c \notin UpdateCalls /\ DraftCall(c)
      BY CallsAssumption DEF Calls, DraftInv
    <3> QED BY <1>0, <2>1, <3>1 DEF PayStep, PayLoad, PaySave, At, DraftCall
  <2> QED BY <2>1
<1>7. CASE \E c \in Calls : Ensure(c) \/ InitRedis(c)
  <2>1. PICK c \in Calls : Ensure(c) \/ InitRedis(c) BY <1>7
  <2>2. DraftCall(c) BY DEF DraftInv
  <2>3. Ensure(c) BY <2>1, <2>2 DEF InitRedis, At, DraftCall
  <2>4. ReadOnly /\ Answer(c, "rejected") BY <2>2, <2>3 DEF Ensure, At, DraftCall, ReadOnly
  <2> QED BY <1>1, <1>2, <2>4 DEF Replies
<1>8. ~ SettleStep
  <2>1. DraftCall(Timer) /\ Timer \notin UpdateCalls /\ Timer \notin BidCalls
    BY CallsAssumption DEF DraftInv, Calls
  <2> QED
    BY <1>0, <2>1 DEF SettleStep, SettleScan, SettleEval, SettleSkips, SettleSave, At, DraftCall
<1>9. CASE Fault
  <2>1. Crash
    BY <1>9, SteadyFaults DEF BidResent, CancelResent, SettleResent, AcceptBid, BidCode,
                              CancelRunning, CancelCode, FinishExpired, FinishCode
  <2>2. UNCHANGED <<redisVars, now, dbVars>> /\ \A c \in Calls : DraftCall(c)'
    BY <2>1, CrashEnds DEF DraftCall
  <2> QED BY <1>0, <2>2 DEF redisVars, dbVars, DraftInv
<1>10. CASE Tick
  <2>1. UNCHANGED <<redisVars, dbVars, call>> /\ now' \in Nat BY <1>0, <1>10 DEF Tick
  <2> QED BY <2>1 DEF redisVars, dbVars, DraftInv, DraftCall
<1>11. ~ \E c \in StartCalls : StartStep(c) BY DEF Steady
<1> QED BY <1>3, <1>4, <1>5, <1>6, <1>7, <1>8, <1>9, <1>10, <1>11 DEF Next

----
(* While the auction runs, and after.                                      *)

(* The types of what is compared. *)
LEMMA RunTypes ==
  ASSUME ServiceInv, AuctionInv, hash # NoHash
  PROVE  /\ hash \in AuctionState /\ row \in AuctionState
         /\ hash.version \in Nat /\ hash.price \in Nat /\ row.version \in Nat /\ row.price \in Nat
         /\ hash.status \in Closed \cup {"RUNNING"}
         /\ call \in [Calls -> CallState]
         /\ now \in Nat
         /\ \A c \in Calls : call[c].pc = "commit"
              => /\ call[c].seen \in AuctionState
                 /\ call[c].seen.version \in Nat /\ call[c].seen.price \in Nat
<1>1. hash \in AuctionState /\ row \in AuctionState /\ now \in Nat
  BY DEF ServiceInv, StoresOK
<1>2. hash.status \in Closed \cup {"RUNNING"} BY DEF AuctionInv, OutcomeMatchesBids, Closed
<1>3. ASSUME NEW c \in Calls, call[c].pc = "commit"
      PROVE  call[c].seen \in AuctionState
  BY <1>3, Seen DEF ServiceInv, CallOK
<1> QED BY <1>1, <1>2, <1>3 DEF AuctionState, ServiceInv

(* The calls that do not move keep their roles. *)
LEMMA OthersKeep ==
  ASSUME NEW c \in Calls, Moves(c), input' = input
  PROVE  \A d \in Calls \ {c} : /\ call'[d] = call[d]
                                /\ Accepted(d)' <=> Accepted(d)
                                /\ Closing(d)' <=> Closing(d)
BY DEF Moves, Accepted, Closing

(* A step that writes none of these stores, of a call that brings nothing  *)
(* before or after it, keeps everything.                                   *)
LEMMA Bystander ==
  ASSUME RunningInv, UNCHANGED <<redisVars, row, bids, input>>, NEW c \in Calls, Moves(c),
         ~ Accepted(c), ~ Accepted(c)', ~ Closing(c), ~ Closing(c)',
         call'[c].pc \notin {"load", "init", "undo.load", "undo.board", "undo.exec"},
         c \in UpdateCalls => call'[c].pc # "save"
  PROVE  RunningInv'
<1>0. UNCHANGED <<hash, board, keys, row, bids, input>> BY DEF redisVars
<1>1. /\ \A d \in Calls : (Accepted(d)' <=> Accepted(d)) /\ (Closing(d)' <=> Closing(d))
      /\ \A d \in Calls \ {c} : call'[d] = call[d]
  BY <1>0, OthersKeep
<1>2. RowEarlier' BY <1>0 DEF RunningInv, RowEarlier, Earlier
<1>3. ASSUME NEW d \in Calls PROVE RunCall(d)'
  <2>1. CASE d = c BY <2>1 DEF RunCall
  <2>2. CASE d # c
    <3>1. RunCall(d) /\ call'[d] = call[d] BY <1>1, <2>2 DEF RunningInv
    <3> QED BY <1>0, <1>1, <3>1 DEF RunCall, Earlier, InOrder
  <2> QED BY <2>1, <2>2
<1>4. Apart'
  <2> SUFFICES ASSUME NEW d \in Calls, NEW e \in Calls, d # e, Accepted(d)', Accepted(e)'
               PROVE  Distinct(d, e)'
    BY DEF Apart
  <2>1. d # c /\ e # c /\ Distinct(d, e) BY <1>1 DEF RunningInv, Apart
  <2> QED BY <1>0, <1>1, <2>1 DEF Distinct, InOrder
<1>5. Brought'
  <2> SUFFICES ASSUME Faults = {}, row'.version < hash'.version
               PROVE  \E d \in Calls : Brings(d)'
    BY DEF Brought
  <2>1. PICK d \in Calls : Brings(d) BY <1>0 DEF RunningInv, Brought
  <2>2. d # c BY <2>1 DEF Brings
  <2>3. Brings(d)' BY <1>0, <1>1, <2>1, <2>2 DEF Brings
  <2> QED BY <2>3
<1>6. KeysInv'
  <2>1. \A d \in Calls : Accepted(d)' /\ input'[d] = input[d] <=> Accepted(d)
    BY <1>0, <1>1
  <2> QED BY <1>0, <2>1 DEF RunningInv, KeysInv, Taken
<1>7. RowsReached' BY <1>0 DEF RunningInv, RowsReached
<1> QED BY <1>2, <1>3, <1>4, <1>5, <1>6, <1>7 DEF RunningInv

(* An answered call is such a bystander. *)
LEMMA BystanderAnswers ==
  ASSUME ServiceInv, RunningInv, UNCHANGED <<redisVars, row, bids, input>>,
         NEW c \in Calls, NEW reply \in Replies, Answer(c, reply), ~ Accepted(c), ~ Closing(c)
  PROVE  RunningInv'
<1>1. Moves(c) /\ call'[c].pc \in {"idle", "done"} BY AnswerMoves DEF ServiceInv
<1>2. ~ Accepted(c)' /\ ~ Closing(c)' BY <1>1 DEF Accepted, Closing
<1> QED BY <1>1, <1>2, Bystander

(* And so is one that goes on to the script or to the check before it. *)
LEMMA BystanderGoes ==
  ASSUME RunningInv, UNCHANGED <<redisVars, row, bids, input>>, NEW c \in Calls, Moves(c),
         call'[c].pc \in {"eval", "ensure"}, ~ Accepted(c), ~ Closing(c)
  PROVE  RunningInv'
<1>2. ~ Accepted(c)' /\ ~ Closing(c)' BY DEF Accepted, Closing
<1> QED BY <1>2, Bystander

----
(* When Redis moves on, what was seen earlier was seen while it ran. *)
LEMMA EarlierStays ==
  ASSUME NEW s \in AuctionState, hash \in AuctionState, hash.status = "RUNNING",
         hash' \in AuctionState, hash'.version = hash.version + 1, hash'.price >= hash.price,
         Earlier(s)
  PROVE  /\ s.version < hash'.version /\ s.status = "RUNNING" /\ s.price <= hash'.price
         /\ Earlier(s)'
<1>1. /\ s.version \in Nat /\ hash.version \in Nat /\ hash'.version \in Nat
      /\ s.price \in Nat /\ hash.price \in Nat /\ hash'.price \in Nat
  BY DEF AuctionState
<1>2. s.version <= hash.version /\ s.status = "RUNNING" /\ s.price <= hash.price
  BY <1>1 DEF Earlier
<1>3. s.version < hash'.version /\ s.price <= hash'.price BY <1>1, <1>2
<1> QED BY <1>2, <1>3 DEF Earlier

(* A script has changed the auction: what the other calls have seen, and   *)
(* the row, are older now, and its call, unless it misread the answer,     *)
(* brings the new state.                                                   *)
LEMMA ScriptRuns ==
  ASSUME ServiceInv, AuctionInv, RunningInv, hash # NoHash, hash.status = "RUNNING",
         hash' \in AuctionState, hash'.version = hash.version + 1, hash'.price >= hash.price,
         hash'.rules = hash.rules,
         hash'.status = "RUNNING" => hash'.reason = hash.reason,
         board' \in [Users -> Nat], \A u \in Users : board'[u] >= board[u],
         UNCHANGED <<row, bids, order, input>>,
         NEW c \in Calls, Moves(c), ~ Accepted(c), ~ Closing(c),
         RunCall(c)', Faults = {} => Brings(c)'
  PROVE  /\ RowEarlier' /\ Brought' /\ RowsReached'
         /\ \A d \in Calls : RunCall(d)'
         /\ \A d, e \in Calls \ {c} : d # e /\ Accepted(d)' /\ Accepted(e)' => Distinct(d, e)'
<1>0. /\ hash \in AuctionState /\ row \in AuctionState
      /\ \A d \in Calls : call[d].pc = "commit" => call[d].seen \in AuctionState
  BY RunTypes
<1>1. \A d \in Calls \ {c} : /\ call'[d] = call[d]
                             /\ Accepted(d)' <=> Accepted(d)
                             /\ Closing(d)' <=> Closing(d)
  BY OthersKeep
<1>2. Earlier(row) /\ row.rules = hash.rules /\ row.reason = hash.reason
  BY DEF RunningInv, RowEarlier, Closed
<1>3. RowEarlier'
  <2>1. Earlier(row)' BY <1>0, <1>2, EarlierStays
  <2> QED BY <1>2, <2>1 DEF RowEarlier
<1>4. Brought' BY DEF Brought
<1>5. ASSUME NEW d \in Calls, d # c PROVE RunCall(d)'
  <2>1. RunCall(d) /\ call'[d] = call[d] BY <1>1, <1>5 DEF RunningInv
  <2>2. ~ Closing(d) BY <2>1 DEF RunCall, Closed
  <2>3. ASSUME Accepted(d) PROVE bids'[input'[d].req] = NoBid /\ board'[input'[d].user] > 0
    <3>1. input[d].user \in Users BY <2>3, BidInput DEF Accepted
    <3>2. board \in [Users -> Nat] BY DEF ServiceInv, StoresOK
    <3>3. board[input[d].user] \in Nat /\ board[input[d].user] > 0
      BY <2>1, <2>3, <3>1, <3>2 DEF RunCall
    <3>4. board'[input[d].user] >= board[input[d].user] /\ board'[input[d].user] \in Nat
      BY <3>1
    <3> QED BY <2>1, <2>3, <3>3, <3>4 DEF RunCall
  <2>4. ASSUME Accepted(d), call[d].pc = "commit"
        PROVE  Earlier(call[d].seen)' /\ InOrder(row', call'[d].seen)
    <3>1. call[d].seen \in AuctionState BY <1>0, <2>4
    <3>2. Earlier(call[d].seen) /\ InOrder(row, call[d].seen) BY <2>1, <2>4 DEF RunCall
    <3> QED BY <1>0, <2>1, <3>1, <3>2, EarlierStays DEF Earlier, InOrder
  <2> QED BY <1>1, <1>5, <2>1, <2>2, <2>3, <2>4 DEF RunCall, Earlier, InOrder
<1>6. ASSUME NEW d \in Calls \ {c}, NEW e \in Calls \ {c}, d # e, Accepted(d)', Accepted(e)'
      PROVE  Distinct(d, e)'
  <2>1. Distinct(d, e) BY <1>1, <1>6 DEF RunningInv, Apart
  <2> QED BY <1>1, <2>1 DEF Distinct, InOrder
<1>7. RowsReached'
  <2> SUFFICES ASSUME NEW r \in Requests, bids[r] # NoBid
               PROVE  board'[bids[r].user] > 0 /\ bids[r].amount <= hash'.price
    BY DEF RowsReached
  <2>1. bids[r] \in BidRow /\ board \in [Users -> Nat] BY DEF ServiceInv, StoresOK
  <2>2. bids[r].user \in Users /\ bids[r].amount \in Nat BY <2>1 DEF BidRow
  <2>3. board[bids[r].user] > 0 /\ bids[r].amount <= hash.price
    BY DEF RunningInv, RowsReached
  <2>4. board[bids[r].user] \in Nat /\ board'[bids[r].user] \in Nat
        /\ board'[bids[r].user] >= board[bids[r].user]
    BY <2>1, <2>2
  <2>5. hash.price \in Nat /\ hash'.price \in Nat BY <1>0 DEF AuctionState
  <2> QED BY <2>2, <2>3, <2>4, <2>5
<1> QED BY <1>3, <1>4, <1>5, <1>6, <1>7

(* As long as the auction runs there is no order. *)
LEMMA NoOrderYet ==
  ASSUME OrderMeansSold, hash # NoHash, hash.status = "RUNNING"
  PROVE  order = NoOrder
BY DEF OrderMeansSold

(* Where Redis and the order stay as they are, so does what is said of them. *)
LEMMA RedisStays ==
  ASSUME AuctionInv, OrderMeansSold, hash # NoHash, UNCHANGED <<redisVars, order>>, now' \in Nat
  PROVE  hash' # NoHash /\ AuctionInv' /\ OrderMeansSold'
BY DEF redisVars, AuctionInv, RedisTypeOK, LeaderTopsBoard, CapMeansSold, OutcomeMatchesBids,
       EmptyUntilOpened, LeaderHasRaised, EmptyBoard, OrderMeansSold

(* What an accepted bid makes of the auction. *)
LEMMA BidAdvances ==
  ASSUME AuctionInv, NEW r \in Requests, NEW u \in Users, NEW amount \in Nat,
         AcceptBid(r, u, amount)
  PROVE  /\ hash # NoHash /\ hash \in AuctionState /\ hash.status = "RUNNING" /\ r \notin keys
         /\ hash' \in AuctionState
         /\ hash'.version = hash.version + 1 /\ hash'.price >= hash.price
         /\ hash'.rules = hash.rules /\ hash'.reason = hash.reason
         /\ board' \in [Users -> Nat] /\ board'[u] > 0
         /\ \A v \in Users : board'[v] >= board[v]
         /\ keys' = keys \cup {r}
<1>1. /\ hash # NoHash /\ hash \in AuctionState /\ hash.status = "RUNNING" /\ r \notin keys
      /\ ~ (amount < hash.price + hash.rules.inc)
  BY AcceptedBid DEF AcceptBid, AuctionInv, RedisTypeOK
<1> DEFINE price == AcceptedPrice(hash, amount)
<1>2. hash.rules \in Rules BY <1>1, RulesAssumption DEF AuctionState
<1>3. hash.price \in Nat /\ hash.rules.cap \in Nat BY <1>1, <1>2 DEF AuctionState, Rules
<1>4. hash.price < hash.rules.cap BY <1>1, <1>3 DEF AuctionInv, CapMeansSold
<1>5. price \in Nat /\ hash.price < price BY <1>1, <1>4, AcceptedPriceRises
<1>6. hash' \in AuctionState /\ hash'.price = price /\ hash'.rules = hash.rules
  BY <1>1, AfterBidFields DEF AcceptBid
<1>7. hash'.version = hash.version + 1 /\ hash'.reason = hash.reason
  BY <1>1 DEF AcceptBid, AfterBid, AuctionState
<1>8. board' = [board EXCEPT ![u] = price] /\ keys' = keys \cup {r} BY DEF AcceptBid
<1>9. board \in [Users -> Nat] BY DEF AuctionInv, RedisTypeOK
<1> HIDE DEF price
<1>10. \A v \in Users : board[v] <= hash.price BY <1>1, OffersBelowPrice
<1>11. board' \in [Users -> Nat] /\ board'[u] = price /\ price > 0
  BY <1>3, <1>5, <1>8, <1>9
<1>12. ASSUME NEW v \in Users PROVE board'[v] >= board[v]
  <2>1. board[v] \in Nat /\ board[v] <= hash.price BY <1>9, <1>10
  <2>2. board'[v] = price \/ board'[v] = board[v] BY <1>8, <1>9
  <2> QED BY <1>3, <1>5, <2>1, <2>2
<1>13. hash'.price >= hash.price BY <1>3, <1>5, <1>6
<1> QED BY <1>1, <1>6, <1>7, <1>8, <1>11, <1>12, <1>13

(* The bid script accepts: the key, the leader and the call all know. *)
LEMMA BidEvalRuns ==
  ASSUME ServiceInv, AuctionInv, RunningInv, OrderMeansSold, NEW c \in BidCalls, BidEval(c)
  PROVE  hash' # NoHash /\ AuctionInv' /\ RunningInv' /\ OrderMeansSold'
<1> DEFINE r == input[c].req
           u == input[c].user
<1>0. /\ c \in Calls /\ r \in Requests /\ u \in Users /\ input[c].amount \in Nat
      /\ call \in [Calls -> CallState] /\ call[c].pc = "eval"
      /\ ~ Accepted(c) /\ ~ Closing(c)
  BY BidInput DEF ServiceInv, BidEval, At, Accepted, Closing
<1>1. /\ AcceptBid(r, u, input[c].amount)
      /\ UNCHANGED <<now, row, bids, order, input>>
  BY DEF BidEval, dbVars
<1>2. /\ hash # NoHash /\ hash \in AuctionState /\ hash.status = "RUNNING" /\ r \notin keys
      /\ hash' \in AuctionState
      /\ hash'.version = hash.version + 1 /\ hash'.price >= hash.price
      /\ hash'.rules = hash.rules /\ hash'.reason = hash.reason
      /\ board' \in [Users -> Nat] /\ board'[u] > 0
      /\ \A v \in Users : board'[v] >= board[v]
      /\ keys' = keys \cup {r}
  BY <1>0, <1>1, BidAdvances
<1>3. Moves(c) /\ call'[c].pc = "read" BY <1>0, GotoMoves DEF BidEval, PCs
<1>4. Accepted(c)' /\ ~ Closing(c)' BY <1>3 DEF Accepted, Closing
<1>5. \A d \in Calls \ {c} : call'[d] = call[d] /\ (Accepted(d)' <=> Accepted(d))
  BY <1>0, <1>1, <1>3, OthersKeep
<1>6. \A d \in Calls \ {c} : Accepted(d) => input[d].req \in keys
  <2> SUFFICES ASSUME NEW d \in Calls \ {c}, Accepted(d) PROVE input[d].req \in keys
    OBVIOUS
  <2>1. input[d].req \in Requests BY BidInput DEF Accepted
  <2> QED BY <2>1 DEF RunningInv, KeysInv, Taken
<1>7. bids[r] = NoBid BY <1>0, <1>2 DEF RunningInv, KeysInv, Taken
<1>8. RunCall(c)'
  BY <1>1, <1>2, <1>3, <1>4, <1>7, CallsAssumption DEF RunCall
<1>9. Brings(c)' BY <1>3, <1>4 DEF Brings
<1>10. /\ RowEarlier' /\ Brought' /\ RowsReached'
       /\ \A d \in Calls : RunCall(d)'
       /\ \A d, e \in Calls \ {c} : d # e /\ Accepted(d)' /\ Accepted(e)' => Distinct(d, e)'
  BY <1>0, <1>1, <1>2, <1>3, <1>8, <1>9, ScriptRuns
<1>11. Apart'
  <2> SUFFICES ASSUME NEW d \in Calls, NEW e \in Calls, d # e, Accepted(d)', Accepted(e)'
               PROVE  Distinct(d, e)'
    BY DEF Apart
  <2>1. CASE d # c /\ e # c BY <1>10, <2>1
  <2>2. CASE d = c
    <3>1. input[e].req # r BY <1>2, <1>5, <1>6, <2>2
    <3> QED BY <1>1, <1>3, <2>2, <3>1 DEF Distinct
  <2>3. CASE e = c
    <3>1. input[d].req # r BY <1>2, <1>5, <1>6, <2>3
    <3> QED BY <1>1, <1>3, <2>3, <3>1 DEF Distinct
  <2> QED BY <2>1, <2>2, <2>3
<1>12. KeysInv'
  <2> SUFFICES ASSUME NEW q \in Requests
               PROVE  /\ Taken(q)' => q \in keys \cup {r}
                      /\ Faults = {} /\ q \in keys \cup {r} => Taken(q)'
    BY <1>2 DEF KeysInv
  <2>1. Taken(q)' <=> q = r \/ Taken(q) BY <1>0, <1>1, <1>4, <1>5 DEF Taken
  <2> QED BY <2>1 DEF RunningInv, KeysInv
<1>13. AuctionInv' BY <1>0, <1>1, BidStepInv
<1>14. OrderMeansSold' BY <1>1, <1>2, NoOrderYet DEF OrderMeansSold
<1>15. hash' # NoHash BY <1>2, NoHashAssumption
<1> QED BY <1>10, <1>11, <1>12, <1>13, <1>14, <1>15 DEF RunningInv

(* The same when the script was sent twice: its call is told of a duplicate *)
(* and leaves, and the bid stays in Redis alone.                           *)
LEMMA BidResentRuns ==
  ASSUME ServiceInv, AuctionInv, RunningInv, OrderMeansSold, Faults # {},
         NEW c \in BidCalls, BidResent(c)
  PROVE  hash' # NoHash /\ AuctionInv' /\ RunningInv' /\ OrderMeansSold'
<1> DEFINE r == input[c].req
           u == input[c].user
<1>0. /\ c \in Calls /\ r \in Requests /\ u \in Users /\ input[c].amount \in Nat
      /\ call \in [Calls -> CallState] /\ call[c].pc = "eval"
      /\ ~ Accepted(c) /\ ~ Closing(c)
  BY BidInput DEF ServiceInv, BidResent, At, Accepted, Closing
<1>1. /\ AcceptBid(r, u, input[c].amount)
      /\ UNCHANGED <<now, row, bids, order, input>>
  BY DEF BidResent, dbVars
<1>2. /\ hash # NoHash /\ hash \in AuctionState /\ hash.status = "RUNNING" /\ r \notin keys
      /\ hash' \in AuctionState
      /\ hash'.version = hash.version + 1 /\ hash'.price >= hash.price
      /\ hash'.rules = hash.rules /\ hash'.reason = hash.reason
      /\ board' \in [Users -> Nat]
      /\ \A v \in Users : board'[v] >= board[v]
      /\ keys' = keys \cup {r}
  BY <1>0, <1>1, BidAdvances
<1>3. Moves(c) /\ call'[c].pc \in {"idle", "done"}
  BY <1>0, AnswerMoves DEF BidResent, Replies
<1>4. ~ Accepted(c)' /\ ~ Closing(c)' BY <1>3 DEF Accepted, Closing
<1>5. \A d \in Calls \ {c} : Accepted(d)' <=> Accepted(d)
  BY <1>0, <1>1, <1>3, OthersKeep
<1>6. RunCall(c)' BY <1>3, <1>4 DEF RunCall
<1>7. /\ RowEarlier' /\ Brought' /\ RowsReached'
      /\ \A d \in Calls : RunCall(d)'
      /\ \A d, e \in Calls \ {c} : d # e /\ Accepted(d)' /\ Accepted(e)' => Distinct(d, e)'
  BY <1>0, <1>1, <1>2, <1>3, <1>6, ScriptRuns
<1>8. Apart' BY <1>4, <1>7 DEF Apart
<1>9. KeysInv'
  <2> SUFFICES ASSUME NEW q \in Requests, Taken(q)' PROVE q \in keys'
    BY DEF KeysInv
  <2>1. Taken(q) BY <1>0, <1>1, <1>4, <1>5 DEF Taken
  <2> QED BY <1>2, <2>1 DEF RunningInv, KeysInv
<1>10. AuctionInv' BY <1>0, <1>1, BidStepInv
<1>11. OrderMeansSold' BY <1>1, <1>2, NoOrderYet DEF OrderMeansSold
<1>12. hash' # NoHash BY <1>2, NoHashAssumption
<1> QED BY <1>7, <1>8, <1>9, <1>10, <1>11, <1>12 DEF RunningInv

(* The cancel or the finish script closes the auction. *)
LEMMA CloseRuns ==
  ASSUME ServiceInv, AuctionInv, RunningInv, OrderMeansSold, hash # NoHash,
         hash.status = "RUNNING",
         NEW status \in Closed, NEW reason \in Reasons,
         hash' = [hash EXCEPT !.status = status, !.reason = reason, !.version = @ + 1],
         status = "SOLD" => hash.leader # NoUser,
         status = "UNSOLD" => hash.leader = NoUser,
         UNCHANGED <<board, keys, now, dbVars, input>>,
         NEW c \in Calls, Moves(c), ~ Accepted(c), ~ Closing(c), ~ Accepted(c)',
         RunCall(c)', Faults = {} => Brings(c)'
  PROVE  hash' # NoHash /\ AuctionInv' /\ RunningInv' /\ OrderMeansSold'
<1>0. hash \in AuctionState /\ now \in Nat BY RunTypes
<1>1. UNCHANGED <<row, bids, order, input>> BY DEF dbVars
<1>2. /\ hash' \in AuctionState /\ hash'.status = status
      /\ hash'.version = hash.version + 1 /\ hash'.price = hash.price
      /\ hash'.rules = hash.rules
  <2>1. status \in Statuses /\ hash.version + 1 \in Nat
    BY <1>0 DEF Closed, Statuses, AuctionState
  <2> QED BY <1>0, <2>1 DEF AuctionState
<1>3. \A d \in Calls \ {c} : Accepted(d)' <=> Accepted(d) BY <1>1, OthersKeep
<1>4. /\ hash'.price >= hash.price
      /\ board' \in [Users -> Nat] /\ \A u \in Users : board'[u] >= board[u]
  BY <1>0, <1>2 DEF AuctionState, AuctionInv, RedisTypeOK
<1>5. hash'.status = "RUNNING" => hash'.reason = hash.reason BY <1>2 DEF Closed
<1>6. /\ RowEarlier' /\ Brought' /\ RowsReached'
      /\ \A d \in Calls : RunCall(d)'
      /\ \A d, e \in Calls \ {c} : d # e /\ Accepted(d)' /\ Accepted(e)' => Distinct(d, e)'
  BY <1>1, <1>2, <1>4, <1>5, ScriptRuns
<1>7. Apart' BY <1>6 DEF Apart
<1>8. KeysInv'
  <2>1. \A d \in Calls : Accepted(d)' <=> Accepted(d) BY <1>3
  <2>2. \A r \in Requests : Taken(r)' <=> Taken(r) BY <1>1, <2>1 DEF Taken
  <2> QED BY <2>2 DEF RunningInv, KeysInv
<1>9. AuctionInv'
  <2>1. status \in {"SOLD", "UNSOLD", "CANCELLED"} BY DEF Closed
  <2>2. UNCHANGED <<board, keys>> /\ now' \in Nat BY <1>0
  <2> QED BY <2>1, <2>2, ClosingStep
<1>10. OrderMeansSold' BY <1>1, NoOrderYet DEF OrderMeansSold
<1>11. hash' # NoHash BY <1>2, NoHashAssumption
<1> QED BY <1>6, <1>7, <1>8, <1>9, <1>10, <1>11 DEF RunningInv

(* A call that has run such a script, before it and after it: it goes on   *)
(* with the state the script left, or leaves because it was told that      *)
(* another had closed the auction.                                         *)
LEMMA CloserMoves ==
  ASSUME call \in [Calls -> CallState], NEW c \in CancelCalls \cup {Timer}, At(c, "eval"),
         hash' \in AuctionState, hash'.status \in Closed,
         c \in CancelCalls => hash'.status = "CANCELLED",
         \/ GotoSeeing(c, "save", hash')
         \/ Faults # {} /\ \E reply \in Replies : Answer(c, reply)
  PROVE  /\ c \in Calls /\ Moves(c)
         /\ ~ Accepted(c) /\ ~ Closing(c) /\ ~ Accepted(c)'
         /\ RunCall(c)'
         /\ Faults = {} => Brings(c)'
<1>0. /\ c \in Calls /\ c \notin BidCalls /\ c \notin UpdateCalls
      /\ ~ Accepted(c) /\ ~ Closing(c) /\ ~ Accepted(c)'
  BY CallsAssumption DEF Calls, At, Accepted, Closing
<1>1. CASE GotoSeeing(c, "save", hash')
  <2>1. Moves(c) /\ call'[c].pc = "save" /\ call'[c].seen = hash'
    BY <1>0, <1>1, GotoSeeingMoves DEF PCs
  <2>2. Closing(c)' BY <2>1 DEF Closing
  <2>3. RunCall(c)' BY <1>0, <2>1, <2>2 DEF RunCall
  <2> QED BY <1>0, <2>1, <2>2, <2>3 DEF Brings
<1>2. CASE Faults # {} /\ \E reply \in Replies : Answer(c, reply)
  <2>1. Moves(c) /\ call'[c].pc \in {"idle", "done"} BY <1>0, <1>2, AnswerMoves
  <2>2. RunCall(c)' BY <1>0, <2>1 DEF RunCall, Closing
  <2> QED BY <1>0, <1>2, <2>1, <2>2
<1> QED BY <1>1, <1>2

(* cancel() finds the auction running. *)
LEMMA CancelRuns ==
  ASSUME ServiceInv, AuctionInv, RunningInv, OrderMeansSold, hash # NoHash,
         NEW c \in CancelCalls, CancelEval(c) \/ (Faults # {} /\ CancelResent(c))
  PROVE  hash' # NoHash /\ AuctionInv' /\ RunningInv' /\ OrderMeansSold'
<1>0. call \in [Calls -> CallState] /\ hash \in AuctionState BY RunTypes
<1>1. /\ CancelRunning /\ At(c, "eval") /\ UNCHANGED <<now, dbVars, input>>
      /\ \/ GotoSeeing(c, "save", hash')
         \/ Faults # {} /\ \E reply \in Replies : Answer(c, reply)
  BY DEF CancelEval, CancelResent, Replies
<1>2. /\ hash.status = "RUNNING" /\ hash' \in AuctionState /\ hash'.status = "CANCELLED"
      /\ hash' = [hash EXCEPT !.status = "CANCELLED", !.reason = "given", !.version = @ + 1]
  BY <1>0, <1>1, CancelledHash
<1>3. "CANCELLED" \in Closed /\ "given" \in Reasons BY DEF Closed, Reasons
<1>4. /\ c \in Calls /\ Moves(c)
      /\ ~ Accepted(c) /\ ~ Closing(c) /\ ~ Accepted(c)'
      /\ RunCall(c)'
      /\ Faults = {} => Brings(c)'
  BY <1>0, <1>1, <1>2, <1>3, CloserMoves
<1>5. UNCHANGED <<board, keys>> BY <1>1 DEF CancelRunning
<1> QED BY <1>1, <1>2, <1>3, <1>4, <1>5, CloseRuns

(* The settlement finds it expired. *)
LEMMA FinishRuns ==
  ASSUME ServiceInv, AuctionInv, RunningInv, OrderMeansSold, hash # NoHash,
         SettleEval \/ (Faults # {} /\ SettleResent)
  PROVE  hash' # NoHash /\ AuctionInv' /\ RunningInv' /\ OrderMeansSold'
<1> DEFINE status == IF hash.leader = NoUser THEN "UNSOLD" ELSE "SOLD"
<1>0. call \in [Calls -> CallState] /\ hash \in AuctionState BY RunTypes
<1>1. /\ FinishExpired /\ At(Timer, "eval") /\ UNCHANGED <<now, dbVars, input>>
      /\ \/ GotoSeeing(Timer, "save", hash')
         \/ Faults # {} /\ \E reply \in Replies : Answer(Timer, reply)
  BY DEF SettleEval, SettleResent, Replies
<1>2. /\ hash.status = "RUNNING" /\ hash' \in AuctionState /\ hash'.status = status
      /\ hash' = [hash EXCEPT !.status = status, !.version = @ + 1]
  BY <1>0, <1>1, FinishedHash DEF FinishExpired
<1>3. /\ status \in Closed
      /\ status = "SOLD" => hash.leader # NoUser
      /\ status = "UNSOLD" => hash.leader = NoUser
      /\ hash.reason \in Reasons
  BY <1>0 DEF Closed, AuctionState
<1> HIDE DEF status
<1>4. hash' = [hash EXCEPT !.status = status, !.reason = hash.reason, !.version = @ + 1]
  BY <1>0, <1>2 DEF AuctionState
<1>5. /\ Timer \in Calls /\ Moves(Timer)
      /\ ~ Accepted(Timer) /\ ~ Closing(Timer) /\ ~ Accepted(Timer)'
      /\ RunCall(Timer)'
      /\ Faults = {} => Brings(Timer)'
  BY <1>0, <1>1, <1>2, <1>3, CallsAssumption, CloserMoves
<1>6. UNCHANGED <<board, keys>> BY <1>1 DEF FinishExpired
<1> QED BY <1>1, <1>2, <1>3, <1>4, <1>5, <1>6, CloseRuns

(* When the process dies, whatever was on its way is gone, and the stores  *)
(* stay as they are.                                                       *)
LEMMA CrashRuns ==
  ASSUME ServiceInv, AuctionInv, RunningInv, OrderMeansSold, hash # NoHash, Faults # {}, Crash
  PROVE  hash' # NoHash /\ AuctionInv' /\ RunningInv' /\ OrderMeansSold'
<1>1. /\ UNCHANGED <<hash, board, keys, row, bids, order, input>>
      /\ UNCHANGED redisVars /\ now' \in Nat
      /\ \A c \in Calls : call'[c].pc \in {"idle", "done"}
  BY CrashEnds, RunTypes DEF redisVars, dbVars
<1>2. \A c \in Calls : ~ Accepted(c)' /\ ~ Closing(c)' BY <1>1 DEF Accepted, Closing
<1>3. RowEarlier' /\ RowsReached'
  BY <1>1 DEF RunningInv, RowEarlier, Earlier, RowsReached
<1>4. \A c \in Calls : RunCall(c)' BY <1>1, <1>2 DEF RunCall
<1>5. Apart' /\ Brought' BY <1>2 DEF Apart, Brought
<1>6. KeysInv'
  <2>1. \A r \in Requests : Taken(r)' => Taken(r) BY <1>1, <1>2 DEF Taken
  <2> QED BY <1>1, <2>1 DEF RunningInv, KeysInv
<1> QED BY <1>1, <1>3, <1>4, <1>5, <1>6, RedisStays DEF RunningInv

----
(* What was seen earlier has no later version, and no higher price. *)
LEMMA EarlierIsBehind ==
  ASSUME hash \in AuctionState, NEW s \in AuctionState, Earlier(s)
  PROVE  InOrder(s, hash) /\ InOrder(hash, s) /\ s.version <= hash.version /\ s.price <= hash.price
<1>1. /\ s.version \in Nat /\ hash.version \in Nat /\ s.price \in Nat /\ hash.price \in Nat
  BY DEF AuctionState
<1> QED BY <1>1 DEF Earlier, InOrder

(* The row is behind as well. *)
LEMMA RowIsBehind ==
  ASSUME ServiceInv, AuctionInv, hash # NoHash, RowEarlier
  PROVE  row.version <= hash.version /\ row.price <= hash.price /\ InOrder(row, hash)
<1>1. hash \in AuctionState /\ row \in AuctionState BY RunTypes
<1>2. row.version \in Nat /\ hash.version \in Nat BY RunTypes
<1>3. CASE Earlier(row) BY <1>1, <1>3, EarlierIsBehind
<1>4. CASE row.version = hash.version /\ row.price <= hash.price
  BY <1>2, <1>4 DEF InOrder
<1> QED BY <1>3, <1>4 DEF RowEarlier

(* The state the call reads back is the present one. *)
LEMMA BidReadRuns ==
  ASSUME ServiceInv, AuctionInv, RunningInv, hash # NoHash, NEW c \in BidCalls, BidRead(c)
  PROVE  ReadOnly /\ RunningInv'
<1>0. /\ c \in Calls /\ call \in [Calls -> CallState] /\ hash \in AuctionState
      /\ c \notin CancelCalls /\ c # Timer /\ c \notin UpdateCalls
      /\ Accepted(c) /\ call[c].pc = "read" /\ RunCall(c)
      /\ \A d \in Calls : call[d].pc = "commit" => call[d].seen \in AuctionState
  BY RunTypes, BidInput, CallsAssumption DEF BidRead, At, Accepted, RunningInv
<1>1. ReadOnly /\ GotoSeeing(c, "commit", hash) BY DEF BidRead, ReadOnly
<1>2. UNCHANGED <<hash, board, keys, now, row, bids, order, input>>
  BY <1>1 DEF ReadOnly, redisVars, dbVars
<1>3. Moves(c) /\ call'[c].pc = "commit" /\ call'[c].seen = hash
  BY <1>0, <1>1, GotoSeeingMoves DEF PCs
<1>4. Accepted(c)' /\ ~ Closing(c)' /\ ~ Closing(c) BY <1>0, <1>3 DEF Accepted, Closing
<1>5. \A d \in Calls \ {c} : call'[d] = call[d] /\ (Accepted(d)' <=> Accepted(d))
                             /\ (Closing(d)' <=> Closing(d))
  BY <1>0, <1>2, <1>3, OthersKeep
<1>6. RowEarlier' BY <1>2 DEF RunningInv, RowEarlier, Earlier
<1>7. ASSUME NEW d \in Calls PROVE RunCall(d)'
  <2>1. CASE d = c
    <3>1. InOrder(row, hash) BY RowIsBehind DEF RunningInv
    <3>2. Earlier(call[c].seen)' /\ InOrder(row, call[c].seen)'
      BY <1>2, <1>3, <3>1 DEF Earlier, InOrder
    <3> QED BY <1>0, <1>2, <1>3, <1>4, <2>1, <3>2 DEF RunCall
  <2>2. CASE d # c
    <3>1. RunCall(d) /\ call'[d] = call[d] BY <1>5, <2>2 DEF RunningInv
    <3> QED BY <1>2, <1>5, <2>2, <3>1 DEF RunCall, Earlier, InOrder
  <2> QED BY <2>1, <2>2
<1>8. ASSUME NEW d \in Calls \ {c}, Accepted(d)
      PROVE  /\ input[d].req # input[c].req
             /\ call[d].pc = "commit" => InOrder(call[d].seen, hash) /\ InOrder(hash, call[d].seen)
  <2>1. Distinct(c, d) /\ RunCall(d) BY <1>0, <1>8 DEF RunningInv, Apart
  <2>2. ASSUME call[d].pc = "commit"
        PROVE  InOrder(call[d].seen, hash) /\ InOrder(hash, call[d].seen)
    BY <1>0, <1>8, <2>1, <2>2, EarlierIsBehind DEF RunCall
  <2> QED BY <2>1, <2>2 DEF Distinct
<1>9. Apart'
  <2> SUFFICES ASSUME NEW d \in Calls, NEW e \in Calls, d # e, Accepted(d)', Accepted(e)'
               PROVE  Distinct(d, e)'
    BY DEF Apart
  <2>1. CASE d # c /\ e # c
    <3>1. Distinct(d, e) BY <1>5, <2>1 DEF RunningInv, Apart
    <3> QED BY <1>2, <1>5, <2>1, <3>1 DEF Distinct, InOrder
  <2>2. CASE d = c BY <1>2, <1>3, <1>5, <1>8, <2>2 DEF Distinct, InOrder
  <2>3. CASE e = c BY <1>2, <1>3, <1>5, <1>8, <2>3 DEF Distinct, InOrder
  <2> QED BY <2>1, <2>2, <2>3
<1>10. Brings(c)' BY <1>2, <1>3, <1>4 DEF Brings
<1>11. Brought' BY <1>0, <1>10 DEF Brought
<1>12. KeysInv'
  <2>1. \A d \in Calls : Accepted(d)' <=> Accepted(d) BY <1>0, <1>4, <1>5
  <2>2. \A r \in Requests : Taken(r)' <=> Taken(r) BY <1>2, <2>1 DEF Taken
  <2> QED BY <1>2, <2>2 DEF RunningInv, KeysInv
<1>13. RowsReached' BY <1>2 DEF RunningInv, RowsReached
<1> QED BY <1>1, <1>6, <1>7, <1>9, <1>11, <1>12, <1>13 DEF RunningInv

(* The mirror update of a state that was seen earlier. *)
LEMMA MirrorEarlier ==
  ASSUME ServiceInv, AuctionInv, hash # NoHash, RowEarlier,
         NEW s \in AuctionState, Earlier(s), InOrder(row, s), Mirror(s), hash' = hash
  PROVE  /\ RowEarlier'
         /\ row'.version >= row.version /\ row'.version >= s.version
         /\ row' = row \/ (row'.version = s.version /\ row'.price = s.price)
<1>1. /\ row \in AuctionState /\ hash \in AuctionState
      /\ row.version \in Nat /\ s.version \in Nat /\ hash.version \in Nat
      /\ hash.status \in Closed \cup {"RUNNING"}
  BY RunTypes DEF AuctionState
<1>2. CASE ~ (row.version < s.version)
  <2>1. row' = row BY <1>2 DEF Mirror
  <2> QED BY <1>1, <1>2, <2>1 DEF RowEarlier, Earlier
<1>3. CASE row.version < s.version
  <2>1. row' = [row EXCEPT !.status = s.status, !.price = s.price, !.leader = s.leader,
                           !.endAt = s.endAt, !.version = s.version]
    BY <1>3 DEF Mirror
  <2>2. /\ row'.version = s.version /\ row'.price = s.price /\ row'.status = s.status
        /\ row'.leader = s.leader /\ row'.endAt = s.endAt
        /\ row'.rules = row.rules /\ row'.reason = row.reason
        /\ row' \in AuctionState
    BY <1>1, <2>1 DEF AuctionState
  <2>3. row'.rules = hash.rules /\ (hash.status = "RUNNING" => row'.reason = hash.reason)
    BY <2>2 DEF RowEarlier
  <2>4. CASE s = hash
    <3>1. CASE hash.status = "RUNNING"
      <4>1. row' = hash BY <1>1, <2>2, <2>3, <2>4, <3>1 DEF AuctionState
      <4> QED BY <1>1, <1>3, <2>2, <2>3, <2>4, <4>1 DEF RowEarlier, Earlier
    <3>2. CASE hash.status \in Closed
      <4>1. hash.price <= hash.price BY <1>1 DEF AuctionState
      <4> QED BY <1>1, <1>3, <2>2, <2>3, <2>4, <3>2, <4>1 DEF RowEarlier
    <3> QED BY <1>1, <3>1, <3>2
  <2>5. CASE s # hash
    <3>1. s.version < hash.version /\ s.status = "RUNNING" /\ s.price <= hash.price
      BY <2>5 DEF Earlier
    <3> QED BY <1>1, <1>3, <2>2, <2>3, <3>1 DEF RowEarlier, Earlier
  <2> QED BY <2>4, <2>5
<1> QED BY <1>2, <1>3

(* A call that leaves the accepted or the closing ones after it has written *)
(* the row: the others keep theirs, and bring what it has not brought.      *)
LEMMA WriterLeaves ==
  ASSUME ServiceInv, AuctionInv, RunningInv, hash # NoHash, UNCHANGED <<redisVars, input>>,
         NEW c \in Calls, Moves(c), call'[c].pc \in {"emit", "idle", "done"},
         RowEarlier', row'.version >= row.version, row'.version \in Nat,
         Brings(c) => row'.version >= hash.version,
         \A d \in Calls \ {c} : Accepted(d) =>
           /\ bids'[input[d].req] = NoBid
           /\ call[d].pc = "commit" => InOrder(row', call[d].seen),
         \A r \in Requests :
           bids'[r] # NoBid <=> bids[r] # NoBid \/ (Accepted(c) /\ input[c].req = r),
         RowsReached'
  PROVE  RunningInv'
<1>0. UNCHANGED <<hash, board, keys, input>> BY DEF redisVars
<1>1. ~ Accepted(c)' /\ ~ Closing(c)' BY DEF Accepted, Closing
<1>2. \A d \in Calls \ {c} : call'[d] = call[d] /\ (Accepted(d)' <=> Accepted(d))
                             /\ (Closing(d)' <=> Closing(d))
  BY <1>0, OthersKeep
<1>3. ASSUME NEW d \in Calls PROVE RunCall(d)'
  <2>1. CASE d = c BY <1>1, <2>1 DEF RunCall
  <2>2. CASE d # c
    <3>1. RunCall(d) /\ call'[d] = call[d] BY <1>2, <2>2 DEF RunningInv
    <3> QED BY <1>0, <1>2, <2>2, <3>1 DEF RunCall, Earlier, InOrder
  <2> QED BY <2>1, <2>2
<1>4. Apart'
  <2> SUFFICES ASSUME NEW d \in Calls, NEW e \in Calls, d # e, Accepted(d)', Accepted(e)'
               PROVE  Distinct(d, e)'
    BY DEF Apart
  <2>1. d # c /\ e # c /\ Distinct(d, e) BY <1>1, <1>2 DEF RunningInv, Apart
  <2> QED BY <1>0, <1>2, <2>1 DEF Distinct, InOrder
<1>5. Brought'
  <2> SUFFICES ASSUME Faults = {}, row'.version < hash'.version
               PROVE  \E d \in Calls : Brings(d)'
    BY DEF Brought
  <2>1. row.version \in Nat /\ hash.version \in Nat BY RunTypes
  <2>2. row.version < hash.version /\ ~ (row'.version >= hash.version) BY <1>0, <2>1
  <2>3. PICK d \in Calls : Brings(d) BY <2>2 DEF RunningInv, Brought
  <2>4. d # c BY <2>2, <2>3
  <2>5. Brings(d)' BY <1>0, <1>2, <2>3, <2>4 DEF Brings
  <2> QED BY <2>5
<1>6. KeysInv'
  <2> SUFFICES ASSUME NEW r \in Requests PROVE Taken(r)' <=> Taken(r)
    BY <1>0 DEF RunningInv, KeysInv
  <2>1. Taken(r)' <=> bids'[r] # NoBid \/ \E d \in Calls : Accepted(d)' /\ input[d].req = r
    BY <1>0 DEF Taken
  <2>2. (\E d \in Calls : Accepted(d) /\ input[d].req = r)
          <=> (Accepted(c) /\ input[c].req = r)
              \/ \E d \in Calls : Accepted(d)' /\ input[d].req = r
    BY <1>1, <1>2
  <2> QED BY <2>1, <2>2 DEF Taken
<1> QED BY <1>3, <1>4, <1>5, <1>6 DEF RunningInv

(* The transaction of a bid mirrors what the call has seen. *)
LEMMA BidCommitRuns ==
  ASSUME ServiceInv, AuctionInv, RunningInv, OrderMeansSold, hash # NoHash,
         NEW c \in BidCalls, BidCommit(c)
  PROVE  hash' # NoHash /\ AuctionInv' /\ RunningInv' /\ OrderMeansSold'
<1> DEFINE s == call[c].seen
           r == input[c].req
           u == input[c].user
<1>0. /\ c \in Calls /\ call \in [Calls -> CallState]
      /\ r \in Requests /\ u \in Users
      /\ Accepted(c) /\ call[c].pc = "commit" /\ RunCall(c)
      /\ c \notin CancelCalls /\ c # Timer
  BY RunTypes, BidInput, CallsAssumption DEF BidCommit, At, Accepted, RunningInv
<1>1. s \in AuctionState /\ s.version \in Nat BY <1>0, RunTypes
<1>2. Earlier(s) /\ InOrder(row, s) /\ board[u] > 0 BY <1>0 DEF RunCall
<1>3. UNCHANGED <<hash, board, keys, now, input>> BY DEF BidCommit, redisVars
<1>4. /\ RowEarlier'
      /\ row'.version >= row.version /\ row'.version >= s.version
      /\ row' = row \/ (row'.version = s.version /\ row'.price = s.price)
  BY <1>1, <1>2, <1>3, MirrorEarlier DEF BidCommit, RunningInv
<1>5. row.version \in Nat /\ row'.version \in Nat BY <1>1, <1>4, RunTypes
<1>6. Moves(c) /\ call'[c].pc = "emit" BY <1>0, GotoMoves DEF BidCommit, PCs
<1> DEFINE b == [user |-> u, amount |-> s.price]
<1>7. /\ bids' = [bids EXCEPT ![r] = b] /\ bids \in [Requests -> BidRow \cup {NoBid}]
      /\ b # NoBid
  BY <1>0, <1>1, NoRowAssumption DEF BidCommit, ServiceInv, StoresOK, BidRow, AuctionState
<1>14. b.user = u /\ b.amount = s.price OBVIOUS
<1> HIDE DEF b
<1>15. RowsReached'
  <2> SUFFICES ASSUME NEW q \in Requests, bids'[q] # NoBid
               PROVE  board[bids'[q].user] > 0 /\ bids'[q].amount <= hash.price
    BY <1>3 DEF RowsReached
  <2>1. CASE q = r
    <3>1. bids'[q].user = u /\ bids'[q].amount = s.price BY <1>0, <1>7, <1>14, <2>1
    <3>2. s.price <= hash.price BY <1>1, <1>2, RunTypes, EarlierIsBehind
    <3> QED BY <1>2, <3>1, <3>2
  <2>2. CASE q # r
    <3>1. bids'[q] = bids[q] BY <1>7, <2>2
    <3> QED BY <3>1 DEF RunningInv, RowsReached
  <2> QED BY <2>1, <2>2
<1>8. \A q \in Requests : bids'[q] # NoBid <=> bids[q] # NoBid \/ (Accepted(c) /\ r = q)
  BY <1>0, <1>7
<1>9. ASSUME NEW d \in Calls \ {c}, Accepted(d)
      PROVE  /\ bids'[input[d].req] = NoBid
             /\ call[d].pc = "commit" => InOrder(row', call[d].seen)
  <2>1. Distinct(c, d) /\ RunCall(d) BY <1>0, <1>9 DEF RunningInv, Apart
  <2>2. input[d].req \in Requests BY <1>9, BidInput DEF Accepted
  <2>3. bids'[input[d].req] = NoBid BY <1>7, <1>9, <2>1, <2>2 DEF RunCall, Distinct
  <2>4. ASSUME call[d].pc = "commit" PROVE InOrder(row', call[d].seen)
    <3>1. InOrder(row, call[d].seen) /\ InOrder(s, call[d].seen)
      BY <1>0, <1>9, <2>1, <2>4 DEF RunCall, Distinct
    <3> QED BY <1>4, <3>1 DEF InOrder
  <2> QED BY <2>3, <2>4
<1>10. Brings(c) => row'.version >= hash.version
  BY <1>0, <1>4 DEF Brings, Closing
<1>11. RunningInv'
  BY <1>0, <1>3, <1>4, <1>5, <1>6, <1>8, <1>9, <1>10, <1>15, WriterLeaves DEF redisVars
<1>12. OrderMeansSold'
  <2>1. CASE order' = order BY <1>3, <2>1 DEF OrderMeansSold
  <2>2. CASE order' # order
    <3>1. s.status = "SOLD" /\ order' = [winner |-> u, amount |-> s.price, status |-> "PENDING_PAYMENT"]
      BY <2>2 DEF BidCommit, UpsertOrder
    <3>2. s = hash BY <1>2, <3>1 DEF Earlier
    <3>3. order'.winner = u /\ order'.amount = hash.price BY <3>1, <3>2
    <3>4. hash.price <= hash.price BY RunTypes
    <3> QED BY <1>2, <1>3, <3>1, <3>2, <3>3, <3>4 DEF OrderMeansSold
  <2> QED BY <2>1, <2>2
<1>13. hash' # NoHash /\ AuctionInv'
  BY <1>3 DEF AuctionInv, RedisTypeOK, LeaderTopsBoard, CapMeansSold, OutcomeMatchesBids,
              EmptyUntilOpened, LeaderHasRaised, EmptyBoard
<1> QED BY <1>11, <1>12, <1>13

(* Writing how the auction was closed. *)
LEMMA ClosingSaveRuns ==
  ASSUME ServiceInv, AuctionInv, RunningInv, hash # NoHash, UNCHANGED <<redisVars, bids, input>>,
         NEW c \in Calls, Closing(c), c \notin BidCalls, Answer(c, "done"),
         row' = row \/ /\ row'.version = hash.version /\ row'.status = hash.status
                       /\ row'.price = row.price /\ row'.rules = row.rules,
         row.version < hash.version => row' # row
  PROVE  RunningInv'
<1>0. /\ call \in [Calls -> CallState] /\ RunCall(c)
      /\ row.version \in Nat /\ hash.version \in Nat
  BY RunTypes DEF RunningInv
<1>1. hash' = hash /\ hash.status \in Closed BY <1>0 DEF RunCall, redisVars
<1>2. row.version <= hash.version /\ row.price <= hash.price BY RowIsBehind DEF RunningInv
<1>3. row'.version = hash.version BY <1>0, <1>2
<1>4. RowEarlier'
  <2>1. CASE row' = row BY <1>1, <2>1 DEF RunningInv, RowEarlier, Earlier
  <2>2. CASE row' # row
    BY <1>1, <1>2, <2>2 DEF RunningInv, RowEarlier, Closed
  <2> QED BY <2>1, <2>2
<1>5. Moves(c) /\ call'[c].pc \in {"idle", "done"} BY <1>0, AnswerMoves DEF Replies
<1>6. ~ Accepted(c) BY DEF Accepted
<1>7. ASSUME NEW d \in Calls \ {c}, Accepted(d)
      PROVE  /\ bids'[input[d].req] = NoBid
             /\ call[d].pc = "commit" => InOrder(row', call[d].seen)
  <2>1. RunCall(d) BY DEF RunningInv
  <2>2. ASSUME call[d].pc = "commit" PROVE InOrder(row', call[d].seen)
    <3>1. call[d].seen \in AuctionState /\ Earlier(call[d].seen)
      BY <1>7, <2>1, <2>2, RunTypes DEF RunCall
    <3>2. call[d].seen.version \in Nat /\ call[d].seen.version <= hash.version
      BY <3>1, RunTypes, EarlierIsBehind DEF AuctionState
    <3> QED BY <1>0, <1>3, <3>2 DEF InOrder
  <2> QED BY <1>7, <2>1, <2>2 DEF RunCall
<1>8. row'.version >= row.version /\ row'.version \in Nat /\ row'.version >= hash.version
  BY <1>0, <1>2, <1>3
<1>9. RowsReached' BY DEF redisVars, RunningInv, RowsReached
<1> QED BY <1>4, <1>5, <1>6, <1>7, <1>8, <1>9, WriterLeaves

----
(* Bids on an auction that has been started. *)
LEMMA BidStepRuns ==
  ASSUME ServiceInv, AuctionInv, RunningInv, OrderMeansSold, hash # NoHash,
         NEW c \in BidCalls, BidStep(c)
  PROVE  hash' # NoHash /\ AuctionInv' /\ RunningInv' /\ OrderMeansSold'
<1>0. /\ c \in Calls /\ call \in [Calls -> CallState] /\ RunCall(c) /\ now \in Nat
      /\ c \notin CancelCalls /\ c # Timer /\ c \notin UpdateCalls
  BY RunTypes, BidInput, CallsAssumption DEF RunningInv
<1>1. ~ Closing(c) BY <1>0 DEF Closing
<1>2. ASSUME ReadOnly PROVE /\ UNCHANGED <<redisVars, row, bids, input>>
                            /\ hash' # NoHash /\ AuctionInv' /\ OrderMeansSold'
  BY <1>0, <1>2, RedisStays DEF ReadOnly, dbVars
<1>3. CASE BidArrives(c)
  <2>1. ReadOnly /\ Goto(c, "eval") /\ call[c].pc = "idle"
    BY <1>3 DEF BidArrives, ReadOnly, Arrives, At
  <2>2. Moves(c) /\ call'[c].pc = "eval" BY <1>0, <2>1, GotoMoves DEF PCs
  <2>3. ~ Accepted(c) BY <2>1 DEF Accepted
  <2> QED BY <1>0, <1>1, <1>2, <2>1, <2>2, <2>3, BystanderGoes
<1>4. CASE BidEval(c) BY <1>4, BidEvalRuns
<1>5. CASE BidRefused(c)
  <2>1. /\ ReadOnly /\ ~ Accepted(c)
        /\ Answer(c, "duplicate") \/ Answer(c, "rejected")
    BY <1>5 DEF BidRefused, ReadOnly, At, Accepted
  <2> QED BY <1>0, <1>1, <1>2, <2>1, BystanderAnswers DEF Replies
<1>6. CASE BidRead(c) BY <1>2, <1>6, BidReadRuns
<1>7. CASE BidCommit(c) BY <1>7, BidCommitRuns
<1>8. CASE BidReply(c)
  <2> DEFINE reply == IF call[c].seen.status = "SOLD" THEN "sold" ELSE "accepted"
  <2>1. ReadOnly /\ ~ Accepted(c) /\ Answer(c, reply) /\ reply \in Replies
    BY <1>8 DEF BidReply, ReadOnly, At, Accepted, Replies
  <2> HIDE DEF reply
  <2> QED BY <1>0, <1>1, <1>2, <2>1, BystanderAnswers
<1>9. ~ BidMisses(c) BY DEF BidMisses
<1>10. /\ ~ BidLoad(c) /\ ~ UndoLoad(c) /\ ~ UndoBoard(c) /\ ~ UndoExec(c)
  BY <1>0 DEF BidLoad, UndoLoad, UndoBoard, UndoExec, At, RunCall
<1>11. ~ BidConflicts(c) BY <1>0 DEF BidConflicts, At, RunCall, Accepted
<1> QED BY <1>3, <1>4, <1>5, <1>6, <1>7, <1>8, <1>9, <1>10, <1>11 DEF BidStep

(* Cancelling an auction that has been started. *)
LEMMA CancelStepRuns ==
  ASSUME ServiceInv, AuctionInv, RunningInv, OrderMeansSold, hash # NoHash,
         NEW c \in CancelCalls, CancelStep(c)
  PROVE  hash' # NoHash /\ AuctionInv' /\ RunningInv' /\ OrderMeansSold'
<1>0. /\ c \in Calls /\ call \in [Calls -> CallState] /\ RunCall(c) /\ now \in Nat
      /\ c \notin BidCalls /\ ~ Accepted(c)
      /\ row \in AuctionState /\ hash \in AuctionState
  BY RunTypes, CallsAssumption DEF RunningInv, Calls, Accepted
<1>1. ASSUME ReadOnly PROVE /\ UNCHANGED <<redisVars, row, bids, input>>
                            /\ hash' # NoHash /\ AuctionInv' /\ OrderMeansSold'
  BY <1>0, <1>1, RedisStays DEF ReadOnly, dbVars
<1>2. CASE CancelLoad(c)
  <2>1. /\ ReadOnly /\ ~ Closing(c)
        /\ GotoSeeing(c, "ensure", row) \/ Answer(c, "rejected")
    BY <1>2 DEF CancelLoad, ReadOnly, Arrives, At, Closing
  <2>2. GotoSeeing(c, "ensure", row) => Moves(c) /\ call'[c].pc = "ensure"
    BY <1>0, GotoSeeingMoves DEF PCs
  <2> QED BY <1>0, <1>1, <2>1, <2>2, BystanderGoes, BystanderAnswers DEF Replies
<1>3. CASE CancelEval(c) BY <1>3, CancelRuns
<1>4. CASE CancelRefused(c)
  <2>1. ReadOnly /\ ~ Closing(c) /\ Answer(c, "rejected")
    BY <1>4 DEF CancelRefused, ReadOnly, At, Closing
  <2> QED BY <1>0, <1>1, <2>1, BystanderAnswers DEF Replies
<1>5. CASE CancelSave(c)
  <2>1. Closing(c) /\ UNCHANGED <<redisVars, now, bids, order, input>> /\ Answer(c, "done")
    BY <1>5 DEF CancelSave, At, Closing
  <2>2. call[c].seen = hash /\ hash.status = "CANCELLED" BY <1>0, <2>1 DEF RunCall
  <2> DEFINE t == [row EXCEPT !.status = "CANCELLED", !.reason = "given", !.version = hash.version]
  <2>3. row' = IF row.version < hash.version THEN t ELSE row BY <1>5, <2>2 DEF CancelSave
  <2>4. /\ t.version = hash.version /\ t.status = "CANCELLED"
        /\ t.price = row.price /\ t.rules = row.rules
    BY <1>0 DEF AuctionState
  <2> HIDE DEF t
  <2>5. row.version \in Nat /\ hash.version \in Nat BY RunTypes
  <2>6. row.version < hash.version => row' # row BY <2>3, <2>4, <2>5
  <2>7. RunningInv' BY <1>0, <2>1, <2>2, <2>3, <2>4, <2>6, ClosingSaveRuns
  <2> QED BY <1>0, <2>1, <2>7, RedisStays
<1> QED BY <1>2, <1>3, <1>4, <1>5 DEF CancelStep

(* The settlement of an auction that has been started. *)
LEMMA SettleStepRuns ==
  ASSUME ServiceInv, AuctionInv, RunningInv, OrderMeansSold, hash # NoHash, SettleStep
  PROVE  hash' # NoHash /\ AuctionInv' /\ RunningInv' /\ OrderMeansSold'
<1>0. /\ Timer \in Calls /\ call \in [Calls -> CallState] /\ RunCall(Timer) /\ now \in Nat
      /\ Timer \notin BidCalls /\ Timer \notin CancelCalls /\ ~ Accepted(Timer)
      /\ row \in AuctionState /\ hash \in AuctionState
  BY RunTypes, CallsAssumption DEF RunningInv, Calls, Accepted
<1>1. ASSUME ReadOnly PROVE /\ UNCHANGED <<redisVars, row, bids, input>>
                            /\ hash' # NoHash /\ AuctionInv' /\ OrderMeansSold'
  BY <1>0, <1>1, RedisStays DEF ReadOnly, dbVars
<1>2. CASE SettleScan
  <2>1. ReadOnly /\ ~ Closing(Timer) /\ GotoSeeing(Timer, "ensure", row)
    BY <1>2 DEF SettleScan, ReadOnly, Arrives, At, Closing
  <2>2. Moves(Timer) /\ call'[Timer].pc = "ensure" BY <1>0, <2>1, GotoSeeingMoves DEF PCs
  <2> QED BY <1>0, <1>1, <2>1, <2>2, BystanderGoes
<1>3. CASE SettleEval BY <1>3, FinishRuns
<1>4. CASE SettleSkips
  <2>1. ReadOnly /\ ~ Closing(Timer) /\ Answer(Timer, "done")
    BY <1>4 DEF SettleSkips, ReadOnly, At, Closing
  <2> QED BY <1>0, <1>1, <2>1, BystanderAnswers DEF Replies
<1>5. CASE SettleSave
  <2>1. /\ Closing(Timer) /\ Answer(Timer, "done")
        /\ UNCHANGED <<redisVars, now, bids, input>>
    BY <1>5 DEF SettleSave, At, Closing
  <2>2. call[Timer].seen = hash BY <1>0, <2>1 DEF RunCall
  <2> DEFINE t == [row EXCEPT !.status = hash.status, !.version = hash.version]
  <2>3. row' = IF row.version < hash.version THEN t ELSE row BY <1>5, <2>2 DEF SettleSave
  <2>4. /\ t.version = hash.version /\ t.status = hash.status
        /\ t.price = row.price /\ t.rules = row.rules
    BY <1>0 DEF AuctionState
  <2> HIDE DEF t
  <2>5. row.version \in Nat /\ hash.version \in Nat BY RunTypes
  <2>6. row.version < hash.version => row' # row BY <2>3, <2>4, <2>5
  <2>7. RunningInv' BY <1>0, <2>1, <2>3, <2>4, <2>6, ClosingSaveRuns
  <2>8. hash' # NoHash /\ AuctionInv'
    BY <2>1 DEF redisVars, AuctionInv, RedisTypeOK, LeaderTopsBoard, CapMeansSold,
                OutcomeMatchesBids, EmptyUntilOpened, LeaderHasRaised, EmptyBoard
  <2>9. OrderMeansSold'
    <3>1. CASE order' = order BY <2>1, <3>1 DEF redisVars, OrderMeansSold
    <3>2. CASE order' # order
      <4>1. /\ hash.status = "SOLD"
            /\ order' = [winner |-> hash.leader, amount |-> row.price, status |-> "PENDING_PAYMENT"]
        BY <1>5, <2>2, <3>2 DEF SettleSave, UpsertOrder
      <4>2. order'.winner = hash.leader /\ order'.amount = row.price BY <4>1
      <4>3. row.price <= hash.price BY RowIsBehind DEF RunningInv
      <4>4. board[hash.leader] = hash.price /\ hash.rules.start < hash.price
        BY <4>1 DEF AuctionInv, OutcomeMatchesBids, LeaderTopsBoard, LeaderHasRaised
      <4>5. hash.rules.start \in Nat /\ hash.price \in Nat
        BY <1>0, RulesAssumption DEF AuctionState, Rules
      <4>6. board[hash.leader] > 0 BY <4>4, <4>5
      <4> QED BY <2>1, <2>8, <4>1, <4>2, <4>3, <4>6 DEF redisVars, OrderMeansSold
    <3> QED BY <3>1, <3>2
  <2> QED BY <2>7, <2>8, <2>9
<1> QED BY <1>2, <1>3, <1>4, <1>5 DEF SettleStep

(* update() and pay(): the rules of a started auction are not edited, and  *)
(* a payment changes nothing but the status of the order.                  *)
LEMMA EditStepRuns ==
  ASSUME ServiceInv, StartedInv, AuctionInv, RunningInv, OrderMeansSold, hash # NoHash,
         NEW c, (c \in UpdateCalls /\ UpdateStep(c)) \/ (c \in PayCalls /\ PayStep(c))
  PROVE  hash' # NoHash /\ AuctionInv' /\ RunningInv' /\ OrderMeansSold'
<1>0. /\ c \in Calls /\ call \in [Calls -> CallState] /\ RunCall(c) /\ CallOK(c) /\ now \in Nat
      /\ ~ Accepted(c) /\ ~ Closing(c)
  BY RunTypes, CallsAssumption DEF RunningInv, ServiceInv, Calls, Accepted, Closing
<1>1. ASSUME ReadOnly PROVE /\ UNCHANGED <<redisVars, row, bids, input>>
                            /\ hash' # NoHash /\ AuctionInv' /\ OrderMeansSold'
  BY <1>0, <1>1, RedisStays DEF ReadOnly, dbVars
<1>2. CASE UpdateLoad(c)
  <2>1. ~ Editable BY DEF Editable, StartedInv, Live
  <2>2. ReadOnly /\ Answer(c, "rejected") BY <1>2, <2>1 DEF UpdateLoad, ReadOnly
  <2> QED BY <1>0, <1>1, <2>2, BystanderAnswers DEF Replies
<1>3. CASE c \in UpdateCalls /\ UpdateSave(c) BY <1>0, <1>3 DEF UpdateSave, At, RunCall
<1>4. CASE c \in PayCalls /\ PayLoad(c)
  <2>1. ReadOnly /\ (Answer(c, "done") \/ Goto(c, "save")) BY <1>4 DEF PayLoad, ReadOnly
  <2>2. CASE Answer(c, "done") BY <1>0, <1>1, <2>1, <2>2, BystanderAnswers DEF Replies
  <2>3. CASE Goto(c, "save")
    <3>1. Moves(c) /\ call'[c].pc = "save" BY <1>0, <2>3, GotoMoves DEF PCs
    <3>2. c \notin UpdateCalls /\ c \notin CancelCalls /\ c # Timer
      BY <1>4, CallsAssumption
    <3>3. ~ Accepted(c)' /\ ~ Closing(c)' BY <3>1, <3>2 DEF Accepted, Closing
    <3> QED BY <1>0, <1>1, <2>1, <3>1, <3>2, <3>3, Bystander
  <2> QED BY <2>1, <2>2, <2>3
<1>5. CASE c \in PayCalls /\ PaySave(c)
  <2>1. UNCHANGED <<redisVars, now, row, bids, input>> /\ Answer(c, "done")
    BY <1>5 DEF PaySave
  <2>2. RunningInv' BY <1>0, <2>1, BystanderAnswers DEF Replies
  <2>3. order \in OrderRow BY <1>0, <1>5 DEF PaySave, At, CallOK, ServiceInv, StoresOK
  <2>4. order'.winner = order.winner /\ order'.amount = order.amount
    BY <1>5, <2>3 DEF PaySave, OrderRow
  <2>5. OrderMeansSold'
    BY <2>1, <2>3, <2>4, NoRowAssumption DEF redisVars, OrderMeansSold
  <2>6. hash' # NoHash /\ AuctionInv'
    BY <2>1 DEF redisVars, AuctionInv, RedisTypeOK, LeaderTopsBoard, CapMeansSold,
                OutcomeMatchesBids, EmptyUntilOpened, LeaderHasRaised, EmptyBoard
  <2> QED BY <2>2, <2>5, <2>6
<1>6. \/ UpdateLoad(c) \/ (c \in UpdateCalls /\ UpdateSave(c))
      \/ (c \in PayCalls /\ PayLoad(c)) \/ (c \in PayCalls /\ PaySave(c))
  BY <1>0 DEF UpdateStep, PayStep
<1> QED BY <1>2, <1>3, <1>4, <1>5, <1>6

(* ensureRedisState finds the state key, and goes on to the script. *)
LEMMA EnsureRuns ==
  ASSUME ServiceInv, AuctionInv, RunningInv, OrderMeansSold, hash # NoHash,
         NEW c \in Calls, Ensure(c) \/ InitRedis(c)
  PROVE  ReadOnly /\ hash' # NoHash /\ AuctionInv' /\ RunningInv' /\ OrderMeansSold'
<1>1. call \in [Calls -> CallState] /\ RunCall(c) /\ now \in Nat
  BY RunTypes DEF RunningInv
<1>2. Ensure(c) BY <1>1 DEF InitRedis, At, RunCall
<1>3. ReadOnly /\ Goto(c, "eval") /\ call[c].pc = "ensure" BY <1>2 DEF Ensure, ReadOnly, At
<1>4. Moves(c) /\ call'[c].pc = "eval" BY <1>1, <1>3, GotoMoves DEF PCs
<1>5. ~ Accepted(c) /\ ~ Closing(c) BY <1>3 DEF Accepted, Closing
<1>6. UNCHANGED <<redisVars, row, bids, input>> /\ UNCHANGED order /\ now' \in Nat
  BY <1>1, <1>3 DEF ReadOnly, dbVars
<1> QED BY <1>3, <1>4, <1>5, <1>6, BystanderGoes, RedisStays

(* Every step keeps all this, crashes and scripts sent twice included. *)
LEMMA RunStep ==
  ASSUME Steady, ServiceInv, StartedInv, AuctionInv, RunningInv, OrderMeansSold,
         hash # NoHash, Next
  PROVE  hash' # NoHash /\ AuctionInv' /\ RunningInv' /\ OrderMeansSold'
<1>1. CASE \E c \in BidCalls : BidStep(c) BY <1>1, BidStepRuns
<1>2. CASE \E c \in CancelCalls : CancelStep(c) BY <1>2, CancelStepRuns
<1>3. CASE \E c \in UpdateCalls : UpdateStep(c) BY <1>3, EditStepRuns
<1>4. CASE \E c \in PayCalls : PayStep(c) BY <1>4, EditStepRuns
<1>5. CASE \E c \in Calls : Ensure(c) \/ InitRedis(c) BY <1>5, EnsureRuns
<1>6. CASE SettleStep BY <1>6, SettleStepRuns
<1>7. CASE Tick
  <2>1. UNCHANGED <<redisVars, row, bids, order, input, call>> /\ now' \in Nat
    BY <1>7, RunTypes DEF Tick, dbVars
  <2>2. RunningInv'
    BY <2>1 DEF redisVars, RunningInv, RowEarlier, Earlier, RunCall, Accepted, Closing, InOrder,
                Apart, Distinct, Brought, Brings, KeysInv, Taken, RowsReached
  <2> QED BY <2>1, <2>2, RedisStays
<1>8. CASE Fault
  BY <1>8, SteadyFaults, BidResentRuns, CancelRuns, FinishRuns, CrashRuns
<1>9. ~ \E c \in StartCalls : StartStep(c) BY DEF Steady
<1> QED BY <1>1, <1>2, <1>3, <1>4, <1>5, <1>6, <1>7, <1>8, <1>9 DEF Next

(* An auction that is created, or one whose start() has completed. *)
LEMMA InitRun == Init => RunInv
<1> SUFFICES ASSUME Init PROVE RunInv OBVIOUS
<1>1. ServiceInv /\ StartedInv BY InitService, InitStarts
<1>2. /\ board = EmptyBoard /\ keys = {} /\ order = NoOrder /\ now \in Nat
      /\ \A r \in Requests : bids[r] = NoBid
      /\ \A c \in Calls : call[c].pc = "idle" /\ call[c].seen = NoHash
  BY DEF Init, Fresh
<1>3. PICK rules \in RuleSet :
        \/ row = Created(rules) /\ hash = NoHash
        \/ row = Started(Created(rules), rules.duration) /\ hash = row
  BY DEF Init
<1>4. OrderMeansSold BY <1>2 DEF OrderMeansSold
<1>5. RedisTypeOK BY <1>1 DEF ServiceInv, StoresOK, RedisTypeOK
<1>6. \A c \in Calls : ~ Accepted(c) /\ ~ Closing(c) BY <1>2 DEF Accepted, Closing
<1>7. CASE row = Created(rules) /\ hash = NoHash
  <2>1. row.status = "DRAFT" /\ row.endAt = 0 BY <1>7 DEF Created
  <2>2. DraftInv BY <1>2, <2>1 DEF DraftInv, DraftCall
  <2>3. AuctionInv
    BY <1>2, <1>5, <1>7 DEF AuctionInv, LeaderTopsBoard, CapMeansSold, OutcomeMatchesBids,
                            EmptyUntilOpened, LeaderHasRaised
  <2> QED BY <1>1, <1>4, <1>7, <2>2, <2>3 DEF RunInv
<1>8. CASE row = Started(Created(rules), rules.duration) /\ hash = row
  <2>1. /\ hash.status = "RUNNING" /\ hash.price = rules.start /\ hash.leader = NoUser
        /\ hash.rules = rules
    BY <1>8 DEF Started, Created
  <2>2. hash \in AuctionState /\ hash # NoHash
    BY <1>1, <1>8, NoHashAssumption DEF ServiceInv, StoresOK
  <2>3. rules.start < rules.cap /\ rules.start \in Nat /\ rules.cap \in Nat
    BY RulesAssumption DEF Rules
  <2>4. rules.start <= rules.cap /\ rules.start # rules.cap BY <2>3
  <2>5. AuctionInv
    BY <1>2, <1>5, <2>1, <2>2, <2>4
    DEF AuctionInv, LeaderTopsBoard, CapMeansSold, OutcomeMatchesBids,
        EmptyUntilOpened, LeaderHasRaised
  <2>6. RowEarlier BY <1>8 DEF RowEarlier, Earlier
  <2>7. \A c \in Calls : RunCall(c) BY <1>2, <1>6 DEF RunCall
  <2>8. Apart BY <1>6 DEF Apart
  <2>9. Brought
    <3>1. hash.version \in Nat BY <2>2 DEF AuctionState
    <3> QED BY <1>8, <3>1 DEF Brought
  <2>10. KeysInv BY <1>2, <1>6 DEF KeysInv, Taken
  <2>11. RowsReached BY <1>2 DEF RowsReached
  <2> QED BY <1>1, <1>4, <2>2, <2>5, <2>6, <2>7, <2>8, <2>9, <2>10, <2>11 DEF RunInv, RunningInv
<1> QED BY <1>3, <1>7, <1>8

(* Every step keeps it, before start() and after. *)
LEMMA NextRun ==
  ASSUME Steady, RunInv, [Next]_vars
  PROVE  RunInv'
<1>1. ServiceInv' /\ StartedInv' BY NextService, NextStarts DEF RunInv
<1>2. CASE UNCHANGED vars
  BY <1>1, <1>2
  DEF vars, RunInv, DraftInv, DraftCall, RunningInv, RowEarlier, Earlier, RunCall, Accepted,
      Closing, InOrder, Apart, Distinct, Brought, Brings, KeysInv, Taken, RowsReached,
      OrderMeansSold, AuctionInv,
      RedisTypeOK, LeaderTopsBoard, CapMeansSold, OutcomeMatchesBids, EmptyUntilOpened,
      LeaderHasRaised, EmptyBoard
<1>3. CASE Next /\ hash = NoHash
  <2>1. UNCHANGED redisVars /\ UNCHANGED order /\ now' \in Nat /\ DraftInv'
    BY <1>3, DraftStep DEF RunInv
  <2>2. hash' = NoHash BY <1>3, <2>1 DEF redisVars
  <2>3. AuctionInv'
    BY <2>1 DEF RunInv, redisVars, AuctionInv, RedisTypeOK, LeaderTopsBoard, CapMeansSold,
                OutcomeMatchesBids, EmptyUntilOpened, LeaderHasRaised, EmptyBoard
  <2>4. OrderMeansSold' BY <2>1 DEF DraftInv, OrderMeansSold
  <2> QED BY <1>1, <2>1, <2>2, <2>3, <2>4 DEF RunInv
<1>4. CASE Next /\ hash # NoHash
  <2>1. hash' # NoHash /\ AuctionInv' /\ RunningInv' /\ OrderMeansSold'
    BY <1>4, RunStep DEF RunInv
  <2> QED BY <1>1, <2>1 DEF RunInv
<1> QED BY <1>2, <1>3, <1>4

(* The invariant holds all along such a history. *)
THEOREM RunInvariant ==
  ASSUME Steady PROVE Spec => []RunInv
<1>1. RunInv /\ [Next]_vars => RunInv' BY NextRun
<1> QED BY <1>1, InitRun, PTL DEF Spec

----
(***************************************************************************)
(* What follows from it.                                                   *)
(***************************************************************************)
(* MySQL never shows a version Redis has not reached, and at the version   *)
(* of Redis it shows the same running auction, however the transactions    *)
(* that mirror it overlap.                                                 *)
THEOREM MirrorIsBehind ==
  ASSUME Steady PROVE Spec => []MirrorBehind
<1>1. RunInv => MirrorBehind
  <2> SUFFICES ASSUME RunInv, hash # NoHash
               PROVE  /\ row.version <= hash.version
                      /\ row.version = hash.version /\ hash.status = "RUNNING" => row = hash
    BY DEF MirrorBehind
  <2>1. row.version <= hash.version BY RowIsBehind DEF RunInv, RunningInv
  <2>2. ASSUME row.version = hash.version, hash.status = "RUNNING" PROVE row = hash
    <3>1. row.version \in Nat /\ hash.version \in Nat BY RunTypes DEF RunInv
    <3> QED BY <2>2, <3>1 DEF RunInv, RunningInv, RowEarlier, Earlier, Closed
  <2> QED BY <2>1, <2>2
<1> QED BY <1>1, RunInvariant, PTL

(* When no call is in flight MySQL has caught up: with the version and the *)
(* status, with every accepted bid, and with the order of a sale.          *)
THEOREM MirrorCatchesUp ==
  ASSUME Undisturbed PROVE Spec => []MirrorCaughtUp
<1>1. RunInv => MirrorCaughtUp
  <2> SUFFICES ASSUME RunInv, Quiet, hash # NoHash
               PROVE  /\ row.version = hash.version /\ row.status = hash.status
                      /\ keys = {r \in Requests : bids[r] # NoBid}
                      /\ hash.status = "SOLD" => order # NoOrder
    BY DEF MirrorCaughtUp
  <2>1. RunningInv /\ AuctionInv /\ ServiceInv BY DEF RunInv
  <2>2. \A c \in Calls : ~ Accepted(c) /\ ~ Closing(c)
    BY DEF Quiet, InFlight, Accepted, Closing
  <2>3. row.version \in Nat /\ hash.version \in Nat /\ row.version <= hash.version
    BY <2>1, RunTypes, RowIsBehind DEF RunningInv
  <2>4. ~ (row.version < hash.version)
    BY <2>1, <2>2 DEF Undisturbed, RunningInv, Brought, Brings
  <2>5. row.version = hash.version BY <2>3, <2>4
  <2>6. row.status = hash.status BY <2>1, <2>3, <2>5 DEF RunningInv, RowEarlier, Earlier
  <2>7. keys = {r \in Requests : bids[r] # NoBid}
    <3>1. keys \subseteq Requests BY <2>1 DEF ServiceInv, StoresOK
    <3>2. \A r \in Requests : r \in keys <=> bids[r] # NoBid
      BY <2>1, <2>2 DEF Undisturbed, RunningInv, KeysInv, Taken
    <3> QED BY <3>1, <3>2
  <2>8. hash.status = "SOLD" => order # NoOrder
    BY <2>1, <2>6 DEF ServiceInv, StoresOK, RowSoldHasOrder
  <2> QED BY <2>5, <2>6, <2>7, <2>8
<1>2. Steady BY DEF Steady, Undisturbed
<1> QED BY <1>1, <1>2, RunInvariant, PTL

(* An order belongs to an auction that Redis sold, names a user who has    *)
(* bid, and asks for no more than the final price: bids, cancel() and the  *)
(* settlement never produce two outcomes.                                  *)
THEOREM OneOutcome ==
  ASSUME Steady PROVE Spec => []OrderMeansSold
<1>1. RunInv => OrderMeansSold BY DEF RunInv
<1> QED BY <1>1, RunInvariant, PTL

(* Redis knows every recorded bid: its requestId, its bidder and its price, *)
(* so that nobody is charged twice for a request that is sent again, also   *)
(* when the process died before it answered.                                *)
THEOREM RecordedBidIsKnown ==
  ASSUME Steady PROVE Spec => []RecordedIsKnown
<1>1. RunInv => RecordedIsKnown
  <2> SUFFICES ASSUME RunInv, NEW r \in Requests, bids[r] # NoBid
               PROVE  /\ hash # NoHash /\ r \in keys
                      /\ board[bids[r].user] > 0 /\ bids[r].amount <= hash.price
    BY DEF RecordedIsKnown
  <2>1. hash # NoHash /\ RunningInv BY DEF RunInv, DraftInv
  <2> QED BY <2>1 DEF RunningInv, KeysInv, Taken, RowsReached
<1> QED BY <1>1, RunInvariant, PTL

----
(* What the steps of the service look like from Redis: nothing, a tick of  *)
(* the clock, or one of the three scripts.                                 *)
LEMMA RedisSteps ==
  ASSUME Steady, RunInv, [Next]_vars
  PROVE  \/ UNCHANGED <<redisVars, now>>
         \/ UNCHANGED redisVars /\ now < MaxTime /\ now' = now + 1
         \/ /\ \E c \in BidCalls : AcceptBid(input[c].req, input[c].user, input[c].amount)
            /\ now' = now
         \/ CancelRunning /\ now' = now
         \/ FinishExpired /\ now' = now
<1>0. \A c \in Calls : call[c].pc \notin {"init", "undo.exec"}
  BY DEF RunInv, DraftInv, DraftCall, RunningInv, RunCall
<1>1. CASE \E c \in BidCalls : BidStep(c)
  <2>1. PICK c \in BidCalls : BidStep(c) BY <1>1
  <2>2. ~ UndoExec(c) BY <1>0 DEF UndoExec, At, Calls
  <2>3. BidEval(c) \/ UNCHANGED <<redisVars, now>>
    BY <2>1, <2>2
    DEF BidStep, BidArrives, BidMisses, BidRefused, BidRead, BidLoad, BidCommit, BidConflicts,
        BidReply, UndoLoad, UndoBoard
  <2> QED BY <2>3 DEF BidEval
<1>2. CASE \E c \in CancelCalls : CancelStep(c)
  BY <1>2 DEF CancelStep, CancelLoad, CancelEval, CancelRefused, CancelSave
<1>3. CASE SettleStep
  BY <1>3 DEF SettleStep, SettleScan, SettleEval, SettleSkips, SettleSave
<1>4. CASE \E c \in UpdateCalls : UpdateStep(c) BY <1>4 DEF UpdateStep, UpdateLoad, UpdateSave
<1>5. CASE \E c \in PayCalls : PayStep(c) BY <1>5 DEF PayStep, PayLoad, PaySave
<1>6. CASE \E c \in Calls : Ensure(c) \/ InitRedis(c)
  <2>1. PICK c \in Calls : Ensure(c) \/ InitRedis(c) BY <1>6
  <2>2. ~ InitRedis(c) BY <1>0 DEF InitRedis, At
  <2> QED BY <2>1, <2>2 DEF Ensure
<1>7. CASE Tick BY <1>7 DEF Tick
<1>8. CASE Fault
  BY <1>8, SteadyFaults DEF BidResent, CancelResent, SettleResent, Crash
<1>9. ~ \E c \in StartCalls : StartStep(c) BY DEF Steady
<1>10. CASE UNCHANGED vars BY <1>10 DEF vars, redisVars
<1> QED BY <1>1, <1>2, <1>3, <1>4, <1>5, <1>6, <1>7, <1>8, <1>9, <1>10 DEF Next

(* A row that says how the auction was closed is the last word. *)
LEMMA ClosedRowIsLast ==
  ASSUME RunningInv, row.status \in Closed
  PROVE  row.version = hash.version
BY DEF RunningInv, RowEarlier, Earlier, Closed

(* The hash moves forward only. *)
LEMMA HashOnward ==
  ASSUME Steady, RunInv, [Next]_vars, hash # NoHash
  PROVE  hash' # NoHash /\ Onward(hash, hash')
<1>0. /\ hash \in AuctionState /\ hash.price \in Nat /\ AuctionInv /\ ServiceInv
      /\ hash.version \in Nat
  BY RunTypes DEF RunInv
<1>1. CASE UNCHANGED redisVars
  <2>1. hash' = hash /\ hash.price >= hash.price BY <1>0, <1>1 DEF redisVars
  <2> QED BY <2>1 DEF Onward
<1>2. CASE \E c \in BidCalls : AcceptBid(input[c].req, input[c].user, input[c].amount)
  <2>1. PICK c \in BidCalls : AcceptBid(input[c].req, input[c].user, input[c].amount) BY <1>2
  <2>2. /\ hash.status = "RUNNING"
        /\ hash' \in AuctionState /\ hash'.price >= hash.price
    BY <1>0, <2>1, BidInput, BidAdvances
  <2> QED BY <2>2, NoHashAssumption DEF Onward, Closed
<1>3. CASE CancelRunning \/ FinishExpired
  <2>1. hash.status = "RUNNING" /\ hash' \in AuctionState
    BY <1>0, <1>3, CancelledHash, FinishedHash
  <2>2. hash'.price = hash.price BY <1>0, <1>3 DEF CancelRunning, FinishExpired, AuctionState
  <2>3. hash'.price >= hash.price BY <1>0, <2>2
  <2> QED BY <2>1, <2>3, NoHashAssumption DEF Onward, Closed
<1> QED BY <1>1, <1>2, <1>3, RedisSteps

(* And so does the row: a state that was read earlier and arrives late is  *)
(* either newer than the row, and then not cheaper, or not written.        *)
LEMMA RowOnward ==
  ASSUME Steady, RunInv, [Next]_vars, row.status # "DRAFT"
  PROVE  Onward(row, row')
<1>0. hash # NoHash BY DEF RunInv, DraftInv
<1>1. /\ ServiceInv /\ AuctionInv /\ RunningInv
      /\ row \in AuctionState /\ hash \in AuctionState
      /\ row.price \in Nat /\ row.version \in Nat /\ hash.version \in Nat
  BY <1>0, RunTypes DEF RunInv
<1>2. row' = row => Onward(row, row') BY <1>1 DEF Onward
<1>3. ASSUME NEW c \in BidCalls, BidCommit(c) PROVE Onward(row, row')
  <2> DEFINE s == call[c].seen
  <2>1. /\ c \in Calls /\ call[c].pc = "commit" /\ Accepted(c) /\ RunCall(c)
    BY <1>1, <1>3, BidInput DEF BidCommit, At, Accepted, RunningInv
  <2>2. s \in AuctionState BY <1>0, <1>1, <2>1, RunTypes
  <2>3. Earlier(s) /\ InOrder(row, s) BY <2>1 DEF RunCall
  <2>4. s.version <= hash.version /\ s.version \in Nat /\ s.price \in Nat
    BY <1>1, <2>2, <2>3, EarlierIsBehind DEF AuctionState
  <2>5. CASE ~ (row.version < s.version) BY <1>2, <1>3, <2>5 DEF BidCommit, Mirror
  <2>6. CASE row.version < s.version
    <3>1. row.status \notin Closed BY <1>1, <2>4, <2>6, ClosedRowIsLast
    <3>2. row'.price = s.price BY <1>1, <1>3, <2>6 DEF BidCommit, Mirror, AuctionState
    <3>3. row.price <= s.price BY <2>3, <2>6 DEF InOrder
    <3> QED BY <1>1, <2>4, <3>1, <3>2, <3>3 DEF Onward
  <2> QED BY <2>5, <2>6
<1>4. ASSUME NEW c \in Calls, Closing(c), row' # row, row'.price = row.price,
             row.version < call[c].seen.version
      PROVE  Onward(row, row')
  <2>1. call[c].seen = hash BY <1>1, <1>4 DEF RunningInv, RunCall
  <2>2. row.status \notin Closed BY <1>1, <1>4, <2>1, ClosedRowIsLast
  <2> QED BY <1>1, <1>4, <2>2 DEF Onward
<1>5. CASE \E c \in CancelCalls : CancelSave(c)
  <2>1. PICK c \in CancelCalls : CancelSave(c) BY <1>5
  <2>2. c \in Calls /\ Closing(c) BY <2>1 DEF CancelSave, At, Closing, Calls
  <2>3. row' # row => row.version < call[c].seen.version /\ row'.price = row.price
    BY <1>1, <2>1 DEF CancelSave, AuctionState
  <2> QED BY <1>2, <1>4, <2>2, <2>3
<1>6. CASE SettleSave
  <2>1. Timer \in Calls /\ Closing(Timer) BY <1>6 DEF SettleSave, At, Closing, Calls
  <2>2. row' # row => row.version < call[Timer].seen.version /\ row'.price = row.price
    BY <1>1, <1>6 DEF SettleSave, AuctionState
  <2> QED BY <1>2, <1>4, <2>1, <2>2
<1>7. ~ \E c \in UpdateCalls : UpdateSave(c)
  BY <1>1 DEF UpdateSave, At, RunningInv, RunCall, Calls
<1>8. ~ \E c \in StartCalls : StartSave(c) BY DEF Steady
<1>9. CASE \E c \in PayCalls : PaySave(c) BY <1>2, <1>9 DEF PaySave
<1>10. CASE UNCHANGED vars BY <1>2, <1>10 DEF vars
<1> QED BY <1>2, <1>3, <1>5, <1>6, <1>7, <1>8, <1>9, <1>10, WhoWrites

(* The price does not fall and a closed auction does not reopen or change  *)
(* its outcome, neither in Redis nor in MySQL, although the transactions   *)
(* of the bids commit in any order.                                        *)
THEOREM OnlyForward ==
  ASSUME Steady PROVE Spec => NeverBackward
<1>1. RunInv /\ [Next]_vars =>
        [/\ hash # NoHash => hash' # NoHash /\ Onward(hash, hash')
         /\ row.status # "DRAFT" => Onward(row, row')]_vars
  BY HashOnward, RowOnward
<1> QED BY <1>1, RunInvariant, PTL DEF Spec, NeverBackward

----
(* RedisAuction lets a bid be at most an increment above the cap: whatever *)
(* a larger bid does, that one does too.                                   *)
LEMMA BoundedBid ==
  ASSUME AuctionInv, NEW r \in Requests, NEW u \in Users, NEW amount \in Nat,
         AcceptBid(r, u, amount)
  PROVE  \E a \in 0 .. hash.rules.cap + hash.rules.inc : AcceptBid(r, u, a)
<1>1. hash # NoHash /\ hash \in AuctionState /\ hash.rules \in Rules
  BY AcceptedBid, RulesAssumption DEF AcceptBid, AuctionInv, RedisTypeOK, AuctionState
<1>2. /\ hash.price \in Nat /\ hash.rules.cap \in Nat /\ hash.rules.inc \in Nat
      /\ hash.price <= hash.rules.cap
  BY <1>1 DEF AuctionState, Rules, AuctionInv, CapMeansSold
<1> DEFINE top == hash.rules.cap + hash.rules.inc
<1>3. CASE amount <= top
  <2>1. amount \in 0 .. top BY <1>2, <1>3
  <2> QED BY <2>1
<1>4. CASE ~ (amount <= top)
  <2>1. top \in 0 .. top /\ ~ (top < hash.price + hash.rules.inc) /\ ~ (top < hash.rules.cap)
        /\ ~ (amount < hash.rules.cap)
    BY <1>2, <1>4
  <2> HIDE DEF top
  <2>2. BidCode(r, u, top) = "ACCEPTED" BY <2>1 DEF AcceptBid, BidCode
  <2>3. AcceptedPrice(hash, top) = AcceptedPrice(hash, amount)
    BY <2>1 DEF AcceptedPrice
  <2>4. Extends(hash, top) = Extends(hash, amount) BY <2>3 DEF Extends
  <2>5. AfterBid(hash, u, top) = AfterBid(hash, u, amount) BY <2>3, <2>4 DEF AfterBid
  <2>6. AcceptBid(r, u, top) BY <2>2, <2>3, <2>5 DEF AcceptBid
  <2> QED BY <2>1, <2>6 DEF top
<1> QED BY <1>3, <1>4

(* The service starts as the auction of RedisAuction does. *)
LEMMA InitRefines == Init => Redis!Init
<1> SUFFICES ASSUME Init PROVE Redis!Init OBVIOUS
<1>1. now = 0 /\ board = EmptyBoard /\ keys = {} BY DEF Init
<1>2. PICK rules \in RuleSet :
        \/ row = Created(rules) /\ hash = NoHash
        \/ row = Started(Created(rules), rules.duration) /\ hash = row
  BY DEF Init
<1>3. rules.duration \in Nat BY RulesAssumption DEF Rules
<1>4. Started(Created(rules), rules.duration) = Redis!OpeningState(rules)
  <2> DEFINE s == Created(rules)
             t == [s EXCEPT !.status = "RUNNING", !.endAt = rules.duration, !.version = 1]
  <2>1. rules.start \in Nat BY RulesAssumption DEF Rules
  <2>2. /\ s \in AuctionState
        /\ s.version + 1 = 1 /\ s.price = rules.start /\ s.leader = NoUser
        /\ s.reason = "none" /\ s.rules = rules
    BY <2>1 DEF Created, AuctionState, Statuses, Reasons
  <2>3. Started(Created(rules), rules.duration) = t BY <2>2 DEF Started
  <2>4. now + rules.duration = rules.duration BY <1>1, <1>3
  <2> DEFINE o == Redis!OpeningState(rules)
  <2>5. /\ o \in AuctionState /\ o.status = "RUNNING" /\ o.price = rules.start
        /\ o.leader = NoUser /\ o.endAt = rules.duration /\ o.version = 1
        /\ o.reason = "none" /\ o.rules = rules
    BY <1>3, <2>1, <2>4 DEF Redis!OpeningState, AuctionState, Statuses, Reasons
  <2> HIDE DEF s
  <2>6. /\ t \in AuctionState /\ t.status = "RUNNING" /\ t.price = rules.start
        /\ t.leader = NoUser /\ t.endAt = rules.duration /\ t.version = 1
        /\ t.reason = "none" /\ t.rules = rules
    BY <1>3, <2>2 DEF AuctionState, Statuses
  <2> HIDE DEF t, o
  <2>7. t = o BY <2>5, <2>6 DEF AuctionState
  <2> QED BY <2>3, <2>7 DEF o
<1> QED BY <1>1, <1>2, <1>4 DEF Redis!Init, Redis!EmptyBoard, EmptyBoard

(* And every step of it is a script, a tick or nothing to Redis. *)
LEMMA StepRefines ==
  ASSUME Steady, RunInv, [Next]_vars
  PROVE  [Redis!Next]_Redis!vars
<1>1. CASE UNCHANGED <<redisVars, now>> BY <1>1 DEF redisVars, Redis!vars
<1>2. CASE UNCHANGED redisVars /\ now < MaxTime /\ now' = now + 1
  BY <1>2 DEF redisVars, Redis!Next, Redis!Tick, Redis!redisVars
<1>3. CASE /\ \E c \in BidCalls : AcceptBid(input[c].req, input[c].user, input[c].amount)
           /\ now' = now
  <2>1. PICK c \in BidCalls : AcceptBid(input[c].req, input[c].user, input[c].amount) BY <1>3
  <2> DEFINE r == input[c].req
             u == input[c].user
  <2>2. r \in Requests /\ u \in Users /\ input[c].amount \in Nat BY BidInput DEF RunInv
  <2>3. PICK a \in 0 .. hash.rules.cap + hash.rules.inc : AcceptBid(r, u, a)
    BY <2>1, <2>2, BoundedBid DEF RunInv
  <2> HIDE DEF r, u
  <2>4. hash # NoHash BY <2>3, AcceptedBid DEF AcceptBid
  <2>5. Redis!AcceptBid(r, u, a)
    BY <2>3
    DEF AcceptBid, BidCode, AfterBid, AcceptedPrice, Extends,
        Redis!AcceptBid, Redis!BidCode, Redis!AfterBid, Redis!AcceptedPrice, Redis!Extends
  <2>6. Redis!Bid(r, u) BY <1>3, <2>4, <2>5 DEF Redis!Bid
  <2> QED BY <2>2, <2>6 DEF Redis!Next
<1>4. CASE CancelRunning /\ now' = now
  <2>1. Redis!Cancel
    BY <1>4 DEF CancelRunning, CancelCode, Redis!Cancel, Redis!CancelRunning, Redis!CancelCode
  <2> QED BY <2>1 DEF Redis!Next
<1>5. CASE FinishExpired /\ now' = now
  <2>1. Redis!Finish
    BY <1>5 DEF FinishExpired, FinishCode, Redis!Finish, Redis!FinishExpired, Redis!FinishCode
  <2> QED BY <2>1 DEF Redis!Next
<1> QED BY <1>1, <1>2, <1>3, <1>4, <1>5, RedisSteps

(* The service implements the auction of RedisAuction: what is proved there *)
(* of the scripts alone (the leader, the cap, the deadline, the English     *)
(* auction) holds of the handlers that overlap, with every bid, whatever    *)
(* its amount.                                                              *)
THEOREM ServiceImplementsRedisAuction ==
  ASSUME Steady PROVE Spec => ImplementsRedisAuction
<1>1. RunInv /\ [Next]_vars => [Redis!Next]_Redis!vars BY StepRefines
<1> QED BY <1>1, InitRefines, RunInvariant, PTL DEF Spec, ImplementsRedisAuction, Redis!Spec

----
(* What Redis goes through in the service is a script or nothing. *)
LEMMA ServiceStepIsScript ==
  ASSUME Steady, RunInv, [Next]_vars
  PROVE  OneScript \/ UNCHANGED redisVars
<1>1. CASE \E c \in BidCalls : AcceptBid(input[c].req, input[c].user, input[c].amount)
  <2>1. PICK c \in BidCalls : AcceptBid(input[c].req, input[c].user, input[c].amount) BY <1>1
  <2>2. input[c].req \in Requests /\ input[c].user \in Users /\ input[c].amount \in Nat
    BY BidInput DEF RunInv
  <2> QED BY <2>1, <2>2 DEF OneScript
<1> QED BY <1>1, RedisSteps DEF OneScript, redisVars

(* The service starts with an auction that is unopened or just opened. *)
LEMMA InitIsEnglish == Init => English!Init
<1> SUFFICES ASSUME Init PROVE English!Init OBVIOUS
<1>1. board = EmptyBoard BY DEF Init
<1>2. CASE hash = NoHash BY <1>1, <1>2, RulesAssumption DEF English!Init, EmptyBoard
<1>3. CASE hash # NoHash
  <2>1. PICK rules \in RuleSet : hash = Started(Created(rules), rules.duration)
    BY <1>3 DEF Init
  <2>2. hash.status = "RUNNING" /\ hash.rules \in RuleSet BY <2>1 DEF Started, Created
  <2> QED BY <1>1, <1>3, <2>2 DEF English!Init, EmptyBoard
<1> QED BY <1>2, <1>3

(* Read off Redis, the handlers that overlap, die and send their scripts    *)
(* twice hold the auction a textbook describes: every accepted bid beats    *)
(* all the others, and the item goes to whoever is on top when it is sold.  *)
THEOREM ServiceImplementsEnglishAuction == ASSUME Steady PROVE Spec => English!Spec
<1>1. RunInv /\ [Next]_vars => [English!Next]_English!vars
  <2> SUFFICES ASSUME RunInv, [Next]_vars PROVE [English!Next]_English!vars OBVIOUS
  <2>1. CASE OneScript BY <2>1, ScriptIsEnglish DEF RunInv
  <2>2. CASE UNCHANGED redisVars BY <2>2 DEF redisVars, English!vars
  <2> QED BY <2>1, <2>2, ServiceStepIsScript
<1> QED BY <1>1, InitIsEnglish, RunInvariant, PTL DEF Spec, English!Spec

(* A bid the service takes near the end leaves the others time to answer,   *)
(* whatever calls are in flight, and also when its process dies.            *)
THEOREM ServiceLeavesTimeToAnswer == ASSUME Steady PROVE Spec => [][LeavesTimeToAnswer]_vars
<1>1. RunInv /\ [Next]_vars => [LeavesTimeToAnswer]_vars
  <2> SUFFICES ASSUME RunInv, [Next]_vars PROVE LeavesTimeToAnswer OBVIOUS
  <2>1. UNCHANGED redisVars => LeavesTimeToAnswer BY DEF redisVars, LeavesTimeToAnswer
  <2> QED BY <2>1, ServiceStepIsScript, ScriptLeavesTime DEF RunInv
<1> QED BY <1>1, RunInvariant, PTL DEF Spec

(* The service sells before the deadline at the cap only, and never moves   *)
(* the deadline closer.                                                     *)
THEOREM ServiceClosesInTime == ASSUME Steady PROVE Spec => [][ClosesInTime]_vars
<1>1. RunInv /\ [Next]_vars => [ClosesInTime]_vars
  <2> SUFFICES ASSUME RunInv, [Next]_vars PROVE ClosesInTime OBVIOUS
  <2> QED BY ServiceStepIsScript, ScriptClosesInTime, UnchangedClosesInTime DEF RunInv
<1> QED BY <1>1, RunInvariant, PTL DEF Spec

(* The keys agree with one another at every moment: the leader tops the     *)
(* leaderboard at the price, the cap is reached only by a sale, and nobody  *)
(* wins an auction without bids.                                            *)
THEOREM ServiceKeysAgree ==
  ASSUME Steady
  PROVE  Spec => [](LeaderTopsBoard /\ CapMeansSold /\ OutcomeMatchesBids)
<1>1. RunInv => LeaderTopsBoard /\ CapMeansSold /\ OutcomeMatchesBids BY DEF RunInv, AuctionInv
<1> QED BY <1>1, RunInvariant, PTL
===============================================================================
