--------------------------- MODULE SettlementProofs ---------------------------
(***************************************************************************)
(* The settlement timer, for any number of auctions, of overlapping passes *)
(* and of failures: types, the flag, and that an auction is settled once.  *)
(***************************************************************************)
EXTENDS Settlement, TLAPS

(* What a call has read is there while it runs. *)
SeenIsRead ==
  \A p \in Passes, a \in Auctions : task[p][a].pc # "none" => task[p][a].seen \in State

(* A pass has calls only between its findMany and its end. *)
BusyPass ==
  \A p \in Passes, a \in Auctions : task[p][a].pc # "none" => pass[p] \in {"all", "rejected"}

(* A key that was there stays there: nobody has to initialize it. *)
WarmStaysWarm ==
  \A a \in Auctions \ Cold :
    redis[a] # NoHash /\ \A p \in Passes : task[p][a].pc # "initialize"

(* Who settles a warm auction has closed it in Redis, for good. *)
ClosedFirst ==
  \A a \in Auctions \ Cold :
    (a \in announced \/ \E p \in Passes : Settles(p, a)) => redis[a].status # "RUNNING"

SettlementInv ==
  /\ TypeOK /\ SeenIsRead /\ BusyPass /\ OneAwaited
  /\ WarmStaysWarm /\ ClosedFirst /\ SettledOnce

USE SettlementAssumption, NullsAssumption

----
LEMMA InitSettlement == Init => SettlementInv
<1> SUFFICES ASSUME Init PROVE SettlementInv
  OBVIOUS
<1>1. row \in [Auctions -> State]
  <2>1. PICK led \in [Auctions -> BOOLEAN] :
          row = [a \in Auctions |->
                   [status |-> "RUNNING", endAt |-> 1, led |-> led[a], version |-> 0]]
    BY DEF Init
  <2>2. 1 \in 0 .. MaxTime OBVIOUS
  <2> QED BY <2>1, <2>2 DEF State
<1>2. redis \in [Auctions -> State \cup {NoHash}] BY <1>1 DEF Init
<1>3. NotRunning \in Task BY DEF NotRunning, Task
<1>4. task \in [Passes -> [Auctions -> Task]] BY <1>3 DEF Init
<1>5. TypeOK
  <2>1. now \in 0 .. MaxTime BY SMT DEF Init
  <2>4. settling \in BOOLEAN BY DEF Init
  <2>2. ordered \subseteq Auctions /\ announced \subseteq Auctions BY DEF Init
  <2>3. /\ bid \in [Auctions -> State \cup {NoBid}]
        /\ pass \in [Passes -> {"idle", "find", "all", "rejected"}]
    BY DEF Init
  <2> QED BY <1>1, <1>2, <1>4, <2>1, <2>2, <2>3, <2>4 DEF TypeOK
<1>6. \A p \in Passes, a \in Auctions : task[p][a].pc = "none" BY DEF Init, NotRunning
<1>7. \A a \in Auctions \ Cold : redis[a] # NoHash BY <1>1 DEF Init
<1> QED
  BY <1>5, <1>6, <1>7
     DEF Init, SettlementInv, SeenIsRead, BusyPass, OneAwaited, WarmStaysWarm, ClosedFirst, SettledOnce, Settles

----
(* A call that ends: the flag follows the pass that was awaited. *)
LEMMA CallEndsKeeps ==
  ASSUME TypeOK, BusyPass, OneAwaited, NEW p \in Passes, NEW a \in Auctions, NEW ok \in BOOLEAN,
         CallEnds(p, a, ok), task[p][a].pc # "none"
  PROVE  /\ task' \in [Passes -> [Auctions -> Task]]
         /\ pass' \in [Passes -> {"idle", "find", "all", "rejected"}]
         /\ settling' \in BOOLEAN
         /\ OneAwaited' /\ BusyPass'
         /\ task'[p][a] = NotRunning
         /\ \A q \in Passes, b \in Auctions : q # p \/ b # a => task'[q][b] = task[q][b]
<1>1. NotRunning \in Task BY DEF NotRunning, Task
<1>2. task' \in [Passes -> [Auctions -> Task]] BY <1>1 DEF CallEnds, TypeOK
<1>3. /\ task'[p][a] = NotRunning
      /\ \A q \in Passes, b \in Auctions : q # p \/ b # a => task'[q][b] = task[q][b]
  BY DEF CallEnds, TypeOK
<1>4. pass' \in [Passes -> {"idle", "find", "all", "rejected"}] BY DEF CallEnds, TypeOK
<1>5. pass[p] \in {"all", "rejected"} BY DEF BusyPass
<1>6. \A q \in Passes : q # p => pass'[q] = pass[q] BY DEF CallEnds, TypeOK
<1> DEFINE last == \A b \in Auctions \ {a} : task[p][b] = NotRunning
<1>7. /\ pass'[p] = IF last THEN "idle" ELSE IF ok THEN pass[p] ELSE "rejected"
      /\ settling' = IF pass[p] = "all" /\ (last \/ ~ ok) THEN FALSE ELSE settling
  BY DEF CallEnds, TypeOK
<1>8. BusyPass'
  <2> SUFFICES ASSUME NEW q \in Passes, NEW b \in Auctions, task'[q][b].pc # "none"
               PROVE  pass'[q] \in {"all", "rejected"}
    BY DEF BusyPass
  <2>1. q # p \/ b # a BY <1>3 DEF NotRunning
  <2>2. task[q][b].pc # "none" BY <1>3, <2>1
  <2>3. CASE q # p BY <1>6, <2>2, <2>3 DEF BusyPass
  <2>4. CASE q = p
    <3>1. ~ last BY <2>1, <2>2, <2>4 DEF NotRunning
    <3> QED BY <1>5, <1>7, <2>4, <3>1
  <2> QED BY <2>3, <2>4
<1> HIDE DEF last
<1>9. settling' \in BOOLEAN BY <1>7 DEF TypeOK
<1>10. OneAwaited' BY <1>5, <1>6, <1>7 DEF OneAwaited, TypeOK
<1> QED BY <1>2, <1>3, <1>4, <1>8, <1>9, <1>10

(***************************************************************************)
(* A call that ends takes nothing from the others, if it announces nothing *)
(* or was the one that settled.                                            *)
(***************************************************************************)
LEMMA EndedCallKeeps ==
  ASSUME SettlementInv, NEW p \in Passes, NEW a \in Auctions, NEW ok \in BOOLEAN,
         CallEnds(p, a, ok), task[p][a].pc # "none",
         announced' = announced \/ (Settles(p, a) /\ announced' = announced \cup {a}),
         UNCHANGED <<now, stores>>
  PROVE  SettlementInv'
<1>1. TypeOK /\ BusyPass /\ OneAwaited /\ SeenIsRead /\ WarmStaysWarm /\ ClosedFirst /\ SettledOnce
  BY DEF SettlementInv
<1>2. /\ task' \in [Passes -> [Auctions -> Task]]
      /\ pass' \in [Passes -> {"idle", "find", "all", "rejected"}]
      /\ settling' \in BOOLEAN
      /\ OneAwaited' /\ BusyPass'
      /\ task'[p][a] = NotRunning
      /\ \A q \in Passes, b \in Auctions : q # p \/ b # a => task'[q][b] = task[q][b]
  BY <1>1, CallEndsKeeps
<1>3. TypeOK' BY <1>1, <1>2 DEF TypeOK, stores
<1>4. SeenIsRead' BY <1>1, <1>2 DEF SeenIsRead, NotRunning
<1>5. WarmStaysWarm' BY <1>1, <1>2 DEF WarmStaysWarm, NotRunning, stores
<1>6. \A q \in Passes, b \in Auctions : Settles(q, b)' => Settles(q, b) /\ (q # p \/ b # a)
  BY <1>2 DEF Settles, NotRunning
<1>7. ClosedFirst' BY <1>1, <1>6 DEF ClosedFirst, stores
<1>8. SettledOnce'
  <2> SUFFICES ASSUME NEW b \in Auctions \ Cold, NEW q \in Passes, Settles(q, b)'
               PROVE  b \notin announced' /\ \A r \in Passes \ {q} : ~ Settles(r, b)'
    BY DEF SettledOnce
  <2>1. Settles(q, b) /\ (q # p \/ b # a) BY <1>6
  <2>2. b \notin announced /\ \A r \in Passes \ {q} : ~ Settles(r, b)
    BY <1>1, <2>1 DEF SettledOnce
  <2>3. b \notin announced' BY <2>1, <2>2
  <2> QED BY <1>6, <2>2, <2>3
<1> QED BY <1>2, <1>3, <1>4, <1>5, <1>7, <1>8 DEF SettlementInv

(* The steps that leave the calls and the flag alone and close nothing. *)
LEMMA StoreStepKeeps ==
  ASSUME SettlementInv, TypeOK', UNCHANGED <<settling, pass, task, announced>>,
         \A a \in Auctions \ Cold :
           redis'[a] # NoHash /\ (redis[a].status # "RUNNING" => redis'[a] = redis[a])
  PROVE  SettlementInv'
BY DEF SettlementInv, SeenIsRead, BusyPass, OneAwaited, WarmStaysWarm, ClosedFirst, SettledOnce, Settles

LEMMA BidKeeps ==
  ASSUME SettlementInv, NEW a \in Auctions, NEW sells \in BOOLEAN,
         AcceptBid(a, sells) \/ MirrorBid(a)
  PROVE  SettlementInv'
<1>1. TypeOK /\ WarmStaysWarm BY DEF SettlementInv
<1>2. CASE AcceptBid(a, sells)
  <2> DEFINE s == [status |-> IF sells THEN "SOLD" ELSE "RUNNING",
                   endAt |-> IF sells THEN redis[a].endAt ELSE redis[a].endAt + 1,
                   led |-> TRUE, version |-> redis[a].version + 1]
  <2>1. redis[a] \in State BY <1>1, <1>2 DEF AcceptBid, TypeOK
  <2>2. s \in State BY <1>2, <2>1 DEF AcceptBid, State
  <2>3. redis' = [redis EXCEPT ![a] = s] /\ bid' = [bid EXCEPT ![a] = redis'[a]]
    BY <1>2 DEF AcceptBid
  <2> HIDE DEF s
  <2>4. redis'[a] = s BY <1>1, <2>3 DEF TypeOK
  <2>5. s # NoHash BY <2>2
  <2>6. TypeOK' BY <1>1, <1>2, <2>2, <2>3, <2>4 DEF AcceptBid, TypeOK
  <2>7. \A b \in Auctions : b # a => redis'[b] = redis[b] BY <1>1, <2>3 DEF TypeOK
  <2>8. redis[a].status = "RUNNING" BY <1>2 DEF AcceptBid
  <2> QED BY <1>1, <1>2, <2>4, <2>5, <2>6, <2>7, <2>8, StoreStepKeeps DEF AcceptBid, WarmStaysWarm
<1>3. CASE MirrorBid(a)
  <2>1. bid[a] \in State BY <1>1, <1>3 DEF MirrorBid, TypeOK
  <2>2. TypeOK' BY <1>1, <1>3, <2>1 DEF MirrorBid, TypeOK
  <2> QED BY <1>1, <1>3, <2>2, StoreStepKeeps DEF MirrorBid, WarmStaysWarm
<1> QED BY <1>2, <1>3

LEMMA ClockKeeps == SettlementInv /\ ClockTicks => SettlementInv'
<1> SUFFICES ASSUME SettlementInv, ClockTicks PROVE SettlementInv'
  OBVIOUS
<1>1. TypeOK /\ WarmStaysWarm BY DEF SettlementInv
<1>2. now' \in 0 .. MaxTime BY <1>1 DEF ClockTicks, TypeOK
<1>3. TypeOK' BY <1>1, <1>2 DEF ClockTicks, TypeOK, stores
<1> QED BY <1>1, <1>3, StoreStepKeeps DEF ClockTicks, WarmStaysWarm, stores

----
(* A pass begins, reads what has expired, or fails to. *)
LEMMA PassKeeps ==
  ASSUME SettlementInv, NEW p \in Passes,
         StartPass(p) \/ FindExpired(p) \/ FindFails(p)
  PROVE  SettlementInv'
<1>1. TypeOK /\ BusyPass /\ OneAwaited /\ SeenIsRead /\ WarmStaysWarm /\ ClosedFirst /\ SettledOnce
  BY DEF SettlementInv
<1>2. UNCHANGED <<now, stores, announced>> BY DEF StartPass, FindExpired, FindFails
<1>3. CASE StartPass(p) \/ FindFails(p)
  <2>1. UNCHANGED task BY <1>3 DEF StartPass, FindFails
  <2>2. TypeOK' BY <1>1, <1>2, <1>3 DEF StartPass, FindFails, TypeOK, stores
  <2>3. BusyPass'
    <3>1. pass[p] \in {"idle", "find"} BY <1>3 DEF StartPass, FindFails
    <3>2. \A q \in Passes : q # p => pass'[q] = pass[q]
      BY <1>1, <1>3 DEF StartPass, FindFails, TypeOK
    <3> QED BY <1>1, <2>1, <3>1, <3>2 DEF BusyPass
  <2>4. OneAwaited' BY <1>1, <1>3 DEF OneAwaited, StartPass, FindFails, TypeOK
  <2> QED
    BY <1>1, <1>2, <2>1, <2>2, <2>3, <2>4
       DEF SettlementInv, SeenIsRead, WarmStaysWarm, ClosedFirst, SettledOnce, Settles, stores
<1>4. CASE FindExpired(p)
  <2> DEFINE called == [a \in Auctions |->
                IF a \in Due THEN [pc |-> "look", seen |-> row[a]] ELSE NotRunning]
  <2>1. called \in [Auctions -> Task] BY <1>1 DEF TypeOK, Task, NotRunning
  <2>2. task' = [task EXCEPT ![p] = called] BY <1>4 DEF FindExpired
  <2>3. \A a \in Auctions : /\ called[a].pc \in {"look", "none"}
                            /\ called[a].pc # "none" => a \in Due /\ called[a].seen = row[a]
    BY DEF NotRunning
  <2>4. /\ pass' = [pass EXCEPT ![p] = IF Due = {} THEN "idle" ELSE "all"]
        /\ settling' = (Due # {}) /\ pass[p] = "find"
    BY <1>4 DEF FindExpired
  <2>5. Due \subseteq Auctions BY DEF Due
  <2> HIDE DEF called
  <2>6. /\ task'[p] = called
        /\ \A q \in Passes : q # p => task'[q] = task[q]
    BY <1>1, <2>2 DEF TypeOK
  <2>7. TypeOK' BY <1>1, <1>2, <2>1, <2>2, <2>4 DEF TypeOK, stores
  <2>8. SeenIsRead' BY <1>1, <2>3, <2>6 DEF SeenIsRead, TypeOK
  <2>9. BusyPass' BY <1>1, <2>3, <2>4, <2>6 DEF BusyPass, TypeOK
  <2>10. OneAwaited'
    <3>1. \A q \in Passes : q # p => pass[q] \notin {"find", "all"}
      BY <1>1, <2>4 DEF OneAwaited
    <3>2. \A q \in Passes : q # p => pass'[q] = pass[q] BY <1>1, <2>4 DEF TypeOK
    <3>3. pass'[p] = IF Due = {} THEN "idle" ELSE "all" BY <1>1, <2>4 DEF TypeOK
    <3>4. \A q \in Passes : pass'[q] \in {"find", "all"} <=> (q = p /\ Due # {})
      BY <3>1, <3>2, <3>3
    <3>5. settling' <=> \E q \in Passes : pass'[q] \in {"find", "all"} BY <2>4, <3>4
    <3> QED BY <3>4, <3>5 DEF OneAwaited
  <2>11. WarmStaysWarm' BY <1>1, <1>2, <2>3, <2>6 DEF WarmStaysWarm, stores
  <2>12. \A q \in Passes, a \in Auctions : Settles(q, a)' => Settles(q, a)
    BY <2>3, <2>6 DEF Settles
  <2> QED
    BY <1>1, <1>2, <2>7, <2>8, <2>9, <2>10, <2>11, <2>12
       DEF SettlementInv, ClosedFirst, SettledOnce, stores
<1> QED BY <1>3, <1>4

(* A call that goes on without having closed anything. *)
LEMMA GoToKeeps ==
  ASSUME SettlementInv, NEW p \in Passes, NEW a \in Auctions, NEW pc, task[p][a].pc # "none",
         GoTo(p, a, pc), TypeOK', UNCHANGED announced,
         pc \in {"initialize", "finish"} \/ (pc = "emit" /\ Settles(p, a)),
         pc = "initialize" => a \in Cold,
         \A b \in Auctions \ Cold : redis'[b] = redis[b]
  PROVE  SettlementInv'
<1>1. TypeOK /\ BusyPass /\ OneAwaited /\ SeenIsRead /\ WarmStaysWarm /\ ClosedFirst /\ SettledOnce
  BY DEF SettlementInv
<1>2. UNCHANGED <<settling, pass>> /\ task' = [task EXCEPT ![p][a].pc = pc] BY DEF GoTo
<1>3. /\ task'[p][a] = [task[p][a] EXCEPT !.pc = pc]
      /\ \A q \in Passes, b \in Auctions : q # p \/ b # a => task'[q][b] = task[q][b]
  BY <1>1, <1>2 DEF TypeOK
<1>4. task[p][a] \in Task BY <1>1 DEF TypeOK
<1>5. task'[p][a].pc = pc /\ task'[p][a].seen = task[p][a].seen BY <1>3, <1>4 DEF Task
<1>6. SeenIsRead'
  <2> SUFFICES ASSUME NEW q \in Passes, NEW b \in Auctions, task'[q][b].pc # "none"
               PROVE  task'[q][b].seen \in State
    BY DEF SeenIsRead
  <2>1. CASE q = p /\ b = a BY <1>1, <1>5, <2>1 DEF SeenIsRead
  <2>2. CASE q # p \/ b # a BY <1>1, <1>3, <2>2 DEF SeenIsRead
  <2> QED BY <2>1, <2>2
<1>7. BusyPass' BY <1>1, <1>2, <1>3 DEF BusyPass
<1>8. OneAwaited' BY <1>1, <1>2 DEF OneAwaited
<1>9. WarmStaysWarm'
  <2>1. \A q \in Passes, b \in Auctions \ Cold : task'[q][b].pc # "initialize"
    <3> SUFFICES ASSUME NEW q \in Passes, NEW b \in Auctions \ Cold
                 PROVE  task'[q][b].pc # "initialize"
      OBVIOUS
    <3>1. CASE q = p /\ b = a BY <1>5, <3>1
    <3>2. CASE q # p \/ b # a BY <1>1, <1>3, <3>2 DEF WarmStaysWarm
    <3> QED BY <3>1, <3>2
  <2> QED BY <1>1, <2>1 DEF WarmStaysWarm
<1>10. \A q \in Passes, b \in Auctions : Settles(q, b)' => Settles(q, b) BY <1>3, <1>5 DEF Settles
<1>11. ClosedFirst' /\ SettledOnce' BY <1>1, <1>10 DEF ClosedFirst, SettledOnce
<1> QED BY <1>6, <1>7, <1>8, <1>9, <1>11 DEF SettlementInv

LEMMA CallKeeps ==
  ASSUME SettlementInv, NEW p \in Passes, NEW a \in Auctions,
         CallSteps(p, a) \/ CallFails(p, a)
  PROVE  SettlementInv'
<1>1. TypeOK /\ BusyPass /\ OneAwaited /\ SeenIsRead /\ WarmStaysWarm /\ ClosedFirst /\ SettledOnce
  BY DEF SettlementInv
<1>2. task[p][a] \in Task BY <1>1 DEF TypeOK
<1>3. CASE LookUp(p, a)
  <2> DEFINE pc == IF redis[a] = NoHash THEN "initialize" ELSE "finish"
  <2>1. GoTo(p, a, pc) /\ task[p][a].pc # "none" /\ UNCHANGED <<now, stores, announced>>
    BY <1>3 DEF LookUp
  <2>2. pc \in {"initialize", "finish"} /\ (pc = "initialize" => a \in Cold)
    BY <1>1 DEF WarmStaysWarm
  <2> HIDE DEF pc
  <2>3. TypeOK' BY <1>1, <1>2, <2>1, <2>2 DEF GoTo, TypeOK, Task, stores
  <2> QED BY <2>1, <2>2, <2>3, GoToKeeps DEF stores
<1>4. CASE InitializeKey(p, a)
  <2>1. task[p][a].seen \in State BY <1>1, <1>4 DEF SeenIsRead, InitializeKey
  <2>2. a \in Cold BY <1>1, <1>4 DEF WarmStaysWarm, InitializeKey
  <2>3. TypeOK' BY <1>1, <1>2, <1>4, <2>1 DEF InitializeKey, GoTo, TypeOK, Task
  <2>4. \A b \in Auctions \ Cold : redis'[b] = redis[b] BY <1>1, <1>4, <2>2 DEF InitializeKey, TypeOK
  <2> QED BY <1>4, <2>3, <2>4, GoToKeeps DEF InitializeKey
<1>5. CASE FinishScript(p, a) /\ ~ MayFinish(a)
  <2>1. CallEnds(p, a, TRUE) /\ UNCHANGED <<now, stores, announced>> /\ task[p][a].pc # "none"
    BY <1>5 DEF FinishScript, stores
  <2> QED BY <2>1, EndedCallKeeps
<1>6. CASE Commit(p, a)
  <2>1. task[p][a].seen \in State BY <1>1, <1>6 DEF SeenIsRead, Commit
  <2>2. row'[a] \in State /\ \A b \in Auctions : b # a => row'[b] = row[b]
    BY <1>1, <1>6, <2>1 DEF Commit, TypeOK, State
  <2>3. row' \in [Auctions -> State] BY <1>1, <1>6, <2>2 DEF Commit, TypeOK
  <2>4. TypeOK' BY <1>1, <1>2, <1>6, <2>3 DEF Commit, GoTo, TypeOK, Task
  <2>5. Settles(p, a) /\ task[p][a].pc # "none" BY <1>6 DEF Commit, Settles
  <2> QED BY <1>6, <2>4, <2>5, GoToKeeps DEF Commit
<1>7. CASE Announce(p, a)
  <2>1. CallEnds(p, a, TRUE) /\ UNCHANGED <<now, stores>> /\ task[p][a].pc # "none"
    BY <1>7 DEF Announce
  <2>2. Settles(p, a) /\ announced' = announced \cup {a} BY <1>7 DEF Announce, Settles
  <2> QED BY <2>1, <2>2, EndedCallKeeps
<1>8. CASE CallFails(p, a)
  <2>1. CallEnds(p, a, FALSE) /\ UNCHANGED <<now, stores, announced>> /\ task[p][a].pc # "none"
    BY <1>8 DEF CallFails
  <2> QED BY <2>1, EndedCallKeeps
<1>9. CASE FinishScript(p, a) /\ MayFinish(a)
  <2> DEFINE s == [redis[a] EXCEPT !.status = EndStatus(redis[a]), !.version = @ + 1]
  <2>1. redis' = [redis EXCEPT ![a] = s]
    BY <1>9 DEF FinishScript
  <2>2. /\ task' = [task EXCEPT ![p][a] = [pc |-> "commit", seen |-> redis'[a]]]
        /\ UNCHANGED <<settling, pass, now, row, ordered, bid, announced>>
        /\ task[p][a].pc # "none" /\ redis[a].status = "RUNNING"
    BY <1>9 DEF FinishScript, MayFinish
  <2>3. redis'[a] = s /\ \A b \in Auctions : b # a => redis'[b] = redis[b] BY <1>1, <2>1 DEF TypeOK
  <2>4. task'[p][a] = [pc |-> "commit", seen |-> s]
        /\ \A q \in Passes, b \in Auctions : q # p \/ b # a => task'[q][b] = task[q][b]
    BY <1>1, <2>2, <2>3 DEF TypeOK
  <2>5. redis[a] \in State BY <1>1, <1>9 DEF TypeOK, MayFinish
  <2>6. s \in State /\ s.status # "RUNNING"
    <3>1. EndStatus(redis[a]) \in {"SOLD", "UNSOLD"} BY DEF EndStatus
    <3>2. redis[a].version + 1 \in Nat BY <2>5 DEF State
    <3> QED BY <2>5, <3>1, <3>2 DEF State
  <2> HIDE DEF s
  <2>7. TypeOK'
    <3>1. [pc |-> "commit", seen |-> s] \in Task BY <2>6 DEF Task
    <3>2. task' \in [Passes -> [Auctions -> Task]] BY <1>1, <2>2, <2>3, <3>1 DEF TypeOK
    <3> QED BY <1>1, <2>1, <2>2, <2>6, <3>2 DEF TypeOK
  <2>8. SeenIsRead' BY <1>1, <2>4, <2>6 DEF SeenIsRead
  <2>9. BusyPass' BY <1>1, <2>2, <2>4 DEF BusyPass
  <2>10. OneAwaited' BY <1>1, <2>2 DEF OneAwaited
  <2>11. WarmStaysWarm' BY <1>1, <2>3, <2>4, <2>6 DEF WarmStaysWarm
  <2>12. \A q \in Passes, b \in Auctions : Settles(q, b)' <=> Settles(q, b) \/ (q = p /\ b = a)
    BY <2>4 DEF Settles
  <2>13. ClosedFirst'
    <3> SUFFICES ASSUME NEW b \in Auctions \ Cold,
                        b \in announced' \/ \E q \in Passes : Settles(q, b)'
                 PROVE  redis'[b].status # "RUNNING"
      BY DEF ClosedFirst
    <3>1. CASE b = a BY <2>3, <2>6, <3>1
    <3>2. CASE b # a BY <1>1, <2>2, <2>3, <2>12, <3>2 DEF ClosedFirst
    <3> QED BY <3>1, <3>2
  <2>14. SettledOnce'
    <3> SUFFICES ASSUME NEW b \in Auctions \ Cold, NEW q \in Passes, Settles(q, b)'
                 PROVE  b \notin announced' /\ \A r \in Passes \ {q} : ~ Settles(r, b)'
      BY DEF SettledOnce
    <3>1. CASE b = a
      <4>1. a \notin announced /\ \A r \in Passes : ~ Settles(r, a)
        BY <1>1, <2>2, <3>1 DEF ClosedFirst
      <4> QED BY <2>2, <2>12, <3>1, <4>1
    <3>2. CASE b # a BY <1>1, <2>2, <2>12, <3>2 DEF SettledOnce
    <3> QED BY <3>1, <3>2
  <2> QED
    BY <2>7, <2>8, <2>9, <2>10, <2>11, <2>13, <2>14 DEF SettlementInv
<1> QED BY <1>3, <1>4, <1>5, <1>6, <1>7, <1>8, <1>9 DEF CallSteps

----
LEMMA SettlementInductive == SettlementInv /\ [Next]_vars => SettlementInv'
<1> SUFFICES ASSUME SettlementInv, [Next]_vars PROVE SettlementInv'
  OBVIOUS
<1>1. CASE ClockTicks BY <1>1, ClockKeeps
<1>2. CASE \E a \in Auctions : MirrorBid(a) \/ \E sells \in BOOLEAN : AcceptBid(a, sells)
  BY <1>2, BidKeeps
<1>3. CASE \E p \in Passes : StartPass(p) \/ FindExpired(p) \/ FindFails(p) BY <1>3, PassKeeps
<1>4. CASE \E p \in Passes, a \in Auctions : CallSteps(p, a) \/ CallFails(p, a) BY <1>4, CallKeeps
<1>5. CASE UNCHANGED vars
  BY <1>5 DEF SettlementInv, TypeOK, SeenIsRead, BusyPass, OneAwaited, WarmStaysWarm, ClosedFirst,
              SettledOnce, Settles, vars, stores
<1> QED BY <1>1, <1>2, <1>3, <1>4, <1>5 DEF Next

(* Every reachable state of the timer satisfies the inductive invariant. *)
THEOREM SettlementInvariant == Spec => []SettlementInv
<1> QED BY InitSettlement, SettlementInductive, PTL DEF Spec

(* The variables have their types. *)
THEOREM SettlementTypes == Spec => []TypeOK
<1>1. SettlementInv => TypeOK BY DEF SettlementInv
<1> QED BY <1>1, SettlementInvariant, PTL

(***************************************************************************)
(* However many passes a failing Promise.all lets overlap, one call alone  *)
(* writes and announces the end of an auction whose key Redis holds.       *)
(***************************************************************************)
THEOREM OneSettlement == Spec => []SettledOnce
<1>1. SettlementInv => SettledOnce BY DEF SettlementInv
<1> QED BY <1>1, SettlementInvariant, PTL

(* The flag settling is up exactly while one pass is awaited. *)
THEOREM FlagIsOwned == Spec => []OneAwaited
<1>1. SettlementInv => OneAwaited BY DEF SettlementInv
<1> QED BY <1>1, SettlementInvariant, PTL

----
(***************************************************************************)
(* What is stored.  Of a warm auction the row is behind Redis until it has *)
(* ended, and the version that ends it is the last one.  A cold one takes  *)
(* no more bids: every pass that initializes its key ends it the same way. *)
(***************************************************************************)
Warm(a) ==
  /\ row[a].status = "RUNNING" => row[a].version <= redis[a].version
  /\ row[a].status = "RUNNING" /\ redis[a].status # "RUNNING" => row[a].version < redis[a].version
  /\ row[a].status # "RUNNING" => /\ redis[a].status # "RUNNING"
                                  /\ row[a].version = redis[a].version
  /\ bid[a] # NoBid =>
       \/ /\ bid[a].status = "RUNNING" /\ bid[a].version <= redis[a].version
          /\ redis[a].status # "RUNNING" => bid[a].version < redis[a].version
       \/ /\ bid[a].status = "SOLD" /\ bid[a] = redis[a] /\ row[a].status = "RUNNING"
          /\ \A p \in Passes : ~ Settles(p, a)
  /\ \A p \in Passes : task[p][a].pc = "commit" => /\ task[p][a].seen = redis[a]
                                                   /\ row[a].status = "RUNNING"

ColdFound(a, s) ==
  /\ s.status = "RUNNING" /\ s.version = 0 /\ s.endAt <= now /\ s.led = row[a].led

Frozen(a) ==
  /\ bid[a] = NoBid
  /\ row[a].status = "RUNNING" => row[a].version = 0
  /\ row[a].status # "RUNNING" => row[a].version = 1 /\ row[a].status = EndStatus(row[a])
  /\ redis[a] # NoHash =>
       ColdFound(a, redis[a]) \/ (redis[a].status # "RUNNING" /\ redis[a].endAt <= now)
  /\ \A p \in Passes :
       /\ task[p][a].pc \in {"look", "initialize"} => ColdFound(a, task[p][a].seen)
       /\ task[p][a].pc = "commit" => /\ task[p][a].seen.version = 1
                                      /\ task[p][a].seen.status = EndStatus(row[a])

Ended(a) ==
  /\ a \in announced \/ (\E p \in Passes : task[p][a].pc = "emit") => row[a].status # "RUNNING"
  /\ a \in ordered <=> row[a].status = "SOLD"

StoredInv ==
  \A a \in Auctions : Ended(a) /\ IF a \in Cold THEN Frozen(a) ELSE Warm(a)

Stored(a) == Ended(a) /\ IF a \in Cold THEN Frozen(a) ELSE Warm(a)

LEMMA InitStored == Init => StoredInv
<1> SUFFICES ASSUME Init, NEW a \in Auctions PROVE Stored(a)
  BY DEF StoredInv, Stored
<1>1. PICK led \in [Auctions -> BOOLEAN] :
        row = [b \in Auctions |->
                 [status |-> "RUNNING", endAt |-> 1, led |-> led[b], version |-> 0]]
  BY DEF Init
<1>2. row[a].status = "RUNNING" /\ row[a].version = 0 BY <1>1
<1>3. redis[a] = IF a \in Cold THEN NoHash ELSE row[a] BY DEF Init
<1>4. \A p \in Passes : task[p][a].pc = "none" BY DEF Init, NotRunning
<1>5. bid[a] = NoBid /\ a \notin ordered /\ a \notin announced BY DEF Init
<1> QED BY <1>2, <1>3, <1>4, <1>5 DEF Stored, Ended, Frozen, Warm

(* The stores stay, and no call comes to a place where it has read more. *)
LEMMA QuietKeeps ==
  ASSUME StoredInv, UNCHANGED stores, now \in Int, now' \in Int, now <= now',
         TypeOK, SettlementInv',
         \A a \in Auctions : a \in announced' => a \in announced \/ row[a].status # "RUNNING",
         \A p \in Passes, a \in Auctions :
           /\ task'[p][a].pc \in {"commit", "emit"} => task'[p][a] = task[p][a]
           /\ task'[p][a].pc \in {"look", "initialize"} /\ a \in Cold =>
                ColdFound(a, task'[p][a].seen) \/ (/\ task[p][a].pc \in {"look", "initialize"}
                                                   /\ task'[p][a].seen = task[p][a].seen)
  PROVE  StoredInv'
<1> SUFFICES ASSUME NEW a \in Auctions PROVE Stored(a)'
  BY DEF StoredInv, Stored
<1>1. Ended(a) /\ IF a \in Cold THEN Frozen(a) ELSE Warm(a) BY DEF StoredInv
<1>2. UNCHANGED <<redis, row, ordered, bid>> BY DEF stores
<1>3. Ended(a)' BY <1>1, <1>2 DEF Ended
<1>5. CASE a \in Cold
  <2>1. Frozen(a) BY <1>1, <1>5
  <2>2. \A p \in Passes : (task[p][a].pc \in {"look", "initialize"} => ColdFound(a, task[p][a].seen))'
    <3> SUFFICES ASSUME NEW p \in Passes, task'[p][a].pc \in {"look", "initialize"}
                 PROVE  ColdFound(a, task[p][a].seen)'
      OBVIOUS
    <3>1. task'[p][a].seen \in State BY DEF SettlementInv, SeenIsRead
    <3>2. ColdFound(a, task'[p][a].seen) BY <1>5, <2>1 DEF Frozen
    <3>3. task'[p][a].seen.endAt \in Int BY <3>1 DEF State
    <3> QED BY <1>2, <3>2, <3>3 DEF ColdFound
  <2>3. (redis[a] # NoHash =>
          ColdFound(a, redis[a]) \/ (redis[a].status # "RUNNING" /\ redis[a].endAt <= now))'
    <3> SUFFICES ASSUME redis[a] # NoHash
                 PROVE  (ColdFound(a, redis[a]) \/ (redis[a].status # "RUNNING" /\ redis[a].endAt <= now))'
      BY <1>2
    <3>1. redis[a] \in State BY DEF TypeOK
    <3>2. redis[a].endAt \in Int BY <3>1 DEF State
    <3>3. redis[a].endAt <= now BY <2>1 DEF Frozen, ColdFound
    <3>4. redis[a].endAt <= now' BY <3>2, <3>3
    <3> QED BY <1>2, <2>1, <3>4 DEF Frozen, ColdFound
  <2>4. \A p \in Passes : task'[p][a].pc = "commit" => task'[p][a] = task[p][a] OBVIOUS
  <2>5. Frozen(a)'
    BY <1>2, <2>1, <2>2, <2>3, <2>4 DEF Frozen, EndStatus
  <2> QED BY <1>3, <1>5, <2>5 DEF Stored
<1>6. CASE a \notin Cold
  <2>1. \A p \in Passes : Settles(p, a)' => Settles(p, a) BY DEF Settles
  <2>2. Warm(a)' BY <1>1, <1>2, <1>6, <2>1 DEF Warm
  <2> QED BY <1>3, <1>6, <2>2 DEF Stored
<1> QED BY <1>5, <1>6

(* A step about one auction leaves the others as they are. *)
LEMMA OneAuctionKeeps ==
  ASSUME StoredInv, NEW a \in Auctions, Stored(a)', UNCHANGED <<now, announced>>,
         \A b \in Auctions : b # a =>
           /\ redis'[b] = redis[b] /\ row'[b] = row[b] /\ bid'[b] = bid[b]
           /\ b \in ordered' <=> b \in ordered
           /\ \A p \in Passes : task'[p][b] = task[p][b]
  PROVE  StoredInv'
<1> SUFFICES ASSUME NEW b \in Auctions, b # a PROVE Stored(b)'
  BY DEF StoredInv, Stored
<1>1. Ended(b) /\ IF b \in Cold THEN Frozen(b) ELSE Warm(b) BY DEF StoredInv
<1>2. Ended(b)' BY <1>1 DEF Ended
<1>3. b \in Cold => Frozen(b)' BY <1>1 DEF Frozen, ColdFound, EndStatus
<1>4. b \notin Cold => Warm(b)' BY <1>1 DEF Warm, Settles
<1> QED BY <1>2, <1>3, <1>4 DEF Stored

LEMMA StoredBid ==
  ASSUME SettlementInv, StoredInv, NEW a \in Auctions, NEW sells \in BOOLEAN, AcceptBid(a, sells)
  PROVE  StoredInv'
<1>1. TypeOK /\ ClosedFirst /\ Stored(a) BY DEF SettlementInv, StoredInv, Stored
<1>2. redis[a] \in State /\ redis[a].status = "RUNNING" /\ now < redis[a].endAt /\ bid[a] = NoBid
  BY <1>1 DEF AcceptBid, TypeOK
<1>3. now \in Int /\ redis[a].endAt \in Int /\ redis[a].version \in Nat
  BY <1>1, <1>2 DEF TypeOK, State
<1>4. a \notin Cold
  <2> SUFFICES ASSUME a \in Cold PROVE FALSE
    OBVIOUS
  <2>1. redis[a].endAt <= now BY <1>1, <1>2 DEF Stored, Frozen, ColdFound, AcceptBid
  <2> QED BY <1>2, <1>3, <2>1
<1>5. row[a].status = "RUNNING" /\ row[a].version <= redis[a].version
  BY <1>1, <1>2, <1>4 DEF Stored, Warm
<1>6. \A p \in Passes : ~ Settles(p, a) BY <1>1, <1>2, <1>4 DEF ClosedFirst
<1>7. /\ redis' = [redis EXCEPT ![a] = redis'[a]] /\ bid' = [bid EXCEPT ![a] = redis'[a]]
      /\ redis'[a].status = IF sells THEN "SOLD" ELSE "RUNNING"
      /\ redis'[a].version = redis[a].version + 1
      /\ UNCHANGED <<now, row, ordered, settling, pass, task, announced>>
  BY <1>1 DEF AcceptBid, TypeOK
<1>8. bid'[a] = redis'[a] BY <1>1, <1>7 DEF TypeOK
<1>9. row[a].version \in Nat BY <1>1 DEF TypeOK, State
<1>10. Warm(a)'
  <2>1. \A p \in Passes : ~ Settles(p, a)' /\ task'[p][a].pc # "commit"
    BY <1>6, <1>7 DEF Settles
  <2>2. row'[a].version < redis'[a].version /\ row'[a].status = "RUNNING"
        /\ row'[a].version <= redis'[a].version
    BY <1>3, <1>5, <1>7, <1>9
  <2>3. redis'[a].version <= redis'[a].version BY <1>3, <1>7
  <2> QED BY <1>7, <1>8, <2>1, <2>2, <2>3 DEF Warm
<1>11. Ended(a)' BY <1>1, <1>7 DEF Stored, Ended
<1>12. \A b \in Auctions : b # a => redis'[b] = redis[b] /\ bid'[b] = bid[b]
  BY <1>1, <1>7 DEF TypeOK
<1>13. Stored(a)' BY <1>4, <1>10, <1>11 DEF Stored
<1> QED BY <1>7, <1>12, <1>13, OneAuctionKeeps

LEMMA StoredMirror ==
  ASSUME SettlementInv, StoredInv, NEW a \in Auctions, MirrorBid(a)
  PROVE  StoredInv' /\ (row[a].status # "RUNNING" => row'[a] = row[a])
<1>1. TypeOK /\ ClosedFirst /\ Stored(a) BY DEF SettlementInv, StoredInv, Stored
<1>2. a \notin Cold BY <1>1 DEF Stored, Frozen, MirrorBid
<1>3. Warm(a) /\ Ended(a) BY <1>1, <1>2 DEF Stored
<1>4. bid[a] \in State /\ bid[a] # NoBid BY <1>1 DEF MirrorBid, TypeOK
<1>5. redis[a] \in State BY <1>1, <1>2 DEF SettlementInv, WarmStaysWarm, TypeOK
<1>6. row[a] \in State BY <1>1 DEF TypeOK
<1>7. bid[a].version \in Nat /\ row[a].version \in Nat /\ redis[a].version \in Nat
  BY <1>4, <1>5, <1>6 DEF State
<1>8. /\ row'[a] = IF row[a].version < bid[a].version THEN bid[a] ELSE row[a]
      /\ ordered' = IF bid[a].status = "SOLD" THEN ordered \cup {a} ELSE ordered
      /\ bid'[a] = NoBid
      /\ \A b \in Auctions : b # a => row'[b] = row[b] /\ bid'[b] = bid[b]
      /\ UNCHANGED <<now, redis, settling, pass, task, announced>>
  BY <1>1 DEF MirrorBid, TypeOK
<1>9. CASE bid[a].status = "SOLD"
  <2>1. bid[a] = redis[a] /\ row[a].status = "RUNNING" /\ \A p \in Passes : ~ Settles(p, a)
    BY <1>3, <1>4, <1>9 DEF Warm
  <2>2. row[a].version < redis[a].version BY <1>3, <1>9, <2>1 DEF Warm
  <2>3. row'[a] = redis'[a] /\ row'[a].status = "SOLD" BY <1>8, <1>9, <2>1, <2>2
  <2>4. Warm(a)' BY <1>8, <2>1, <2>3 DEF Warm, Settles
  <2>5. Ended(a)' BY <1>3, <1>8, <1>9, <2>3 DEF Ended
  <2>6. Stored(a)' BY <1>2, <2>4, <2>5 DEF Stored
  <2> QED BY <1>8, <1>9, <2>1, <2>6, OneAuctionKeeps
<1>10. CASE bid[a].status # "SOLD"
  <2>1. /\ bid[a].status = "RUNNING" /\ bid[a].version <= redis[a].version
        /\ redis[a].status # "RUNNING" => bid[a].version < redis[a].version
    BY <1>3, <1>4, <1>10 DEF Warm
  <2>2. row[a].status # "RUNNING" => row'[a] = row[a]
    <3> SUFFICES ASSUME row[a].status # "RUNNING" PROVE ~ (row[a].version < bid[a].version)
      BY <1>8
    <3>1. row[a].version = redis[a].version BY <1>3 DEF Warm
    <3> QED BY <1>7, <2>1, <3>1
  <2>3. row'[a].status = row[a].status BY <1>8, <2>1, <2>2
  <2>4. row[a].status = "RUNNING" =>
          /\ row'[a].version <= redis[a].version
          /\ redis[a].status # "RUNNING" => row'[a].version < redis[a].version
    BY <1>3, <1>8, <2>1 DEF Warm
  <2>5. Warm(a)' BY <1>3, <1>8, <2>2, <2>3, <2>4 DEF Warm, Settles
  <2>6. Ended(a)' BY <1>3, <1>8, <1>10, <2>3 DEF Ended
  <2>7. Stored(a)' BY <1>2, <2>5, <2>6 DEF Stored
  <2> QED BY <1>8, <1>10, <2>2, <2>7, OneAuctionKeeps
<1> QED BY <1>9, <1>10

LEMMA StoredCommit ==
  ASSUME SettlementInv, SettlementInv', StoredInv, NEW p \in Passes, NEW a \in Auctions, Commit(p, a)
  PROVE  StoredInv' /\ (row[a].status # "RUNNING" => row'[a] = row[a])
<1> DEFINE result == task[p][a].seen
<1>1. TypeOK /\ SettledOnce /\ SeenIsRead /\ Stored(a) /\ Ended(a)
  BY DEF SettlementInv, StoredInv, Stored
<1>2. task[p][a].pc = "commit" /\ Settles(p, a) BY DEF Commit, Settles
<1>3. result \in State /\ row[a] \in State BY <1>1, <1>2 DEF SeenIsRead, TypeOK
<1>4. result.version \in Nat /\ row[a].version \in Nat BY <1>3 DEF State
<1>5. /\ row' = [row EXCEPT ![a] =
                   IF row[a].version < result.version
                   THEN [row[a] EXCEPT !.status = result.status, !.version = result.version]
                   ELSE row[a]]
      /\ ordered' = IF result.status = "SOLD" THEN ordered \cup {a} ELSE ordered
      /\ task' = [task EXCEPT ![p][a].pc = "emit"]
      /\ UNCHANGED <<now, redis, bid, announced>>
  BY DEF Commit, GoTo
<1>6. /\ row'[a] = IF row[a].version < result.version
                   THEN [row[a] EXCEPT !.status = result.status, !.version = result.version]
                   ELSE row[a]
      /\ \A b \in Auctions : b # a => row'[b] = row[b]
  BY <1>1, <1>5 DEF TypeOK
<1>7. /\ task'[p][a] = [task[p][a] EXCEPT !.pc = "emit"]
      /\ \A q \in Passes, b \in Auctions : q # p \/ b # a => task'[q][b] = task[q][b]
  BY <1>1, <1>5 DEF TypeOK
<1>8. task'[p][a].pc = "emit" /\ task'[p][a].seen = result
  <2>1. task[p][a] \in Task BY <1>1 DEF TypeOK
  <2> QED BY <1>7, <2>1 DEF Task
<1>9. row[a].version < result.version =>
        /\ row'[a].status = result.status /\ row'[a].version = result.version
        /\ row'[a].led = row[a].led
  BY <1>3, <1>6 DEF State
<1> HIDE DEF result
<1>10. CASE a \notin Cold
  <2>1. Warm(a) BY <1>1, <1>10 DEF Stored
  <2>2. result = redis[a] /\ row[a].status = "RUNNING" BY <1>2, <2>1 DEF Warm, result
  <2>3. redis[a].status # "RUNNING" BY <1>2, <1>10 DEF SettlementInv, ClosedFirst
  <2>4. row[a].version < result.version BY <2>1, <2>2, <2>3 DEF Warm
  <2>5. row'[a].status = redis[a].status /\ row'[a].version = redis[a].version
    BY <1>9, <2>2, <2>4
  <2>6. \A q \in Passes : task'[q][a].pc # "commit"
    <3>1. \A q \in Passes \ {p} : ~ Settles(q, a) BY <1>1, <1>2, <1>10 DEF SettledOnce
    <3> QED BY <1>7, <1>8, <3>1 DEF Settles
  <2>7. bid[a] # NoBid => bid[a].status = "RUNNING" BY <1>2, <2>1 DEF Warm
  <2>8. Warm(a)'
    <3>1. bid'[a] # NoBid => /\ bid'[a].status = "RUNNING"
                             /\ bid'[a].version <= redis'[a].version
                             /\ redis'[a].status # "RUNNING" => bid'[a].version < redis'[a].version
      BY <1>5, <2>1, <2>7 DEF Warm
    <3> QED BY <1>5, <2>3, <2>5, <2>6, <3>1 DEF Warm
  <2>9. Ended(a)' BY <1>1, <1>5, <2>2, <2>3, <2>5 DEF Ended
  <2>10. Stored(a)' BY <1>10, <2>8, <2>9 DEF Stored
  <2> QED BY <1>5, <1>6, <1>7, <2>2, <2>10, OneAuctionKeeps
<1>11. CASE a \in Cold
  <2>1. Frozen(a) BY <1>1, <1>11 DEF Stored
  <2>2. result.version = 1 /\ result.status = EndStatus(row[a]) BY <1>2, <2>1 DEF Frozen, result
  <2>3. /\ row'[a].status = EndStatus(row[a]) /\ row'[a].version = 1 /\ row'[a].led = row[a].led
        /\ row[a].status # "RUNNING" => row'[a] = row[a]
    BY <1>6, <1>9, <2>1, <2>2 DEF Frozen
  <2>4. EndStatus(row[a]) = EndStatus(row'[a]) /\ EndStatus(row[a]) # "RUNNING" BY <2>3 DEF EndStatus
  <2>5. \A q \in Passes :
          /\ task'[q][a].pc \in {"look", "initialize", "commit"} => task'[q][a] = task[q][a]
    BY <1>7, <1>8
  <2>6. Frozen(a)'
    <3>1. \A q \in Passes :
            /\ task'[q][a].pc \in {"look", "initialize"} => ColdFound(a, task[q][a].seen)'
            /\ task'[q][a].pc = "commit" => /\ task'[q][a].seen.version = 1
                                            /\ task'[q][a].seen.status = EndStatus(row'[a])
      BY <1>5, <2>1, <2>3, <2>4, <2>5 DEF Frozen, ColdFound
    <3>2. redis'[a] # NoHash =>
            ColdFound(a, redis[a])' \/ (redis'[a].status # "RUNNING" /\ redis'[a].endAt <= now')
      BY <1>5, <2>1, <2>3 DEF Frozen, ColdFound
    <3>3. /\ bid'[a] = NoBid
          /\ row'[a].status = "RUNNING" => row'[a].version = 0
          /\ row'[a].status # "RUNNING" => row'[a].version = 1 /\ row'[a].status = EndStatus(row'[a])
      BY <1>5, <2>1, <2>3, <2>4 DEF Frozen
    <3> QED BY <3>1, <3>2, <3>3 DEF Frozen, EndStatus
  <2>7. Ended(a)'
    <3>1. row[a].status = "SOLD" => result.status = "SOLD"
      BY <2>1, <2>2 DEF Frozen
    <3> QED BY <1>1, <1>5, <2>2, <2>3, <2>4, <3>1 DEF Ended
  <2>8. Stored(a)' BY <1>11, <2>6, <2>7 DEF Stored
  <2> QED BY <1>5, <1>6, <1>7, <2>3, <2>8, OneAuctionKeeps
<1> QED BY <1>10, <1>11

LEMMA StoredFinish ==
  ASSUME SettlementInv, SettlementInv', StoredInv, NEW p \in Passes, NEW a \in Auctions,
         FinishScript(p, a), MayFinish(a)
  PROVE  StoredInv'
<1> DEFINE s == [redis[a] EXCEPT !.status = EndStatus(redis[a]), !.version = @ + 1]
<1>1. TypeOK /\ Stored(a) /\ Ended(a) /\ ClosedFirst
  BY DEF SettlementInv, StoredInv, Stored
<1>2. /\ redis' = [redis EXCEPT ![a] = s]
      /\ task' = [task EXCEPT ![p][a] = [pc |-> "commit", seen |-> redis'[a]]]
      /\ UNCHANGED <<now, row, ordered, bid, announced>>
      /\ redis[a] # NoHash /\ redis[a].status = "RUNNING" /\ redis[a].endAt <= now
      /\ task[p][a].pc = "finish"
  BY DEF FinishScript, MayFinish
<1>3. redis[a] \in State BY <1>1, <1>2 DEF TypeOK
<1>4. /\ s.status = EndStatus(redis[a]) /\ s.version = redis[a].version + 1
      /\ s.endAt = redis[a].endAt /\ EndStatus(redis[a]) \in {"SOLD", "UNSOLD"}
  BY <1>3 DEF State, EndStatus
<1> HIDE DEF s
<1>5. redis'[a] = s /\ \A b \in Auctions : b # a => redis'[b] = redis[b] BY <1>1, <1>2 DEF TypeOK
<1>6. /\ task'[p][a] = [pc |-> "commit", seen |-> s]
      /\ \A q \in Passes, b \in Auctions : q # p \/ b # a => task'[q][b] = task[q][b]
  BY <1>1, <1>2, <1>5 DEF TypeOK
<1>7. Ended(a)' BY <1>1, <1>2, <1>6 DEF Ended
<1>8. CASE a \notin Cold
  <2>1. Warm(a) BY <1>1, <1>8 DEF Stored
  <2>2. row[a].status = "RUNNING" BY <1>2, <2>1 DEF Warm
  <2>3. \A q \in Passes : ~ Settles(q, a) BY <1>1, <1>2, <1>8 DEF ClosedFirst
  <2>4. redis[a].version \in Nat /\ row[a].version \in Nat BY <1>1, <1>3 DEF State, TypeOK
  <2>5. row'[a].version <= s.version /\ row'[a].version < s.version
    BY <1>2, <1>4, <2>1, <2>2, <2>4 DEF Warm
  <2>6. bid[a] # NoBid => /\ bid[a].status = "RUNNING"
                          /\ bid[a].version <= s.version /\ bid[a].version < s.version
    <3> SUFFICES ASSUME bid[a] # NoBid
                 PROVE  /\ bid[a].status = "RUNNING"
                        /\ bid[a].version <= s.version /\ bid[a].version < s.version
      OBVIOUS
    <3>1. bid[a] \in State BY <1>1 DEF TypeOK
    <3>2. bid[a].status = "RUNNING" /\ bid[a].version <= redis[a].version BY <1>2, <2>1 DEF Warm
    <3> QED BY <1>4, <2>4, <3>1, <3>2 DEF State
  <2>7. \A q \in Passes : task'[q][a].pc = "commit" => task'[q][a].seen = s
    BY <1>6, <2>3 DEF Settles
  <2>8. Warm(a)' BY <1>2, <1>4, <1>5, <2>2, <2>5, <2>6, <2>7 DEF Warm
  <2>9. Stored(a)' BY <1>7, <1>8, <2>8 DEF Stored
  <2> QED BY <1>2, <1>5, <1>6, <2>9, OneAuctionKeeps
<1>9. CASE a \in Cold
  <2>1. Frozen(a) BY <1>1, <1>9 DEF Stored
  <2>2. ColdFound(a, redis[a]) BY <1>2, <2>1 DEF Frozen
  <2>3. s.version = 1 /\ s.status = EndStatus(row[a])
    BY <1>3, <1>4, <2>2 DEF ColdFound, EndStatus, State
  <2>4. redis'[a].status # "RUNNING" /\ redis'[a].endAt <= now' BY <1>2, <1>4, <1>5
  <2>5. \A q \in Passes :
          /\ task'[q][a].pc \in {"look", "initialize"} => ColdFound(a, task[q][a].seen)'
          /\ task'[q][a].pc = "commit" => /\ task'[q][a].seen.version = 1
                                          /\ task'[q][a].seen.status = EndStatus(row'[a])
    BY <1>2, <1>6, <2>1, <2>3 DEF Frozen, ColdFound
  <2>6. Frozen(a)' BY <1>2, <2>1, <2>4, <2>5 DEF Frozen, EndStatus
  <2>7. Stored(a)' BY <1>7, <1>9, <2>6 DEF Stored
  <2> QED BY <1>2, <1>5, <1>6, <2>7, OneAuctionKeeps
<1> QED BY <1>8, <1>9

LEMMA StoredInitialize ==
  ASSUME SettlementInv, SettlementInv', StoredInv, NEW p \in Passes, NEW a \in Auctions,
         InitializeKey(p, a)
  PROVE  StoredInv'
<1>1. TypeOK /\ Stored(a) /\ Ended(a) BY DEF SettlementInv, StoredInv, Stored
<1>2. a \in Cold BY DEF SettlementInv, WarmStaysWarm, InitializeKey
<1>3. Frozen(a) BY <1>1, <1>2 DEF Stored
<1>4. /\ redis' = [redis EXCEPT ![a] = task[p][a].seen] /\ task[p][a].pc = "initialize"
      /\ task' = [task EXCEPT ![p][a].pc = "finish"]
      /\ UNCHANGED <<now, row, ordered, bid, announced>>
  BY DEF InitializeKey, GoTo
<1>5. redis'[a] = task[p][a].seen /\ \A b \in Auctions : b # a => redis'[b] = redis[b]
  BY <1>1, <1>4 DEF TypeOK
<1>6. task'[p][a].pc = "finish" BY <1>1, <1>4 DEF TypeOK, Task
<1>7. \A q \in Passes, b \in Auctions : q # p \/ b # a => task'[q][b] = task[q][b]
  BY <1>1, <1>4 DEF TypeOK
<1>8. ColdFound(a, redis[a])' BY <1>3, <1>4, <1>5 DEF Frozen, ColdFound
<1>9. \A q \in Passes :
        /\ task'[q][a].pc \in {"look", "initialize"} => ColdFound(a, task[q][a].seen)'
        /\ task'[q][a].pc = "commit" => /\ task'[q][a].seen.version = 1
                                        /\ task'[q][a].seen.status = EndStatus(row'[a])
  BY <1>3, <1>4, <1>6, <1>7 DEF Frozen, ColdFound
<1>10. Frozen(a)' BY <1>3, <1>4, <1>8, <1>9 DEF Frozen, EndStatus
<1>11. Ended(a)' BY <1>1, <1>4, <1>6, <1>7 DEF Ended
<1>12. Stored(a)' BY <1>2, <1>10, <1>11 DEF Stored
<1> QED BY <1>4, <1>5, <1>7, <1>12, OneAuctionKeeps

(* The steps that read, end a call or start one. *)
LEMMA StoredQuiet ==
  ASSUME SettlementInv, SettlementInv', StoredInv, NEW p \in Passes, NEW a \in Auctions,
         \/ StartPass(p) \/ FindExpired(p) \/ FindFails(p) \/ LookUp(p, a)
         \/ (FinishScript(p, a) /\ ~ MayFinish(a))
         \/ Announce(p, a) \/ CallFails(p, a)
  PROVE  StoredInv'
<1>1. TypeOK BY DEF SettlementInv
<1>2. UNCHANGED stores /\ now' = now /\ now \in Int
  <2>1. now \in Int BY <1>1 DEF TypeOK
  <2>2. CASE FinishScript(p, a) /\ ~ MayFinish(a) BY <2>1, <2>2 DEF FinishScript, stores
  <2>3. CASE StartPass(p) \/ FindExpired(p) \/ FindFails(p)
    BY <2>1, <2>3 DEF StartPass, FindExpired, FindFails
  <2>4. CASE LookUp(p, a) \/ Announce(p, a) \/ CallFails(p, a)
    BY <2>1, <2>4 DEF LookUp, Announce, CallFails
  <2> QED BY <2>2, <2>3, <2>4
<1>3. \A b \in Auctions : b \in announced' => b \in announced \/ row[b].status # "RUNNING"
  <2>1. CASE Announce(p, a)
    <3>1. row[a].status # "RUNNING" BY <2>1 DEF Announce, StoredInv, Ended
    <3> QED BY <2>1, <3>1 DEF Announce
  <2>2. CASE ~ Announce(p, a)
    BY <2>2 DEF StartPass, FindExpired, FindFails, LookUp, FinishScript, CallFails
  <2> QED BY <2>1, <2>2
<1> DEFINE Quiet(q, b) ==
      /\ task'[q][b].pc \in {"commit", "emit"} => task'[q][b] = task[q][b]
      /\ task'[q][b].pc \in {"look", "initialize"} /\ b \in Cold =>
           ColdFound(b, task'[q][b].seen) \/ (/\ task[q][b].pc \in {"look", "initialize"}
                                              /\ task'[q][b].seen = task[q][b].seen)
<1>4. \A q \in Passes, b \in Auctions : Quiet(q, b)
  <2> SUFFICES ASSUME NEW q \in Passes, NEW b \in Auctions PROVE Quiet(q, b)
    OBVIOUS
  <2>1. CASE task'[q][b] = task[q][b] BY <2>1
  <2>2. CASE StartPass(p) \/ FindFails(p) BY <2>2 DEF StartPass, FindFails
  <2>3. CASE FindExpired(p)
    <3>1. CASE q # p BY <1>1, <2>3, <3>1 DEF FindExpired, TypeOK
    <3>2. CASE q = p
      <4>1. task'[q][b] = IF b \in Due THEN [pc |-> "look", seen |-> row[b]] ELSE NotRunning
        BY <1>1, <2>3, <3>2 DEF FindExpired, TypeOK
      <4>2. b \in Due /\ b \in Cold => ColdFound(b, row[b])
        BY DEF Due, ColdFound, StoredInv, Frozen
      <4> QED BY <4>1, <4>2 DEF NotRunning
    <3> QED BY <3>1, <3>2
  <2>4. CASE LookUp(p, a)
    <3>1. task[p][a] \in Task BY <1>1 DEF TypeOK
    <3>2. \E pc \in {"initialize", "finish"} : task'[p][a] = [task[p][a] EXCEPT !.pc = pc]
      BY <1>1, <2>4 DEF LookUp, GoTo, TypeOK
    <3>3. task'[p][a].pc \in {"initialize", "finish"} /\ task'[p][a].seen = task[p][a].seen
      BY <3>1, <3>2 DEF Task
    <3>4. q # p \/ b # a => task'[q][b] = task[q][b] BY <1>1, <2>4 DEF LookUp, GoTo, TypeOK
    <3> QED BY <2>4, <3>3, <3>4 DEF LookUp
  <2>5. CASE \E ok \in BOOLEAN : CallEnds(p, a, ok)
    <3>1. task'[p][a] = NotRunning /\ (q # p \/ b # a => task'[q][b] = task[q][b])
      BY <1>1, <2>5 DEF CallEnds, TypeOK
    <3> QED BY <3>1 DEF NotRunning
  <2> QED
    BY <2>2, <2>3, <2>4, <2>5 DEF FinishScript, Announce, CallFails
<1> QED BY <1>1, <1>2, <1>3, <1>4, QuietKeeps

----
LEMMA StoredInductive ==
  SettlementInv /\ SettlementInv' /\ StoredInv /\ [Next]_vars
    => StoredInv' /\ \A a \in Auctions : row[a].status # "RUNNING" => row'[a] = row[a]
<1> SUFFICES ASSUME SettlementInv, SettlementInv', StoredInv, [Next]_vars
             PROVE  StoredInv' /\ \A a \in Auctions : row[a].status # "RUNNING" => row'[a] = row[a]
  OBVIOUS
<1>1. TypeOK BY DEF SettlementInv
<1>2. CASE ClockTicks
  <2>1. now \in Int /\ now' \in Int /\ now <= now' BY <1>1, <1>2 DEF ClockTicks, TypeOK
  <2> QED BY <1>1, <1>2, <2>1, QuietKeeps DEF ClockTicks, stores
<1>3. ASSUME NEW a \in Auctions, MirrorBid(a)
      PROVE  StoredInv' /\ \A b \in Auctions : row[b].status # "RUNNING" => row'[b] = row[b]
  <2>1. \A b \in Auctions : b # a => row'[b] = row[b] BY <1>1, <1>3 DEF MirrorBid, TypeOK
  <2> QED BY <1>3, <2>1, StoredMirror
<1>4. ASSUME NEW a \in Auctions, NEW sells \in BOOLEAN, AcceptBid(a, sells)
      PROVE  StoredInv' /\ row' = row
  BY <1>4, StoredBid DEF AcceptBid
<1>5. ASSUME NEW p \in Passes, StartPass(p) \/ FindExpired(p) \/ FindFails(p)
      PROVE  StoredInv' /\ row' = row
  <2>1. row' = row BY <1>5 DEF StartPass, FindExpired, FindFails, stores
  <2>2. CASE Auctions = {} BY <2>1, <2>2 DEF StoredInv
  <2>3. CASE Auctions # {} BY <1>5, <2>1, <2>3, StoredQuiet
  <2> QED BY <2>1, <2>2, <2>3
<1>6. ASSUME NEW p \in Passes, NEW a \in Auctions, CallSteps(p, a) \/ CallFails(p, a)
      PROVE  StoredInv' /\ \A b \in Auctions : row[b].status # "RUNNING" => row'[b] = row[b]
  <2>1. CASE Commit(p, a)
    <3>1. \A b \in Auctions : b # a => row'[b] = row[b] BY <1>1, <2>1 DEF Commit, TypeOK
    <3> QED BY <2>1, <3>1, StoredCommit
  <2>2. CASE InitializeKey(p, a) BY <2>2, StoredInitialize DEF InitializeKey
  <2>3. CASE FinishScript(p, a) /\ MayFinish(a) BY <2>3, StoredFinish DEF FinishScript
  <2>4. CASE \/ LookUp(p, a) \/ (FinishScript(p, a) /\ ~ MayFinish(a))
             \/ Announce(p, a) \/ CallFails(p, a)
    <3>1. StoredInv' BY <2>4, StoredQuiet
    <3>2. row' = row BY <2>4 DEF LookUp, FinishScript, Announce, CallFails, stores
    <3> QED BY <3>1, <3>2
  <2> QED BY <1>6, <2>1, <2>2, <2>3, <2>4 DEF CallSteps
<1>7. CASE UNCHANGED vars
  <2>1. now \in Int /\ now' \in Int /\ now <= now' BY <1>1, <1>7 DEF TypeOK, vars
  <2> QED BY <1>1, <1>7, <2>1, QuietKeeps DEF vars, stores
<1> QED BY <1>2, <1>3, <1>4, <1>5, <1>6, <1>7 DEF Next

(***************************************************************************)
(* An end that has been announced is in the row, and an order stands for   *)
(* a sale and a sale for an order: with any number of failing calls.       *)
(***************************************************************************)
THEOREM AnnouncedIsDurable == Spec => []AnnouncedIsStored
<1>1. Init => StoredInv BY InitStored
<1>2. SettlementInv /\ SettlementInv' /\ StoredInv /\ [Next]_vars => StoredInv'
  BY StoredInductive
<1>3. StoredInv => AnnouncedIsStored BY DEF StoredInv, Ended, AnnouncedIsStored
<1> QED BY <1>1, <1>2, <1>3, SettlementInvariant, PTL DEF Spec

(* Neither a late bid nor another pass changes a row that has ended. *)
THEOREM EndStands == Spec => EndIsFinal
<1>1. Init => StoredInv BY InitStored
<1>2. SettlementInv /\ SettlementInv' /\ StoredInv /\ [Next]_vars => StoredInv'
  BY StoredInductive
<1>3. SettlementInv /\ SettlementInv' /\ StoredInv /\ [Next]_vars =>
        [\A a \in Auctions : row[a].status # "RUNNING" => row'[a] = row[a]]_vars
  BY StoredInductive
<1> QED BY <1>1, <1>2, <1>3, SettlementInvariant, PTL DEF Spec, EndIsFinal
===============================================================================
