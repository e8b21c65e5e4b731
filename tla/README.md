# RTB-Master: a TLA+ model of the live auction

This directory models the auction engine of the repository: the Redis scripts
that decide every bid, the NestJS service that mirrors their decisions in
MySQL, the orders that come out of it, the way the news takes to the pages, and
the test drivers that pass judgement on all of this. It says what the code promises, has
TLC check those promises on small instances, and proves the most important of
them for every instance. Paths are relative to the repository (`src/` is its
root); `auctions.service.ts` and its neighbours are in
`src/apps/api-server/src/auctions/`.

Contents: [the system](#the-system), [what is hard about it](#what-is-hard),
[the modules](#the-modules), [the runs](#the-runs),
[the proofs](#the-proofs), [where code and documents part](#where-code-and-documents-part),
[what is not modelled](#what-is-not-modelled), [plan](#plan).

## The system

A host (admin page) creates an auction over a product in a live room, starts
it, and may cancel it. Buyers join the room over socket.io and bid over HTTP.
A bid must beat the price by the increment; one that reaches the cap sells at
once; one inside the extension window moves the end. When the end is reached a
timer closes the auction: sold to the leader, with an order to be paid, or
unsold. One API process serves all of it (`src/docs/architecture.md:124`).

| Component | State | Operations | Talks to |
|---|---|---|---|
| Redis scripts (`redis-auction.service.ts`) | per auction: the state hash (TTL 86400 s), the leaderboard ZSET, one key per accepted requestId | `placeBid`, `cancel`, `finishExpired` (Lua, atomic); `initialize`, `restoreFromDatabase`, `getState`, `getLeaderboard` | called by the auction service |
| Auction service (`auctions.service.ts`) | the settlement timer and its `settling` flag, the rate-limit buckets; nothing else between calls | `create`, `update`, `start`, `placeBid`, `cancel`, settlement, snapshots, pages | Redis, MySQL (Prisma), the event emitter |
| Bid rules (`auction-rules.ts`) | none | `evaluateBid`, tested but not called by the service | - |
| Orders (`orders.service.ts`) | the Order row | `findOne`, `pay` | MySQL |
| Schema (`prisma/schema.prisma`) | Auction, Bid (unique `requestId`), Order (unique `auctionId`) | - | - |
| Gateway and events (`auctions.gateway.ts`, `auction-events.service.ts`) | socket.io rooms | `joinAuction`, `leaveAuction`, `emit`, `emitToUser` | auction service, clients |
| Buyer page, host page (`apps/*/src/App.tsx`) | the auction as last merged, the joined id, the order | merging of events and answers, rejoin on reconnect | HTTP, socket.io |
| Test drivers (`src/scripts/*.cjs`) | what they have measured | a scenario of calls, sleeps, sockets and stopped containers, then a verdict | HTTP, socket.io, MySQL, Redis, Docker |
| Auth, catalogue, Prisma access | signed tokens; single rows | login, guard; create and read | - |

How a bid goes: `placeBid` runs `PLACE_BID_SCRIPT`; if Redis has no such
auction it loads the row, initializes Redis and asks once more; when the bid is
accepted it reads the new hash back *with another command*, then opens a
MySQL transaction that mirrors the hash into the Auction row (only if the row
is older), inserts the Bid row and, after a sale, upserts the order; then it
assembles a snapshot, emits events and answers. If the transaction fails after
its callback began, the catch block rebuilds all Redis keys from MySQL. `cancel`
and the settlement follow the same pattern: script first, guarded row update
after.

What makes each component correct:

- *Redis scripts*: hash and leaderboard agree; the price only rises and stops at
  the cap; reaching the cap and selling are the same thing; a late bid leaves
  the others time; the clock closes an auction only at its end; the sequence of
  states is that of an English auction.
- *Auction service*: the row never shows what Redis has not decided and never
  goes back; when nothing is in flight it has caught up; one auction has one
  outcome and at most one order; an acknowledged bid is recorded; a refused or
  failed one leaves no trace; an expired auction ends.
- *Bid rules*: `evaluateBid` gives the verdict of the script.
- *Orders*: an order is created once, keeps its winner and amount, and a payment
  is not taken back.
- *Settlement of several auctions*: passes overlap only after a failure; each
  auction is settled by one call, announced when it is stored, and no failure of
  one keeps another from its end.
- *Rate limit and notices*: no window holds more calls than the limit, nobody below
  it is refused; who is told he was outbid was; a snapshot's leaderboard is not
  behind its leader, who is missing from it only below a full list of higher bids; a
  sale is announced with its order.
- *Gateway and pages*: a page is in the room of the auction it follows and is sent
  its last state; nobody sees an older one after a newer one (not so, see below).
- *Test drivers*: the verdict is the code's, not that of the order in which concurrent
  calls, settlement and events fall.

## What is hard

The service holds no lock. Every `await` is a place where other handlers run,
and every handler has several: a bid has at least six. So

- the hash read back after the script may already show *another* bid, a
  cancellation or a settlement (`redis-auction.service.ts:158`);
- transactions commit in another order than the scripts ran; only the
  `version < v` guard of `updateMany` orders them (`auctions.service.ts:248`);
- three writers set the final status and two create the order;
- MySQL may fail before, inside or after the transaction, and each case takes
  another path through the catch block (`auctions.service.ts:318`);
- the undo is a read-read-write over two stores while bids go on
  (`auctions.service.ts:514`);
- Redis may lose the hash only (TTL), or everything (restart); it is then filled
  from a row read earlier (`auctions.service.ts:542`);
- ioredis sends an unanswered script again after a reconnect;
- the process may die at any await;
- `Promise.all` of the settlement ends with its first failure, `finally` drops the
  flag, and the rest of the pass runs on beside the next one
  (`auctions.service.ts:380`);
- the leader to be notified is read before the script (`:210`), the snapshot in two
  commands after the transaction (`:487`);
- the leaderboard of a snapshot has five entries only (`redis-auction.service.ts:184`), so a
  leader read with the hash may be gone from it;
- the test drivers send bids at once, sleep instead of waiting, and restart
  containers that may or may not have kept their data;
- a snapshot is emitted some awaits after the read it is made of, the room is
  entered before the snapshot is read, and `leaveAuction` may overtake a
  `joinAuction` that is still loading (`auctions.gateway.ts:42`).

`PROJECT.json` lists these hazards line by line with the properties that watch
them.

## The modules

```
EnglishAuction          what an auction promises (abstract)
      ^ implemented by
RedisAuction            Redis alone: opened once, then only scripts
  |   ^ implemented by (fault-free, running)
  |  AuctionService     the handlers at every await, MySQL, faults
  |   |
  RedisScripts          keys of one auction and the atomic commands on them
  ^
BidRules                evaluateBid beside the script

Settlement              passes of the timer over several auctions
BidNotices              placeBid from the rate limit to its events (EXTENDS RedisScripts)
LiveRoom                versions of auctions on their way to a page

Drivers                 vocabulary of the test drivers
  ^
ConsistencyDrivers, FaultDrivers, LoadDrivers, FlowDrivers    the scripts
  ^
Bench                   one of them at work on the API (RedisScripts per auction)
```

| Module | Models | State |
|---|---|---|
| `RedisScripts` | the three Lua scripts, `initialize`, `restoreFromDatabase` | `hash`, `board`, `keys`, the clock `now` |
| `RedisAuction` | one life of those keys without loss or undo | the same |
| `EnglishAuction` | the abstract promise: best offer of each user, phase, winner; no price, leader or version | `phase`, `terms`, `best`, `winner` |
| `BidRules` | `evaluateBid` as a function of state, bid and time | none of its own |
| `AuctionService` | `create` (as initial state), `start`, `update`, `placeBid`, `cancel`, the settlement of one auction, `ensureRedisState`, the undo, `OrdersService.pay` | RedisScripts plus `row`, `bids`, `order`, `input` (the bodies of the bids), `call` (one program counter and locals per call) |
| `LiveRoom` | `joinAuction`, `leaveAuction`, the events service, the snapshots of the service, and in the pages: picking an auction, merging, rejoining | the stores as versions (`version`, `row`, `open`), `call` and `joining` (handlers at their awaits), `rooms`, `online`, the socket both ways (`up`, `down`), answers on their way (`http`), the page (`joined`, `shown`), and the history variable `newest` |
| `Settlement` | `onModuleInit`'s interval, `settleExpiredAuctions`, `settleExpiredAuction`, `ensureRedisState`; of bids only what moves an end or sells | `redis`, `row`, `ordered` and the accepted `bid` of each auction, the flag `settling`, `pass` (what each call of `settleExpiredAuctions` awaits), `task` (its calls of `settleExpiredAuction`), `announced` |
| `BidNotices` | `ensureBidRateLimit`, the leader read before the script, the state read back after it, `toSnapshot` as two commands, `getLeaderboard` cut to `TopN`, `bidAccepted`/`outbid`/`auctionEnded` | RedisScripts plus `row`, `bucket` (`bidRateBuckets`, as the admissions the array still holds), `call`, the history variables `admitted`, `overtaken`, `told`, `endings`, and `order` (the card of a page) |
| `Drivers` | the helpers the scripts share: calls, sleeps, polls, events, what a driver sees of an auction | none of its own |
| `ConsistencyDrivers`, `FaultDrivers`, `LoadDrivers`, `FlowDrivers` | per script its scenario (a sequence of steps) and its verdict | none of their own |
| `Bench` | a script at work: its `main`, the handlers it calls with their awaits, timer, sockets, stopped stores | `script`, `step`, `task`, `answers`; `redis`, `mysql`, `settling`, `down` per auction or store; `room`, `inbox`, `heard` per socket; `now` |
| `RedisScriptsProofs`, `RedisAuctionProofs` (with `BidRules`), `AuctionServiceProofs`, `AuctionRunProofs`, `LiveRoomProofs`, `SettlementProofs`, `BidNoticesProofs`, `BenchProofs` | lemmas and theorems | - |
| `MCRedisAuction`, `MCAuctionService`, `MCSettlement`, `MCBidNotices`, `MCLiveRoom`, `MCBench` | constants for TLC | - |

Correspondence with the code:

- **One step is one access to a store and the JavaScript up to the next
  `await`.** A Lua script is atomic. ioredis keeps one connection and sends
  commands in order, so a command takes effect at its step. The transaction of
  `placeBid` updates the auction row first and so holds its lock to the end; the
  transactions of one auction are serial and each is one step. `cancel`,
  `start`, `update` write with a single statement. The settlement's transaction
  begins with the same row update.
- **A call** is an HTTP request or a pass of the settlement timer: `call[c].pc`
  is the await it stands at (`eval` the script, `read` the `getState` after it,
  `commit` the transaction, `emit` snapshot, events and answer, `load`/`ensure`/`init`
  the way of a missing key, `undo.*` the catch block, `save` the row update of
  the other handlers), `seen` the row or hash it last read, `reply` what its
  caller was told.
- **The auction** is the same record in Redis, in the row and in the locals:
  status, price, leader, end, version, reason and the rules. A requestId is a
  model value; a user is one; an amount is a small number; `endAt` and the clock
  count whole units, and 0 stands for the null of an auction that has not
  started. An empty `leaderUserId` in Redis, null elsewhere, is `NoUser`.
- `SCHEDULED` is a status no code assigns; it appears only where the code asks
  for it.
- **Faults** are switched by the constant `Faults`: `db` (a MySQL access, or the
  BEGIN of the bid's transaction, fails), `rollback` (the transaction fails
  inside), `redis` (a command fails without effect), `resend` (a script ran,
  its answer was lost, ioredis sends it again), `evict` (the state key expires),
  `flush` (Redis restarts empty), `crash` (the process dies). What is missing
  from this list: a command or a commit that takes effect although the caller
  gets an error.

`LiveRoom` takes another cut. An auction is only its version there, because all that
decides who sees what is which read came after which script. Pages meet nowhere
but in the API, so one page is followed, of a buyer or of a host, and the calls
of all others come from outside. `AuctionService` checks that versions and rows
move as `LiveRoom` lets them: the version rises by one with each accepted script
(`ImplementsRedisAuction`) and the row follows it (`MirrorBehind`,
`MirrorNeverRewinds`). An answer to a GET is not a step of its own when it makes no difference: it
arrives with the row of any time since it was asked for. A lost connection loses
what is on the socket both ways and the rooms; the handler of `joinAuction` that
still runs then works for a socket that is gone. What the page emits while
offline is kept by socket.io-client and sent before the `connect` handler joins
again.

`Settlement` takes the bids of all users together: a bid of an auction either sells
or moves its end, and waits with `bid[a]` for its transaction. An auction of `Cold`
has lost its Redis key when the model starts; the accesses of an auction of `Failing`
may fail, as may `findMany` if there is one. Bids are taken at their best: `MirrorBid`
never fails (no undo, `auctions.service.ts:318`), an auction has one bid in flight, and it
mirrors its own state, not one read back later. `EndIsFinal` and `AnnouncedIsStored` are
shown within that scope; undone and overlapping bids are in `AuctionService`, with one auction.

`BidNotices` starts with a running auction whose end lies beyond the clock, as only the
order of awaits matters there. A bid's state is read back by a step of its own, `ReadBack`, so
a lower bid may read a sale back and bring an order itself, as in the code. `Best` is the
cut of `ZREVRANGE 0 4`, with `TopN` for the five. `bucket` holds indices into `admitted` in place of
timestamps, so that what the array forgets can be compared with what happened.

`Bench` runs one script at a time. Its calls go through the same awaits as in
`AuctionService`, with these simplifications: they take no time on the clock, which
moves while the driver sleeps or polls; every sleep is assumed to be long enough, so when
it ends, what was sent has arrived and what was due is settled. The scripts sleep for a
fixed time (2600 ms in `smoke-auction-flow.cjs:339`, but 100 ms in
`run-2.0-cancel-consistency.cjs:223` and 150 ms in `run-2.0-last-minute.cjs:283`): a verdict
that is wrong because a sleep was too short is outside this model. The undo of a
failed bid is one step, and a missing state key is loaded in one. A store that is
stopped makes `placeBid` fail at its first access. A Redis that is started again has
its keys or has lost them. Amounts are counted in increments and times in units chosen
per script so that window, extension and duration keep their proportion; three users
and up to five sockets stand for the hundreds, two or three rounds for the loops.
Percentages and latencies of a verdict are left out, its counts are exact.

Abstractions. Nicknames, product, room, order number and timestamps other than
`endAt` are left out, no property depends on them. The snapshot reads that follow
a commit are one step, since only their failure has an effect on the stores.
A body of `update` carries every rule, as the host page's form does. Amounts
beyond every minimum are represented by `cap + inc` in `RedisAuction` (they are cut).

## The runs

All runs use TLC's breadth-first search to the end. `CHECK_DEADLOCK FALSE` because the
system does stop: the set of calls is finite, the clock is bounded, and a closed
auction stays closed.

| Run (`.cfg`) | Question | Instance |
|---|---|---|
| `redis_auction` (`MCRedisAuction`) | Do the scripts keep hash and board in step, respect cap and end, match `evaluateBid`, and implement `EnglishAuction`? | 3 users, 4 requests, 2 rule sets, clock to 7 |
| `running` (`AuctionRunning`) | With every interleaving: does MySQL follow Redis, record only what Redis knows, and agree on one outcome? Does the service use Redis as `RedisAuction` does? | started or draft auction, 3 bids (free choice of 3 bodies, so also twice the same requestId), 1 cancel, the timer, `crash resend` |
| `ends` (`AuctionEnds`) | Without faults: has MySQL caught up whenever nothing is in flight, and does a running auction end in both stores? | 2 bids, 1 cancel, the timer, fairness |
| `serial` (`AuctionSerial`) | Between calls, with transactions that roll back: do the stores tell one story, and do failures leave no trace? | every operation, one call at a time, leaderboard cut to 1 |
| `faults` (`AuctionFaults`) | Whatever fails: does what was acknowledged stay? | 2 bids, pay, the timer, `db rollback redis flush crash` |
| `lifecycle` (`AuctionLifecycle`) | start, update and cancel overlapping, with keys that expire and scripts that are sent twice: only started auctions in Redis, a row that never goes back? | 2 starts, 1 update, 1 cancel, 1 bid, the timer, `evict resend` |
| `settlement` (`Settlement`) | Passes overlapping after a failure: is every auction settled once, stored before announced, and none forgotten? | 2 auctions, one cold and failing, 3 passes, clock to 2, fairness |
| `bid_notices` (`BidNotices`) | Does the window admit what it should? Are snapshots, notices and the announcement of a sale true? | 3 calls of 3 users, limit 1 in a window of 2, clock to 2, leaderboard cut to 2 |
| `drivers` (`Drivers`) | Does the verdict of a test driver, or its end, depend on the order of concurrent calls, settlement and events? | 19 scenarios of 18 scripts |
| `live_room` (`LiveRoom`) | Does a page end up in its room, and has it been sent the last state? | 2 auctions, 1 bid, 1 cancellation or settlement, 2 auctions picked, 1 lost connection or crash; buyer and host |

The properties:

- `LeaderTopsBoard`, `CapMeansSold`: HSET and ZADD of the bid script stay in
  step, and the cut to the cap neither exceeds it nor yields a bid that does
  not raise. `NoSniping`, `DeadlineKept`: an action property each for the
  extension and the end. `RulesMatchScript`: `evaluateBid` and the script give the
  same verdict, price, end and sale in every reachable auction.
  `ImplementsEnglishAuction`: the refinement; offers are read off the
  leaderboard, so a price or leader field out of step would break it.
- `MirrorBehind`, `MirrorCaughtUp`: the row never has a version Redis has not
  reached, equals the running hash at the same version, and with nothing in
  flight (and no fault before) has its version and status, and exactly the accepted
  requests have Bid rows. `RecordedIsKnown`: Redis has the request key of every Bid
  row, its bidder on the leaderboard, and a price not below it, so a retry after a
  crash is a duplicate. `OrderMeansSold`: an order exists only for an auction Redis sold.
  `NeverBackward`: in neither store does the price fall or a closed auction
  change its outcome. `ImplementsRedisAuction`: what holds of `RedisAuction`
  therefore holds of the service's Redis.
- `AuctionEnds`: leads-to, see fairness below.
- `StoresAgree`, `RefusedLeavesNoTrace`: between calls, hash = row, the board
  shows the best Bid rows (a user may be missing only if `TopN` shown users beat
  him: the undo rebuilds the board from the cut leaderboard), the request keys
  are the Bid rows, and the order is the row's leader at the row's price.
- `RowSoldHasOrder`, `AckedBidDurable`, `OrderStands`: under all the faults of
  that run.
- `OnlyStartedInRedis`, `MirrorNeverRewinds`: under eviction and resending.
- `SettledOnce`, `OneAwaited`: although passes overlap once a call has thrown, the
  script answers FINISHED to one of them only, and the flag belongs to one awaited pass.
  Auctions of `Cold` are excepted: two overlapping passes may both find no key, both
  initialize it from their rows, and both be told FINISHED; the guard of the row and the
  empty upsert make this harmless but for a second `auctionEnded`. `AnnouncedIsStored`,
  `EndIsFinal`: no event before its transaction, no order without a sale, no row that
  leaves its end. `OthersAreSettled`: liveness beside an auction that always fails.
- `RateHolds`: for every window wherever it starts, not only those ending at a call;
  `RefusedWhenFull` is its converse. `BoardNotBehind`: HGETALL comes before ZREVRANGE on
  one connection, so the leader is listed with at least the price, or the bids in between
  have filled the list with `TopN` users who are all above it; the run reaches both.
  `NoticeIsTrue`: the notice may be late or go to one who was overtaken
  twice, never to one who was not. `SaleIsAnnounced`: when its calls are over, a sale has
  been announced with its order at least once.
- `VerdictIsPass`: each script ends with PASS, if its sleeps are long enough; what the
  scripts assert of the API is thereby checked on the model in all orders of concurrent
  calls, settlement and deliveries.
  `DriverFinishes`: none waits for an event, status or answer that never comes.
- `FollowsInRoom`: when nothing is on its way over the sockets, the page is in the
  room of the auction it follows, whatever joins, leaves and reconnects went
  before. `NothingMissed`: its socket has then brought it the last version. This
  holds because the room is entered before the snapshot is read, every event is
  a snapshot read after the script, and a page that reconnects joins again.

**Bounds.** Rules are 0/1/3 (start, increment, cap): a bid may raise, jump to the
cap, be too low, or be of the leader, and three bids already order themselves in
every way around each other's scripts, reads and commits; no handler looks at more
than one other bid's effect. The window, extension and duration are 1-2 units
against a clock of 2-4 (7 for Redis alone): a bid can fall before, in and at the
edge of the window, extend, and still expire (`running` has room for one extension). `MaxInFlight` bounds the calls in
flight: as many as there are in `running` and `ends`, 2 in `faults` and
`lifecycle` (every divergence below needs no more than two overlapping calls), 1 in
`serial` by intent. `MaxTime` stops the clock. Bid calls are interchangeable, which
`SYMMETRY` uses in the safety runs only, never in `ends`. In `live_room` two
auctions are one to follow and one to leave; two changes are one to be overtaken
and one to overtake; a page that has lost one connection is as it was before,
but for what it shows. In `settlement` a third pass is needed to come after a rejected
pass that still runs beside its successor; an end at 1 and a clock to 2 let a bid move
it once past a pass that has already seen the row. In `bid_notices` a window of two units has
an inside and an edge, two calls of one user fill a limit of one, and the third is
the bid of another in between; at time 2 the window has passed. Three users over a
leaderboard of two are enough for a leader to drop out of it between the reads: the
cap leaves room for exactly the two bids that takes. In `drivers` the bounds are those of the scripts,
shrunk as said above.

**Fairness** (`FairSpec`): weak fairness of the steps of each call that has
arrived, because Node.js runs every ready continuation and both stores answer or
fail; of the timer, because `setInterval` fires every 500 ms; of the clock. A
client sending a request is never assumed. In `Settlement` the interval keeps firing
(weak fairness of `StartPass`), calls are answered (of `CallSteps`), and MySQL is not
down at every pass for ever (strong fairness of `FindExpired`); the accesses of a
failing auction may fail each time. In `Bench` weak fairness of the whole next-state
relation is enough: every script comes to its end as long as anything at all goes on.
`ends` has no faults: with `db` the
property is false, which `settlement_lost` shows.

## The proofs

Everything below holds for any sets of users, requests, rules and calls, any
bodies, any `Faults` and any bounds, from the named assumptions only (`AuctionRunProofs` and
the last part of `AuctionServiceProofs` assume more about faults and calls, see there): `RuleSet`
is non-empty, has positive increments etc. and `start < cap` (the DTO and the
check of `create` and `update`), the special values are distinct, the kinds of
calls are disjoint, bodies are well typed, the limit and the window of the rate limit
are positive, the drivers of `Bench` are among those it defines.

- **`RedisAuction`** (`AuctionInvariant`, `WellTyped`): `AuctionInv`, stated at the end of
  `RedisScripts` because the service keeps it too, is the types, `LeaderTopsBoard`, `CapMeansSold` and three conjuncts that make it inductive:
  `OutcomeMatchesBids` (a sold auction has a leader, an unsold has none; needed
  for the closing scripts), `EmptyUntilOpened` (the board is empty before
  `initialize`, which does not touch it) and `LeaderHasRaised` (a leader's price
  is above the start, so an offer is never 0). The core step is `BidStepInv`: the
  new price is above every score since the old price was. From it follow
  `LeaderIsTop`, `CapIsSold`, `NoSnipingHolds`, `DeadlineIsKept`, and
  `Implementation`: initial states and steps map to those of `EnglishAuction`.
- **`BidRules`** (`RulesAgree`, in `RedisAuctionProofs`): on any auction satisfying the invariant the two
  verdicts agree for every amount.
- **`AuctionService`** (`ServiceInvariant`): `ServiceInv` adds to the types and
  `RowSoldHasOrder` what each call may rely on at its await, `CallOK`: it has
  read something where it will use it; at `emit` its Bid row, and after a sale
  an order, are there; a reply that says so is true; a timer about to save a
  sale has a leader to give the order to. One lemma per handler shows that its
  steps keep this, `OneMoves` that the other calls are not disturbed since rows
  are only added. From it: `TypeCorrect`, `SoldRowHasOrder`,
  `AcknowledgedBidIsDurable`, `MirrorIsMonotone` and `OrderIsFinal`. These need no
  assumption about Redis, which is why they survive its loss.
  `RedisHoldsStarted` adds `StartedInv`: the row is live or an untouched draft, a hash
  implies that both are live, and what a call has seen where it is going to fill Redis
  (`CallLive`) is live or has no end, so that `ensureRedisState` refuses it.
- **`AuctionRunProofs`**: the overlapping service. The theorems assume `Steady`: no `start`,
  and no faults but `crash` and `resend`. Bids, cancellations, updates, payments and the
  settlement overlap as they like, in any number, on an auction that has been started or
  is a draft; the process may die at any await, and any script may be sent twice. Both
  conditions are needed: with a `start` that overlaps a bid (see `PriceNeverFalls` below)
  the properties are false, and a failing access of MySQL or Redis leads to the undo,
  which may bring an earlier auction back, as does a lost key. `RunInv` is `ServiceInv`,
  `StartedInv`, the `AuctionInv` of Redis, `OrderMeansSold`, and, once there is a hash,
  `RunningInv`. The row is an earlier state of the hash or shows how it was closed
  (`RowEarlier`); what a call has read is an earlier state too, and a closing call has
  read the last one (`RunCall`); two accepted bids under way have different requestIds
  and their reads are in order (`Apart`); the Bid rows and the bids under way have their
  request keys (`KeysInv`). Without faults there is more: where the row is behind, some
  call is bringing the present version (`Brought`), and no other requests have keys;
  a crash ends both, so `MirrorCatchesUp` assumes `Undisturbed`, `Faults = {}`. The
  others hold with crashes: `MirrorIsBehind`, `RecordedBidIsKnown`, `OneOutcome`,
  `OnlyForward`. `ServiceImplementsRedisAuction` is the refinement step by step: each
  handler's step is a script of `RedisAuction` or leaves the keys alone. An amount of any
  size is covered, because beyond `cap + inc` a bid does what `cap + inc` does
  (`RedisAuction` bounds its amounts there). What `RedisScriptsProofs` shows of every
  single script (`ScriptIsEnglish`, `ScriptLeavesTime`, `ScriptClosesInTime`) then holds of
  the service too: `ServiceImplementsEnglishAuction`, `ServiceLeavesTimeToAnswer`,
  `ServiceClosesInTime`, and from the invariant `ServiceKeysAgree`.
- **`AuctionService`, one call at a time** (`SerialInvariant`, the last part of
  `AuctionServiceProofs`): calls one after the other, every operation among them, with
  transactions that may roll back (`Serial`: `MaxInFlight <= 1`, `Faults` at most
  `rollback`, finitely many users). `SerialInv` says what the one call in flight has done
  so far (`Stage`): nothing that shows (`RedisAgrees`), or `RaisedBy`, a bid in Redis that
  MySQL does not have, or `ClosedBy`, a closing the row does not have, or `OpenedBy`, a
  start Redis has not been told of; and that the rows agree with each other at all
  times. `PodiumCovers` is the core of the undo: the cut leaderboard leaves out only who is
  beaten by `TopN` others, since amounts never tie. Hence `StoresAgreeWhenQuiet`, and, since
  each Bid row belongs to a call that was not refused, `RefusalsLeaveNoTrace`.
- **`LiveRoom`** (`TypeCorrect`, `EndsInItsRoom`): for any auctions, calls, drops and
  picks. `FollowsInRoom` speaks of quiet sockets only; what is true at any time is
  `OnItsWay`: a page that is online is in the room of its auction, or a handler is
  about to put it there, or a join is on its way, and no leave of that auction
  comes behind. The lemmas go through the queue: taking its first request, and
  appending one. `NoNewsIsLost` adds what is on the way: nothing read or sent is ahead of
  the store (`NothingAhead`), and a page that follows an auction online has its present
  version or there is a handler that is going to tell the room, a join that is going to
  answer it, a message on the socket that carries it, or a request to join (`News`).
  `OnItsWay` is needed where the room is told: who is not in it has a join coming, which
  reads later.
- **`Settlement`**, for any auctions, passes, bids and failures. `SettlementInv`
  (`SettlementInvariant`) adds to the types, `OneAwaited` and `SettledOnce` what makes
  them inductive: an auction whose key is in Redis keeps it (`WarmStaysWarm`), and
  whoever settles it has closed it there before (`ClosedFirst`), so a second pass is told
  NOT_RUNNING. `FlagIsOwned` and `OneSettlement` follow. `AnnouncedIsDurable` and
  `EndStands` need the versions too: per auction, `Warm` says that the row never
  catches up with a closed hash before it ends, and which bids are still on their
  way to it; `Frozen` that of an auction without a key no bid is left, so that every
  pass that initializes it ends it alike.
- **`BidNotices`**, for any users, calls, rules, limit and window. `RateLimit` and
  `RefusalsAreDue` rest on `RateInv` (the log of a user is sorted, and what the array has
  forgotten is older than the window) and on `RecentSpan`: counting the array is as good
  as looking `limit` calls back. `SnapshotsShowTheirLeader`: scores never fall
  (`ScoresRise`), so a leader read with the hash keeps his price, and if he is cut from the
  list later, the `TopN` who are on it are above him, since scores never tie
  (`CutShowsLeader`). `NoticesAreTrue`: a leader once read leads still or has been overtaken, at
  the latest by the caller. `SalesAreAnnounced`: the bid that sells makes the last
  version of the hash, and who reads that back reads SOLD from the row as well.
- **`Bench`** (`BenchTypeCorrect`), for any set of the 19 drivers. The proof does not look
  at their scenarios one state at a time: `WellFormed` is a grammar of drivers (which
  calls, on which auctions, with what in them; a start or a wait in a step of its own),
  each driver is shown to speak it (`...Speaks`), and no step of a driver that does can
  disturb `BenchInv`. That says what each call may rely on at its await (`CallHolds`),
  that a hash is of an auction that has started, that one Redis sold has a leader, that
  each user with Bid rows has a highest one (the undo puts it back), and that an auction
  being settled has its key. The last would be false once Redis loses its keys, and an
  undo beside a settlement could bring back what had been closed: the grammar has it that
  the two drivers which do such things (`redisFault`, `orderFault`) let no time pass, so that
  nothing is ever settled beside them (`Pace`). TLC checked `BenchInv` on all drivers first.

Only model-checked: `AuctionEnds`, `OthersAreSettled` and `DriverFinishes`, which are
liveness under fairness and out of the prover's reach, and `VerdictIsPass` of `Bench`,
because a verdict is that of one finite scenario with nothing to generalise.

## Where code and documents part

Each of these is a run whose single property states a sentence of the documents,
and which TLC refutes; the shortest behaviour is in its trace.

| Run | What happens |
|---|---|
| `order_winner` | No fault. A raises; before A's handler reads the hash back, B sells at the cap; A's transaction creates the order, for A, and B's upsert leaves it. |
| `settlement_lost` | The settlement's transaction fails once. The script has closed the auction, so every later pass is told NOT_RUNNING and the row stays RUNNING. (In the code that lasts as long as the state key: 86400 s after it was written a pass would find no key, initialize it from the row and settle.) |

More sentences are stated as properties in the modules, are false of this code, and
are kept out of the runs; to see the behaviour, give a copy of the `.cfg` named here
the property:

- `AuctionService.PriceNeverFalls` ("同一场竞拍的价格严格递增。", `src/项目计划.md:940`), in
  `OrderWinner.cfg` with `BidCalls = {b1}`, `StartCalls = {s1}`, `MaxTime = 2`. No fault:
  between `start`'s row update and its `initialize` (`auctions.service.ts:195`) a bid fills
  Redis itself and is accepted; `initialize` resets it to the starting price.
- `AuctionService.NoFalseSuccess` ("不应返回虚假的出价成功。",
  `src/直播竞拍测试用例2.0.md:458`), in `OrderWinner.cfg` with `Faults = {"db"}`. The bid's
  transaction cannot begin, so nothing is undone (`auctions.service.ts:246`); the retry is
  answered as a duplicate of an accepted bid that has no row.
- `LiveRoom.OldIgnored` ("客户端忽略旧版本消息。", `src/项目计划.md:547`), in `LiveRoom.cfg`. No
  fault, one page: the event of a bid is read but not yet emitted when a second change is
  made; the page gets the second state by HTTP and then merges the event of the first
  (`user-web/src/App.tsx:91`, `admin-web/src/App.tsx:156`).
- `BidNotices.OrderCardStays` ("展示结果，赢家进入订单流程", `src/项目计划.md:727`), in
  `BidNotices.cfg`. A lower bid whose transaction commits after the sale reads the row
  back as SOLD and emits `auctionEnded` with its own order, null
  (`auctions.service.ts:309`); the page sets its order from every such event
  (`user-web/src/App.tsx:151`).
- `run-2.0-mixed-traffic.cjs:307` asserts that no socket ever sees the price of a
  `bidAccepted` fall. `toSnapshot` awaits between its reads of Redis and the emit
  (nicknames come from MySQL), so an older snapshot may leave after a newer one. This is
  why that script is not among those of `drivers`.

The same models reach further states a reader should know of: an order whose amount
is the price without the last bid, when the settlement overtakes its transaction
(the settlement reads the amount from the row, `auctions.service.ts:419`; the
transaction has to lag by at least the 1 s the DTO allows for the window); a
cancelled auction that runs again in Redis and is sold, when a failed bid is
undone from a row read before the cancellation; a page in the room of an auction
it has left, when `leaveAuction` overtakes the `joinAuction` that still loads it, or
when a buyer has sent the form twice (its page then merges the events of both); a Bid row with
the price of somebody else's later bid (same cause as `order_winner`); a cancelled
row without its reason, when a bid in flight mirrored the cancelled hash
first; rules changed by an `update` that checked before `start`; a price in Redis
below that of the row after an undo or a refill that overlapped a commit; a
participant count cut to five after an undo. They are the reason why
`MirrorBehind` compares whole records only while the auction runs, why
`OrderMeansSold` bounds the amount instead of fixing it, and why `BoardShowsBest`
speaks of what is shown.

## What is not modelled

- A requestId used on two auctions: no client of the repository reuses one (they are
  random UUIDs). The pages of `findAll`, a read.
- The room of a user that a socket stays in after `leaveAuction`, a refused
  `joinAuction`, and failures of a store while a snapshot is assembled. The removal of
  rate-limit buckets: there is none in the code.
- In the pages: login, the list of auctions, the forms of the host. Two `joinAuction`
  handlers of one socket that stand at the same place for the same auction count as one.
- Of the test drivers: `run-2.0-mixed-traffic` (see above), `run-2.0-resource-cleanup` (open
  TCP connections, memory), `run-test-cases` (predates the authentication, so most of
  its calls are refused today), `run-large-perf-window`, `perf-baseline` (latencies),
  `run-security-auth-test-cases` (tokens and validation), `e2e-browser-flow` (a browser),
  and the set-up scripts; in `run-perf-test-cases` the connection counts and TC-PERF-003,
  which sends its bid without waiting for `joinAuction`; in `verify-p1-p2-fixes` the
  validation of amounts and the flood (the limit itself is in `BidNotices`).
- Test drivers whose sleeps are too short for the 500 ms of the timer or for the network,
  and, in `Settlement`, bids that fail or overlap in one auction (see the modules).
- `auth` (stateless signed tokens), the catalogue (single-statement create and
  read), Prisma connection and error mapping: no state of the auction. Layout of the
  pages.
- The millisecond remainder of the clock, and integers beyond 2^31 (MySQL INT): a bid
  is bounded at 10^9 by its DTO, and no arithmetic here wraps.

## Plan

Done: all modules above, their runs and proofs. What would come next: two auctions in
`AuctionService`, for a requestId that both use.
