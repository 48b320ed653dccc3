# asio-server, formally

TLA+ models of the server side of this repository (`src/Server`) and of the part
of the operator tool that talks to it (`src/Tool`), the TLC configurations that
check them and TLAPS proofs about them.

## 1. Inventory

### The system

```
 Client (C#) --- GatewayServer --- WorldServer --- ZoneServer (one link per zone)
                                      |   \
                     GmTool (C#) -----+    DB (stored procedures)
```

A gateway relays packets and reports connects and disconnects. World owns the
table of connected clients (session, player, zone, content cache), logs clients
in through the DB and routes every packet to the zone the client is in. A zone
owns the live players and simulates them. A player who leaves the rectangle of a
zone is handed over: the zone asks World, World changes its routing entry, tells
the old zone to drop the player and the new one to create it from the cache.

### Components

| component | state | operations | hard behaviour | what makes it correct |
|---|---|---|---|---|
| Core/Pipeline (lanes) | a queue per lane, running flag | Start, Post, Stop, consumer loop; strand variant | post against stop, order per owner, drain | messages of one owner run in order, one at a time; everything posted before Stop runs |
| Core/Network (Session, Connector, Listener, SessionManager, Service) | socket, send queue, buffer, closed flag | Start, SendPacket, Close, read and write completions | close against completions, one write at a time, close notification | sends keep their order, the end is reported at most once, a loss is reported |
| Core/Packet (PacketBuffer, framing) | bytes, read and write positions | Append, TryExtract, Compact, BuildFrame | compaction, frames cut anywhere, bad lengths | no byte lost, duplicated or reordered; the buffer stays bounded |
| Core/Timer (RepeatingTimer) | timer, generation, running flag | Start, Stop, tick | stop from inside the handler, late tick | no tick after Stop |
| Core/Thread (Mutexed) | shared mutex, value | read proxy, write proxy | proxy lifetime | readers or one writer |
| Core/Base (RUID) | last stamp, node number | Init, Create | threads on one word, clock going backwards, sequence running out, restarts | ids of a process increase, no two processes share one |
| Core/Task (UnitOfWork) | list of tasks | Add, encode, decode | one failing step | what is sent is exactly what was done |
| Gateway | session table, world link | connect, relay, disconnect, to-client | link loss | packets of a client keep their order |
| World: login | PlayerManager, lanes, DB lane of the session | login, sign-up, load, success, failure | two sign-ups of one name, overlapping logins, failing commands, a load next to a write | a session plays an account it named, with what that account owned; each login is answered |
| World: zone links | ZoneLinkRegistry | register, close, find | register and close of one link on different lanes | a registered zone has a live link |
| World: handoff | PlayerManager, zone links | transfer, leave, enter, return | four messages on two links | a player is in exactly the zone World routes to |
| World: units of work and DB | cache, DB lanes | apply stream, SP batches | DB failure, disconnect before the stream | cache and DB follow the zone |
| World: tool link | authenticated sessions | hello, mail to one and to all, delete | the client goes between lookup and send | the answer says what happened |
| Zone: unit container | three maps, two queues, raw snapshot | AddUnit, RemoveUnit, Tick, OnEndTick | entries and exits during a parallel tick | the tick touches only live units |
| Zone: player content | mail box, wallet, unit of work | mail add, delete, buy, expiry | rollback in reverse, expiry against rollback | all or nothing; gold is conserved |
| Zone: ticks and crossings | crossing flag, crossing list | move, report, request | tick against leave | one transfer per crossing |
| Zone: broadcast | target lists | fan out | stale targets | only members of the zone receive |
| GmTool: world link (C#) | connection, pending requests | hello, command, timeout, teardown | late answers, loss, one table for all callers | every caller is told of its own command |
| GmTool: coupons (C#) | use count and status of a coupon | issue, redeem, reward | concurrent redemptions, a reward that times out | no more rewards than uses, no more uses than allowed |
| Client, ProtocolClient, StressClient, Sql, bat, docs | - | - | - | not server logic |

### Interactions

All work runs on *lanes*: `PushMsg(producer, processor, owner, body)` puts a
message into the queue `LaneIndexOf(owner)` of the producer's lane set, so
messages of one owner are handled in order and one at a time, while different
owners run in parallel. Network completions only push messages. World's BASIC
lanes are owned by sessions before login and by players afterwards; its DB lanes
by sessions during login and by players for writes. A zone has BASIC lanes per
player and one TICK lane; both touch the unit container. Shared tables are
`Mutexed`: single operations are atomic, sequences of them are not.


## 2. Plan

Most important first.

| # | modules | what | status |
|---|---|---|---|
| 1 | `ZoneUnits`, `UnitContainer`, `ZoneProofs` | the unit maps and the raw snapshot of a zone under BASIC and TICK | checked, proved |
| 2 | `PlayerManager`, `ZoneHandoff`, `ZoneHandoffProofs` | one account over gateway, World lanes, DB lane and zones | checked, safety proved |
| 3 | `ZoneLinks`, `ZoneLinksProofs` | links of zones that come and go | checked, safety proved |
| 4 | `OwnerOrder`, `LaneFlows`, `QueueLaneSet`, `StrandLaneSet`, `LaneSets`, `LaneSetsProofs` | the lanes everything runs on, and their stop | checked; both backends proved to implement `OwnerOrder` |
| 5 | `PlayerContent`, `ZoneProofs` | mails, gold, unit of work, cache, DB, client | checked, safety proved |
| 6 | `UniqueIds`, `UniqueIdsProofs` | ids of several threads and processes under a clock that jumps, with restarts | checked, proved |
| 7 | `PacketChannel`, `PacketBuffer`, `Session`, `SessionProofs` | a connection as a stream of packets, and the session, buffer and framing that implement it | checked; safety of the session proved |
| 8 | `Login`, `LoginProofs` | sign-up, failing commands, overlapping logins, a quick return | checked, safety proved |
| 9 | `ToolLink`, `CouponRedeem`, `CouponRedeemProofs` | the operator tool's commands over a link that is lost, and coupons redeemed with them | checked, proved |
| 10 | `Broadcast` | collected targets, outbox and flush | not begun |
| 11 | `CouponIssue` | chunks through spool, DB and World, with a crash between | not begun |

Composition: `ZoneHandoff`, `PlayerContent` and `Login` take `PlayerManager`, a
module of operators on the table of World, with `INSTANCE`. `LaneSets` takes
`QueueLaneSet` and `StrandLaneSet`, of which one runs; both extend `LaneFlows`
and are shown to implement `OwnerOrder`. `Session` extends `PacketBuffer`, and two
of them with a connection between are shown to implement `PacketChannel`.
`CouponRedeem` extends `ToolLink`: its requests are callers of the link.

Every safety invariant that a run checks is proved. Left for proofs: `Delivers`,
the refinement of a connection, which needs lemmas on frames in a byte string of
any length. Liveness stays with TLC.

## 3. Modules and code

Each definition's lines are in `PROJECT.json` under `map`. Names follow the
source; a definition named after a function is the whole of it, one named after a
step of a function is one critical section of it.

**ZoneUnits, UnitContainer.** `ZoneUnits` holds the state and what is promised of
it, `UnitContainer` the operations. `units`, `players`, `readying`, `removing` and `readied` are
the members of `UnitContainer`; an element of `Objs` is a C++ object, alive while
some shared pointer holds it. `AddUnit` is three critical sections, `RemoveUnit`
three, `OnEndTick` two that matter (`RetireUnits` takes `removingUnits_`,
`EnlistUnits` takes `readyingUnits_`) and the destruction at its end. The TICK
lane runs them next to one BASIC lane per unit id.

**PlayerManager.** `sessions_` and the account index, one operator per member
function. The lock makes each call one step; callers that make two calls take two
steps, as the disconnect does in `ZoneHandoff` and `Login`: `HandleClientDisconnected`
finds the row, `ForgetClient` removes it. In `PlayerContent` the two are one step,
as everything else that touches the table there waits on the same lane.

**ZoneHandoff.** An account from connect to disconnect. A session logs in once
here. Overlapping logins of one session, which the code allows (`authenticated` is
looked at in `LoginProcessor.cpp:86` and not again at `:322`), are outside every
property and every theorem of this module: `RoutedZoneHoldsPlayer`, `ContentKept`,
`GoneLeavesNobody`, `CrossingEnds`, `LoginEntersZone` and what is proved of them.
They are followed in `Login`, on one zone. `gateway`, `lane`, `up`,
`down` and `dbLane` are the FIFO channels of the code; a channel per zone and
player stands for the link of the zone, because links keep the order per player
and nothing compares the order of two players. `job` is the handler that has
changed the table and has not sent yet, or a disconnect that has found its client
and not removed it. `visit`, `crossings` and `unit.request`
are the stages of a crossing on the TICK lane; `leaving` is the time in
`HandleLeaveZone` between clearing the flag and removing the unit. A position is
the zone that contains it.

**ZoneLinks.** `link` is the socket, `lane` the BASIC lanes, `zones` the
registry. A registration takes two hops (session lane, then zone lane), a close
one.

**LaneFlows, QueueLaneSet, StrandLaneSet, LaneSets.** `Pushes` says which
messages a handler pushes, in order. In the queue backend `consumer` is the state
of the thread of a lane, `unnotified` the pushes whose `notify_one` is still to
come, `stopping` the flags of `Stop` and `unwoken` the lanes whose `notify_all`
is to come. In the strand backend a lane with a message may run on any thread,
`ended` are the producers whose threads have joined and `cleared` those whose
strands are destroyed; a post after that is undefined behaviour and sets
`crashed` or loses the message. `OwnerOrder` promises what `MessageProcessor.h`
promises and no more: per owner, in order, one at a time.

**PlayerContent.** `content` is the mail box with its cached next expiry and the
wallet; `basic` and `tick` are the two units of work that can be open; `up` is
the link to World; `table` is World's cache; `dbLane` and `db` are the writes and
their effect; `client` is what `WorldModel.cs` lists. A mail is its id and its
end. `~ZoneUnitOfWork` is two steps, because its two sends happen with no lock
held and the other lane may send in between. `TickMail` is one step, because it
keeps the lock. `EnterZoneBody` keeps the newest mails that fit.

**UniqueIds.** `last` is `lastStamp_`, a pair of millisecond and sequence (the
code packs both into one atomic word); `Assemble` is the packing of an id, done on
numbers, so that a field that outgrows its bits would run into the next one.
A call of `Create` goes through `Load` and `ReadClock`, which goes back to `Load`
while the sequence of the millisecond is used up, to `Swap` or `SwapFails`, as
`compare_exchange_weak` may fail for no reason. `SetClock` sets the clock of a
process to anything, also before the epoch; `Crash` and `InitRuid` are the end and
the start of a process, which forgets `last`. The node of a zone server is computed
from its zones as `main.cpp` does it.

**PacketBuffer, PacketChannel, Session.** `PacketBuffer` is the reassembly buffer
over real bytes: `Append` with its compaction and growth, `TryExtract` with its
three outcomes, `BuildFrame`. In `Session` whatever the code posts on the strand
is a task in `strand`, completions included; `writes` are the outstanding
`async_write` calls with what is left of them (a sequence, so that a second call
would be seen), `reading` the outstanding read, `draining` the loop over
`TryExtract`, `wire` what the system holds. Below that, asio and TCP take up to
`WriteSize` bytes at a time and hand out up to `ReadSize`, anywhere. `Close` and
`HandleClose` decide with the exchange of `closed_`; `Destroy` is the destructor,
possible when nothing holds the session any more. `PacketChannel` is what a
connection promises: the packets come out in the order they were posted, each once
and unchanged, and all of them while it lasts.

**Login.** The messages of `LoginProcessor` on the lanes of the session and, after
the login is recorded, of the player; the three commands of a login
(`usp_players_select`, `usp_players_upsert`, `usp_players_load`) on the DB lane of
the session, and the writes of a player on its own. `accounts` and `gold` are the
tables. `CompleteLogin` and `ConfirmLogin` are the two halves of the success
handler, between the choice of the zone and the record; `leaving` is a disconnect
that has found its row and not removed it. There is one zone:
`toZone` is what World sends it for each player, `wallet` the purse of a player who
is there. `Spend` takes from the purse and puts what is left on the lane of the
player, where `HandleUnitOfWorkStream` enters it in the cache of whichever session
the index names, and has it written. Passwords are numbers that match or do not.

**ToolLink, CouponRedeem.** `loop` is where `ExecuteAsync` is (delay, connect,
hello, read, teardown), `pending` and `outcome` the table of requests with what
each completion was set to, `caller` where each `SendCommandAsync` is. `Send`
enters the request in the table and writes it; `Complete` finds it or not.
Time is not modelled: any request that waits may time out at any moment, so every
race of a timeout with an answer or a teardown is there. `WakeAll` and `Dispose`
are the two halves of the teardown. On World's side a connection has a lane, and
`job` is a handler that has looked its targets up and has not sent yet, while
clients move and go. In `CouponRedeem`, `TryConsume` is the conditional update,
together with the checks that precede it and that may refuse what the update would
not; `Reward` and `Finish` are the mail and the answer. A campaign that does not
reward by mail, or a request that names no client (`ClientSessionId` is null,
`CouponRedeemService.cs:55`), uses the coupon and is told "Ok" with no mail at all
(`:141`): that is `RegisterOnly`. `ToldIsTrue` says that "Ok" means a delivered mail
to the requests that are owed one (`OwesMail`), and that the others get none. World
may answer "BadRequest" to any mail, as what its text holds is not modelled.

## 4. Runs

| run | question | result |
|---|---|---|
| `container_tick` | do entries and exits during ticks keep pointers backed, maps equal, stayers ticked and leavers destroyed? | holds; pointers of units whose removal is confirmed before their enlisting excepted |
| `container_dangling` | the class comment: no raw pointer dangles | refuted |
| `handoff_players` | is a client in the one zone World routes it to, with what it owns, does it leave nobody behind, and do its crossings and logins end? | holds, with the exceptions named below |
| `handoff_stale` | the cache carried by a handoff is up to date | refuted |
| `links_registry` | is a zone routed to its last link, no live link removed, and a link that stays up registered? | holds, but for late registrations |
| `lanes_stop` | order per owner, no lost wakeup, a stop that ends and loses only what is sent backward, on both backends | holds |
| `content_sync` | do zone, World, DB and client agree, whatever fails or expires, and do expiries get to the DB? | holds |
| `ids_issue` | do ids increase and differ, whatever threads, clocks and restarts do? | holds; a restart whose clock is not past its last id excepted |
| `stream_link` | does a connection implement the packet channel, with one write at a time, one report of its end, exact counts and a bounded buffer? | holds |
| `login_accounts` | does each session play an account it named, with what it owned, does the index name a session of the account, and is each login answered? | holds |
| `login_rejoin` | a load never runs beside a write of the same player | refuted |
| `tool_mail` | is every caller told of its own command, does nothing stay in the table, and is a coupon rewarded no more than it was used? | holds |

Several properties except what a refuted claim lets happen. The exception is
always a history variable that records the step at which it happened
(`doubled`, `ahead`, `stray`, `orphaned`, `overtaken`, `misled`, `late`, `unsaved`,
`behind`, `misplaced`, `twice`), set by the action in question and never read by a guard, so that the rest of the
property is still checked in every behaviour in which it did not happen.

### Bounds

- `container_*`: two unit ids, one of which enters twice. The hazards need one
  object that leaves while another version of the same id, or another unit, is
  ticked; three objects give all of those.
- `handoff_*`: one account; accounts share only the registry of zones, which is
  constant here. Three zones so that a second crossing can start before the first
  one is through; two moves reach it. One connection, which logs in once: a
  second login of an account that is online is named as missing in the repository
  (`README.md:143`). That, and overlapping logins of one connection, are followed in
  `Login`, on one zone.
- `links_*`: a zone whose server comes back twice, beside another zone, each
  owner on its own lane, which has every interleaving sharing a lane has.
- `lanes_*`: two packets of a session that hop to the lane of their player on the
  same producer and a login that goes to the DB producer and back; lanes are
  shared by owners of both kinds. These are the flows of World.
- `content_*`: one mail outside the entry budget and one inside, one that
  expires at once and one that never does, gold for one purchase so that the
  second fails, one refused transaction, two requests, one tick of the clock.
  Each hazard listed for the component needs at most two requests and an expiry.
- `ids_*`: two threads of World that issue three ids over two lives, and a zone
  server that issues one. `SequenceMask` is 1, so two ids use a millisecond up and
  the third has to wait for the next; `TimestampMask` is 2 and the clock goes one
  past it, so the field runs out too. Node numbers keep their real width.
- `stream_*`: one direction, because the two directions of a session share only
  the closed flag and the socket, and either end may set those. Bodies of at
  most one byte, reads of at most two and writes of three, so that frames of
  three bytes, header and body (the two header fields take a byte each), are cut
  at every place and the buffer compacts with part of a frame in it. Of two
  threads, one has a packet refused by `BuildFrame` and one accepted, the other
  sends a batch of two with one too large, as a peer that does not use
  `BuildFrame` may. Only the application of one end closes; the other end closes on a
  bad frame or a lost connection. Ten bytes are too few to see a buffer that is never
  compacted pass its bound; that it stays bounded for packets of any number is the
  theorem `BufferStaysBounded`.
- `login_*`: two sessions and two names, one with an account. One login
  has invalid input, both clients want the other name, with
  different passwords; one failing command, one change of the zone's link, one
  report of a purse of two gold. Three ids are enough for the account that exists
  and two proposals, so the loser of the race plays the account of the winner: two
  sessions on one account, either of which may go first. One session has two logins
  that overlap and may be confirmed for two accounts. A
  third session would repeat the race of two.
- `tool_*`: two requests for a coupon that may be used once, one of which names no
  client, and one mail to everybody, one client, two connections, so that a request
  of the first connection meets the teardown and the second one. Only one of the
  requests can use the coupon, so a second one with a client adds nothing on the
  link.

### Fairness

Runs with liveness properties use `FairSpec`, weak fairness of what the processes
do by themselves: lane and DB threads loop until stopped, the tick timer repeats,
messages on a connected link arrive (`ZoneHandoff`, `PlayerContent`); in `Session`
a session that was opened is started, posted tasks are run and asio completes what
it was asked for. Nothing is assumed of clients, of zone servers that connect or
close, of failing commands, of a connection that breaks or an end that closes, of
the clock, or of the moment of a stop; in `LaneSets` a stop that has begun goes on,
as `Stop` runs in a thread of its own. No strong fairness is used. `ids_issue`,
`tool_mail` and the refuted claims check safety only and use `Spec`.

`CHECK_DEADLOCK FALSE` stands where the bounds stop the clients or everything has
stopped; in `container_*` the tick never stops and deadlock is checked.

## 5. Proofs

All proofs are for every value of the constants, under the assumptions named in
the modules: the types of the constants, that owners have one lane and messages
one sender, that zones are served once and the numbers of World end where those of
the zones begin, and, in `Session`, that what threads send are bytes
(`ScriptAssumption`: a recursive function computes them). One more
hypothesis stands in theorems and not in a module: `OneSessionEach`, of those
about where a player is and what it owns in `ZoneHandoff`. They also rest on what
that module says of a session, that it logs in once.

- **ZoneProofs, the units**: `UnitInvariant`, `UnitTypes`, `SnapshotIsOwned`
  and `IndexesAgree`. `SnapshotOwned` says that a raw pointer of the snapshot is
  held by some shared pointer; it is not inductive, because it does not say which.
  `IInv` does: by `units_`, by the local of a `RemoveUnit` between its first and
  last lock, or by `removingUnits_`, and how far apart the two maps are at each
  step of a handler. Only `RetireUnits` takes that backing away, and it takes the
  pointer with it or records the object in `doubled`.
- **ZoneProofs, what players own**: `InvariantHolds` and, from it, all six
  invariants of `PlayerContent`. Its rollback, expiry, cache and DB are folds over
  lists and sets of any length, sums and minima included. No induction theorem of
  the library can be used for them, but the least number of a set can be taken
  (`LeastNumber`): the numbers for which a function as the fold wants it does not
  exist have no least one (`FoldExists`, `FoldLeftExists`, `SumExists`). After that
  a unit of work is one of three shapes (`UnitShape`), and each fold over it is one
  equation (`CacheEffect`, `DbEffect`, `RemovedEffect`).
  `PlayerContentInvariant` has a part for each promise. `Fresh`: a mail that is
  not issued, refused or not sent yet is known nowhere. `Gone`: nothing under way
  removes a mail of the box. `Following`: where World or the client has a mail
  and the zone has not, or the other way round, something to be sent or on its way
  will change that, or the mail expired before its addition was sent. `GoldFollows`
  and `DbBehind`: the last write under way is the value at its source, and without
  one the two ends agree. `GoldKept`: a purchase carries the gold that is left when
  its mail and all before it are paid for. That needs `AddedInOrder`, as mails reach
  the DB in the order of their ids although transactions between them may be refused.
- **ZoneHandoffProofs**, in three layers, about sessions that log in once, one for
  each account. The first is about sessions: one connects once, nothing of it is
  known anywhere before, and a tick reports for a unit that is there or was removed
  under it.
  `HandoffInvariant` says where a player will be: `WillBe` follows what waits in
  the queue of a zone, and after all of it the player is in the zone of its row and
  in no other, but for strays. A zone is locked from the transfer it asks for to the
  answer, so there is one transfer at a time, and a zone that will still have
  somebody who is gone is about to be told, unless a transfer came between the
  look-up and the removal of the disconnect (`misled`). When nothing is under way
  that is `HandoffReachesItsZone` and `TheGoneLeaveNobody`.
  `ContentInvariant` follows the gold along that way: every purchase comes off what
  the zone of the row has; the reports on its link end at what is left (`Ends`) and
  stand before its transfer (`ReportsFirst`); an entry on its way brings that amount,
  unless the player is there already; the DB lane ends at the cache. Hence
  `WhatIsOwnedIsKept`. The middle layer is needed because a purchase only counts
  once if a player who buys stays at the zone of its row with no transfer under way.
  The last two layers assume `OneSessionEach`, as the code leaves a second login
  of an account open (`README.md:143`): with two sessions the leave of the first
  can meet the entry of the second. The run has one session and makes it true.
- **ZoneLinksProofs**: `TypeCorrect` and `OpenLinksStayRegistered` (an action
  property): a close message in a lane names a link that has closed
  (`CloseMessagesTrue`), so what a close removes is closed. That needs removal by
  session and not by zone. `RInv` adds the other direction: a link that is open and
  was not overtaken is registered or its registration waits in one of the two lanes
  it hops over, and one that is registered and closed, and not registered late, has
  its close waiting. That is `RegistryIsRight` once nothing waits.
- **LaneSetsProofs**: `BothKeepOwnersInOrder`, a refinement: whichever backend runs,
  the lane sets implement `OwnerOrder`. What a backend does to messages is one of
  five moves (`Arrives`, `PutsNext`, `LosesNext`, `Begins`, `Finishes`) or none, and
  the argument is about those. `OrderInv` says that a message is in one place and
  once (`InOnePlace`), that what came before it for its owner is done, in hand or
  ahead of it in its queue (`BeforeItInQueue`), and that what a handler has yet to
  push is nowhere (`NotYetPushed`), which holds as a message has one sender. A
  `Begins` then maps to `Begin` of a message all of whose predecessors are done,
  `Finishes` to `End`, a push to `Post`, everything about wakeups and stops to a
  stutter. `LaneInv` adds how a stop goes on: in the queue backend (`QueueState`) a
  thread leaves only with its flag set and producers join in order; in the strand
  backend (`StrandState`) only stopped producers have ended, no lane of an ended one
  runs, and only to those a post goes astray. Who still handles a message belongs to
  no earlier producer, which makes every loss a backward one
  (`StopsLoseOnlyBackward`).
- **UniqueIdsProofs**: `TypeCorrect`, `IdsAlwaysIncrease` and `NodesAlwaysDiffer`.
  Ids order as their stamps do, because no field outgrows its bits (arithmetic on
  the packing, stated as lemmas). The last id of a life is `lastStamp_`; a thread
  that is about to store holds something later than what it loaded, and the swap
  only succeeds if that is still there. Two processes differ in the node field.
- **SessionProofs**: `OneWriteAtATime`, `OwnerHearsOnce`, `CountedIsQueued`,
  `BufferStaysBounded`. `OneWrite` alone is not inductive: `WritesInv` says in
  which of four shapes queue, flag, outstanding writes and the strand are, and
  `ReadsInv` that a read is outstanding, reported in the strand or being worked
  on, but only one of these. The buffer is bounded because a read is asked for only
  when less than a frame is left, and compaction keeps the read position in the
  lower half; the positions are sums and lengths, which the lemmas on `Append` and
  `TryExtract` state.
- **LoginProofs**: `LoginInvariant`, `EveryoneIsWhoTheyNamed`,
  `NobodyIsGivenWhatWasNotTheirs` and `TheIndexIsRight`. Whatever waits in a lane, in the DB lane or on
  the way to the zone, is cached or is stored goes back to three things: the logins
  its client has sent, the accounts that exist under the names in them, and the
  amounts those accounts have owned. All three only grow, so what was right when it
  was queued is right when it is taken. The index needs more: that a row is never put
  back to what it was before its login. `OnceInv` follows the one "connected" of a
  session from its client to its lane, and nothing knows the session until it is
  handled, so it never overwrites a row that has logged in. Sessions may share
  accounts and logins of a session may overlap; only a session that was confirmed for
  two accounts (`twice`) is left out.
- **CouponRedeemProofs**: `RewardsStayWithinUses`. A request has a number on the
  link only after its own conditional update, so the requests with a number are
  among those that used the coupon, of which there are at most `useCount`; what
  World delivers carries the number of a request. The link may do anything else.
  `LinkInv` is about the link: every caller and every connection has one id; at
  World a request is in one place, in a lane or with a handler, and carries the
  command of its caller; what is reported of it, on the way, noted or returned, is
  settled, because it has left World and no more of it is delivered. It gives
  `NothingPendsForgotten`, `AnswersAlwaysMatch` and, with the flow of a redemption,
  `ToldIsAlwaysTrue`: a request that is owed a mail and told "Ok" had it delivered,
  and one that is told of a refusal, or is owed none, had nothing delivered.

Only model-checked: liveness (fairness and ENABLED are out of the prover's
reach) and `Delivers`, whose mapping folds frames over byte strings of any length.
The types of `UnitContainer`, `ZoneLinks`, `Session` and `ZoneHandoff` are proved
and have no run.

## 6. What the checks found

Refuted claims, each with a run whose counterexample is a behaviour of the code:

1. `UnitContainer.cpp:169` (`container_dangling`): a unit added and removed
   between two `OnEndTick` is first dropped from `removingUnits_` and then
   enlisted as a raw pointer, which the next tick dereferences.
2. `BasicProcessor.cpp:430` (`handoff_stale`): a purchase made in the old zone
   after its transfer request reaches World after the new zone got its content.
3. `LoginProcessor.cpp:210` (`login_rejoin`): a player that leaves and logs in
   again is loaded on the DB lane of the new session while its last write waits on
   the lane of the player; `players.sql:85` says procedures of one player never
   run at the same time.

Exceptions that properties which hold had to name, each a sequence of steps TLC
reaches:

- `BasicProcessor.cpp:442-443`: the comment says an entry without a cache is soon
  followed by a leave. A transfer handled after the disconnect enters an empty
  player whom no leave ever removes (`orphaned`). Nor does a leave that is sent
  before the entry of a login in progress (`overtaken`), as the owner of the
  messages changes with the login.
- A disconnect reads the row of its client (`BasicProcessor.cpp:277`) and erases it
  under a second lock (`:278`). Queued before its login was recorded, it runs on the
  lane of the session; a transfer on the lane of the player in between enters the
  player in the next zone, the leave goes to the one before, and the player stays
  behind (`misled`).
- A second transfer for one crossing is sent when a tick visits a unit between the
  clearing of its flag and its removal (`stray`).
- `Z2WHandler.cpp:32-34`: registration and close of a link are said to keep their
  order. The registration hops to the lane of its zone and the close does not, so
  a closed link can be registered, and stays (`late`), or an older one replaces a
  newer one (`overtaken`).
- `ILaneSet.h:31-32`: a stop handles everything that waits. The thread of an empty
  lane leaves (`QueueLaneSet.h:111`) although other lanes of its producer still
  post to it, and a producer that has stopped takes no more from later ones:
  `OnlyBackwardLost` says that only those messages are lost.
- `ZoneUnitOfWork.h:14-15`: the client cannot differ from the server. A mail that
  expires between `AddMail` and the sends is added, in client, World and DB, after
  its removal (`overtaken` of `PlayerContent`).
- `DbProcessor.cpp:48`: rows of a refused transaction stay behind until they are
  written again (`unsaved`).
- `RUID.cpp:33`: a process that is started again while its clock is not past its
  last id issues ids that do not increase, or old ones (`behind`).
- The last report of an account can be handled after its session has been
  confirmed for another one: the index still names the session
  (`BasicProcessor.cpp:495-499`), and the amount goes into the cache that now is the
  other account's. `CacheWasOwned` excepts it (`misplaced`).
- Two overlapping logins of one session may be confirmed for two accounts
  (`LoginProcessor.cpp:322` does not look whether it is authenticated): the index
  goes on naming the session for the first (`twice`).

Met while reading and not checked:

- `BasicProcessor.cpp:405-406` says that a move inside one process sends no leave,
  but every zone has a link of its own (`ZoneApp.cpp:127-132`), so one is always
  sent. The target zone of a transfer is looked up twice (`FindZoneContaining`,
  then `Find`); if its link closes in between, the handler returns without sending
  the player back.
- The limit of mails is checked against the mails of the zone, not against those
  hidden by the entry budget. The C# client has no rule for currency tasks and
  gets no list of the mails it already owns when it enters.
- A second login of an account that is online replaces the entry of the first in
  the index, and `Remove` erases the entry, whosever it is. Of two clients that
  make one account at once, the loser enters the account of the winner without a
  check of its own password.
- `WorldLinkClient.cs:39` says that a loss wakes every request. One that is
  registered after the sweep of the teardown waits until its timeout. A loss
  before the answer to the hello is noticed only at the timeout of the hello, and
  a caller that saw the old connection ready may write on the new one before its
  hello and be refused. A reward whose mail timed out may have been delivered
  although its answer says "delayed".
- A session closed from this side never reports `OnClosed`, so its owner has to
  forget it by itself.

## 7. Not modelled, and why

- `3rd/asio`: vendored, and nine tenths of the source lines of the repository.
  Strands, `io_context::run` and the completions of reads and writes are external
  definitions in `StrandLaneSet` and `Session`, from how the code uses them:
  handlers of one strand run in order and one at a time; `run` returns when there
  is no work. The models stand for about 4,100 lines of the 21,000 of the
  repository's own C++ and C# in `Server` and `Tool`.
- Connector and network service: the retry timer, the connect and the stop all run
  on the one thread of its `io_context`, so nothing interleaves.
- Repeating timer: timers are stopped after the network threads have been joined,
  so no tick runs beside the stop. Ticks come again and again in the models.
- Session registries and listener: a map behind a lock, an accept loop.
- Packet codecs, packet definitions, logging, console, configuration, pages,
  drawing: sequential, and no property here depends on them. Messages are records.
- `Mutexed`: used as what it is, one step for what a proxy holds locked.
- Zone broadcast: positions sent at each tick, each replaced by the next; no other
  state depends on them.
- The loss of the links between the servers, except in `ZoneLinks` and `ToolLink`:
  nothing reconnects a zone or a gateway (`Connector.h:17`), so what follows is the
  end of service and not a protocol.
- Issuing coupons: chunks through a spool file and a bulk copy; a crash between
  its steps is the one listed hazard without a property.
- Notices, coupon chunks and the client list of the tool link: they change no
  state of World.
- Positions as numbers (a position is the zone that contains it), times as numbers
  except the clocks of `UniqueIds` and the expiry of mails.
- Two sessions of one account across zones: followed on one zone in `Login`.
- Command line, test clients, presentation: no server logic.
