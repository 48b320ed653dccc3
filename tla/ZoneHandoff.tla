----------------------------- MODULE ZoneHandoff -----------------------------
(***************************************************************************)
(* How a connected client gets into a zone, crosses from zone to zone and  *)
(* goes away: the protocol between WorldServer (BasicProcessor,            *)
(* LoginProcessor::CompleteLogin, PlayerManager) and the zones             *)
(* (ZoneProcessor, Unit, TickProcessor).                                   *)
(*                                                                         *)
(* Lanes.  World runs one handler at a time per owner, an owner being a    *)
(* client session until login and the player afterwards (OwnerOf, decided  *)
(* when the message is pushed).  A handler that touches the table and then *)
(* sends is two steps, the second kept in job[owner], so that the other    *)
(* owners' handlers run in between.  A zone handles one player's messages  *)
(* in order (BASIC lane of that player) while its TICK lane runs.          *)
(*                                                                         *)
(* Links.  Each zone has its own TCP link to World.  Only the order of the *)
(* messages about one player matters, since the lanes behind a link are    *)
(* per player, so a link is a FIFO per zone and player in each direction.  *)
(* All zones stay registered; that registry is ZoneLinkRegistry's subject. *)
(*                                                                         *)
(* Positions are abstracted to the zone that contains them, or Outside.    *)
(* Of a player's content only the gold is kept; a purchase (HandleMailBuy) *)
(* spends one piece and reports the new amount in a UnitOfWork.            *)
(***************************************************************************)
EXTENDS Integers, Sequences

CONSTANTS
    Sessions,       \* client sessions, in the gateway's numbering
    Players,        \* account ids
    AccountOf,      \* the account whose name the session's client types
    Zones,
    EntryZone,      \* the registered zone with the smallest id
    Outside,        \* a position no registered zone contains
    NoPlayer, NoZone,
    NoSession,
    InitialGold,    \* amount in the DB at the start
    MaxMoves,       \* bound: moves a client sends
    MaxBuys,        \* bound: purchases a client sends
    Disconnects     \* sessions that may go away

ASSUME ZoneHandoffAssumption ==
    /\ AccountOf \in [Sessions -> Players]
    /\ EntryZone \in Zones
    /\ Outside \notin Zones
    /\ NoPlayer \notin Players /\ NoZone \notin Zones \cup {Outside}
    /\ NoSession \notin Sessions
    /\ Sessions \cap Players = {}
    /\ InitialGold \in Nat /\ MaxMoves \in Nat /\ MaxBuys \in Nat
    /\ Disconnects \subseteq Sessions

PM == INSTANCE PlayerManager

VARIABLES
    client,     \* per session: "new", "open", "login", "gone"
    moves,      \* per session: moves sent
    buys,       \* per session: purchases sent
    gateway,    \* per session: what its gateway sent and World's LB step has not routed
    lane,       \* per owner: World BASIC messages waiting
    job,        \* per owner: the send its current handler still has to do
    table,      \* World: PlayerManager
    loading,    \* sessions whose account is being read from the DB
    dbLane,     \* per player: amounts waiting to be written to the DB
    db,         \* per player: gold in the DB
    up,         \* per zone and player: zone -> World
    down,       \* per zone and player: World -> zone
    unit,       \* per zone and player: the Player object, or none
    leaving,    \* per zone and player: HandleLeaveZone has ended the crossing
                \* and not yet removed the unit
    visit,      \* per zone and player: the tick found a position outside the
                \* zone and has not yet reported it; removed: the unit it
                \* visits has been removed meanwhile
    crossings,  \* per zone and player: Zone::crossings_, the target or NoZone
    spent,      \* history: successful purchases of a player
    ahead,      \* history: players that bought at a zone they had asked to leave
    stray,      \* history: players a transfer was sent for with no crossing
                \* under way, or by a zone that was removing them
    orphaned,   \* history: players a handoff entered after their session was gone
    overtaken,  \* history: players whose leave was sent before the entry of
                \* their login
    misled      \* history: players who were routed to another zone between the
                \* two looks their disconnection takes at the table

clientVars == <<client, moves, buys>>
dbVars == <<dbLane, db>>
worldVars == <<lane, job, table, loading, dbVars>>
zoneVars == <<unit, leaving, visit, crossings>>
zoneHistory == <<spent, ahead, stray>>
worldHistory == <<orphaned, overtaken, misled>>
history == <<zoneHistory, worldHistory>>
vars == <<clientVars, gateway, worldVars, up, down, zoneVars, history>>

Owners == Sessions \cup Players
Positions == Zones \cup {Outside}

Msg(type, s, to, gold) == [type |-> type, session |-> s, to |-> to, gold |-> gold]

NoJob == [do |-> "none", zone |-> NoZone, session |-> NoSession, player |-> NoPlayer, gold |-> 0]
Job(do, z, s, p, gold) ==
    [do |-> do, zone |-> z, session |-> s, player |-> p, gold |-> gold]

NoUnit == [session |-> NoSession, gold |-> 0, crossing |-> FALSE, request |-> NoZone]
NoVisit == [to |-> NoZone, removed |-> FALSE]

Init ==
    /\ client = [s \in Sessions |-> "new"]
    /\ moves = [s \in Sessions |-> 0]
    /\ buys = [s \in Sessions |-> 0]
    /\ gateway = [s \in Sessions |-> <<>>]
    /\ lane = [o \in Owners |-> <<>>]
    /\ job = [o \in Owners |-> NoJob]
    /\ table = PM!EmptyTable
    /\ loading = {}
    /\ dbLane = [p \in Players |-> <<>>]
    /\ db = [p \in Players |-> InitialGold]
    /\ up = [z \in Zones |-> [p \in Players |-> <<>>]]
    /\ down = [z \in Zones |-> [p \in Players |-> <<>>]]
    /\ unit = [z \in Zones |-> [p \in Players |-> NoUnit]]
    /\ leaving = [z \in Zones |-> [p \in Players |-> FALSE]]
    /\ visit = [z \in Zones |-> [p \in Players |-> NoVisit]]
    /\ crossings = [z \in Zones |-> [p \in Players |-> NoZone]]
    /\ spent = [p \in Players |-> 0]
    /\ ahead = {}
    /\ stray = {}
    /\ orphaned = {}
    /\ overtaken = {}
    /\ misled = {}

(***************************************************************************)
(* The client and its gateway.                                             *)
(***************************************************************************)

ToWorld(s, m) == gateway' = [gateway EXCEPT ![s] = Append(@, m)]

ClientConnect(s) ==
    /\ client[s] = "new"
    /\ client' = [client EXCEPT ![s] = "open"]
    /\ ToWorld(s, Msg("connected", s, NoZone, 0))
    /\ UNCHANGED <<moves, buys, worldVars, up, down, zoneVars, history>>

\* A session logs in once here.  The code would confirm two logins of a
\* session that overlap; the module Login follows those.
ClientLogin(s) ==
    /\ client[s] = "open"
    /\ client' = [client EXCEPT ![s] = "login"]
    /\ ToWorld(s, Msg("login", s, NoZone, 0))
    /\ UNCHANGED <<moves, buys, worldVars, up, down, zoneVars, history>>

\* The client reports its position at its own pace and waits for nothing.
ClientMove(s, to) ==
    /\ client[s] = "login"
    /\ moves[s] < MaxMoves
    /\ moves' = [moves EXCEPT ![s] = @ + 1]
    /\ ToWorld(s, Msg("move", s, to, 0))
    /\ UNCHANGED <<client, buys, worldVars, up, down, zoneVars, history>>

ClientBuy(s) ==
    /\ client[s] = "login"
    /\ buys[s] < MaxBuys
    /\ buys' = [buys EXCEPT ![s] = @ + 1]
    /\ ToWorld(s, Msg("buy", s, NoZone, 0))
    /\ UNCHANGED <<client, moves, worldVars, up, down, zoneVars, history>>

ClientDisconnect(s) ==
    /\ s \in Disconnects
    /\ client[s] \in {"open", "login"}
    /\ client' = [client EXCEPT ![s] = "gone"]
    /\ ToWorld(s, Msg("disconnected", s, NoZone, 0))
    /\ UNCHANGED <<moves, buys, worldVars, up, down, zoneVars, history>>

(***************************************************************************)
(* World.                                                                  *)
(***************************************************************************)

OwnerOf(s) ==
    IF PM!FindPlayerId(table, s) # NoPlayer THEN PM!FindPlayerId(table, s) ELSE s

\* OnRecvStream, on the gateway link's lane: re-push under the owner.
OnRecvStream(s) ==
    /\ gateway[s] # <<>>
    /\ gateway' = [gateway EXCEPT ![s] = Tail(@)]
    /\ lane' = [lane EXCEPT ![OwnerOf(s)] = Append(@, Head(gateway[s]))]
    /\ UNCHANGED <<clientVars, job, table, loading, dbVars, up, down, zoneVars, history>>

\* The lane of o is free and its next gateway message has one of the types.
TakeFromLane(o, types) ==
    /\ job[o] = NoJob
    /\ lane[o] # <<>>
    /\ Head(lane[o]).type \in types
    /\ lane' = [lane EXCEPT ![o] = Tail(@)]

ToZone(z, p, m) == down' = [down EXCEPT ![z][p] = Append(@, m)]

HandleClientConnected(o) ==
    /\ TakeFromLane(o, {"connected"})
    /\ table' = PM!Add(table, Head(lane[o]).session)
    /\ UNCHANGED <<clientVars, gateway, job, loading, dbVars, up, down, zoneVars, history>>

\* Only a registered session that is not authenticated goes to the DB.
\* Mutant: the test is inverted.
MayLoginInverted(s) == PM!Has(table, s) /\ PM!Find(table, s).authenticated
MayLogin(s) == PM!Has(table, s) /\ ~PM!Find(table, s).authenticated

HandleLogin(o) ==
    /\ TakeFromLane(o, {"login"})
    /\ LET s == Head(lane[o]).session IN
       loading' = IF MayLogin(s) THEN loading \cup {s} ELSE loading
    /\ UNCHANGED <<clientVars, gateway, job, table, dbVars, up, down, zoneVars, history>>

\* The DB lane has read the account and its content and posts the result
\* back to the session's lane.
LoadPlayerContent(s) ==
    /\ s \in loading
    /\ loading' = loading \ {s}
    /\ lane' = [lane EXCEPT ![s] = Append(@, Msg("loginSuccess", s, NoZone, db[AccountOf[s]]))]
    /\ UNCHANGED <<clientVars, gateway, job, table, dbVars, up, down, zoneVars, history>>

\* Fill the cache and confirm the login in one critical section; the entry
\* packet, whose body is already built, is sent afterwards.
CompleteLogin(o) ==
    /\ TakeFromLane(o, {"loginSuccess"})
    /\ LET s == Head(lane[o]).session
           gold == Head(lane[o]).gold
           p == AccountOf[s]
       IN IF PM!Has(table, s)
          THEN /\ table' = PM!SetZoneId(PM!SetAuthenticated(table, s, p, {}, gold), s, EntryZone)
               /\ job' = [job EXCEPT ![o] = Job("enter", EntryZone, s, p, gold)]
          ELSE UNCHANGED <<table, job>>
    /\ UNCHANGED <<clientVars, gateway, loading, dbVars, up, down, zoneVars, history>>

\* A game packet goes to the zone the cache names, once authenticated.  One
\* step: sent later, the packet is dropped by a zone the player has left, or
\* comes like one the client sends later.
HandleFromClient(o) ==
    /\ TakeFromLane(o, {"move", "buy"})
    /\ LET m == Head(lane[o])
           info == PM!Find(table, m.session)
       IN IF PM!Has(table, m.session) /\ info.authenticated
          THEN ToZone(info.zoneId, info.playerId, m)
          ELSE UNCHANGED down
    /\ UNCHANGED <<clientVars, gateway, job, table, loading, dbVars, up, zoneVars, history>>

\* Look the client up, forget it under a second lock, and tell the zone that
\* the look-up found.
HandleClientDisconnected(o) ==
    /\ TakeFromLane(o, {"disconnected"})
    /\ LET s == Head(lane[o]).session
           info == PM!Find(table, s)
       IN job' = IF PM!Has(table, s)
                 THEN [job EXCEPT ![o] = Job("forget", info.zoneId, s, info.playerId, 0)] ELSE job
    /\ UNCHANGED <<clientVars, gateway, table, loading, dbVars, up, down, zoneVars, history>>

\* Mutant: the zone is looked up after the client has been forgotten.
LinkToLeaveTooLate(zoneId) == FALSE
LinkToLeave(zoneId) == zoneId \in Zones

ForgetClient(o) ==
    /\ job[o].do = "forget"
    /\ LET s == job[o].session IN
       /\ table' = PM!Remove(table, s)
       /\ job' = [job EXCEPT ![o] = IF LinkToLeave(@.zone) THEN [@ EXCEPT !.do = "leave"] ELSE NoJob]
       /\ misled' = IF PM!Has(table, s) /\ PM!Find(table, s).zoneId # job[o].zone
                    THEN misled \cup {PM!FindPlayerId(table, s)} ELSE misled
    /\ UNCHANGED <<clientVars, gateway, lane, loading, dbVars, up, down, zoneVars,
                   zoneHistory, orphaned, overtaken>>

TakeFromZone(z, p, type) ==
    /\ job[p] = NoJob
    /\ up[z][p] # <<>>
    /\ Head(up[z][p]).type = type
    /\ up' = [up EXCEPT ![z][p] = Tail(@)]

\* Route the player to the zone that contains the position, or back; the
\* source zone's link is never the target's, so it always gets a leave.
\* Mutants: no leave; the routing table is not updated.
NoLeaveToSource(z, target) == FALSE
LeaveToSource(z, target) == target # z

KeepRoute(s, target) == table
Reroute(s, target) == PM!SetZoneId(table, s, target)

HandleZoneTransfer(z, p) ==
    /\ TakeFromZone(z, p, "transfer")
    /\ LET m == Head(up[z][p])
           target == IF m.to \in Zones THEN m.to ELSE z
       IN /\ IF LeaveToSource(z, target)
             THEN ToZone(z, p, Msg("leave", m.session, NoZone, 0))
             ELSE UNCHANGED down
          /\ table' = Reroute(m.session, target)
          /\ job' = [job EXCEPT ![p] = Job("enterFromCache", target, m.session, p, 0)]
    /\ UNCHANGED <<clientVars, gateway, lane, loading, dbVars, zoneVars, history>>

\* The content of a handoff's entry is read from the cache when it is sent,
\* and is empty when the session is gone.  Mutant: it is always empty.
EmptyBody(s) == 0
EnterZoneBodyFor(s) == IF PM!Has(table, s) THEN PM!Find(table, s).gold ELSE 0

\* The content of a login's entry was built before the cache was filled.
SendEnterZone(o) ==
    /\ job[o].do \in {"enter", "enterFromCache"}
    /\ LET j == job[o]
           gold == IF j.do = "enter" THEN j.gold ELSE EnterZoneBodyFor(j.session)
       IN /\ ToZone(j.zone, j.player, Msg("enter", j.session, NoZone, gold))
          /\ orphaned' = IF j.do = "enterFromCache" /\ ~PM!Has(table, j.session)
                         THEN orphaned \cup {j.player} ELSE orphaned
    /\ job' = [job EXCEPT ![o] = NoJob]
    /\ UNCHANGED <<clientVars, gateway, lane, table, loading, dbVars, up, zoneVars,
                   zoneHistory, overtaken, misled>>

SendLeaveZone(o) ==
    /\ job[o].do = "leave"
    /\ ToZone(job[o].zone, job[o].player, Msg("leave", job[o].session, NoZone, 0))
    /\ job' = [job EXCEPT ![o] = NoJob]
    /\ overtaken' = IF job[job[o].session].do = "enter"
                    THEN overtaken \cup {job[o].player} ELSE overtaken
    /\ UNCHANGED <<clientVars, gateway, lane, table, loading, dbVars, up, zoneVars,
                   zoneHistory, orphaned, misled>>

\* Apply the stream to the cache and hand its writes to the DB lane of the
\* player, unless nobody is logged in as the player.
HandleUnitOfWorkStream(z, p) ==
    /\ TakeFromZone(z, p, "uow")
    /\ LET gold == Head(up[z][p]).gold IN
       IF PM!HasPlayer(table, p)
       THEN /\ table' = PM!SetCurrency(table, PM!FindSessionByPlayerId(table, p), gold)
            /\ dbLane' = [dbLane EXCEPT ![p] = Append(@, gold)]
       ELSE UNCHANGED <<table, dbLane>>
    /\ UNCHANGED <<clientVars, gateway, lane, job, loading, db, down, zoneVars, history>>

\* DbProcessor::OnExecute of one unit of work; the transaction commits.
OnExecute(p) ==
    /\ dbLane[p] # <<>>
    /\ dbLane' = [dbLane EXCEPT ![p] = Tail(@)]
    /\ db' = [db EXCEPT ![p] = Head(dbLane[p])]
    /\ UNCHANGED <<clientVars, gateway, lane, job, table, loading, up, down, zoneVars, history>>

(***************************************************************************)
(* A zone, BASIC lane of player p.                                         *)
(***************************************************************************)

Present(z, p) == unit[z][p] # NoUnit

TakeFromWorld(z, p, type) ==
    /\ ~leaving[z][p]
    /\ down[z][p] # <<>>
    /\ Head(down[z][p]).type = type
    /\ down' = [down EXCEPT ![z][p] = Tail(@)]

\* A player that is already here stays the authority: put back inside, its
\* crossing over.  Mutant: the crossing is not ended.
PutBackLocked(u) == [u EXCEPT !.request = NoZone]
PutBack(u) == [u EXCEPT !.request = NoZone, !.crossing = FALSE]

\* A new player starts from the content of the packet.
HandleEnterZone(z, p) ==
    /\ TakeFromWorld(z, p, "enter")
    /\ LET m == Head(down[z][p]) IN
       unit' = [unit EXCEPT ![z][p] =
                  IF Present(z, p) THEN PutBack(@)
                  ELSE [session |-> m.session, gold |-> m.gold,
                        crossing |-> FALSE, request |-> NoZone]]
    /\ UNCHANGED <<clientVars, gateway, worldVars, up, leaving, visit, crossings, history>>

\* HandleLeaveZone up to EndZoneCrossing ...
HandleLeaveZone(z, p) ==
    /\ TakeFromWorld(z, p, "leave")
    /\ IF Present(z, p)
       THEN /\ unit' = [unit EXCEPT ![z][p].crossing = FALSE]
            /\ leaving' = [leaving EXCEPT ![z][p] = TRUE]
       ELSE UNCHANGED <<unit, leaving>>
    /\ UNCHANGED <<clientVars, gateway, worldVars, up, visit, crossings, history>>

\* ... and RemoveUnit, after which FindPlayer finds nobody.
RemoveUnit(z, p) ==
    /\ leaving[z][p]
    /\ unit' = [unit EXCEPT ![z][p] = NoUnit]
    /\ leaving' = [leaving EXCEPT ![z][p] = FALSE]
    /\ visit' = [visit EXCEPT ![z][p].removed = visit[z][p] # NoVisit]
    /\ UNCHANGED <<clientVars, gateway, worldVars, up, down, crossings, history>>

\* A client packet for somebody who is not here is dropped.
HandleMove(z, p) ==
    /\ TakeFromWorld(z, p, "move")
    /\ unit' = IF Present(z, p)
               THEN [unit EXCEPT ![z][p].request = Head(down[z][p]).to] ELSE unit
    /\ UNCHANGED <<clientVars, gateway, worldVars, up, leaving, visit, crossings, history>>

\* The zone has asked for p's transfer and not yet got an answer.
Asked(z, p) == unit[z][p].crossing /\ crossings[z][p] = NoZone

CanPay(u) == u.gold > 0

HandleMailBuy(z, p) ==
    /\ TakeFromWorld(z, p, "buy")
    /\ IF Present(z, p) /\ CanPay(unit[z][p])
       THEN /\ unit' = [unit EXCEPT ![z][p].gold = @ - 1]
            /\ up' = [up EXCEPT ![z][p] =
                         Append(@, Msg("uow", NoSession, NoZone, unit[z][p].gold - 1))]
            /\ spent' = [spent EXCEPT ![p] = @ + 1]
            /\ ahead' = IF Asked(z, p) THEN ahead \cup {p} ELSE ahead
       ELSE UNCHANGED <<unit, up, spent, ahead>>
    /\ UNCHANGED <<clientVars, gateway, worldVars, leaving, visit, crossings, stray, worldHistory>>

(***************************************************************************)
(* A zone, TICK lane.                                                      *)
(***************************************************************************)

\* Unit::Tick under the move lock: take the requested position, or cancel it
\* when it is outside the zone.  A tick visits each unit once and takes its
\* reports at the end.
TickMove(z, p) ==
    /\ Present(z, p) /\ visit[z][p] = NoVisit /\ crossings[z][p] = NoZone
    /\ unit[z][p].request # NoZone
    /\ unit' = [unit EXCEPT ![z][p].request = NoZone]
    /\ visit' = IF unit[z][p].request # z
                THEN [visit EXCEPT ![z][p].to = unit[z][p].request] ELSE visit
    /\ UNCHANGED <<clientVars, gateway, worldVars, up, down, leaving, crossings, history>>

\* ... and after it: report the crossing if none was under way.  The flag of
\* a unit removed meanwhile is down, and the report is by id.
ReportCrossing(z, p) ==
    /\ visit[z][p] # NoVisit
    /\ visit' = [visit EXCEPT ![z][p] = NoVisit]
    /\ IF visit[z][p].removed
       THEN /\ crossings' = [crossings EXCEPT ![z][p] = visit[z][p].to]
            /\ UNCHANGED unit
       ELSE IF ~unit[z][p].crossing
       THEN /\ crossings' = [crossings EXCEPT ![z][p] = visit[z][p].to]
            /\ unit' = [unit EXCEPT ![z][p].crossing = TRUE]
       ELSE UNCHANGED <<crossings, unit>>
    /\ UNCHANGED <<clientVars, gateway, worldVars, up, down, leaving, history>>

\* The world link is up; whoever left meanwhile is skipped.
RequestZoneTransfer(z, p) ==
    /\ crossings[z][p] # NoZone
    /\ crossings' = [crossings EXCEPT ![z][p] = NoZone]
    /\ IF Present(z, p)
       THEN /\ up' = [up EXCEPT ![z][p] =
                         Append(@, Msg("transfer", unit[z][p].session, crossings[z][p], 0))]
            /\ stray' = IF leaving[z][p] \/ ~unit[z][p].crossing
                        THEN stray \cup {p} ELSE stray
       ELSE UNCHANGED <<up, stray>>
    /\ UNCHANGED <<clientVars, gateway, worldVars, down, unit, leaving, visit, spent, ahead,
                   worldHistory>>

(***************************************************************************)

ClientStep(s) ==
    \/ ClientConnect(s)
    \/ ClientLogin(s)
    \/ \E to \in Positions : ClientMove(s, to)
    \/ ClientBuy(s)
    \/ ClientDisconnect(s)

LaneStep(o) ==
    \/ HandleClientConnected(o)
    \/ HandleLogin(o)
    \/ CompleteLogin(o)
    \/ HandleFromClient(o)
    \/ HandleClientDisconnected(o)
    \/ ForgetClient(o)
    \/ SendEnterZone(o)
    \/ SendLeaveZone(o)

ZoneLinkStep(z, p) == HandleZoneTransfer(z, p) \/ HandleUnitOfWorkStream(z, p)

BasicStep(z, p) ==
    \/ HandleEnterZone(z, p)
    \/ HandleLeaveZone(z, p)
    \/ RemoveUnit(z, p)
    \/ HandleMove(z, p)
    \/ HandleMailBuy(z, p)

TickStep(z, p) == TickMove(z, p) \/ ReportCrossing(z, p) \/ RequestZoneTransfer(z, p)

Next ==
    \/ \E s \in Sessions : ClientStep(s) \/ OnRecvStream(s) \/ LoadPlayerContent(s)
    \/ \E o \in Owners : LaneStep(o)
    \/ \E p \in Players : OnExecute(p)
    \/ \E z \in Zones, p \in Players : ZoneLinkStep(z, p) \/ BasicStep(z, p) \/ TickStep(z, p)

Spec == Init /\ [][Next]_vars

\* Every lane thread and every tick keeps running; clients promise nothing.
FairSpec ==
    /\ Spec
    /\ \A s \in Sessions : WF_vars(OnRecvStream(s)) /\ WF_vars(LoadPlayerContent(s))
    /\ \A o \in Owners : WF_vars(LaneStep(o))
    /\ \A p \in Players : WF_vars(OnExecute(p))
    /\ \A z \in Zones, p \in Players :
           WF_vars(ZoneLinkStep(z, p)) /\ WF_vars(BasicStep(z, p)) /\ WF_vars(TickStep(z, p))

(***************************************************************************)
(* Properties.                                                             *)
(***************************************************************************)

\* Nothing about p is under way anywhere: no message, handler, tick request
\* or login in progress.
Settled(p) ==
    /\ \A s \in Sessions : AccountOf[s] = p =>
           gateway[s] = <<>> /\ lane[s] = <<>> /\ job[s] = NoJob /\ s \notin loading
    /\ lane[p] = <<>> /\ job[p] = NoJob /\ dbLane[p] = <<>>
    /\ \A z \in Zones :
           /\ up[z][p] = <<>> /\ down[z][p] = <<>>
           /\ ~leaving[z][p] /\ visit[z][p] = NoVisit /\ crossings[z][p] = NoZone
           /\ unit[z][p].request = NoZone

Holders(p) == {z \in Zones : Present(z, p)}

Online(s) == PM!Has(table, s) /\ PM!Find(table, s).authenticated

\* When all has settled, the zone World routes a client to has its player, and
\* no other zone does, unless a stray transfer was sent.
RoutedZoneHoldsPlayer ==
    \A s \in Sessions :
        LET p == AccountOf[s]
            zone == PM!Find(table, s).zoneId
        IN  Online(s) /\ Settled(p) =>
                /\ zone \in Holders(p)
                /\ p \notin stray => Holders(p) = {zone}

\* What a player owns survives handoffs: zone, cache and DB agree, and with
\* the purchases that succeeded, unless the player bought something in the
\* old zone after that zone had asked for the transfer.
ContentKept ==
    \A s \in Sessions :
        LET p == AccountOf[s] IN
        Online(s) /\ Settled(p) /\ p \notin ahead \cup stray =>
            /\ PM!Find(table, s).gold = InitialGold - spent[p]
            /\ db[p] = InitialGold - spent[p]
            /\ \A z \in Holders(p) : unit[z][p].gold = InitialGold - spent[p]

\* Every crossing that begins ends, by removal or by coming back.
CrossingEnds ==
    \A z \in Zones, p \in Players : unit[z][p].crossing ~> ~unit[z][p].crossing

\* A client that logs in is in some zone, or gone.
LoginEntersZone ==
    \A s \in Sessions :
        client[s] = "login" ~> (client[s] = "gone" \/ Holders(AccountOf[s]) # {})

NobodyOnline(p) == ~PM!HasPlayer(table, p)

\* A client that went away leaves no player behind in any zone, however its
\* leave met a login or a handoff in progress, unless the leave was sent
\* before the entry, a handoff entered the player after it, or a handoff came
\* between the look-up that names the zone to tell and the removal.
GoneLeavesNobody ==
    \A p \in Players \ (stray \cup orphaned \cup overtaken \cup misled) :
        Settled(p) /\ NobodyOnline(p) => Holders(p) = {}

\* BasicProcessor.cpp:425-429: the cache a handoff carries is up to date, so
\* the zone a player ends up in knows every purchase the player made.
HandoffCarriesLatest ==
    \A s \in Sessions :
        LET p == AccountOf[s] IN
        Online(s) /\ Settled(p) => unit[PM!Find(table, s).zoneId][p].gold = InitialGold - spent[p]

=============================================================================
