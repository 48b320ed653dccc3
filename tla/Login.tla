-------------------------------- MODULE Login --------------------------------
(***************************************************************************)
(* Logging in (LoginProcessor): find the account or make it, load its      *)
(* content, confirm.  The account and its content are read on the DB lane  *)
(* of the client session; what the game changes later is written on the DB *)
(* lane of the player.  One owner's messages are handled in order, those   *)
(* of different owners at the same time, in the BASIC group and in the DB  *)
(* group alike.  Any command may fail.                                     *)
(*                                                                         *)
(* Zones are ZoneHandoff's subject: here one zone is linked or not; it     *)
(* keeps the purse of a player who has entered, takes from it and reports  *)
(* what is left.                                                           *)
(***************************************************************************)
EXTENDS Integers, Sequences, FiniteSets

CONSTANTS
    Sessions,       \* client sessions
    Names,
    Script,         \* per session: the logins its client sends, in order
    Existing,       \* names with an account from the start
    InitialGold,    \* what those accounts own
    Disconnects,    \* sessions that may go away
    EntryZone,
    NoPlayer, NoZone,
    MaxId,          \* bound: ids issued
    MaxFails,       \* bound: commands that fail
    MaxLinkChanges, \* bound: times the link of the zone comes up or goes down
    MaxReports      \* bound: changes of gold the zone reports

Attempt(name, password, valid) == [name |-> name, password |-> password, valid |-> valid]

Logins == [name : Names, password : Nat, valid : BOOLEAN]

NoAccount == [id |-> 0, password |-> 0]

\* Ids are issued by Ruid::Create, whose subject is UniqueIds.
Ids == 1 .. MaxId

ASSUME LoginAssumption ==
    /\ Script \in [Sessions -> Seq(Logins)]
    /\ Existing \subseteq Names /\ IsFiniteSet(Existing)
    /\ MaxId \in Nat /\ Cardinality(Existing) <= MaxId
    /\ NoPlayer \notin Sessions \cup Ids
    /\ Disconnects \subseteq Sessions
    /\ Sessions \cap Ids = {}
    /\ {InitialGold, MaxFails, MaxLinkChanges, MaxReports} \subseteq Nat

PM == INSTANCE PlayerManager

VARIABLES
    client,     \* per session: "new", "open", "gone"
    sent,       \* per session: logins sent
    gateway,    \* per session: sent to World and not routed
    lane,       \* per owner: BASIC messages
    confirming, \* per session: CompleteLogin has its zone and not yet confirmed
    leaving,    \* per owner: the row HandleClientDisconnected has yet to erase
    table,      \* PlayerManager
    dbLane,     \* per owner: DB commands
    accounts,   \* dbo.players, by name
    gold,       \* dbo.currencies, by player id
    lastId,     \* the last id issued
    linked,     \* the entry zone is registered
    toZone,     \* per player: sent to the zone
    wallet,     \* per player: its purse in the zone
    linkChanges, fails, reports,
    answered,   \* per session: W2CLogin sent
    held,       \* history: amounts an account has owned
    stale,      \* history: players loaded while writes of theirs waited
    misplaced,  \* history: sessions given what another player has left
    twice       \* history: sessions confirmed for two accounts

dbVars == <<dbLane, accounts, gold, lastId, fails>>
clientVars == <<client, sent, gateway>>
zoneVars == <<linked, linkChanges, reports, toZone, wallet>>
worldVars == <<lane, confirming, leaving, table, answered>>
historyVars == <<held, stale, misplaced, twice>>
vars == <<clientVars, worldVars, dbVars, zoneVars, historyVars>>

Owners == Sessions \cup Ids

NoLogin == [id |-> 0, gold |-> 0]
NoRow == [session |-> NoPlayer, player |-> NoPlayer, zone |-> NoZone]
NotHere == -1

IdOf == CHOOSE f \in [Existing -> 1 .. Cardinality(Existing)] :
            \A m, n \in Existing : f[m] = f[n] => m = n

Init ==
    /\ client = [s \in Sessions |-> "new"]
    /\ sent = [s \in Sessions |-> 0]
    /\ gateway = [s \in Sessions |-> <<>>]
    /\ lane = [o \in Owners |-> <<>>]
    /\ confirming = [s \in Sessions |-> NoLogin]
    /\ leaving = [o \in Owners |-> NoRow]
    /\ table = PM!EmptyTable
    /\ dbLane = [o \in Owners |-> <<>>]
    /\ accounts = [n \in Names |-> IF n \in Existing THEN [id |-> IdOf[n], password |-> 1] ELSE NoAccount]
    /\ gold = [i \in Ids |-> IF i <= Cardinality(Existing) THEN InitialGold ELSE 0]
    /\ lastId = Cardinality(Existing)
    /\ linked = FALSE
    /\ toZone = [i \in Ids |-> <<>>]
    /\ wallet = [i \in Ids |-> NotHere]
    /\ linkChanges = 0 /\ fails = 0 /\ reports = 0
    /\ answered = [s \in Sessions |-> 0]
    /\ held = [i \in Ids |-> {gold[i]}]
    /\ stale = {} /\ misplaced = {} /\ twice = {}

(***************************************************************************)
(* The client, and the LB step that routes what it sends.                  *)
(***************************************************************************)

ClientSends(s, m) == gateway' = [gateway EXCEPT ![s] = Append(@, m)]

ClientConnect(s) ==
    /\ client[s] = "new"
    /\ client' = [client EXCEPT ![s] = "open"]
    /\ ClientSends(s, [type |-> "connected", session |-> s])
    /\ UNCHANGED <<sent, worldVars, dbVars, zoneVars, historyVars>>

\* Nothing makes a client wait for one answer before it asks again.
ClientLogin(s) ==
    /\ client[s] = "open"
    /\ sent[s] < Len(Script[s])
    /\ sent' = [sent EXCEPT ![s] = @ + 1]
    /\ ClientSends(s, [type |-> "login", session |-> s, attempt |-> Script[s][sent[s] + 1]])
    /\ UNCHANGED <<client, worldVars, dbVars, zoneVars, historyVars>>

ClientDisconnect(s) ==
    /\ s \in Disconnects
    /\ client[s] = "open"
    /\ client' = [client EXCEPT ![s] = "gone"]
    /\ ClientSends(s, [type |-> "disconnected", session |-> s])
    /\ UNCHANGED <<sent, worldVars, dbVars, zoneVars, historyVars>>

OwnerOf(s) ==
    IF PM!FindPlayerId(table, s) # NoPlayer THEN PM!FindPlayerId(table, s) ELSE s

OnRecvStream(s) ==
    /\ gateway[s] # <<>>
    /\ gateway' = [gateway EXCEPT ![s] = Tail(@)]
    /\ lane' = [lane EXCEPT ![OwnerOf(s)] = Append(@, Head(gateway[s]))]
    /\ UNCHANGED <<client, sent, confirming, leaving, table, answered, dbVars, zoneVars,
                   historyVars>>

(***************************************************************************)
(* BASIC lanes.                                                            *)
(***************************************************************************)

TakeFromLane(o, type) ==
    /\ o \in Sessions => confirming[o] = NoLogin
    /\ leaving[o] = NoRow
    /\ lane[o] # <<>>
    /\ Head(lane[o]).type = type
    /\ lane' = [lane EXCEPT ![o] = Tail(@)]

SendResult(s) == answered' = [answered EXCEPT ![s] = @ + 1]

ToDb(o, command) == dbLane' = [dbLane EXCEPT ![o] = Append(@, command)]

HandleClientConnected(o) ==
    /\ TakeFromLane(o, "connected")
    /\ table' = PM!Add(table, Head(lane[o]).session)
    /\ UNCHANGED <<clientVars, confirming, leaving, answered, dbVars, zoneVars, historyVars>>

\* A packet for a player in the zone, lost without its link.
ToZone(p, m) == toZone' = IF linked THEN [toZone EXCEPT ![p] = Append(@, m)] ELSE toZone

\* Reads the row and erases it, in two critical sections; then the player of
\* the row that was read leaves the zone it was let in.
HandleClientDisconnected(o) ==
    /\ TakeFromLane(o, "disconnected")
    /\ LET s == Head(lane[o]).session
           info == PM!Find(table, s)
       IN leaving' = IF PM!Has(table, s)
                     THEN [leaving EXCEPT
                              ![o] = [session |-> s, player |-> info.playerId, zone |-> info.zoneId]]
                     ELSE leaving
    /\ UNCHANGED <<clientVars, confirming, table, answered, dbVars, zoneVars, historyVars>>

ForgetClient(o) ==
    /\ leaving[o] # NoRow
    /\ leaving' = [leaving EXCEPT ![o] = NoRow]
    /\ table' = PM!Remove(table, leaving[o].session)
    /\ IF leaving[o].zone = EntryZone THEN ToZone(leaving[o].player, [type |-> "leave"]) ELSE UNCHANGED toZone
    /\ UNCHANGED <<clientVars, lane, confirming, answered, dbVars, linked, linkChanges, reports,
                   wallet,
                   historyVars>>

\* Invalid input and a second login are answered at once, an unknown session
\* not at all; the others ask the DB for the account.
HandleLogin(o) ==
    LET m == Head(lane[o])
        s == m.session
    IN  /\ TakeFromLane(o, "login")
        /\ \/ /\ ~m.attempt.valid
              /\ SendResult(s)
              /\ UNCHANGED dbLane
           \/ /\ m.attempt.valid
              /\ ~PM!Has(table, s)
              /\ UNCHANGED <<answered, dbLane>>
           \/ /\ m.attempt.valid
              /\ PM!Has(table, s) /\ PM!Find(table, s).authenticated
              /\ SendResult(s)
              /\ UNCHANGED dbLane
           \/ /\ m.attempt.valid
              /\ PM!Has(table, s) /\ ~PM!Find(table, s).authenticated
              /\ ToDb(s, [do |-> "select", attempt |-> m.attempt])
              /\ UNCHANGED answered
        /\ UNCHANGED <<clientVars, confirming, leaving, table, accounts, gold, lastId, fails,
                       zoneVars, historyVars>>

OnLoginFailure(s) ==
    /\ TakeFromLane(s, "failure")
    /\ SendResult(s)
    /\ UNCHANGED <<clientVars, confirming, leaving, table, dbVars, zoneVars, historyVars>>

\* CompleteLogin: is the session still there, is there a zone to enter.
CompleteLogin(s) ==
    LET m == Head(lane[s])
    IN  /\ TakeFromLane(s, "success")
        /\ \/ /\ ~PM!Has(table, s)
              /\ UNCHANGED <<confirming, answered>>
           \/ /\ PM!Has(table, s) /\ ~linked
              /\ SendResult(s)
              /\ UNCHANGED confirming
           \/ /\ PM!Has(table, s) /\ linked
              /\ confirming' = [confirming EXCEPT ![s] = [id |-> m.id, gold |-> m.gold]]
              /\ UNCHANGED answered
        /\ UNCHANGED <<clientVars, leaving, table, dbVars, zoneVars, historyVars>>

\* Cache and zone are set in one critical section; then the answer is sent and
\* the player enters the zone, with what was loaded.
ConfirmLogin(s) ==
    /\ confirming[s] # NoLogin
    /\ table' = PM!SetZoneId(
           PM!SetAuthenticated(table, s, confirming[s].id, {}, confirming[s].gold), s, EntryZone)
    /\ confirming' = [confirming EXCEPT ![s] = NoLogin]
    /\ SendResult(s)
    /\ ToZone(confirming[s].id, [type |-> "enter", gold |-> confirming[s].gold])
    /\ twice' = IF PM!FindPlayerId(table, s) \in {NoPlayer, confirming[s].id} THEN twice ELSE twice \cup {s}
    /\ UNCHANGED <<clientVars, lane, leaving, dbVars, linked, linkChanges, reports, wallet, held,
                   stale, misplaced>>

\* What a player has left, for the session the index names, whoever plays there
\* by now; nobody is told if none does.
HandleUnitOfWorkStream(p) ==
    /\ TakeFromLane(p, "report")
    /\ LET amount == Head(lane[p]).amount IN
       \/ /\ PM!HasPlayer(table, p)
          /\ LET s == PM!FindSessionByPlayerId(table, p) IN
                /\ table' = PM!SetCurrency(table, s, amount)
                /\ misplaced' = IF PM!FindPlayerId(table, s) # p THEN misplaced \cup {s} ELSE misplaced
          /\ ToDb(p, [do |-> "write", amount |-> amount])
       \/ /\ ~PM!HasPlayer(table, p)
          /\ UNCHANGED <<table, misplaced, dbLane>>
    /\ UNCHANGED <<clientVars, confirming, leaving, answered, accounts, gold, lastId, fails,
                   zoneVars, held, stale, twice>>

(***************************************************************************)
(* The zone.                                                               *)
(***************************************************************************)

TakeFromWorld(p, type) ==
    /\ toZone[p] # <<>>
    /\ Head(toZone[p]).type = type
    /\ toZone' = [toZone EXCEPT ![p] = Tail(@)]

\* A player who is there is the authority: what the packet brings is dropped.
HandleEnterZone(p) ==
    /\ TakeFromWorld(p, "enter")
    /\ wallet' = IF wallet[p] = NotHere THEN [wallet EXCEPT ![p] = Head(toZone[p]).gold] ELSE wallet
    /\ UNCHANGED <<clientVars, worldVars, dbVars, linked, linkChanges, reports, historyVars>>

HandleLeaveZone(p) ==
    /\ TakeFromWorld(p, "leave")
    /\ wallet' = [wallet EXCEPT ![p] = NotHere]
    /\ UNCHANGED <<clientVars, worldVars, dbVars, linked, linkChanges, reports, historyVars>>

\* A purchase, and the stream of its unit of work on its way to the lane of the
\* player.
Spend(p) ==
    /\ reports < MaxReports
    /\ wallet[p] > 0
    /\ LET left == wallet[p] - 1 IN
        /\ wallet' = [wallet EXCEPT ![p] = left]
        /\ held' = [held EXCEPT ![p] = @ \cup {left}]
        /\ lane' = IF linked THEN [lane EXCEPT ![p] = Append(@, [type |-> "report", amount |-> left])] ELSE lane
    /\ reports' = reports + 1
    /\ UNCHANGED <<clientVars, confirming, leaving, table, answered, dbVars, linked, linkChanges,
                   toZone, stale, misplaced, twice>>

(***************************************************************************)
(* DB lanes: a command and the callback of its result.                     *)
(***************************************************************************)

Command(o, do) == dbLane[o] # <<>> /\ Head(dbLane[o]).do = do

Done(o) == [dbLane EXCEPT ![o] = Tail(@)]

Push(s, m) == lane' = [lane EXCEPT ![s] = Append(@, m)]

PostFailure(s) == Push(s, [type |-> "failure", session |-> s])

\* Mutant: the client of a failed command is told nothing.
CommandFailsSilently(o) ==
    /\ dbLane[o] # <<>>
    /\ fails < MaxFails
    /\ fails' = fails + 1
    /\ dbLane' = Done(o)
    /\ UNCHANGED <<clientVars, worldVars, accounts, gold, lastId, zoneVars, historyVars>>

\* Mutant: who cannot be loaded comes in with nothing.
LoadFailsAsEmpty(o) ==
    /\ Command(o, "load")
    /\ fails < MaxFails
    /\ fails' = fails + 1
    /\ dbLane' = Done(o)
    /\ Push(o, [type |-> "success", session |-> o, id |-> Head(dbLane[o]).id, gold |-> 0])
    /\ UNCHANGED <<clientVars, confirming, leaving, table, answered, accounts, gold, lastId,
                   zoneVars, historyVars>>

\* A login that fails anywhere ends there; a write that fails is only logged.
CommandFails(o) ==
    /\ dbLane[o] # <<>>
    /\ fails < MaxFails
    /\ fails' = fails + 1
    /\ dbLane' = Done(o)
    /\ IF Head(dbLane[o]).do = "write" THEN UNCHANGED lane ELSE PostFailure(o)
    /\ UNCHANGED <<clientVars, confirming, leaving, table, answered, accounts, gold, lastId,
                   zoneVars, historyVars>>

LoadPlayerContent(s, id) == [do |-> "load", id |-> id]

\* The account exists: compare the password.  It does not: make it, under an
\* id that is only a proposal.
OnAccountSelected(s) ==
    /\ Command(s, "select")
    /\ LET attempt == Head(dbLane[s]).attempt
           account == accounts[attempt.name]
       IN \/ /\ account # NoAccount /\ account.password # attempt.password
             /\ PostFailure(s)
             /\ dbLane' = Done(s)
             /\ UNCHANGED lastId
          \/ /\ account # NoAccount /\ account.password = attempt.password
             /\ dbLane' = [Done(s) EXCEPT ![s] = Append(@, LoadPlayerContent(s, account.id))]
             /\ UNCHANGED <<lane, lastId>>
          \/ /\ account = NoAccount
             /\ lastId < MaxId
             /\ lastId' = lastId + 1
             /\ dbLane' = [Done(s) EXCEPT
                              ![s] = Append(@, [do |-> "upsert", id |-> lastId + 1, attempt |-> attempt])]
             /\ UNCHANGED lane
    /\ UNCHANGED <<clientVars, confirming, leaving, table, answered, accounts, gold, fails,
                   zoneVars, historyVars>>

\* usp_players_upsert: the first to come makes the account.
\* Mutant: the last one to come does.
UpsertReplacing(id, attempt) ==
    [accounts EXCEPT ![attempt.name] = [id |-> id, password |-> attempt.password]]
Upsert(id, attempt) ==
    IF accounts[attempt.name] = NoAccount
    THEN [accounts EXCEPT ![attempt.name] = [id |-> id, password |-> attempt.password]]
    ELSE accounts

\* Mutant: the proposal is taken for the answer.
ProposedId(id, name) == id
\* The id the account really has.
ConfirmedId(id, name) == accounts'[name].id

OnAccountCreated(s) ==
    /\ Command(s, "upsert")
    /\ LET c == Head(dbLane[s]) IN
        /\ accounts' = Upsert(c.id, c.attempt)
        /\ dbLane' = [Done(s) EXCEPT
                         ![s] = Append(@, LoadPlayerContent(s, ConfirmedId(c.id, c.attempt.name)))]
    /\ UNCHANGED <<clientVars, worldVars, gold, lastId, fails, zoneVars, historyVars>>

OnPlayerLoaded(s) ==
    /\ Command(s, "load")
    /\ LET id == Head(dbLane[s]).id IN
        /\ Push(s, [type |-> "success", session |-> s, id |-> id, gold |-> gold[id]])
        /\ stale' = IF dbLane[id] # <<>> THEN stale \cup {id} ELSE stale
    /\ dbLane' = Done(s)
    /\ UNCHANGED <<clientVars, confirming, leaving, table, answered, accounts, gold, lastId, fails,
                   zoneVars, held, misplaced, twice>>

\* usp_currencies_upsert writes the amount, not the difference.
Write(p) ==
    /\ Command(p, "write")
    /\ gold' = [gold EXCEPT ![p] = Head(dbLane[p]).amount]
    /\ dbLane' = Done(p)
    /\ UNCHANGED <<clientVars, worldVars, accounts, lastId, fails, zoneVars, historyVars>>

\* What is on its way is lost with the link.
LinkChanges ==
    /\ linkChanges < MaxLinkChanges
    /\ linked' = ~linked
    /\ linkChanges' = linkChanges + 1
    /\ toZone' = [i \in Ids |-> <<>>]
    /\ UNCHANGED <<clientVars, worldVars, dbVars, reports, wallet, historyVars>>

ClientStep(s) == ClientConnect(s) \/ ClientLogin(s) \/ ClientDisconnect(s)

BasicStep(o) ==
    \/ HandleClientConnected(o) \/ HandleClientDisconnected(o) \/ ForgetClient(o) \/ HandleLogin(o)
    \/ o \in Sessions /\ (OnLoginFailure(o) \/ CompleteLogin(o) \/ ConfirmLogin(o))
    \/ o \in Ids /\ HandleUnitOfWorkStream(o)

ZoneStep(p) == HandleEnterZone(p) \/ HandleLeaveZone(p) \/ Spend(p)

DbStep(o) ==
    \/ CommandFails(o) \/ OnAccountSelected(o) \/ OnAccountCreated(o) \/ OnPlayerLoaded(o) \/ Write(o)

Next ==
    \/ \E s \in Sessions : ClientStep(s) \/ OnRecvStream(s)
    \/ \E o \in Owners : BasicStep(o) \/ DbStep(o)
    \/ \E p \in Ids : ZoneStep(p)
    \/ LinkChanges

Spec == Init /\ [][Next]_vars

\* Every lane and every DB thread goes on; clients, zones and failures are
\* free.
FairSpec ==
    /\ Spec
    /\ \A s \in Sessions : WF_vars(OnRecvStream(s))
    /\ \A o \in Owners : WF_vars(BasicStep(o)) /\ WF_vars(DbStep(o))

-----------------------------------------------------------------------------
\* A session that is in plays as an account that exists under a name its
\* client typed, whoever won the race to make it (LoginProcessor.cpp:178).
PlaysAsAccount ==
    \A s \in DOMAIN table.players :
        PM!Find(table, s).authenticated =>
            \E i \in 1 .. sent[s] : PM!Find(table, s).playerId = accounts[Script[s][i].name].id

\* What a session is given to play with is what its account owned at some
\* time: a load that fails never becomes an empty purse
\* (LoginProcessor.cpp:227).  Not so of a session whose overlapping logins were
\* confirmed for two accounts: a change of the first is entered in the cache
\* that is the second's by then.
CacheWasOwned ==
    \A s \in DOMAIN table.players \ misplaced :
        PM!Find(table, s).authenticated => PM!Find(table, s).gold \in held[PM!Find(table, s).playerId]

\* Reports of a player go to the session the index names (BasicProcessor.cpp:499):
\* one that is connected and plays as that player, whichever of two sessions of
\* the account is left first.  Not so of a session whose overlapping logins were
\* confirmed for two accounts: the index goes on naming it for the first.
IndexNamesItsSession ==
    \A p \in DOMAIN table.sessionByPlayerId :
        LET s == PM!FindSessionByPlayerId(table, p) IN
        s \notin twice => PM!Has(table, s) /\ PM!Find(table, s).playerId = p

\* No login is answered twice, and a client that stays is owed no answer for
\* ever, whatever fails on the way.  The logins of a client are finite, so it
\* has them all answered in the end.
NeverTwice == \A s \in Sessions : answered[s] <= sent[s]

EveryLoginAnswered ==
    /\ []NeverTwice
    /\ []<>(\A s \in Sessions : answered[s] = sent[s] \/ client[s] = "gone")

\* players.sql:85: procedures for one player never run at the same time,
\* because they share a lane; so a load finds no write of its player waiting.
LoadSeesWrites == stale = {}
=============================================================================
