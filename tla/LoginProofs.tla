----------------------------- MODULE LoginProofs -----------------------------
(***************************************************************************)
(* Proofs about Login, for every set of clients and names, every script of *)
(* logins and any number of failures.  The inductive invariant says of     *)
(* everything that waits in a queue, is cached or is stored what it goes   *)
(* back to: the logins its client has sent, the accounts that exist under  *)
(* the names in them, the amounts those accounts have owned.  All three    *)
(* only grow, so nothing that was right when it was queued is wrong when   *)
(* it is taken out.  A second invariant, OnceInv, follows the one          *)
(* "connected" of a session; the index of players needs it.                *)
(***************************************************************************)
EXTENDS Login, FunctionTheorems, FiniteSetTheorems, SequenceTheorems, TLAPS

\* Every queue of q holds what S allows it.
Queued(q, S) ==
    /\ q = [i \in DOMAIN S |-> q[i]]
    /\ \A i \in DOMAIN S : q[i] \in Seq(S[i])

LEMMA QueueTake ==
  ASSUME NEW S, NEW q, Queued(q, S), NEW i \in DOMAIN S, q[i] # <<>>
  PROVE  /\ Head(q[i]) \in S[i]
         /\ Queued([q EXCEPT ![i] = Tail(@)], S)
<1>1. q[i] \in Seq(S[i])
  BY DEF Queued
<1>2. Head(q[i]) \in S[i] /\ Tail(q[i]) \in Seq(S[i])
  BY <1>1, HeadTailProperties
<1>3. QED
  BY <1>2 DEF Queued

LEMMA QueuePut ==
  ASSUME NEW S, NEW q, Queued(q, S), NEW i \in DOMAIN S, NEW m \in S[i]
  PROVE  Queued([q EXCEPT ![i] = Append(@, m)], S)
<1>1. q[i] \in Seq(S[i])
  BY DEF Queued
<1>2. Append(q[i], m) \in Seq(S[i])
  BY <1>1, AppendProperties
<1>3. QED
  BY <1>2 DEF Queued

LEMMA QueueGrow ==
  ASSUME NEW S, NEW T, NEW q, Queued(q, S), DOMAIN T = DOMAIN S,
         \A i \in DOMAIN S : S[i] \subseteq T[i]
  PROVE  Queued(q, T)
<1>1. \A i \in DOMAIN S : Seq(S[i]) \subseteq Seq(T[i])
  BY SeqMonotonic
<1>2. QED
  BY <1>1 DEF Queued
\* The client of a session has asked for this login, and an account it named
\* has this id.
Asked(snt, s, attempt) == \E k \in 1 .. snt[s] : attempt = Script[s][k]
Named(snt, acc, s, id) == \E k \in 1 .. snt[s] : acc[Script[s][k].name].id = id

\* What may wait in the queues, given what has been sent, the accounts and the
\* amounts they have owned.
ClientMessages(snt) ==
    [type : {"connected", "disconnected"}, session : Sessions] \cup
    {m \in [type : {"login"}, session : Sessions, attempt : Logins] : Asked(snt, m.session, m.attempt)}

Loaded(s, snt, acc, hld) ==
    {c \in [id : Ids, gold : Nat] : s \in Sessions /\ Named(snt, acc, s, c.id) /\ c.gold \in hld[c.id]}

Messages(snt, acc, hld) == [o \in Owners |->
    ClientMessages(snt) \cup
    [type : {"failure"}, session : Sessions] \cup
    {m \in [type : {"success"}, session : {o}, id : Ids, gold : Nat] :
        [id |-> m.id, gold |-> m.gold] \in Loaded(o, snt, acc, hld)} \cup
    {m \in [type : {"report"}, amount : Nat] : o \in Ids /\ m.amount \in hld[o]}]

Commands(snt, acc, hld) == [o \in Owners |->
    {c \in [do : {"select"}, attempt : Logins] : o \in Sessions /\ Asked(snt, o, c.attempt)} \cup
    {c \in [do : {"upsert"}, id : Ids, attempt : Logins] : o \in Sessions /\ Asked(snt, o, c.attempt)} \cup
    {c \in [do : {"load"}, id : Ids] : o \in Sessions /\ Named(snt, acc, o, c.id)} \cup
    {c \in [do : {"write"}, amount : Nat] : o \in Ids /\ c.amount \in hld[o]}]

Entries(hld) == [p \in Ids |->
    [type : {"leave"}] \cup {m \in [type : {"enter"}, gold : Nat] : m.gold \in hld[p]}]

\* The same of what is in a table and not in a queue.
Confirmed(snt, acc, hld) == \A s \in Sessions : confirming[s] \in Loaded(s, snt, acc, hld) \cup {NoLogin}

Purses(hld) ==
    /\ \A p \in Ids : wallet[p] \in hld[p] \cup {NotHere}
    /\ \A p \in Ids : gold[p] \in hld[p]

Info == [playerId : Ids \cup {NoPlayer}, zoneId : {NoZone, EntryZone}, authenticated : BOOLEAN,
         mails : {{}}, gold : Nat]

Plays(snt, acc, hld) == \A s \in DOMAIN table.players :
    table.players[s].authenticated =>
        /\ table.players[s].playerId \in Ids
        /\ Named(snt, acc, s, table.players[s].playerId)
        /\ s \notin misplaced => table.players[s].gold \in hld[table.players[s].playerId]

Account == [id : Ids, password : Nat] \cup {NoAccount}

Sizes(snt, acc, hld) ==
    /\ snt \in [Sessions -> Nat] /\ \A s \in Sessions : snt[s] <= Len(Script[s])
    /\ acc \in [Names -> Account]
    /\ hld \in [Ids -> SUBSET Nat]

TypeOK ==
    /\ Sizes(sent, accounts, held)
    /\ lastId \in 0 .. MaxId
    /\ confirming \in [Sessions -> [id : Nat, gold : Nat]]
    /\ gold \in [Ids -> Nat] /\ wallet \in [Ids -> Nat \cup {NotHere}]
    /\ DOMAIN table = {"players", "sessionByPlayerId"}
    /\ DOMAIN table.players \subseteq Sessions
    /\ table.players \in [DOMAIN table.players -> Info]

Right(snt, acc, hld) ==
    /\ Queued(gateway, [s \in Sessions |-> ClientMessages(snt)])
    /\ Queued(lane, Messages(snt, acc, hld))
    /\ Queued(dbLane, Commands(snt, acc, hld))
    /\ Queued(toZone, Entries(hld))
    /\ Confirmed(snt, acc, hld)
    /\ Purses(hld)
    /\ Plays(snt, acc, hld)

LoginInv == TypeOK /\ Right(sent, accounts, held)

LEMMA Ranges ==
  /\ \A snt, acc, hld : DOMAIN Messages(snt, acc, hld) = Owners
  /\ \A snt, acc, hld : DOMAIN Commands(snt, acc, hld) = Owners
  /\ \A hld : DOMAIN Entries(hld) = Ids
  /\ \A s \in Sessions : s \in Owners
  /\ \A p \in Ids : p \in Owners
  /\ \A o \in Owners : o \in Sessions \/ o \in Ids
  /\ \A s \in Sessions : s \notin Ids
BY LoginAssumption DEF Messages, Commands, Entries, Owners

\* Nothing is unsent, no account is replaced, no amount forgotten.
Grown(snt, acc, hld, snt2, acc2, hld2) ==
    /\ \A s \in Sessions : snt[s] <= snt2[s]
    /\ \A n \in Names : acc[n] # NoAccount => acc2[n] = acc[n]
    /\ \A p \in Ids : hld[p] \subseteq hld2[p]

LEMMA AskedGrows ==
  ASSUME NEW snt \in [Sessions -> Nat], NEW snt2 \in [Sessions -> Nat], NEW s \in Sessions, NEW a,
         snt[s] <= snt2[s], Asked(snt, s, a)
  PROVE  Asked(snt2, s, a)
<1>1. PICK k \in 1 .. snt[s] : a = Script[s][k]
  BY DEF Asked
<1>2. snt[s] \in Nat /\ snt2[s] \in Nat
  OBVIOUS
<1>3. k \in 1 .. snt2[s]
  BY <1>2
<1>4. QED
  BY <1>1, <1>3 DEF Asked

LEMMA NamedGrows ==
  ASSUME NEW snt, NEW acc, NEW hld, NEW snt2, NEW acc2, NEW hld2,
         Sizes(snt, acc, hld), Sizes(snt2, acc2, hld2), Grown(snt, acc, hld, snt2, acc2, hld2),
         NEW s \in Sessions, NEW id \in Ids, Named(snt, acc, s, id)
  PROVE  Named(snt2, acc2, s, id)
<1>1. PICK k \in 1 .. snt[s] : acc[Script[s][k].name].id = id
  BY DEF Named
<1>2. snt[s] \in Nat /\ snt2[s] \in Nat /\ snt[s] <= snt2[s] /\ snt[s] <= Len(Script[s])
  BY DEF Sizes, Grown
<1>3. k \in 1 .. snt2[s]
  BY <1>2
<1>4. Script[s] \in Seq(Logins)
  BY LoginAssumption
<1>5. k \in 1 .. Len(Script[s])
  BY <1>2, <1>4
<1>6. Script[s][k] \in Logins
  BY <1>4, <1>5
<1>7. Script[s][k].name \in Names
  BY <1>6 DEF Logins
<1>8. acc[Script[s][k].name] # NoAccount
  BY <1>1 DEF NoAccount, Ids
<1>9. acc2[Script[s][k].name].id = id
  BY <1>1, <1>7, <1>8 DEF Grown
<1>10. QED
  BY <1>3, <1>9 DEF Named

LEMMA RightGrows ==
  ASSUME NEW snt, NEW acc, NEW hld, NEW snt2, NEW acc2, NEW hld2,
         Sizes(snt, acc, hld), Sizes(snt2, acc2, hld2), Grown(snt, acc, hld, snt2, acc2, hld2),
         DOMAIN table.players \subseteq Sessions, Right(snt, acc, hld)
  PROVE  Right(snt2, acc2, hld2)
<1> USE Ranges
<1>1. \A s \in Sessions : \A a : Asked(snt, s, a) => Asked(snt2, s, a)
  BY AskedGrows DEF Sizes, Grown
<1>2. \A s \in Sessions, i \in Ids : Named(snt, acc, s, i) => Named(snt2, acc2, s, i)
  BY NamedGrows
<1>3. \A p \in Ids : hld[p] \subseteq hld2[p]
  BY DEF Grown
<1>4. ClientMessages(snt) \subseteq ClientMessages(snt2)
  BY <1>1 DEF ClientMessages
<1>5. \A s : Loaded(s, snt, acc, hld) \subseteq Loaded(s, snt2, acc2, hld2)
  BY <1>2, <1>3 DEF Loaded
<1>6. Queued(gateway, [s \in Sessions |-> ClientMessages(snt2)])
  <2> DEFINE S == [s \in Sessions |-> ClientMessages(snt)]
             T == [s \in Sessions |-> ClientMessages(snt2)]
  <2>1. Queued(gateway, S)
    BY DEF Right
  <2>2. DOMAIN T = DOMAIN S /\ \A s \in DOMAIN S : S[s] \subseteq T[s]
    BY <1>4
  <2> HIDE DEF S, T
  <2>3. Queued(gateway, T)
    BY <2>1, <2>2, QueueGrow
  <2>4. QED
    BY <2>3 DEF T
<1>7. Queued(lane, Messages(snt2, acc2, hld2))
  <2>1. \A o \in Owners : Messages(snt, acc, hld)[o] \subseteq Messages(snt2, acc2, hld2)[o]
    <3> SUFFICES ASSUME NEW o \in Owners, NEW m \in Messages(snt, acc, hld)[o]
                 PROVE  m \in Messages(snt2, acc2, hld2)[o]
      OBVIOUS
    <3>1. CASE m \in ClientMessages(snt)
      BY <3>1, <1>4 DEF Messages
    <3>2. CASE m \notin ClientMessages(snt)
      BY <3>2, <1>3, <1>5 DEF Messages
    <3>3. QED
      BY <3>1, <3>2
  <2>2. QED
    BY <2>1, QueueGrow DEF Right
<1>8. Queued(dbLane, Commands(snt2, acc2, hld2))
  <2>1. \A o \in Owners : Commands(snt, acc, hld)[o] \subseteq Commands(snt2, acc2, hld2)[o]
    BY <1>1, <1>2, <1>3 DEF Commands
  <2>2. QED
    BY <2>1, QueueGrow DEF Right
<1>9. Queued(toZone, Entries(hld2))
  <2>1. \A p \in Ids : Entries(hld)[p] \subseteq Entries(hld2)[p]
    BY <1>3 DEF Entries
  <2>2. QED
    BY <2>1, QueueGrow DEF Right
<1>10. Confirmed(snt2, acc2, hld2)
  BY <1>5 DEF Right, Confirmed
<1>11. Purses(hld2)
  BY <1>3 DEF Right, Purses
<1>12. Plays(snt2, acc2, hld2)
  BY <1>2, <1>3 DEF Right, Plays
<1>13. QED
  BY <1>6, <1>7, <1>8, <1>9, <1>10, <1>11, <1>12 DEF Right

LEMMA ClientSteps ==
  ASSUME LoginInv, NEW s \in Sessions, ClientConnect(s) \/ ClientDisconnect(s)
  PROVE  LoginInv'
<1> DEFINE S == [c \in Sessions |-> ClientMessages(sent)]
<1>1. Queued(gateway, S) /\ DOMAIN S = Sessions
  BY DEF LoginInv, Right
<1>2. PICK m \in ClientMessages(sent) : gateway' = [gateway EXCEPT ![s] = Append(@, m)]
  <2>1. [type |-> "connected", session |-> s] \in ClientMessages(sent)
        /\ [type |-> "disconnected", session |-> s] \in ClientMessages(sent)
    BY DEF ClientMessages
  <2>2. QED
    BY <2>1 DEF ClientConnect, ClientDisconnect, ClientSends
<1>3. m \in S[s]
  BY <1>2
<1>4. Queued(gateway', S)
  <2> HIDE DEF S
  <2>1. QED
    BY <1>1, <1>2, <1>3, QueuePut
<1>5. UNCHANGED <<sent, worldVars, dbVars, zoneVars, historyVars>>
  BY DEF ClientConnect, ClientDisconnect
<1>6. TypeOK'
  BY <1>5 DEF LoginInv, TypeOK, Sizes, worldVars, dbVars, zoneVars, historyVars
<1>7. QED
  BY <1>4, <1>5, <1>6 DEF LoginInv, Right, Confirmed, Purses, Plays, worldVars, dbVars, zoneVars, historyVars

LEMMA ClientLoginStep ==
  ASSUME LoginInv, NEW s \in Sessions, ClientLogin(s)
  PROVE  LoginInv'
<1> DEFINE m == [type |-> "login", session |-> s, attempt |-> Script[s][sent[s] + 1]]
           S == [c \in Sessions |-> ClientMessages(sent')]
<1>1. /\ sent \in [Sessions -> Nat] /\ sent[s] + 1 <= Len(Script[s])
      /\ sent' = [sent EXCEPT ![s] = @ + 1] /\ accounts' = accounts /\ held' = held
      /\ gateway' = [gateway EXCEPT ![s] = Append(@, m)]
      /\ UNCHANGED <<worldVars, dbVars, zoneVars, historyVars>>
  <2>1. Script[s] \in Seq(Logins) /\ Len(Script[s]) \in Nat
    BY LoginAssumption
  <2>2. QED
    BY <2>1 DEF LoginInv, TypeOK, Sizes, ClientLogin, ClientSends, dbVars, historyVars
<1>2. /\ sent' \in [Sessions -> Nat] /\ sent'[s] = sent[s] + 1
      /\ \A c \in Sessions : sent[c] <= sent'[c] /\ sent'[c] <= Len(Script[c])
  BY <1>1 DEF LoginInv, TypeOK, Sizes
<1>3. Sizes(sent, accounts, held) /\ Sizes(sent', accounts, held)
  BY <1>2 DEF LoginInv, TypeOK, Sizes
<1>4. Grown(sent, accounts, held, sent', accounts, held)
  BY <1>2 DEF Grown
<1>5. Right(sent', accounts, held)
  BY <1>3, <1>4, RightGrows DEF LoginInv, TypeOK
<1>6. m \in ClientMessages(sent')
  <2>0. Script[s] \in Seq(Logins) /\ sent[s] \in Nat
    BY <1>1, LoginAssumption
  <2>1. Script[s] \in Seq(Logins) /\ Len(Script[s]) \in Nat /\ sent[s] \in Nat
    BY <2>0
  <2>2. Script[s][sent[s] + 1] \in Logins
    BY <1>1, <2>1
  <2>3. Asked(sent', s, Script[s][sent[s] + 1])
    <3>1. sent[s] + 1 \in 1 .. sent'[s]
      BY <1>1, <1>2
    <3>2. QED
      BY <3>1 DEF Asked
  <2>4. QED
    BY <2>2, <2>3 DEF ClientMessages
<1>7. Queued(gateway', S)
  <2>1. Queued(gateway, S) /\ DOMAIN S = Sessions /\ m \in S[s]
    BY <1>5, <1>6 DEF Right
  <2> HIDE DEF S, m
  <2>2. QED
    BY <1>1, <2>1, QueuePut
<1>8. TypeOK'
  BY <1>1, <1>2, <1>3 DEF LoginInv, TypeOK, Sizes, worldVars, dbVars, zoneVars, historyVars
<1>9. QED
  BY <1>1, <1>5, <1>7, <1>8
     DEF LoginInv, Right, Confirmed, Purses, Plays, worldVars, dbVars, zoneVars, historyVars

LEMMA OnRecvStreamStep ==
  ASSUME LoginInv, NEW s \in Sessions, OnRecvStream(s)
  PROVE  LoginInv'
<1> USE Ranges
<1> DEFINE S == [c \in Sessions |-> ClientMessages(sent)]
           M == Messages(sent, accounts, held)
           o == OwnerOf(s)
<1>1. Queued(gateway, S) /\ DOMAIN S = Sessions /\ Queued(lane, M) /\ DOMAIN M = Owners
  BY DEF LoginInv, Right
<1>2. /\ gateway[s] # <<>> /\ gateway' = [gateway EXCEPT ![s] = Tail(@)]
      /\ lane' = [lane EXCEPT ![o] = Append(@, Head(gateway[s]))]
      /\ UNCHANGED <<client, sent, confirming, table, answered, dbVars, zoneVars, historyVars>>
  BY DEF OnRecvStream
<1>3. o \in Owners
  <2>1. CASE PM!FindPlayerId(table, s) = NoPlayer
    BY <2>1 DEF OwnerOf
  <2>2. CASE PM!FindPlayerId(table, s) # NoPlayer
    BY <2>2 DEF OwnerOf, PM!FindPlayerId, PM!Has, LoginInv, TypeOK, Info
  <2>3. QED
    BY <2>1, <2>2
<1>4. Head(gateway[s]) \in S[s] /\ Queued(gateway', S)
  <2> HIDE DEF S
  <2>1. QED
    BY <1>1, <1>2, QueueTake
<1>5. Head(gateway[s]) \in M[o]
  BY <1>3, <1>4 DEF Messages
<1>6. Queued(lane', M)
  <2> HIDE DEF M, o
  <2>1. QED
    BY <1>1, <1>2, <1>3, <1>5, QueuePut
<1>7. TypeOK'
  BY <1>2 DEF LoginInv, TypeOK, Sizes, dbVars, zoneVars, historyVars
<1>8. QED
  BY <1>2, <1>4, <1>6, <1>7 DEF LoginInv, Right, Confirmed, Purses, Plays, dbVars, zoneVars, historyVars

LEMMA Kinds ==
  ASSUME NEW snt, NEW acc, NEW hld, NEW o \in Owners, NEW m \in Messages(snt, acc, hld)[o]
  PROVE  /\ m.type \in {"connected", "disconnected", "login", "failure"} => m.session \in Sessions
         /\ m.type = "login" => m.attempt \in Logins /\ Asked(snt, m.session, m.attempt)
         /\ m.type = "success" =>
                m.session = o /\ [id |-> m.id, gold |-> m.gold] \in Loaded(o, snt, acc, hld)
         /\ m.type = "report" => o \in Ids /\ m.amount \in hld[o] /\ m.amount \in Nat
<1>1. CASE m \in ClientMessages(snt)
  BY <1>1 DEF ClientMessages
<1>2. CASE m \in [type : {"failure"}, session : Sessions]
  BY <1>2
<1>3. CASE m \in {x \in [type : {"success"}, session : {o}, id : Ids, gold : Nat] :
                    [id |-> x.id, gold |-> x.gold] \in Loaded(o, snt, acc, hld)}
  BY <1>3
<1>4. CASE m \in {x \in [type : {"report"}, amount : Nat] : o \in Ids /\ x.amount \in hld[o]}
  BY <1>4
<1>5. QED
  BY <1>1, <1>2, <1>3, <1>4 DEF Messages

LEMMA Orders ==
  ASSUME NEW snt, NEW acc, NEW hld, NEW o \in Owners, NEW c \in Commands(snt, acc, hld)[o]
  PROVE  /\ c.do \in {"select", "upsert", "load"} => o \in Sessions
         /\ c.do \in {"select", "upsert"} => c.attempt \in Logins /\ Asked(snt, o, c.attempt)
         /\ c.do = "upsert" => c.id \in Ids
         /\ c.do = "load" => c.id \in Ids /\ Named(snt, acc, o, c.id)
         /\ c.do = "write" => o \in Ids /\ c.amount \in Nat /\ c.amount \in hld[o]
BY DEF Commands

\* What a BASIC step takes from its lane, and what is left there.
LEMMA Takes ==
  ASSUME LoginInv, NEW o \in Owners, NEW type, TakeFromLane(o, type)
  PROVE  /\ Head(lane[o]) \in Messages(sent, accounts, held)[o]
         /\ Head(lane[o]).type = type
         /\ Queued(lane', Messages(sent, accounts, held))
BY Ranges, QueueTake DEF TakeFromLane, LoginInv, Right

LEMMA ConnectedStep ==
  ASSUME LoginInv, NEW o \in Owners, HandleClientConnected(o)
  PROVE  LoginInv'
<1> DEFINE s == Head(lane[o]).session
<1>1. /\ TakeFromLane(o, "connected") /\ table' = PM!Add(table, s)
      /\ UNCHANGED <<clientVars, confirming, answered, dbVars, zoneVars, historyVars>>
  BY DEF HandleClientConnected
<1>2. Queued(lane', Messages(sent, accounts, held)) /\ s \in Sessions
  BY <1>1, Takes, Kinds
<1> HIDE DEF s
<1>3. /\ DOMAIN table' = DOMAIN table
      /\ DOMAIN table'.players = DOMAIN table.players \cup {s}
      /\ table'.players[s] = PM!FreshInfo
      /\ \A c \in DOMAIN table.players : c # s => table'.players[c] = table.players[c]
      /\ table'.players = [c \in DOMAIN table'.players |-> table'.players[c]]
  BY <1>1 DEF PM!Add, PM!With, LoginInv, TypeOK
<1>4. PM!FreshInfo \in Info /\ ~PM!FreshInfo.authenticated
  BY DEF PM!FreshInfo, Info
<1>5. TypeOK'
  BY <1>1, <1>2, <1>3, <1>4 DEF LoginInv, TypeOK, Sizes, clientVars, dbVars, zoneVars, historyVars
<1>6. Plays(sent, accounts, held)'
  BY <1>1, <1>3, <1>4 DEF LoginInv, Right, Plays, clientVars, dbVars, historyVars
<1>7. QED
  BY <1>1, <1>2, <1>5, <1>6 DEF LoginInv, Right, Confirmed, Purses, clientVars, dbVars, zoneVars, historyVars

\* A BASIC step that leaves the table alone, and at most adds a command.
LEMMA LaneStepKeeps ==
  ASSUME LoginInv, NEW o \in Owners, NEW type, TakeFromLane(o, type),
         UNCHANGED <<clientVars, table, accounts, gold, lastId, fails, zoneVars, historyVars>>,
         confirming' \in [Sessions -> [id : Nat, gold : Nat]], Confirmed(sent, accounts, held)',
         Queued(dbLane', Commands(sent, accounts, held))
  PROVE  LoginInv'
<1>1. Queued(lane', Messages(sent, accounts, held))
  BY Takes
<1>2. TypeOK'
  BY DEF LoginInv, TypeOK, Sizes, clientVars, zoneVars, historyVars
<1>3. QED
  BY <1>1, <1>2 DEF LoginInv, Right, Purses, Plays, clientVars, zoneVars, historyVars

LEMMA DisconnectedStep ==
  ASSUME LoginInv, NEW o \in Owners, HandleClientDisconnected(o)
  PROVE  LoginInv'
<1>1. /\ TakeFromLane(o, "disconnected")
      /\ UNCHANGED <<clientVars, confirming, table, dbVars, zoneVars, historyVars>>
  BY DEF HandleClientDisconnected
<1>2. /\ UNCHANGED <<clientVars, table, accounts, gold, lastId, fails, zoneVars, historyVars>>
      /\ confirming' \in [Sessions -> [id : Nat, gold : Nat]]
      /\ Confirmed(sent, accounts, held)'
      /\ Queued(dbLane', Commands(sent, accounts, held))
  BY <1>1 DEF LoginInv, TypeOK, Right, Confirmed, clientVars, dbVars, historyVars
<1>3. QED
  BY <1>1, <1>2, LaneStepKeeps

LEMMA ForgetStep ==
  ASSUME LoginInv, NEW o \in Owners, ForgetClient(o)
  PROVE  LoginInv'
<1> USE Ranges
<1> DEFINE s == leaving[o].session
           p == leaving[o].player
           E == Entries(held)
<1>1. /\ table' = PM!Remove(table, s)
      /\ toZone' = toZone \/ toZone' = [toZone EXCEPT ![p] = Append(@, [type |-> "leave"])]
      /\ UNCHANGED <<clientVars, lane, confirming, answered, dbVars, linked, linkChanges, reports, wallet,
                     historyVars>>
  BY DEF ForgetClient, ToZone
<1>2. Queued(toZone, E) /\ DOMAIN E = Ids /\ \A i \in Ids : [type |-> "leave"] \in E[i]
  BY DEF LoginInv, Right, Entries
<1> HIDE DEF s, p, E
<1>3. Queued(toZone', E)
  <2>1. CASE toZone' = toZone \/ p \notin Ids
    <3>1. DOMAIN toZone = Ids
      BY <1>2 DEF Queued
    <3>2. toZone' = toZone
      BY <1>1, <1>2, <2>1, <3>1 DEF Queued
    <3>3. QED
      BY <1>2, <3>2
  <2>2. CASE p \in Ids /\ toZone' = [toZone EXCEPT ![p] = Append(@, [type |-> "leave"])]
    BY <1>2, <2>2, QueuePut
  <2>3. QED
    BY <1>1, <2>1, <2>2
<1>4. /\ DOMAIN table' = DOMAIN table
      /\ DOMAIN table'.players = DOMAIN table.players \ {s}
      /\ \A c \in DOMAIN table'.players : table'.players[c] = table.players[c]
      /\ table'.players = [c \in DOMAIN table'.players |-> table'.players[c]]
  BY <1>1 DEF PM!Remove, PM!Without, LoginInv, TypeOK
<1>5. TypeOK'
  BY <1>1, <1>4 DEF LoginInv, TypeOK, Sizes, clientVars, dbVars, historyVars
<1>6. Plays(sent, accounts, held)'
  BY <1>1, <1>4 DEF LoginInv, Right, Plays, clientVars, dbVars, historyVars
<1>7. QED
  BY <1>1, <1>3, <1>5, <1>6 DEF LoginInv, Right, Confirmed, Purses, clientVars, dbVars, historyVars, E

LEMMA LoginStep ==
  ASSUME LoginInv, NEW o \in Owners, HandleLogin(o)
  PROVE  LoginInv'
<1> USE Ranges
<1> DEFINE m == Head(lane[o])
           c == [do |-> "select", attempt |-> m.attempt]
           C == Commands(sent, accounts, held)
<1>1. /\ TakeFromLane(o, "login")
      /\ dbLane' = dbLane \/ dbLane' = [dbLane EXCEPT ![m.session] = Append(@, c)]
      /\ UNCHANGED <<clientVars, confirming, table, accounts, gold, lastId, fails, zoneVars, historyVars>>
  BY DEF HandleLogin, ToDb
<1>2. m.session \in Sessions /\ m.attempt \in Logins /\ Asked(sent, m.session, m.attempt)
  BY <1>1, Takes, Kinds
<1>3. c \in C[m.session] /\ Queued(dbLane, C) /\ m.session \in DOMAIN C
  BY <1>2 DEF Commands, LoginInv, Right
<1>4. Queued(dbLane', C)
  <2> HIDE DEF c, C, m
  <2>1. QED
    BY <1>1, <1>3, QueuePut
<1>5. confirming' \in [Sessions -> [id : Nat, gold : Nat]] /\ Confirmed(sent, accounts, held)'
  BY <1>1 DEF LoginInv, TypeOK, Right, Confirmed, clientVars, historyVars
<1>6. QED
  <2> HIDE DEF m, c
  <2>1. QED
    BY <1>1, <1>4, <1>5, LaneStepKeeps

LEMMA FailureStep ==
  ASSUME LoginInv, NEW s \in Sessions, OnLoginFailure(s)
  PROVE  LoginInv'
<1>1. /\ TakeFromLane(s, "failure") /\ s \in Owners
      /\ UNCHANGED <<clientVars, confirming, table, dbVars, zoneVars, historyVars>>
  BY Ranges DEF OnLoginFailure
<1>2. /\ UNCHANGED <<clientVars, table, accounts, gold, lastId, fails, zoneVars, historyVars>>
      /\ confirming' \in [Sessions -> [id : Nat, gold : Nat]]
      /\ Confirmed(sent, accounts, held)'
      /\ Queued(dbLane', Commands(sent, accounts, held))
  BY <1>1 DEF LoginInv, TypeOK, Right, Confirmed, clientVars, dbVars, historyVars
<1>3. QED
  BY <1>1, <1>2, LaneStepKeeps

LEMMA CompleteStep ==
  ASSUME LoginInv, NEW s \in Sessions, CompleteLogin(s)
  PROVE  LoginInv'
<1> DEFINE m == Head(lane[s])
           c == [id |-> m.id, gold |-> m.gold]
<1>1. /\ TakeFromLane(s, "success") /\ s \in Owners
      /\ confirming' = confirming \/ confirming' = [confirming EXCEPT ![s] = c]
      /\ UNCHANGED <<clientVars, table, dbVars, zoneVars, historyVars>>
  BY Ranges DEF CompleteLogin
<1>2. c \in Loaded(s, sent, accounts, held)
  BY <1>1, Takes, Kinds
<1>3. c \in [id : Nat, gold : Nat]
  BY <1>2, LoginAssumption DEF Loaded, Ids
<1> HIDE DEF c
<1>4. /\ UNCHANGED <<clientVars, table, accounts, gold, lastId, fails, zoneVars, historyVars>>
      /\ Queued(dbLane', Commands(sent, accounts, held))
  BY <1>1 DEF LoginInv, Right, dbVars
<1>5. confirming' \in [Sessions -> [id : Nat, gold : Nat]]
  BY <1>1, <1>3 DEF LoginInv, TypeOK
<1>6. Confirmed(sent, accounts, held)'
  BY <1>1, <1>2 DEF LoginInv, TypeOK, Right, Confirmed, clientVars, dbVars, historyVars
<1>7. QED
  BY <1>1, <1>4, <1>5, <1>6, LaneStepKeeps

LEMMA ConfirmStep ==
  ASSUME LoginInv, NEW s \in Sessions, ConfirmLogin(s)
  PROVE  LoginInv'
<1> USE Ranges
<1> DEFINE p == confirming[s].id
           g == confirming[s].gold
           m == [type |-> "enter", gold |-> g]
           E == Entries(held)
           t == PM!SetAuthenticated(table, s, p, {}, g)
<1>1. /\ confirming[s] # NoLogin /\ confirming' = [confirming EXCEPT ![s] = NoLogin]
      /\ table' = PM!SetZoneId(t, s, EntryZone)
      /\ toZone' = toZone \/ toZone' = [toZone EXCEPT ![p] = Append(@, m)]
      /\ UNCHANGED <<clientVars, lane, dbVars, linked, linkChanges, reports, wallet, held, stale, misplaced>>
  BY DEF ConfirmLogin, ToZone
<1>2. p \in Ids /\ g \in Nat /\ Named(sent, accounts, s, p) /\ g \in held[p]
  BY <1>1 DEF LoginInv, Right, Confirmed, Loaded
<1>3. Queued(toZone, E) /\ DOMAIN E = Ids /\ m \in E[p]
  BY <1>2 DEF LoginInv, Right, Entries
<1>4. Queued(toZone', E)
  <2> HIDE DEF m, p, E, g
  <2>1. QED
    BY <1>1, <1>2, <1>3, QueuePut
<1>5. /\ DOMAIN table = {"players", "sessionByPlayerId"} /\ DOMAIN table.players \subseteq Sessions
      /\ table.players \in [DOMAIN table.players -> Info]
  BY DEF LoginInv, TypeOK
<1>6. CASE s \notin DOMAIN table.players
  <2>1. table' = table
    BY <1>1, <1>6 DEF PM!SetZoneId, PM!SetAuthenticated, PM!Update, PM!Has
  <2>2. TypeOK'
    BY <1>1, <2>1 DEF LoginInv, TypeOK, Sizes, clientVars, dbVars, historyVars, NoLogin
  <2>3. QED
    BY <1>1, <1>4, <2>1, <2>2
       DEF LoginInv, TypeOK, Right, Confirmed, Purses, Plays, clientVars, dbVars, historyVars, E
<1>7. CASE s \in DOMAIN table.players
  <2> DEFINE i == [playerId |-> p, zoneId |-> table.players[s].zoneId, authenticated |-> TRUE,
                   mails |-> {}, gold |-> g]
             j == [i EXCEPT !.zoneId = EntryZone]
  <2>1. /\ t.players = [table.players EXCEPT ![s] = i]
        /\ DOMAIN t = {"players", "sessionByPlayerId"}
    BY <1>5, <1>7 DEF PM!SetAuthenticated, PM!Has
  <2> HIDE DEF t
  <2>2. s \in DOMAIN t.players /\ t.players[s] = i
    BY <1>5, <1>7, <2>1
  <2>3. table' = [t EXCEPT !.players[s] = j]
    BY <1>1, <2>2 DEF PM!SetZoneId, PM!Update, PM!Has, PM!Find
  <2>4. /\ i \in Info /\ j \in Info /\ j.authenticated /\ j.playerId = p /\ j.gold = g
    <3>1. table.players[s] \in Info
      BY <1>5, <1>7
    <3>2. QED
      BY <1>2, <3>1 DEF Info
  <2> HIDE DEF i, j
  <2>5. /\ DOMAIN table' = {"players", "sessionByPlayerId"}
        /\ table'.players = [[table.players EXCEPT ![s] = i] EXCEPT ![s] = j]
    BY <2>1, <2>3
  <2>6. /\ DOMAIN table'.players = DOMAIN table.players
        /\ table'.players \in [DOMAIN table'.players -> Info]
        /\ table'.players[s] = j
        /\ \A c \in DOMAIN table.players : c # s => table'.players[c] = table.players[c]
    BY <1>5, <1>7, <2>4, <2>5
  <2>7. TypeOK'
    BY <1>1, <2>5, <2>6 DEF LoginInv, TypeOK, Sizes, clientVars, dbVars, historyVars, NoLogin
  <2>8. Plays(sent, accounts, held)'
    BY <1>1, <1>2, <2>4, <2>6 DEF LoginInv, Right, Plays, clientVars, dbVars, historyVars
  <2>9. QED
    BY <1>1, <1>4, <2>7, <2>8
       DEF LoginInv, TypeOK, Right, Confirmed, Purses, clientVars, dbVars, historyVars, E
<1>8. QED
  BY <1>6, <1>7

LEMMA ReportStep ==
  ASSUME LoginInv, NEW p \in Ids, HandleUnitOfWorkStream(p)
  PROVE  LoginInv'
<1> USE Ranges
<1> DEFINE amount == Head(lane[p]).amount
           s == PM!FindSessionByPlayerId(table, p)
           w == [do |-> "write", amount |-> amount]
           C == Commands(sent, accounts, held)
<1>1. /\ TakeFromLane(p, "report")
      /\ UNCHANGED <<clientVars, confirming, answered, accounts, gold, lastId, fails, zoneVars, held, stale>>
      /\ \/ /\ table' = PM!SetCurrency(table, s, amount)
            /\ misplaced' = IF PM!FindPlayerId(table, s) # p THEN misplaced \cup {s} ELSE misplaced
            /\ dbLane' = [dbLane EXCEPT ![p] = Append(@, w)]
         \/ UNCHANGED <<table, misplaced, dbLane>>
  BY DEF HandleUnitOfWorkStream, ToDb
<1>2. amount \in Nat /\ amount \in held[p] /\ Queued(lane', Messages(sent, accounts, held))
  BY <1>1, Takes, Kinds
<1>3. Queued(dbLane, C) /\ DOMAIN C = Owners /\ w \in C[p]
  BY <1>2 DEF LoginInv, Right, Commands
<1> HIDE DEF amount, s, w, C
<1>4. Queued(dbLane', C)
  BY <1>1, <1>3, QueuePut
<1>5. /\ DOMAIN table = {"players", "sessionByPlayerId"} /\ DOMAIN table.players \subseteq Sessions
      /\ table.players \in [DOMAIN table.players -> Info]
  BY DEF LoginInv, TypeOK
<1>6. CASE s \notin DOMAIN table.players \/ UNCHANGED <<table, misplaced, dbLane>>
  <2>1. table' = table /\ misplaced \subseteq misplaced'
    BY <1>1, <1>6 DEF PM!SetCurrency, PM!Update, PM!Has
  <2>2. TypeOK'
    BY <1>1, <2>1 DEF LoginInv, TypeOK, Sizes, clientVars, zoneVars
  <2>3. Plays(sent, accounts, held)'
    BY <1>1, <2>1 DEF LoginInv, Right, Plays, clientVars
  <2>4. QED
    BY <1>1, <1>2, <1>4, <2>2, <2>3 DEF LoginInv, Right, Confirmed, Purses, clientVars, zoneVars, C
<1>7. CASE s \in DOMAIN table.players /\ table' = PM!SetCurrency(table, s, amount)
           /\ misplaced' = IF PM!FindPlayerId(table, s) # p THEN misplaced \cup {s} ELSE misplaced
  <2> DEFINE i == [table.players[s] EXCEPT !.gold = amount]
  <2>1. table' = [table EXCEPT !.players[s] = i]
    BY <1>7 DEF PM!SetCurrency, PM!Update, PM!Has, PM!Find
  <2>2. table.players[s] \in Info
    BY <1>5, <1>7
  <2>3. /\ i \in Info /\ i.gold = amount /\ i.playerId = table.players[s].playerId
        /\ i.authenticated = table.players[s].authenticated
    BY <1>2, <2>2 DEF Info
  <2> HIDE DEF i
  <2>4. /\ DOMAIN table' = {"players", "sessionByPlayerId"}
        /\ DOMAIN table'.players = DOMAIN table.players
        /\ table'.players \in [DOMAIN table'.players -> Info]
        /\ table'.players[s] = i
        /\ \A c \in DOMAIN table.players : c # s => table'.players[c] = table.players[c]
    BY <1>5, <1>7, <2>1, <2>3
  <2>5. TypeOK'
    BY <1>1, <2>4 DEF LoginInv, TypeOK, Sizes, clientVars, zoneVars
  <2>6. s \in misplaced' \/ table.players[s].playerId = p
    BY <1>7 DEF PM!FindPlayerId, PM!Has
  <2>7. Plays(sent, accounts, held)'
    <3> SUFFICES ASSUME NEW c \in DOMAIN table.players, table'.players[c].authenticated
                 PROVE  /\ table'.players[c].playerId \in Ids
                        /\ Named(sent, accounts, c, table'.players[c].playerId)
                        /\ c \notin misplaced' =>
                              table'.players[c].gold \in held[table'.players[c].playerId]
      BY <1>1, <2>4 DEF Plays, clientVars
    <3>1. Plays(sent, accounts, held)
      BY DEF LoginInv, Right
    <3>2. CASE c = s
      BY <1>2, <2>3, <2>4, <2>6, <3>1, <3>2 DEF Plays
    <3>3. CASE c # s
      BY <1>7, <2>4, <3>1, <3>3 DEF Plays
    <3>4. QED
      BY <3>2, <3>3
  <2>8. QED
    BY <1>1, <1>2, <1>4, <2>5, <2>7 DEF LoginInv, Right, Confirmed, Purses, clientVars, zoneVars, C
<1>8. QED
  BY <1>1, <1>6, <1>7

LEMMA ZoneSteps ==
  ASSUME LoginInv, NEW p \in Ids, HandleEnterZone(p) \/ HandleLeaveZone(p)
  PROVE  LoginInv'
<1> USE Ranges
<1> DEFINE E == Entries(held)
<1>1. /\ toZone[p] # <<>> /\ toZone' = [toZone EXCEPT ![p] = Tail(@)]
      /\ UNCHANGED <<clientVars, worldVars, dbVars, linked, linkChanges, reports, historyVars>>
  BY DEF HandleEnterZone, HandleLeaveZone, TakeFromWorld
<1>2. Queued(toZone, E) /\ DOMAIN E = Ids
  BY DEF LoginInv, Right
<1>3. Head(toZone[p]) \in E[p] /\ Queued(toZone', E)
  <2> HIDE DEF E
  <2>1. QED
    BY <1>1, <1>2, QueueTake
<1>4. /\ wallet' \in [Ids -> Nat \cup {NotHere}]
      /\ \A q \in Ids : wallet'[q] \in held[q] \cup {NotHere}
  <2>1. wallet \in [Ids -> Nat \cup {NotHere}] /\ \A q \in Ids : wallet[q] \in held[q] \cup {NotHere}
    BY DEF LoginInv, TypeOK, Right, Purses
  <2>2. CASE HandleLeaveZone(p)
    BY <2>1, <2>2 DEF HandleLeaveZone
  <2>3. CASE HandleEnterZone(p)
    <3>1. Head(toZone[p]).gold \in held[p] /\ Head(toZone[p]).gold \in Nat
      BY <1>3, <2>3 DEF HandleEnterZone, TakeFromWorld, Entries
    <3>2. QED
      BY <2>1, <2>3, <3>1 DEF HandleEnterZone
  <2>4. QED
    BY <2>2, <2>3
<1> HIDE DEF E
<1>5. TypeOK'
  BY <1>1, <1>4 DEF LoginInv, TypeOK, Sizes, clientVars, worldVars, dbVars, historyVars
<1>6. QED
  BY <1>1, <1>3, <1>4, <1>5
     DEF LoginInv, Right, Confirmed, Purses, Plays, clientVars, worldVars, dbVars, historyVars, E

LEMMA SpendStep ==
  ASSUME LoginInv, NEW p \in Ids, Spend(p)
  PROVE  LoginInv'
<1> USE Ranges
<1> DEFINE left == wallet[p] - 1
           m == [type |-> "report", amount |-> left]
           M == Messages(sent, accounts, held')
<1>1. /\ wallet[p] > 0 /\ wallet' = [wallet EXCEPT ![p] = left]
      /\ held' = [held EXCEPT ![p] = @ \cup {left}]
      /\ lane' = lane \/ lane' = [lane EXCEPT ![p] = Append(@, m)]
      /\ UNCHANGED <<clientVars, confirming, table, answered, dbVars, linked, linkChanges, toZone, stale, misplaced>>
  BY DEF Spend
<1>2. /\ wallet \in [Ids -> Nat \cup {NotHere}] /\ held \in [Ids -> SUBSET Nat]
      /\ Sizes(sent, accounts, held)
  BY DEF LoginInv, TypeOK, Sizes
<1>3. left \in Nat
  BY <1>1, <1>2 DEF NotHere
<1> HIDE DEF left
<1>4. /\ held' \in [Ids -> SUBSET Nat] /\ left \in held'[p]
      /\ \A q \in Ids : held[q] \subseteq held'[q]
  BY <1>1, <1>2, <1>3
<1>5. Sizes(sent, accounts, held') /\ Grown(sent, accounts, held, sent, accounts, held')
  BY <1>2, <1>4 DEF Sizes, Grown
<1>6. Right(sent, accounts, held')
  BY <1>2, <1>5, RightGrows DEF LoginInv, TypeOK
<1>7. Queued(lane, M) /\ DOMAIN M = Owners /\ m \in M[p]
  BY <1>3, <1>4, <1>6 DEF Right, Messages
<1>8. Queued(lane', M)
  <2> HIDE DEF m, M
  <2>1. QED
    BY <1>1, <1>7, QueuePut
<1> HIDE DEF M
<1>9. /\ wallet' \in [Ids -> Nat \cup {NotHere}]
      /\ \A q \in Ids : wallet'[q] \in held'[q] \cup {NotHere}
      /\ \A q \in Ids : gold[q] \in held'[q]
  BY <1>1, <1>2, <1>3, <1>4, <1>6 DEF Right, Purses
<1>10. TypeOK'
  BY <1>1, <1>5, <1>9 DEF LoginInv, TypeOK, Sizes, clientVars, dbVars
<1>11. QED
  BY <1>1, <1>6, <1>8, <1>9, <1>10 DEF LoginInv, Right, Confirmed, Purses, Plays, clientVars, dbVars, M

LEMMA LinkStep ==
  ASSUME LoginInv, LinkChanges
  PROVE  LoginInv'
<1>1. /\ toZone' = [i \in Ids |-> <<>>]
      /\ UNCHANGED <<clientVars, worldVars, dbVars, reports, wallet, historyVars>>
  BY DEF LinkChanges
<1>2. Queued(toZone', Entries(held))
  BY <1>1, EmptySeq DEF Queued, Entries
<1>3. TypeOK'
  BY <1>1 DEF LoginInv, TypeOK, Sizes, clientVars, worldVars, dbVars, historyVars
<1>4. QED
  BY <1>1, <1>2, <1>3
     DEF LoginInv, Right, Confirmed, Purses, Plays, clientVars, worldVars, dbVars, historyVars

\* A command is taken, and at most one more of the login is added.
LEMMA NextCommand ==
  ASSUME LoginInv, NEW o \in Owners, dbLane[o] # <<>>
  PROVE  LET C == Commands(sent, accounts, held)
         IN  /\ Head(dbLane[o]) \in C[o]
             /\ Queued(Done(o), C)
             /\ \A c \in C[o] : Queued([Done(o) EXCEPT ![o] = Append(@, c)], C)
<1> USE Ranges
<1> DEFINE C == Commands(sent, accounts, held)
<1>1. Queued(dbLane, C) /\ DOMAIN C = Owners
  BY DEF LoginInv, Right
<1> HIDE DEF C
<1>2. Head(dbLane[o]) \in C[o] /\ Queued(Done(o), C)
  BY <1>1, QueueTake DEF Done
<1>3. \A c \in C[o] : Queued([Done(o) EXCEPT ![o] = Append(@, c)], C)
  BY <1>1, <1>2, QueuePut
<1>4. QED
  BY <1>2, <1>3 DEF C

LEMMA PostAdds ==
  ASSUME LoginInv, NEW o \in Owners, NEW m \in Messages(sent, accounts, held)[o]
  PROVE  Queued([lane EXCEPT ![o] = Append(@, m)], Messages(sent, accounts, held))
BY Ranges, QueuePut DEF LoginInv, Right

\* A DB step that leaves accounts and balances alone.
LEMMA DbStepKeeps ==
  ASSUME LoginInv, UNCHANGED <<clientVars, confirming, table, accounts, gold, zoneVars, held, misplaced>>,
         lastId' \in 0 .. MaxId,
         Queued(lane', Messages(sent, accounts, held)), Queued(dbLane', Commands(sent, accounts, held))
  PROVE  LoginInv'
<1>1. TypeOK'
  BY DEF LoginInv, TypeOK, Sizes, clientVars, zoneVars
<1>2. QED
  BY <1>1 DEF LoginInv, Right, Confirmed, Purses, Plays, clientVars, zoneVars

LEMMA FailsStep ==
  ASSUME LoginInv, NEW o \in Owners, CommandFails(o)
  PROVE  LoginInv'
<1> USE Ranges
<1> DEFINE m == [type |-> "failure", session |-> o]
           C == Commands(sent, accounts, held)
<1>1. /\ dbLane[o] # <<>> /\ dbLane' = Done(o)
      /\ IF Head(dbLane[o]).do = "write" THEN lane' = lane ELSE lane' = [lane EXCEPT ![o] = Append(@, m)]
      /\ UNCHANGED <<clientVars, confirming, table, answered, accounts, gold, lastId, zoneVars, historyVars>>
  BY DEF CommandFails, PostFailure, Push
<1>2. Head(dbLane[o]) \in C[o] /\ Queued(dbLane', C)
  BY <1>1, NextCommand
<1>3. Head(dbLane[o]).do # "write" => o \in Sessions
  BY <1>2 DEF Commands
<1>4. o \in Sessions => m \in Messages(sent, accounts, held)[o]
  BY DEF Messages
<1>5. Queued(lane', Messages(sent, accounts, held))
  <2> HIDE DEF m
  <2>1. QED
    BY <1>1, <1>3, <1>4, PostAdds DEF LoginInv, Right
<1>6. lastId' \in 0 .. MaxId
  BY <1>1 DEF LoginInv, TypeOK
<1>7. QED
  BY <1>1, <1>2, <1>5, <1>6, DbStepKeeps DEF historyVars

LEMMA SelectedStep ==
  ASSUME LoginInv, NEW s \in Sessions, OnAccountSelected(s)
  PROVE  LoginInv'
<1> USE Ranges
<1> DEFINE attempt == Head(dbLane[s]).attempt
           account == accounts[attempt.name]
           load == [do |-> "load", id |-> account.id]
           upsert == [do |-> "upsert", id |-> lastId + 1, attempt |-> attempt]
           m == [type |-> "failure", session |-> s]
           C == Commands(sent, accounts, held)
           Add(c) == [Done(s) EXCEPT ![s] = Append(@, c)]
<1>1. /\ dbLane[s] # <<>> /\ Head(dbLane[s]).do = "select"
      /\ UNCHANGED <<clientVars, confirming, table, answered, accounts, gold, fails, zoneVars, historyVars>>
      /\ \/ lane' = [lane EXCEPT ![s] = Append(@, m)] /\ dbLane' = Done(s) /\ lastId' = lastId
         \/ account # NoAccount /\ dbLane' = Add(load) /\ lane' = lane /\ lastId' = lastId
         \/ lastId < MaxId /\ lastId' = lastId + 1 /\ dbLane' = Add(upsert) /\ lane' = lane
  BY DEF OnAccountSelected, Command, PostFailure, Push, LoadPlayerContent
<1>2. Head(dbLane[s]) \in C[s] /\ Queued(Done(s), C) /\ \A c \in C[s] : Queued(Add(c), C)
  BY <1>1, NextCommand
<1>3. attempt \in Logins /\ Asked(sent, s, attempt)
  BY <1>1, <1>2, Orders
<1>4. account # NoAccount => load \in C[s]
  <2> SUFFICES ASSUME account # NoAccount PROVE load \in C[s]
    OBVIOUS
  <2>1. account \in Account
    BY <1>3 DEF LoginInv, TypeOK, Sizes, Logins
  <2>2. account.id \in Ids
    BY <2>1 DEF Account
  <2>3. Named(sent, accounts, s, account.id)
    BY <1>3 DEF Asked, Named
  <2> HIDE DEF account, attempt
  <2>4. QED
    BY <2>2, <2>3 DEF Commands
<1>5. lastId \in 0 .. MaxId /\ MaxId \in Nat /\ (lastId < MaxId => lastId + 1 \in Ids /\ lastId + 1 \in 0 .. MaxId)
  BY LoginAssumption DEF LoginInv, TypeOK, Ids
<1>6. lastId < MaxId => upsert \in C[s]
  <2> HIDE DEF attempt
  <2>1. QED
    BY <1>3, <1>5 DEF Commands
<1>7. m \in Messages(sent, accounts, held)[s] /\ Queued(lane, Messages(sent, accounts, held))
  BY DEF Messages, LoginInv, Right
<1> HIDE DEF m, load, upsert, account, attempt, C
<1>8. Queued(lane', Messages(sent, accounts, held))
  BY <1>1, <1>7, PostAdds
<1>9. Queued(dbLane', C)
  BY <1>1, <1>2, <1>4, <1>6
<1>10. lastId' \in 0 .. MaxId
  BY <1>1, <1>5
<1>11. QED
  BY <1>1, <1>8, <1>9, <1>10, DbStepKeeps DEF historyVars, C

LEMMA CreatedStep ==
  ASSUME LoginInv, NEW s \in Sessions, OnAccountCreated(s)
  PROVE  LoginInv'
<1> USE Ranges
<1> DEFINE c == Head(dbLane[s])
           name == c.attempt.name
           load == [do |-> "load", id |-> accounts'[name].id]
           C == Commands(sent, accounts', held)
<1>1. /\ dbLane[s] # <<>> /\ c.do = "upsert"
      /\ accounts' = Upsert(c.id, c.attempt)
      /\ dbLane' = [Done(s) EXCEPT ![s] = Append(@, load)]
      /\ UNCHANGED <<clientVars, worldVars, gold, lastId, fails, zoneVars, historyVars>>
  BY DEF OnAccountCreated, Command, ConfirmedId, LoadPlayerContent
<1>2. c \in Commands(sent, accounts, held)[s]
  BY <1>1, NextCommand
<1>3. c.id \in Ids /\ c.attempt \in Logins /\ Asked(sent, s, c.attempt)
  BY <1>1, <1>2, Orders
<1>4. name \in Names /\ c.attempt.password \in Nat
  BY <1>3 DEF Logins
<1>5. accounts \in [Names -> Account] /\ Sizes(sent, accounts, held)
  BY DEF LoginInv, TypeOK, Sizes
<1>6. /\ accounts' \in [Names -> Account]
      /\ \A n \in Names : accounts[n] # NoAccount => accounts'[n] = accounts[n]
      /\ accounts'[name].id \in Ids
  <2> HIDE DEF c
  <2>1. CASE accounts[name] = NoAccount
    <3>1. [id |-> c.id, password |-> c.attempt.password] \in Account
      BY <1>3, <1>4 DEF Account
    <3>2. accounts' = [accounts EXCEPT ![name] = [id |-> c.id, password |-> c.attempt.password]]
      BY <1>1, <2>1 DEF Upsert
    <3>3. QED
      BY <1>3, <1>4, <1>5, <2>1, <3>1, <3>2
  <2>2. CASE accounts[name] # NoAccount
    <3>1. accounts' = accounts
      BY <1>1, <2>2 DEF Upsert
    <3>2. QED
      BY <1>4, <1>5, <2>2, <3>1 DEF Account
  <2>3. QED
    BY <2>1, <2>2
<1>7. Sizes(sent, accounts', held) /\ Grown(sent, accounts, held, sent, accounts', held)
  BY <1>5, <1>6 DEF Sizes, Grown
<1>8. Right(sent, accounts', held)
  BY <1>5, <1>7, RightGrows DEF LoginInv, TypeOK
<1>9. load \in C[s]
  <2>1. Named(sent, accounts', s, accounts'[name].id)
    BY <1>3 DEF Asked, Named
  <2> HIDE DEF name, c
  <2>2. QED
    BY <1>6, <2>1 DEF Commands
<1> HIDE DEF load, name, c
<1>10. Queued(dbLane', C)
  <2>1. Queued(dbLane, C) /\ DOMAIN C = Owners
    BY <1>8 DEF Right
  <2> HIDE DEF C
  <2>2. Queued(Done(s), C)
    BY <1>1, <2>1, QueueTake DEF Done
  <2>3. QED
    BY <1>1, <1>9, <2>1, <2>2, QueuePut
<1> HIDE DEF C
<1>11. TypeOK'
  BY <1>1, <1>7 DEF LoginInv, TypeOK, Sizes, clientVars, worldVars, zoneVars, historyVars
<1>12. QED
  BY <1>1, <1>8, <1>10, <1>11
     DEF LoginInv, Right, Confirmed, Purses, Plays, clientVars, worldVars, zoneVars, historyVars, C

LEMMA LoadedStep ==
  ASSUME LoginInv, NEW s \in Sessions, OnPlayerLoaded(s)
  PROVE  LoginInv'
<1> USE Ranges
<1> DEFINE id == Head(dbLane[s]).id
           m == [type |-> "success", session |-> s, id |-> id, gold |-> gold[id]]
<1>1. /\ dbLane[s] # <<>> /\ Head(dbLane[s]).do = "load" /\ dbLane' = Done(s)
      /\ lane' = [lane EXCEPT ![s] = Append(@, m)]
      /\ UNCHANGED <<clientVars, confirming, table, answered, accounts, gold, lastId, fails, zoneVars, held, misplaced>>
  BY DEF OnPlayerLoaded, Command, Push
<1>2. /\ Head(dbLane[s]) \in Commands(sent, accounts, held)[s]
      /\ Queued(dbLane', Commands(sent, accounts, held))
  BY <1>1, NextCommand
<1>3. id \in Ids /\ Named(sent, accounts, s, id)
  BY <1>1, <1>2, Orders
<1> HIDE DEF id
<1>4. gold[id] \in Nat /\ gold[id] \in held[id]
  BY <1>3 DEF LoginInv, TypeOK, Right, Purses
<1>5. m \in Messages(sent, accounts, held)[s]
  BY <1>3, <1>4 DEF Messages, Loaded
<1>6. Queued(lane', Messages(sent, accounts, held))
  <2> HIDE DEF m
  <2>1. QED
    BY <1>1, <1>5, PostAdds
<1>7. lastId' \in 0 .. MaxId
  BY <1>1 DEF LoginInv, TypeOK
<1>8. QED
  BY <1>1, <1>2, <1>6, <1>7, DbStepKeeps

LEMMA WriteStep ==
  ASSUME LoginInv, NEW o \in Owners, Write(o)
  PROVE  LoginInv'
<1> DEFINE amount == Head(dbLane[o]).amount
<1>1. /\ dbLane[o] # <<>> /\ Head(dbLane[o]).do = "write" /\ dbLane' = Done(o)
      /\ gold' = [gold EXCEPT ![o] = amount]
      /\ UNCHANGED <<clientVars, worldVars, accounts, lastId, fails, zoneVars, historyVars>>
  BY DEF Write, Command
<1>2. /\ Head(dbLane[o]) \in Commands(sent, accounts, held)[o]
      /\ Queued(dbLane', Commands(sent, accounts, held))
  BY <1>1, NextCommand
<1>3. o \in Ids /\ amount \in Nat /\ amount \in held[o]
  BY <1>1, <1>2, Orders
<1> HIDE DEF amount
<1>4. gold' \in [Ids -> Nat] /\ \A p \in Ids : gold'[p] \in held[p]
  BY <1>1, <1>3 DEF LoginInv, TypeOK, Right, Purses
<1>5. TypeOK'
  BY <1>1, <1>4 DEF LoginInv, TypeOK, Sizes, clientVars, worldVars, zoneVars, historyVars
<1>6. QED
  BY <1>1, <1>2, <1>4, <1>5
     DEF LoginInv, Right, Confirmed, Purses, Plays, clientVars, worldVars, zoneVars, historyVars

-----------------------------------------------------------------------------
LEMMA ExistingHaveIds == IdOf \in [Existing -> 1 .. Cardinality(Existing)]
<1> DEFINE n == Cardinality(Existing)
<1>1. n \in Nat /\ ExistsBijection(1 .. n, Existing)
  BY LoginAssumption, FS_CardinalityType
<1>2. ExistsBijection(Existing, 1 .. n)
  BY <1>1, Fun_ExistsBijSymmetric
<1>3. PICK f : f \in Bijection(Existing, 1 .. n)
  BY <1>2, Fun_ExistsBij
<1>4. f \in [Existing -> 1 .. n] /\ f \in Injection(Existing, 1 .. n)
  BY <1>3, Fun_BijectionProperties
<1>5. \A a, b \in Existing : f[a] = f[b] => b = a
  BY <1>4, Fun_InjectionProperties
<1>6. QED
  BY <1>4, <1>5 DEF IdOf

LEMMA InitRight == Init => LoginInv
<1> SUFFICES ASSUME Init PROVE LoginInv
  OBVIOUS
<1> USE Ranges
<1>1. Cardinality(Existing) \in Nat /\ Cardinality(Existing) <= MaxId /\ MaxId \in Nat
  BY LoginAssumption, FS_CardinalityType
<1>2. accounts \in [Names -> Account]
  <2>1. \A n \in Existing : [id |-> IdOf[n], password |-> 1] \in Account
    BY <1>1, ExistingHaveIds DEF Account, Ids
  <2>2. QED
    BY <2>1 DEF Init, Account
<1>3. gold \in [Ids -> Nat] /\ held \in [Ids -> SUBSET Nat] /\ \A p \in Ids : gold[p] \in held[p]
  <2>1. gold \in [Ids -> Nat]
    BY LoginAssumption DEF Init
  <2>2. QED
    BY <2>1 DEF Init
<1>4. sent \in [Sessions -> Nat] /\ \A s \in Sessions : sent[s] <= Len(Script[s])
  <2>1. \A s \in Sessions : Script[s] \in Seq(Logins)
    BY LoginAssumption
  <2>2. \A s \in Sessions : Len(Script[s]) \in Nat
    BY <2>1
  <2>3. QED
    BY <2>2 DEF Init
<1>5. /\ table = [players |-> <<>>, sessionByPlayerId |-> <<>>]
      /\ DOMAIN table = {"players", "sessionByPlayerId"} /\ DOMAIN table.players = {}
      /\ table.players \in [DOMAIN table.players -> Info]
  BY DEF Init, PM!EmptyTable
<1>6. lastId \in 0 .. MaxId
  BY <1>1 DEF Init
<1>7. /\ confirming \in [Sessions -> [id : Nat, gold : Nat]]
      /\ wallet \in [Ids -> Nat \cup {NotHere}]
  BY DEF Init, NoLogin
<1>8. TypeOK
  BY <1>2, <1>3, <1>4, <1>5, <1>6, <1>7 DEF TypeOK, Sizes
<1>9. /\ Queued(gateway, [s \in Sessions |-> ClientMessages(sent)])
      /\ Queued(lane, Messages(sent, accounts, held))
      /\ Queued(dbLane, Commands(sent, accounts, held))
      /\ Queued(toZone, Entries(held))
  BY EmptySeq DEF Queued, Init
<1>10. Confirmed(sent, accounts, held) /\ Purses(held) /\ Plays(sent, accounts, held)
  BY <1>3, <1>5 DEF Init, Confirmed, Purses, Plays
<1>11. QED
  BY <1>8, <1>9, <1>10 DEF LoginInv, Right

LEMMA NextRight == LoginInv /\ [Next]_vars => LoginInv'
<1> SUFFICES ASSUME LoginInv, [Next]_vars PROVE LoginInv'
  OBVIOUS
<1> USE Ranges
<1>1. ASSUME NEW s \in Sessions, ClientStep(s) \/ OnRecvStream(s)
      PROVE  LoginInv'
  BY <1>1, ClientSteps, ClientLoginStep, OnRecvStreamStep DEF ClientStep
<1>2. ASSUME NEW o \in Owners, BasicStep(o)
      PROVE  LoginInv'
  BY <1>2, ConnectedStep, DisconnectedStep, ForgetStep, LoginStep, FailureStep, CompleteStep, ConfirmStep, ReportStep
     DEF BasicStep
<1>3. ASSUME NEW o \in Owners, DbStep(o)
      PROVE  LoginInv'
  <2>1. Command(o, "select") \/ Command(o, "upsert") \/ Command(o, "load") => o \in Sessions
    BY NextCommand, Orders DEF Command
  <2>2. QED
    BY <1>3, <2>1, FailsStep, SelectedStep, CreatedStep, LoadedStep, WriteStep
       DEF DbStep, OnAccountSelected, OnAccountCreated, OnPlayerLoaded
<1>4. ASSUME NEW p \in Ids, ZoneStep(p)
      PROVE  LoginInv'
  BY <1>4, ZoneSteps, SpendStep DEF ZoneStep
<1>5. CASE UNCHANGED vars
  BY <1>5 DEF vars, clientVars, worldVars, dbVars, zoneVars, historyVars,
              LoginInv, TypeOK, Sizes, Right, Confirmed, Purses, Plays
<1>6. QED
  BY <1>1, <1>2, <1>3, <1>4, <1>5, LinkStep DEF Next

\* In every reachable state all that is queued, cached and stored of a login
\* goes back to what its client asked, to the accounts and to what they owned
\* (LoginProcessor, BasicProcessor::HandleUnitOfWorkStream).
THEOREM LoginInvariant == Spec => []LoginInv
BY InitRight, NextRight, PTL DEF Spec

\* A session that is in plays as an account that exists under a name its client
\* typed, whoever won the race to make it (LoginProcessor.cpp:178).
THEOREM EveryoneIsWhoTheyNamed == Spec => []PlaysAsAccount
<1>1. LoginInv => PlaysAsAccount
  <2> SUFFICES ASSUME LoginInv, NEW s \in DOMAIN table.players, table.players[s].authenticated
               PROVE  \E i \in 1 .. sent[s] : table.players[s].playerId = accounts[Script[s][i].name].id
    BY DEF PlaysAsAccount, PM!Find
  <2>1. Named(sent, accounts, s, table.players[s].playerId)
    BY DEF LoginInv, Right, Plays
  <2>2. QED
    BY <2>1 DEF Named
<1>2. QED
  BY <1>1, LoginInvariant, PTL

\* What a session is given to play with is what its account owned at some time,
\* unless a report of another account was entered in its cache
\* (LoginProcessor.cpp:227, BasicProcessor.cpp:499).
THEOREM NobodyIsGivenWhatWasNotTheirs == Spec => []CacheWasOwned
<1>1. LoginInv => CacheWasOwned
  BY DEF LoginInv, Right, Plays, CacheWasOwned, PM!Find
<1>2. QED
  BY <1>1, LoginInvariant, PTL
-----------------------------------------------------------------------------
(***************************************************************************)
(* The index of players.  A session that is added twice would lose the     *)
(* account its index entry stands for; so the invariant follows the one    *)
(* "connected" of a session from its client to its lane, and says that     *)
(* nothing knows the session until it is handled.                          *)
(***************************************************************************)

Plain(q) == \A i \in 1 .. Len(q) : q[i].type # "connected"

\* The "connected" of s is at the head of q, and no other is in it.
First(q, s) ==
    q # <<>> /\ Head(q) = [type |-> "connected", session |-> s] /\ Plain(Tail(q))

Unknown(s) ==
    /\ dbLane[s] = <<>> /\ confirming[s] = NoLogin
    /\ s \notin DOMAIN table.players
    /\ \A p \in DOMAIN table.sessionByPlayerId : table.sessionByPlayerId[p] # s

Before(s) == Unknown(s) /\ lane[s] = <<>> /\ client[s] = "new" /\ gateway[s] = <<>>
OnItsWay(s) == Unknown(s) /\ lane[s] = <<>> /\ client[s] # "new" /\ First(gateway[s], s)
ToBeAdded(s) == Unknown(s) /\ client[s] # "new" /\ Plain(gateway[s]) /\ First(lane[s], s)
Added(s) == client[s] # "new" /\ Plain(gateway[s]) /\ Plain(lane[s])

ConnectsOnce(s) == Before(s) \/ OnItsWay(s) \/ ToBeAdded(s) \/ Added(s)

IndexOK ==
    /\ DOMAIN table.sessionByPlayerId \subseteq Ids
    /\ IndexNamesItsSession

OnceInv ==
    /\ client \in [Sessions -> {"new", "open", "gone"}]
    /\ \A p \in Ids : Plain(lane[p])
    /\ \A s \in Sessions : ConnectsOnce(s)
    /\ IndexOK

LEMMA PlainAppend ==
  ASSUME NEW S, NEW q \in Seq(S), NEW m, m.type # "connected", Plain(q)
  PROVE  Plain(Append(q, m))
<1>1. q \in Seq(S \cup {m}) /\ m \in S \cup {m}
  BY SeqMonotonic
<1>2. Len(q) \in Nat
  OBVIOUS
<1> DEFINE T == S \cup {m}
<1> HIDE DEF T
<1>3. q \in Seq(T) /\ m \in T
  BY <1>1 DEF T
<1>4. /\ Len(Append(q, m)) = Len(q) + 1 /\ Append(q, m)[Len(q) + 1] = m
      /\ \A i \in 1 .. Len(q) : Append(q, m)[i] = q[i]
  BY <1>3, AppendProperties
<1>5. QED
  BY <1>2, <1>4 DEF Plain

LEMMA PlainTail ==
  ASSUME NEW S, NEW q \in Seq(S), q # <<>>, Plain(q)
  PROVE  Plain(Tail(q)) /\ Head(q).type # "connected"
<1>1. Len(q) \in Nat /\ Len(q) > 0 /\ Head(q) = q[1]
  OBVIOUS
<1>2. Len(Tail(q)) = Len(q) - 1 /\ \A i \in 1 .. Len(Tail(q)) : Tail(q)[i] = q[i + 1]
  BY HeadTailProperties
<1>3. QED
  BY <1>1, <1>2 DEF Plain

LEMMA FirstAppend ==
  ASSUME NEW S, NEW q \in Seq(S), NEW m, m.type # "connected", NEW s, First(q, s)
  PROVE  First(Append(q, m), s)
<1>1. Head(Append(q, m)) = Head(q) /\ Tail(Append(q, m)) = Append(Tail(q), m) /\ Append(q, m) # <<>>
  BY HeadTailAppend DEF First
<1>2. Tail(q) \in Seq(S)
  BY HeadTailProperties DEF First
<1>3. Plain(Append(Tail(q), m))
  BY <1>2, PlainAppend DEF First
<1>4. QED
  BY <1>1, <1>3 DEF First

LEMMA FirstOf ==
  ASSUME NEW s
  PROVE  First(Append(<<>>, [type |-> "connected", session |-> s]), s) /\ Plain(<<>>)
BY DEF First, Plain

\* Where the queues of an owner are.
LEMMA Lanes ==
  ASSUME LoginInv
  PROVE  /\ \A o \in Owners : lane[o] \in Seq(Messages(sent, accounts, held)[o])
         /\ \A s \in Sessions : gateway[s] \in Seq(ClientMessages(sent))
         /\ DOMAIN lane = Owners /\ DOMAIN gateway = Sessions /\ DOMAIN dbLane = Owners
<1>1. DOMAIN lane = Owners /\ \A o \in Owners : lane[o] \in Seq(Messages(sent, accounts, held)[o])
  BY Ranges DEF LoginInv, Right, Queued
<1>2. DOMAIN gateway = Sessions /\ \A s \in Sessions : gateway[s] \in Seq(ClientMessages(sent))
  BY DEF LoginInv, Right, Queued
<1>3. DOMAIN dbLane = Owners
  BY Ranges DEF LoginInv, Right, Queued
<1>4. QED
  BY <1>1, <1>2, <1>3

LEMMA LaneAppend ==
  ASSUME LoginInv, NEW o \in Owners, NEW m, m.type # "connected"
  PROVE  /\ Plain(lane[o]) => Plain(Append(lane[o], m))
         /\ \A s : First(lane[o], s) => First(Append(lane[o], m), s)
<1>1. PICK q, S : q = lane[o] /\ S = Messages(sent, accounts, held)[o]
  OBVIOUS
<1>2. q \in Seq(S)
  BY <1>1, Lanes
<1>3. Plain(q) => Plain(Append(q, m))
  BY <1>2, PlainAppend
<1>4. \A s : First(q, s) => First(Append(q, m), s)
  BY <1>2, FirstAppend
<1>5. QED
  BY <1>1, <1>3, <1>4

LEMMA ConnectsOnceKept ==
  ASSUME NEW s \in Sessions, ConnectsOnce(s), client'[s] = client[s], gateway'[s] = gateway[s],
         lane'[s] = lane[s], Unknown(s) => Unknown(s)'
  PROVE  ConnectsOnce(s)'
BY DEF ConnectsOnce, Before, OnItsWay, ToBeAdded, Added

\* A step that touches none of what the "connected" passes.
LEMMA OtherSteps ==
  ASSUME OnceInv, UNCHANGED <<clientVars, lane>>,
         \A s \in Sessions : Unknown(s) => Unknown(s)', IndexOK'
  PROVE  OnceInv'
BY ConnectsOnceKept DEF OnceInv, clientVars

\* What a lane hands out but a "connected" finds the session added.
LEMMA TakesOnce ==
  ASSUME LoginInv, OnceInv, NEW o \in Owners, NEW type, TakeFromLane(o, type), type # "connected"
  PROVE  /\ o \in Ids => Plain(lane'[o])
         /\ o \in Sessions => Added(o) /\ Plain(lane'[o])
         /\ \A w \in Owners : w # o => lane'[w] = lane[w]
<1>1. /\ lane[o] # <<>> /\ Head(lane[o]).type = type /\ lane' = [lane EXCEPT ![o] = Tail(@)]
  BY DEF TakeFromLane
<1>2. lane[o] \in Seq(Messages(sent, accounts, held)[o]) /\ DOMAIN lane = Owners
  BY Lanes
<1>3. lane'[o] = Tail(lane[o]) /\ \A w \in Owners : w # o => lane'[w] = lane[w]
  BY <1>1, <1>2
<1>4. Plain(lane[o]) => Plain(lane'[o])
  BY <1>1, <1>2, <1>3, PlainTail
<1>5. o \in Sessions => Added(o)
  <2>1. ~First(lane[o], o)
    BY <1>1 DEF First
  <2>2. QED
    BY <1>1, <2>1 DEF OnceInv, ConnectsOnce, Before, OnItsWay, ToBeAdded
<1>6. QED
  BY <1>3, <1>4, <1>5 DEF OnceInv, Added

LEMMA LaneStepOnce ==
  ASSUME LoginInv, OnceInv, NEW o \in Owners, NEW type, TakeFromLane(o, type), type # "connected",
         UNCHANGED clientVars, \A s \in Sessions : s # o /\ Unknown(s) => Unknown(s)', IndexOK'
  PROVE  OnceInv'
<1> USE Ranges
<1>1. /\ o \in Ids => Plain(lane'[o])
      /\ o \in Sessions => Added(o) /\ Plain(lane'[o])
      /\ \A w \in Owners : w # o => lane'[w] = lane[w]
  BY TakesOnce
<1>2. \A p \in Ids : Plain(lane'[p])
  BY <1>1 DEF OnceInv
<1>3. ASSUME NEW s \in Sessions PROVE ConnectsOnce(s)'
  <2>1. CASE s = o
    BY <1>1, <2>1 DEF ConnectsOnce, Added, clientVars
  <2>2. CASE s # o
    BY <1>1, <2>2, ConnectsOnceKept DEF OnceInv, clientVars
  <2>3. QED
    BY <2>1, <2>2
<1>4. QED
  BY <1>2, <1>3 DEF OnceInv, clientVars

\* The table is left alone, and so is what is known of a session.
LEMMA TableKept ==
  ASSUME OnceInv, table' = table, twice' = twice
  PROVE  IndexOK'
BY DEF OnceInv, IndexOK, IndexNamesItsSession, PM!FindSessionByPlayerId, PM!Has, PM!Find

LEMMA ClientOnce ==
  ASSUME LoginInv, OnceInv, NEW c \in Sessions, ClientStep(c)
  PROVE  OnceInv'
<1> USE Ranges
<1>1. UNCHANGED <<lane, confirming, table, dbLane, twice>>
  BY DEF ClientStep, ClientConnect, ClientLogin, ClientDisconnect, worldVars, dbVars, historyVars
<1>2. IndexOK' /\ \A s \in Sessions : Unknown(s) => Unknown(s)'
  BY <1>1, TableKept DEF Unknown
<1>3. client \in [Sessions -> {"new", "open", "gone"}] /\ DOMAIN gateway = Sessions
  BY Lanes DEF OnceInv
<1>4. client' \in [Sessions -> {"new", "open", "gone"}]
  BY <1>3 DEF ClientStep, ClientConnect, ClientLogin, ClientDisconnect
<1>5. PICK m : /\ gateway' = [gateway EXCEPT ![c] = Append(@, m)]
               /\ \/ client[c] = "new" /\ m = [type |-> "connected", session |-> c]
                  \/ client[c] # "new" /\ m.type # "connected"
  BY DEF ClientStep, ClientConnect, ClientLogin, ClientDisconnect, ClientSends
<1>6. /\ client'[c] # "new" /\ gateway'[c] = Append(gateway[c], m)
      /\ \A s \in Sessions : s # c => client'[s] = client[s] /\ gateway'[s] = gateway[s]
  BY <1>3, <1>5 DEF ClientStep, ClientConnect, ClientLogin, ClientDisconnect
<1>7. gateway[c] \in Seq(ClientMessages(sent)) /\ ConnectsOnce(c)
  BY Lanes DEF OnceInv
<1>8. ConnectsOnce(c)'
  <2>1. CASE Before(c)
    <3>1. First(gateway'[c], c)
      BY <1>5, <1>6, <2>1, FirstOf DEF Before
    <3>2. QED
      BY <1>1, <1>2, <1>6, <2>1, <3>1 DEF ConnectsOnce, Before, OnItsWay
  <2>2. CASE OnItsWay(c)
    <3>1. First(gateway'[c], c)
      BY <1>5, <1>6, <1>7, <2>2, FirstAppend DEF OnItsWay
    <3>2. QED
      BY <1>1, <1>2, <1>6, <2>2, <3>1 DEF ConnectsOnce, OnItsWay
  <2>3. CASE ToBeAdded(c) \/ Added(c)
    <3>1. Plain(gateway'[c])
      BY <1>5, <1>6, <1>7, <2>3, PlainAppend DEF ToBeAdded, Added
    <3>2. QED
      BY <1>1, <1>2, <1>6, <2>3, <3>1 DEF ConnectsOnce, ToBeAdded, Added
  <2>4. QED
    BY <1>7, <2>1, <2>2, <2>3 DEF ConnectsOnce
<1>9. \A s \in Sessions : ConnectsOnce(s)'
  BY <1>1, <1>2, <1>6, <1>8, ConnectsOnceKept DEF OnceInv
<1>10. QED
  BY <1>1, <1>2, <1>4, <1>9 DEF OnceInv

\* The "connected" of a session is routed to the lane of the session, which is
\* empty; what follows it, to that lane or to the lane of a player.
LEMMA RoutedOnce ==
  ASSUME LoginInv, OnceInv, NEW c \in Sessions, OnRecvStream(c)
  PROVE  OnceInv'
<1> USE Ranges
<1>1. PICK o, m : o = OwnerOf(c) /\ m = Head(gateway[c])
  OBVIOUS
<1>2. /\ gateway[c] # <<>> /\ gateway' = [gateway EXCEPT ![c] = Tail(@)]
      /\ lane' = [lane EXCEPT ![o] = Append(@, m)]
      /\ UNCHANGED <<client, confirming, table, dbLane, twice>>
  BY <1>1 DEF OnRecvStream, dbVars, historyVars
<1>3. o \in {c} \cup Ids /\ (c \notin DOMAIN table.players => o = c) /\ o \in Owners
  <2>1. PM!FindPlayerId(table, c) \in Ids \cup {NoPlayer}
    BY DEF PM!FindPlayerId, PM!Has, LoginInv, TypeOK, Info
  <2>2. c \notin DOMAIN table.players => PM!FindPlayerId(table, c) = NoPlayer
    BY DEF PM!FindPlayerId, PM!Has
  <2>3. QED
    BY <1>1, <2>1, <2>2 DEF OwnerOf
<1>4. /\ gateway[c] \in Seq(ClientMessages(sent)) /\ ConnectsOnce(c)
      /\ \A w \in Owners : lane[w] \in Seq(Messages(sent, accounts, held)[w])
      /\ DOMAIN gateway = Sessions /\ DOMAIN lane = Owners
  BY Lanes DEF OnceInv
<1>5. /\ gateway'[c] = Tail(gateway[c]) /\ lane'[o] = Append(lane[o], m)
      /\ \A s \in Sessions : s # c => gateway'[s] = gateway[s] /\ lane'[s] = lane[s]
      /\ \A p \in Ids : p # o => lane'[p] = lane[p]
      /\ o # c => lane'[c] = lane[c]
  BY <1>2, <1>3, <1>4
<1>6. IndexOK' /\ \A s \in Sessions : Unknown(s) => Unknown(s)'
  BY <1>2, TableKept DEF Unknown
<1>7. ~Before(c)
  BY <1>2 DEF Before
<1>8. ASSUME ToBeAdded(c) \/ Added(c)
      PROVE  Plain(gateway'[c]) /\ m.type # "connected"
  BY <1>1, <1>2, <1>4, <1>5, <1>8, PlainTail DEF ToBeAdded, Added
<1>9. ConnectsOnce(c)'
  <2>1. CASE OnItsWay(c)
    <3>1. o = c /\ lane[c] = <<>> /\ m = [type |-> "connected", session |-> c] /\ Plain(gateway'[c])
      BY <1>1, <1>3, <1>5, <2>1 DEF OnItsWay, Unknown, First
    <3>2. First(lane'[c], c)
      BY <1>5, <3>1, FirstOf
    <3>3. QED
      BY <1>2, <1>6, <2>1, <3>1, <3>2 DEF ConnectsOnce, OnItsWay, ToBeAdded
  <2>2. CASE ToBeAdded(c)
    <3>1. o = c
      BY <1>3, <2>2 DEF ToBeAdded, Unknown
    <3>2. First(lane'[c], c)
      BY <1>3, <1>5, <1>8, <2>2, <3>1, LaneAppend DEF ToBeAdded
    <3>3. QED
      BY <1>2, <1>6, <1>8, <2>2, <3>2 DEF ConnectsOnce, ToBeAdded
  <2>3. CASE Added(c)
    <3>1. Plain(lane'[c])
      BY <1>3, <1>5, <1>8, <2>3, LaneAppend DEF Added
    <3>2. QED
      BY <1>2, <1>8, <2>3, <3>1 DEF ConnectsOnce, Added
  <2>4. QED
    BY <1>4, <1>7, <2>1, <2>2, <2>3 DEF ConnectsOnce
<1>10. ASSUME NEW p \in Ids PROVE Plain(lane'[p])
  <2>1. CASE p # o
    BY <1>5, <2>1 DEF OnceInv
  <2>2. CASE p = o
    <3>1. Added(c)
      BY <1>3, <1>4, <1>7, <2>2 DEF ConnectsOnce, OnItsWay, ToBeAdded, Unknown
    <3>2. QED
      <4>1. Plain(lane[o])
        BY <2>2 DEF OnceInv
      <4>2. m.type # "connected"
        BY <1>8, <3>1
      <4>3. Plain(Append(lane[o], m))
        BY <1>3, <4>1, <4>2, LaneAppend
      <4>4. QED
        BY <1>5, <2>2, <4>3
  <2>3. QED
    BY <2>1, <2>2
<1>11. \A s \in Sessions : ConnectsOnce(s)'
  BY <1>2, <1>5, <1>6, <1>9, ConnectsOnceKept DEF OnceInv
<1>12. QED
  BY <1>2, <1>6, <1>10, <1>11 DEF OnceInv

\* A session is added before anything is known of it, so no entry of the index
\* names it.
LEMMA ConnectedOnce ==
  ASSUME LoginInv, OnceInv, NEW o \in Owners, HandleClientConnected(o)
  PROVE  OnceInv'
<1> USE Ranges
<1>1. PICK s : s = Head(lane[o]).session
  OBVIOUS
<1>2. /\ lane[o] # <<>> /\ Head(lane[o]).type = "connected" /\ lane' = [lane EXCEPT ![o] = Tail(@)]
      /\ table' = PM!Add(table, s)
      /\ UNCHANGED <<client, gateway, confirming, dbLane, twice>>
  BY <1>1 DEF HandleClientConnected, TakeFromLane, clientVars, dbVars, historyVars
<1>3. lane[o] \in Seq(Messages(sent, accounts, held)[o]) /\ DOMAIN lane = Owners
  BY Lanes
<1>4. ~Plain(lane[o])
  BY <1>2, <1>3, PlainTail
<1>5. o \in Sessions /\ ToBeAdded(o) /\ s = o
  <2>1. o \in Sessions
    BY <1>4 DEF OnceInv
  <2>2. ToBeAdded(o)
    BY <1>2, <1>4, <2>1 DEF OnceInv, ConnectsOnce, Before, OnItsWay, Added
  <2>3. QED
    BY <1>1, <2>1, <2>2 DEF ToBeAdded, First
<1>6. /\ table'.sessionByPlayerId = table.sessionByPlayerId
      /\ DOMAIN table'.players = DOMAIN table.players \cup {o}
      /\ \A c \in DOMAIN table.players : c # o => table'.players[c] = table.players[c]
  BY <1>2, <1>5 DEF PM!Add, PM!With, LoginInv, TypeOK
<1>7. \A c \in Sessions : c # o /\ Unknown(c) => Unknown(c)'
  BY <1>2, <1>6 DEF Unknown
<1>8. IndexOK'
  BY <1>2, <1>5, <1>6
     DEF OnceInv, IndexOK, IndexNamesItsSession, ToBeAdded, Unknown, PM!FindSessionByPlayerId, PM!Has, PM!Find
<1>9. /\ Plain(lane'[o]) /\ \A w \in Owners : w # o => lane'[w] = lane[w]
  BY <1>2, <1>3, <1>5 DEF ToBeAdded, First
<1>10. \A c \in Sessions : ConnectsOnce(c)'
  <2>1. Added(o)'
    BY <1>2, <1>5, <1>9 DEF ToBeAdded, Added
  <2>2. QED
    BY <1>2, <1>7, <1>9, <2>1, ConnectsOnceKept DEF OnceInv, ConnectsOnce
<1>11. QED
  BY <1>2, <1>5, <1>8, <1>9, <1>10 DEF OnceInv

\* Messages that leave the table alone.
LEMMA LanesOnce ==
  ASSUME LoginInv, OnceInv, NEW o \in Owners,
         \/ HandleClientDisconnected(o) \/ HandleLogin(o)
         \/ o \in Sessions /\ (OnLoginFailure(o) \/ CompleteLogin(o))
  PROVE  OnceInv'
<1> USE Ranges
<1>1. PICK type : TakeFromLane(o, type) /\ type # "connected"
  BY DEF HandleClientDisconnected, HandleLogin, OnLoginFailure, CompleteLogin
<1>2. UNCHANGED <<clientVars, table, twice>>
  BY DEF HandleClientDisconnected, HandleLogin, OnLoginFailure, CompleteLogin, historyVars
<1>3. IndexOK'
  BY <1>2, TableKept
<1>4. ASSUME NEW c \in Sessions, c # o, Unknown(c) PROVE Unknown(c)'
  <2>1. confirming'[c] = confirming[c]
    <3>1. confirming \in [Sessions -> [id : Nat, gold : Nat]]
      BY DEF LoginInv, TypeOK
    <3>2. QED
      BY <1>4, <3>1 DEF HandleClientDisconnected, HandleLogin, OnLoginFailure, CompleteLogin
  <2>2. dbLane'[c] = dbLane[c]
    <3>1. CASE HandleLogin(o)
      BY <1>4, <3>1, Lanes DEF HandleLogin, ToDb, Unknown, PM!Has
    <3>2. CASE ~HandleLogin(o)
      BY <3>2 DEF HandleClientDisconnected, OnLoginFailure, CompleteLogin, dbVars
    <3>3. QED
      BY <3>1, <3>2
  <2>3. QED
    BY <1>2, <1>4, <2>1, <2>2 DEF Unknown
<1>5. QED
  BY <1>1, <1>2, <1>3, <1>4, LaneStepOnce

\* A report changes the purse of a session, not who plays there.
LEMMA ReportOnce ==
  ASSUME LoginInv, OnceInv, NEW p \in Ids, HandleUnitOfWorkStream(p)
  PROVE  OnceInv'
<1> USE Ranges
<1>1. PICK amount, s : amount = Head(lane[p]).amount /\ s = PM!FindSessionByPlayerId(table, p)
  OBVIOUS
<1>2. /\ TakeFromLane(p, "report")
      /\ UNCHANGED <<clientVars, confirming, twice>>
      /\ table' = PM!SetCurrency(table, s, amount) \/ table' = table
      /\ \A c \in Sessions : dbLane'[c] = dbLane[c]
  BY <1>1, Lanes DEF HandleUnitOfWorkStream, ToDb
<1>3. /\ table'.sessionByPlayerId = table.sessionByPlayerId
      /\ DOMAIN table'.players = DOMAIN table.players
      /\ \A c \in DOMAIN table.players : table'.players[c].playerId = table.players[c].playerId
  <2>1. CASE table' = table
    BY <2>1
  <2>2. CASE table' = PM!SetCurrency(table, s, amount) /\ s \notin DOMAIN table.players
    BY <2>2 DEF PM!SetCurrency, PM!Update, PM!Has
  <2>3. CASE table' = PM!SetCurrency(table, s, amount) /\ s \in DOMAIN table.players
    <3>1. table.players[s] \in Info /\ DOMAIN table = {"players", "sessionByPlayerId"}
      BY <2>3 DEF LoginInv, TypeOK
    <3>2. PICK i : i = [table.players[s] EXCEPT !.gold = amount]
      OBVIOUS
    <3>3. i.playerId = table.players[s].playerId
      BY <3>1, <3>2 DEF Info
    <3>4. table' = [table EXCEPT !.players[s] = i]
      BY <2>3, <3>2 DEF PM!SetCurrency, PM!Update, PM!Has, PM!Find
    <3>5. QED
      BY <3>1, <3>3, <3>4
  <2>4. QED
    BY <1>2, <2>1, <2>2, <2>3
<1>4. IndexOK'
  BY <1>2, <1>3 DEF OnceInv, IndexOK, IndexNamesItsSession, PM!FindSessionByPlayerId, PM!Has, PM!Find
<1>5. \A c \in Sessions : Unknown(c) => Unknown(c)'
  BY <1>2, <1>3 DEF Unknown
<1>6. QED
  BY <1>2, <1>4, <1>5, LaneStepOnce

\* A session that goes takes the entry of its player along, whichever session
\* that entry names.
LEMMA ForgetOnce ==
  ASSUME LoginInv, OnceInv, NEW o \in Owners, ForgetClient(o)
  PROVE  OnceInv'
<1>1. PICK s, p : s = leaving[o].session /\ p = PM!FindPlayerId(table, s)
  OBVIOUS
<1>2. table' = PM!Remove(table, s) /\ UNCHANGED <<clientVars, lane, confirming, dbLane, twice>>
  BY <1>1 DEF ForgetClient, dbVars, historyVars
<1>3. /\ DOMAIN table'.players = DOMAIN table.players \ {s}
      /\ \A c \in DOMAIN table'.players : table'.players[c] = table.players[c]
      /\ DOMAIN table'.sessionByPlayerId =
            IF p = NoPlayer THEN DOMAIN table.sessionByPlayerId ELSE DOMAIN table.sessionByPlayerId \ {p}
      /\ \A q \in DOMAIN table'.sessionByPlayerId : table'.sessionByPlayerId[q] = table.sessionByPlayerId[q]
  BY <1>1, <1>2 DEF PM!Remove, PM!Without
<1>4. \A c \in Sessions : Unknown(c) => Unknown(c)'
  BY <1>2, <1>3 DEF Unknown
<1>5. s \in DOMAIN table.players => p = table.players[s].playerId
  BY <1>1 DEF PM!FindPlayerId, PM!Has
<1>6. IndexOK'
  <2>1. DOMAIN table'.sessionByPlayerId \subseteq Ids
    BY <1>3 DEF OnceInv, IndexOK
  <2>2. ASSUME NEW q \in DOMAIN table'.sessionByPlayerId, table'.sessionByPlayerId[q] \notin twice
        PROVE  /\ table'.sessionByPlayerId[q] \in DOMAIN table'.players
               /\ table'.players[table'.sessionByPlayerId[q]].playerId = q
    <3>1. PICK c : c = table.sessionByPlayerId[q]
      OBVIOUS
    <3>2. q \in DOMAIN table.sessionByPlayerId /\ table'.sessionByPlayerId[q] = c /\ c \notin twice
      BY <1>3, <2>2, <3>1
    <3>3. c \in DOMAIN table.players /\ table.players[c].playerId = q /\ q \in Ids
      BY <3>1, <3>2 DEF OnceInv, IndexOK, IndexNamesItsSession, PM!FindSessionByPlayerId, PM!Has, PM!Find
    <3>4. c # s
      BY <1>3, <1>5, <2>2, <3>3, LoginAssumption
    <3>5. QED
      BY <1>3, <3>2, <3>3, <3>4
  <2>3. QED
    BY <1>2, <2>1, <2>2 DEF IndexOK, IndexNamesItsSession, PM!FindSessionByPlayerId, PM!Has, PM!Find
<1>7. QED
  BY <1>2, <1>4, <1>6, OtherSteps

\* A session is confirmed: the entry of its account names it, and no other one
\* does unless it was confirmed for another account before.
LEMMA ConfirmedOnce ==
  ASSUME LoginInv, OnceInv, NEW s \in Sessions, ConfirmLogin(s)
  PROVE  OnceInv'
<1>1. PICK p, g : p = confirming[s].id /\ g = confirming[s].gold
  OBVIOUS
<1>2. /\ confirming[s] # NoLogin /\ confirming' = [confirming EXCEPT ![s] = NoLogin]
      /\ table' = PM!SetZoneId(PM!SetAuthenticated(table, s, p, {}, g), s, EntryZone)
      /\ twice' = IF PM!FindPlayerId(table, s) \in {NoPlayer, p} THEN twice ELSE twice \cup {s}
      /\ UNCHANGED <<clientVars, lane, dbLane>>
  BY <1>1 DEF ConfirmLogin, dbVars
<1>3. p \in Ids
  BY <1>1, <1>2 DEF LoginInv, Right, Confirmed, Loaded
<1>4. CASE s \notin DOMAIN table.players
  <2>1. table' = table /\ twice' = twice
    BY <1>2, <1>4 DEF PM!SetZoneId, PM!SetAuthenticated, PM!Update, PM!Has, PM!FindPlayerId
  <2>2. \A c \in Sessions : Unknown(c) => Unknown(c)'
    BY <1>2, <2>1 DEF Unknown
  <2>3. QED
    BY <1>2, <2>1, <2>2, TableKept, OtherSteps
<1>5. CASE s \in DOMAIN table.players
  <2>1. /\ DOMAIN table'.players = DOMAIN table.players
        /\ table'.players[s].playerId = p
        /\ \A c \in DOMAIN table.players : c # s => table'.players[c] = table.players[c]
        /\ table'.sessionByPlayerId = PM!With(table.sessionByPlayerId, p, s)
    <3>1. PICK i : i = [playerId |-> p, zoneId |-> table.players[s].zoneId, authenticated |-> TRUE,
                        mails |-> {}, gold |-> g]
      OBVIOUS
    <3>2. PICK t : t = PM!SetAuthenticated(table, s, p, {}, g)
      OBVIOUS
    <3>3. PICK j : j = [i EXCEPT !.zoneId = EntryZone]
      OBVIOUS
    <3>4. t = [players |-> [table.players EXCEPT ![s] = i],
               sessionByPlayerId |-> PM!With(table.sessionByPlayerId, p, s)]
      BY <1>5, <3>1, <3>2 DEF PM!SetAuthenticated, PM!Has
    <3>5. s \in DOMAIN t.players /\ t.players[s] = i
      BY <1>5, <3>4
    <3>6. table' = [t EXCEPT !.players[s] = j]
      BY <1>2, <3>2, <3>3, <3>5 DEF PM!SetZoneId, PM!Update, PM!Has, PM!Find
    <3>7. j.playerId = p
      BY <3>1, <3>3
    <3>8. QED
      BY <1>5, <3>4, <3>6, <3>7
  <2>2. /\ DOMAIN table'.sessionByPlayerId = DOMAIN table.sessionByPlayerId \cup {p}
        /\ table'.sessionByPlayerId[p] = s
        /\ \A q \in DOMAIN table.sessionByPlayerId :
              q # p => table'.sessionByPlayerId[q] = table.sessionByPlayerId[q]
    BY <2>1 DEF PM!With
  <2>3. \A c \in Sessions : Unknown(c) => Unknown(c)'
    <3> SUFFICES ASSUME NEW c \in Sessions, Unknown(c) PROVE Unknown(c)'
      OBVIOUS
    <3>1. c # s
      BY <1>2 DEF Unknown
    <3>2. QED
      BY <1>2, <2>1, <2>2, <3>1 DEF Unknown
  <2>4. IndexOK'
    <3>1. DOMAIN table'.sessionByPlayerId \subseteq Ids
      BY <1>3, <2>2 DEF OnceInv, IndexOK
    <3>2. ASSUME NEW q \in DOMAIN table'.sessionByPlayerId, table'.sessionByPlayerId[q] \notin twice'
          PROVE  /\ table'.sessionByPlayerId[q] \in DOMAIN table'.players
                 /\ table'.players[table'.sessionByPlayerId[q]].playerId = q
      <4>1. CASE q = p
        BY <1>5, <2>1, <2>2, <4>1
      <4>2. CASE q # p
        <5>1. PICK c : c = table.sessionByPlayerId[q]
          OBVIOUS
        <5>2. q \in DOMAIN table.sessionByPlayerId /\ table'.sessionByPlayerId[q] = c /\ c \notin twice'
          BY <2>2, <3>2, <4>2, <5>1
        <5>3. c \notin twice
          BY <1>2, <5>2
        <5>4. c \in DOMAIN table.players /\ table.players[c].playerId = q /\ q \in Ids
          BY <5>1, <5>2, <5>3
             DEF OnceInv, IndexOK, IndexNamesItsSession, PM!FindSessionByPlayerId, PM!Has, PM!Find
        <5>5. c # s
          BY <1>2, <4>2, <5>2, <5>4, LoginAssumption DEF PM!FindPlayerId, PM!Has
        <5>6. QED
          BY <2>1, <5>2, <5>4, <5>5
      <4>3. QED
        BY <4>1, <4>2
    <3>3. QED
      BY <3>1, <3>2 DEF IndexOK, IndexNamesItsSession, PM!FindSessionByPlayerId, PM!Has, PM!Find
  <2>5. QED
    BY <1>2, <2>3, <2>4, OtherSteps
<1>6. QED
  BY <1>4, <1>5

LEMMA SpendOnce ==
  ASSUME LoginInv, OnceInv, NEW p \in Ids, Spend(p)
  PROVE  OnceInv'
<1> USE Ranges
<1>1. PICK m : m = [type |-> "report", amount |-> wallet[p] - 1]
  OBVIOUS
<1>2. /\ lane' = lane \/ lane' = [lane EXCEPT ![p] = Append(@, m)]
      /\ UNCHANGED <<clientVars, confirming, table, dbLane, twice>>
  BY <1>1 DEF Spend, dbVars
<1>3. lane[p] \in Seq(Messages(sent, accounts, held)[p]) /\ DOMAIN lane = Owners /\ Plain(lane[p])
  BY Lanes DEF OnceInv
<1>4. Plain(Append(lane[p], m))
  BY <1>1, <1>3, PlainAppend
<1>5. Plain(lane'[p]) /\ \A w \in Owners : w # p => lane'[w] = lane[w]
  BY <1>2, <1>3, <1>4
<1>6. IndexOK' /\ \A s \in Sessions : Unknown(s) => Unknown(s)'
  BY <1>2, TableKept DEF Unknown
<1>7. \A s \in Sessions : ConnectsOnce(s)'
  BY <1>2, <1>5, <1>6, ConnectsOnceKept DEF OnceInv, clientVars
<1>8. QED
  BY <1>2, <1>5, <1>6, <1>7 DEF OnceInv, clientVars

\* What waits for the DB is of a session that has been added.
LEMMA DbOnce ==
  ASSUME LoginInv, OnceInv, NEW o \in Owners, DbStep(o)
  PROVE  OnceInv'
<1> USE Ranges
<1>1. dbLane[o] # <<>> /\ UNCHANGED <<clientVars, confirming, table, twice>>
  BY DEF DbStep, CommandFails, OnAccountSelected, OnAccountCreated, OnPlayerLoaded, Write, Command,
         worldVars, historyVars
<1>2. \A w \in Owners : w # o => dbLane'[w] = dbLane[w]
  BY Lanes DEF DbStep, CommandFails, OnAccountSelected, OnAccountCreated, OnPlayerLoaded, Write, Done
<1>3. PICK m : m.type # "connected" /\ (lane' = lane \/ lane' = [lane EXCEPT ![o] = Append(@, m)])
  BY DEF DbStep, CommandFails, OnAccountSelected, OnAccountCreated, OnPlayerLoaded, Write,
         PostFailure, Push, worldVars
<1>4. lane[o] \in Seq(Messages(sent, accounts, held)[o]) /\ DOMAIN lane = Owners
  BY Lanes
<1>5. /\ Plain(lane[o]) => Plain(lane'[o])
      /\ \A w \in Owners : w # o => lane'[w] = lane[w]
  <2>1. Plain(lane[o]) => Plain(Append(lane[o], m))
    BY <1>3, LaneAppend
  <2>2. QED
    BY <1>3, <1>4, <2>1
<1>6. IndexOK'
  BY <1>1, TableKept
<1>7. ASSUME NEW s \in Sessions PROVE ConnectsOnce(s)'
  <2>1. CASE s = o
    <3>1. Added(s)
      BY <1>1, <2>1 DEF OnceInv, ConnectsOnce, Before, OnItsWay, ToBeAdded, Unknown
    <3>2. QED
      BY <1>1, <1>5, <2>1, <3>1 DEF ConnectsOnce, Added, clientVars
  <2>2. CASE s # o
    <3>1. Unknown(s) => Unknown(s)'
      BY <1>1, <1>2, <2>2 DEF Unknown
    <3>2. QED
      BY <1>1, <1>5, <2>2, <3>1, ConnectsOnceKept DEF OnceInv, clientVars
  <2>3. QED
    BY <2>1, <2>2
<1>8. QED
  BY <1>1, <1>5, <1>6, <1>7 DEF OnceInv, clientVars

LEMMA InitOnce == Init => OnceInv
<1> SUFFICES ASSUME Init PROVE OnceInv
  OBVIOUS
<1> USE Ranges
<1>1. table.players = <<>> /\ table.sessionByPlayerId = <<>>
  BY DEF Init, PM!EmptyTable
<1>2. IndexOK
  BY <1>1 DEF IndexOK, IndexNamesItsSession
<1>3. \A s \in Sessions : Before(s)
  BY <1>1 DEF Init, Before, Unknown
<1>4. \A p \in Ids : Plain(lane[p])
  BY DEF Init, Plain
<1>5. QED
  BY <1>2, <1>3, <1>4 DEF Init, OnceInv, ConnectsOnce

LEMMA NextOnce == LoginInv /\ OnceInv /\ [Next]_vars => OnceInv'
<1> SUFFICES ASSUME LoginInv, OnceInv, [Next]_vars PROVE OnceInv'
  OBVIOUS
<1>1. ASSUME NEW s \in Sessions, ClientStep(s) \/ OnRecvStream(s) PROVE OnceInv'
  BY <1>1, ClientOnce, RoutedOnce
<1>2. ASSUME NEW o \in Owners, BasicStep(o) PROVE OnceInv'
  BY <1>2, ConnectedOnce, LanesOnce, ForgetOnce, ConfirmedOnce, ReportOnce DEF BasicStep
<1>3. ASSUME NEW o \in Owners, DbStep(o) PROVE OnceInv'
  BY <1>3, DbOnce
<1>4. ASSUME UNCHANGED <<clientVars, lane, confirming, table, dbLane, twice>> PROVE OnceInv'
  BY <1>4, TableKept, OtherSteps DEF Unknown
<1>5. ASSUME NEW p \in Ids, ZoneStep(p) PROVE OnceInv'
  BY <1>4, <1>5, SpendOnce DEF ZoneStep, HandleEnterZone, HandleLeaveZone, worldVars, dbVars, historyVars
<1>6. CASE LinkChanges \/ UNCHANGED vars
  BY <1>4, <1>6 DEF LinkChanges, vars, worldVars, dbVars, historyVars
<1>7. QED
  BY <1>1, <1>2, <1>3, <1>5, <1>6 DEF Next

\* The index of players names, for each player in it, a session that is
\* connected and plays as that player, unless the session was confirmed for two
\* accounts (PlayerManager::SetAuthenticated, Remove).
THEOREM TheIndexIsRight == Spec => []IndexNamesItsSession
<1>1. OnceInv => IndexNamesItsSession
  BY DEF OnceInv, IndexOK
<1>2. QED
  BY <1>1, InitOnce, NextOnce, LoginInvariant, PTL DEF Spec
=============================================================================
