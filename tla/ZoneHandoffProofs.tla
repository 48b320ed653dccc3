--------------------------- MODULE ZoneHandoffProofs ---------------------------
(***************************************************************************)
(* Proofs about ZoneHandoff, for every set of sessions, accounts and zones *)
(* and any number of moves and purchases.  They are about sessions that    *)
(* log in once, as ClientLogin has it: of a session whose logins overlap   *)
(* nothing is said here, but in LoginProofs.                               *)
(*                                                                         *)
(* SessionInv holds whatever the accounts are: a session connects once and *)
(* its one login is confirmed at most once, before which nothing of it is  *)
(* anywhere.  It is what the rest needs of that bound.                     *)
(*                                                                         *)
(* HandoffInv is about one session per account, and counts what is on its  *)
(* way: once every message that waits for a zone has been handled, the     *)
(* player will be in the zone it is routed to, or a leave is about to be   *)
(* sent there.  Between a transfer and its answer a zone is locked, so     *)
(* there is one transfer at a time and no second entry behind an entry.    *)
(*                                                                         *)
(* ContentInv follows the gold with it: what has been bought comes off     *)
(* what the zone of the row has, and the reports on their way account for  *)
(* what the cache, and behind it the DB, do not know yet.                  *)
(***************************************************************************)
EXTENDS ZoneHandoff, SequenceTheorems, TLAPS

(***************************************************************************)
(* What each variable may hold.                                            *)
(***************************************************************************)

SessionsOf(p) == {s \in Sessions : AccountOf[s] = p}
Somewhere == Positions \cup {NoZone}

FromClient == {"connected", "login", "move", "buy", "disconnected"}
OnGateway(s) == [type : FromClient, session : {s}, to : Somewhere, gold : Nat]
OnLane(o) == [type : FromClient \cup {"loginSuccess"},
              session : IF o \in Sessions THEN {o} ELSE SessionsOf(o), to : Somewhere, gold : Nat]
ToPlayer(p) == [type : {"enter", "leave", "move", "buy"}, session : SessionsOf(p),
                to : Somewhere, gold : Nat]
FromPlayer(p) ==
    [type : {"transfer"}, session : SessionsOf(p), to : Positions, gold : {0}] \cup
    [type : {"uow"}, session : {NoSession}, to : {NoZone}, gold : Nat]
JobOf(o) == {NoJob} \cup
    IF o \in Sessions
    THEN [do : {"enter"}, zone : {EntryZone}, session : {o}, player : {AccountOf[o]}, gold : Nat] \cup
         [do : {"leave", "forget"}, zone : Zones, session : {o}, player : {AccountOf[o]}, gold : {0}] \cup
         [do : {"forget"}, zone : {NoZone}, session : {o}, player : {NoPlayer}, gold : {0}]
    ELSE [do : {"enterFromCache", "leave", "forget"}, zone : Zones, session : SessionsOf(o),
          player : {o}, gold : {0}] \cup
         [do : {"forget"}, zone : {NoZone}, session : SessionsOf(o), player : {NoPlayer}, gold : {0}]
UnitOf(p) == [session : SessionsOf(p), gold : Nat, crossing : BOOLEAN, request : Somewhere]

Gateways == [s \in Sessions |-> Seq(OnGateway(s))]
Lanes == [o \in Owners |-> Seq(OnLane(o))]
Jobs == [o \in Owners |-> JobOf(o)]
Amounts == [p \in Players |-> Seq(Nat)]
Downs == [p \in Players |-> Seq(ToPlayer(p))]
Ups == [p \in Players |-> Seq(FromPlayer(p))]
Units == [p \in Players |-> {NoUnit} \cup UnitOf(p)]
Flags == [p \in Players |-> BOOLEAN]
Visitors == [p \in Players |-> [to : Somewhere, removed : BOOLEAN]]
Targets == [p \in Players |-> Somewhere]

\* f maps every i of the domain of S to a member of S[i]; g, every zone to
\* such a function.
Row(f, S) ==
    /\ f = [i \in DOMAIN S |-> f[i]]
    /\ \A i \in DOMAIN S : f[i] \in S[i]
Grid(g, S) ==
    /\ g = [z \in Zones |-> g[z]]
    /\ \A z \in Zones : Row(g[z], S)

Info == [playerId : Players \cup {NoPlayer}, zoneId : Zones \cup {NoZone}, authenticated : BOOLEAN,
         mails : {{}}, gold : Nat]

\* A row names the account of its session and a zone once the login is
\* confirmed, and neither before.
RowOK(s, info) ==
    IF info.authenticated THEN info.playerId = AccountOf[s] /\ info.zoneId \in Zones
    ELSE info.playerId = NoPlayer /\ info.zoneId = NoZone

TableOK(t) ==
    /\ DOMAIN t = {"players", "sessionByPlayerId"}
    /\ DOMAIN t.players \subseteq Sessions
    /\ t.players \in [DOMAIN t.players -> Info]
    /\ \A s \in DOMAIN t.players : RowOK(s, t.players[s])
    /\ DOMAIN t.sessionByPlayerId \subseteq Players
    /\ t.sessionByPlayerId \in [DOMAIN t.sessionByPlayerId -> Sessions]

QueuesOK == Row(gateway, Gateways) /\ Row(lane, Lanes) /\ Row(job, Jobs)
LinksOK == Grid(up, Ups) /\ Grid(down, Downs)
UnitsOK == Grid(unit, Units) /\ Grid(leaving, Flags) /\ Grid(visit, Visitors) /\ Grid(crossings, Targets)

TypeOK ==
    /\ client \in [Sessions -> {"new", "open", "login", "gone"}]
    /\ loading \subseteq Sessions
    /\ db \in [Players -> Nat] /\ Row(dbLane, Amounts)
    /\ QueuesOK /\ TableOK(table) /\ LinksOK /\ UnitsOK

(***************************************************************************)
(* A session connects once and logs in once.                               *)
(***************************************************************************)

Some(q, type) == \E i \in 1 .. Len(q) : q[i].type = type
Once(q, type) == \A i, j \in 1 .. Len(q) : q[i].type = type /\ q[j].type = type => i = j

Coming(s, type) == Some(gateway[s], type) \/ Some(lane[s], type)
ComesOnce(s, type) ==
    /\ Once(gateway[s], type) /\ Once(lane[s], type)
    /\ ~(Some(gateway[s], type) /\ Some(lane[s], type))

\* The login has been asked for and not yet confirmed or refused.
LoggingIn(s) == Coming(s, "login") \/ s \in loading \/ Some(lane[s], "loginSuccess")

ConnectsOnce(s) ==
    /\ ComesOnce(s, "connected")
    /\ client[s] = "new" => ~Coming(s, "connected")
    /\ client[s] = "new" \/ Coming(s, "connected") => ~PM!Has(table, s)

LogsInOnce(s) ==
    /\ ComesOnce(s, "login") /\ Once(lane[s], "loginSuccess")
    /\ client[s] \in {"new", "open"} => ~LoggingIn(s) /\ ~Online(s)
    /\ LoggingIn(s) => ~Online(s)
    /\ ~(Coming(s, "login") /\ s \in loading)
    /\ ~(Coming(s, "login") /\ Some(lane[s], "loginSuccess"))
    /\ ~(s \in loading /\ Some(lane[s], "loginSuccess"))

\* What precedes the login stays on the lane of the session.
OnlyGame(p) == \A type \in {"connected", "login", "loginSuccess"} : ~Some(lane[p], type)

\* The login of s has not been confirmed.
Fresh(s) ==
    \/ client[s] = "new" \/ Coming(s, "connected")
    \/ PM!Has(table, s) /\ ~PM!Find(table, s).authenticated

\* The session a handler has yet to send for.
SendsFor(j) == IF j.do = "forget" /\ j.zone = NoZone THEN NoSession ELSE j.session

\* Until it is, no handler, link or zone has anything of the session.
Of(q) == {q[i].session : i \in 1 .. Len(q)}
SessionsAt(z, p) == {unit[z][p].session} \cup Of(up[z][p]) \cup Of(down[z][p])
Unseen(s) ==
    /\ SendsFor(job[s]) # s /\ SendsFor(job[AccountOf[s]]) # s
    /\ \A z \in Zones : s \notin SessionsAt(z, AccountOf[s])

SessionOK(s) == ConnectsOnce(s) /\ LogsInOnce(s) /\ (Fresh(s) => Unseen(s))

\* Since a session logs in once here, the index names the session of the
\* account; what overlapping logins do to it is in LoginProofs.
IndexNamesItsSession ==
    \A p \in DOMAIN table.sessionByPlayerId :
        LET s == PM!FindSessionByPlayerId(table, p) IN
        PM!Has(table, s) /\ PM!Find(table, s).playerId = p

SessionInv ==
    /\ TypeOK
    /\ \A s \in Sessions : SessionOK(s)
    /\ \A p \in Players : OnlyGame(p)
    /\ IndexNamesItsSession

(***************************************************************************)
(* One session per account: where its player is going to be.               *)
(***************************************************************************)

OneSessionEach == \A s, t \in Sessions : AccountOf[s] = AccountOf[t] => s = t

Here(z, p) == Present(z, p) /\ ~leaving[z][p]

\* Somebody will be in a zone when what waits for it in d has been handled,
\* here saying whether there is somebody now.
WillBe(d, here) ==
    \/ \E i \in 1 .. Len(d) : d[i].type = "enter" /\ \A j \in i + 1 .. Len(d) : d[j].type # "leave"
    \/ here /\ ~Some(d, "leave")

EntryIsLast(d) ==
    \A i \in 1 .. Len(d) : d[i].type = "enter" =>
        \A j \in i + 1 .. Len(d) : d[j].type \notin {"enter", "leave"}

\* A handler is about to send an entry to zone z, or a leave.
EnterTo(js, jp, z) == (js.do = "enter" /\ js.zone = z) \/ (jp.do = "enterFromCache" /\ jp.zone = z)
LeaveTo(js, jp, z) == (js.do = "leave" /\ js.zone = z) \/ (jp.do = "leave" /\ jp.zone = z)

\* A transfer or an answer to one is on its way, e saying that a handler is
\* about to send an entry.
Busy(d, x, e) == e \/ Some(x, "transfer") \/ Some(d, "enter") \/ Some(d, "leave")

\* A zone asks for one transfer and is locked until the answer.
OneAnswer(d, here, crossing, c, x, e) ==
    /\ here /\ Busy(d, x, e) => crossing /\ c = NoZone
    /\ Some(x, "transfer") => here /\ ~Some(d, "enter") /\ ~Some(d, "leave") /\ ~e
    /\ Once(x, "transfer")
    /\ Some(d, "enter") => ~e
    /\ EntryIsLast(d)

\* A tick reports for a unit that is there, or was removed under it.
VisitOK(v, u) ==
    /\ v # NoVisit => v.to # NoZone
    /\ v # NoVisit /\ ~v.removed => u # NoUnit
    /\ v.removed => ~u.crossing

Visits == \A z \in Zones, p \in Players :
    VisitOK(visit[z][p], unit[z][p]) /\ (leaving[z][p] => Present(z, p))

WillBeIn(z, p) == WillBe(down[z][p], Here(z, p))
Entering(s, z) == EnterTo(job[s], job[AccountOf[s]], z)
Leaving(s, z) == LeaveTo(job[s], job[AccountOf[s]], z)
Answer(z, p, e) ==
    OneAnswer(down[z][p], Here(z, p), unit[z][p].crossing, crossings[z][p], up[z][p], e)

ZoneOf(s) == PM!Find(table, s).zoneId

\* The player of an online session will be in the zone of its row and, unless
\* a stray transfer was sent, in no other.
IsIn(s) == LET p == AccountOf[s] IN
    /\ PM!HasPlayer(table, p)
    /\ WillBeIn(ZoneOf(s), p) \/ Entering(s, ZoneOf(s))
    /\ job[s].do # "leave" /\ job[p].do # "leave"
    /\ p \notin stray =>
        /\ ~(job[s].do = "enter" /\ job[p].do = "enterFromCache")
        /\ \A z \in Zones : WillBeIn(z, p) \/ Entering(s, z) => z = ZoneOf(s)
        /\ \A z \in Zones : Answer(z, p, Entering(s, z))

\* Every zone the player of another session will be in is about to be told.
IsGone(s) == LET p == AccountOf[s] IN
    p \notin stray \cup orphaned \cup overtaken \cup misled =>
        \A z \in Zones :
            WillBeIn(z, p) \/ (job[s].do = "enter" /\ job[s].zone = z) => Leaving(s, z)

Where(s) == IF Online(s) THEN IsIn(s) ELSE IsGone(s)

HandoffInv ==
    /\ OneSessionEach
    /\ SessionInv /\ Visits
    /\ \A s \in Sessions : Where(s)

(***************************************************************************)
(* Queues and tables.                                                      *)
(***************************************************************************)

LEMMA RowSet ==
  ASSUME NEW S, NEW f, Row(f, S), NEW i \in DOMAIN S, NEW v \in S[i]
  PROVE  Row([f EXCEPT ![i] = v], S)
BY DEF Row

LEMMA GridSet ==
  ASSUME NEW S, DOMAIN S = Players, NEW g, Grid(g, S), NEW z \in Zones, NEW p \in Players, NEW v \in S[p]
  PROVE  Grid([g EXCEPT ![z][p] = v], S)
<1>1. Row(g[z], S) /\ p \in DOMAIN S
  BY DEF Grid
<1> DEFINE r == [g[z] EXCEPT ![p] = v]
<1>2. Row(r, S)
  BY <1>1, RowSet
<1>3. [g EXCEPT ![z][p] = v] = [g EXCEPT ![z] = r]
  OBVIOUS
<1> HIDE DEF r
<1>4. Grid([g EXCEPT ![z] = r], S)
  BY <1>2 DEF Grid
<1>5. QED
  BY <1>3, <1>4

\* h is g but for the entry of z and p, which is v.
Puts(g, h, z, p, v) ==
    /\ h[z][p] = v
    /\ \A y \in Zones, q \in Players : y # z \/ q # p => h[y][q] = g[y][q]

LEMMA GridPut ==
  ASSUME NEW S, DOMAIN S = Players, NEW g, Grid(g, S), NEW z \in Zones, NEW p \in Players, NEW v \in S[p]
  PROVE  Grid([g EXCEPT ![z][p] = v], S) /\ Puts(g, [g EXCEPT ![z][p] = v], z, p, v)
<1>1. Grid([g EXCEPT ![z][p] = v], S)
  BY GridSet
<1>2. Puts(g, [g EXCEPT ![z][p] = v], z, p, v)
  BY DEF Puts, Grid, Row
<1>3. QED
  BY <1>1, <1>2

LEMMA GridAt ==
  ASSUME NEW S, DOMAIN S = Players, NEW g, Grid(g, S), NEW z \in Zones, NEW p \in Players
  PROVE  g[z][p] \in S[p]
BY DEF Grid, Row

LEMMA SomeAppend ==
  ASSUME NEW S, NEW q \in Seq(S), NEW m \in S
  PROVE  \A t : /\ Some(Append(q, m), t) <=> Some(q, t) \/ m.type = t
                /\ Once(q, t) /\ (m.type = t => ~Some(q, t)) => Once(Append(q, m), t)
<1>1. /\ Len(q) \in Nat /\ Len(Append(q, m)) = Len(q) + 1 /\ Append(q, m)[Len(q) + 1] = m
      /\ \A i \in 1 .. Len(q) : Append(q, m)[i] = q[i]
  BY AppendProperties, LenProperties
<1>2. TAKE t
<1>3. Some(Append(q, m), t) <=> Some(q, t) \/ m.type = t
  <2>1. ASSUME Some(Append(q, m), t) PROVE Some(q, t) \/ m.type = t
    <3>1. PICK i \in 1 .. Len(q) + 1 : Append(q, m)[i].type = t
      BY <1>1, <2>1 DEF Some
    <3>2. i = Len(q) + 1 \/ i \in 1 .. Len(q)
      BY <1>1
    <3>3. QED
      BY <1>1, <3>1, <3>2 DEF Some
  <2>2. ASSUME Some(q, t) PROVE Some(Append(q, m), t)
    BY <1>1, <2>2 DEF Some
  <2>3. ASSUME m.type = t PROVE Some(Append(q, m), t)
    <3>1. Len(q) + 1 \in 1 .. Len(Append(q, m))
      BY <1>1
    <3>2. QED
      BY <1>1, <2>3, <3>1 DEF Some
  <2>4. QED
    BY <2>1, <2>2, <2>3
<1>4. ASSUME Once(q, t), m.type = t => ~Some(q, t) PROVE Once(Append(q, m), t)
  BY <1>1, <1>4 DEF Once, Some
<1>5. QED
  BY <1>3, <1>4

LEMMA SomeTail ==
  ASSUME NEW S, NEW q \in Seq(S), q # <<>>
  PROVE  \A t : /\ Some(q, t) <=> Head(q).type = t \/ Some(Tail(q), t)
                /\ Once(q, t) => Once(Tail(q), t) /\ (Head(q).type = t => ~Some(Tail(q), t))
<1>1. /\ Len(q) \in Nat /\ Len(q) > 0 /\ Len(Tail(q)) = Len(q) - 1 /\ Head(q) = q[1]
      /\ \A i \in 1 .. Len(q) - 1 : Tail(q)[i] = q[i + 1]
  BY HeadTailProperties, EmptySeq, LenProperties
<1>2. TAKE t
<1>3. Some(q, t) <=> Head(q).type = t \/ Some(Tail(q), t)
  <2>1. ASSUME Some(q, t) PROVE Head(q).type = t \/ Some(Tail(q), t)
    <3>1. PICK i \in 1 .. Len(q) : q[i].type = t
      BY <2>1 DEF Some
    <3>2. CASE i = 1
      BY <1>1, <3>1, <3>2
    <3>3. CASE i # 1
      <4>1. i - 1 \in 1 .. Len(q) - 1 /\ (i - 1) + 1 = i
        BY <1>1, <3>3
      <4>2. QED
        BY <1>1, <3>1, <4>1 DEF Some
    <3>4. QED
      BY <3>2, <3>3
  <2>2. ASSUME Head(q).type = t PROVE Some(q, t)
    BY <1>1, <2>2 DEF Some
  <2>3. ASSUME Some(Tail(q), t) PROVE Some(q, t)
    BY <1>1, <2>3 DEF Some
  <2>4. QED
    BY <2>1, <2>2, <2>3
<1>4. ASSUME Once(q, t) PROVE Once(Tail(q), t) /\ (Head(q).type = t => ~Some(Tail(q), t))
  <2>1. \A i \in 1 .. Len(q) - 1 : i + 1 \in 1 .. Len(q) /\ i + 1 # 1
    BY <1>1
  <2>2. Once(Tail(q), t)
    <3> SUFFICES ASSUME NEW i \in 1 .. Len(q) - 1, NEW j \in 1 .. Len(q) - 1,
                        q[i + 1].type = t, q[j + 1].type = t
                 PROVE  i = j
      BY <1>1 DEF Once
    <3>1. i + 1 = j + 1
      BY <1>4, <2>1 DEF Once
    <3>2. QED
      BY <3>1
  <2>3. ASSUME Head(q).type = t, Some(Tail(q), t) PROVE FALSE
    <3>1. PICK i \in 1 .. Len(q) - 1 : q[i + 1].type = t
      BY <1>1, <2>3 DEF Some
    <3>2. 1 \in 1 .. Len(q) /\ q[1].type = t
      BY <1>1, <2>3
    <3>3. QED
      BY <1>4, <2>1, <3>1, <3>2 DEF Once
  <2>4. QED
    BY <2>2, <2>3
<1>5. QED
  BY <1>3, <1>4

LEMMA SomeEmpty == \A t : ~Some(<<>>, t) /\ Once(<<>>, t)
BY DEF Some, Once

\* What waits for a zone decides who will be there, its last entry or leave
\* before all else.
LEMMA WillBeAppend ==
  ASSUME NEW S, NEW d \in Seq(S), NEW m \in S, NEW here \in BOOLEAN
  PROVE  /\ m.type = "enter" => WillBe(Append(d, m), here)
         /\ m.type = "leave" => ~WillBe(Append(d, m), here)
         /\ m.type \notin {"enter", "leave"} => (WillBe(Append(d, m), here) <=> WillBe(d, here))
<1>1. /\ Len(d) \in Nat /\ Len(Append(d, m)) = Len(d) + 1 /\ Append(d, m)[Len(d) + 1] = m
      /\ \A i \in 1 .. Len(d) : Append(d, m)[i] = d[i]
  BY AppendProperties, LenProperties
<1>2. Some(Append(d, m), "leave") <=> Some(d, "leave") \/ m.type = "leave"
  BY SomeAppend
<1>3. ASSUME m.type = "enter" PROVE WillBe(Append(d, m), here)
  <2>1. /\ Len(d) + 1 \in 1 .. Len(Append(d, m))
        /\ \A j \in (Len(d) + 1) + 1 .. Len(Append(d, m)) : FALSE
    BY <1>1
  <2>2. QED
    BY <1>1, <1>3, <2>1 DEF WillBe
<1>4. ASSUME m.type = "leave" PROVE ~WillBe(Append(d, m), here)
  <2> SUFFICES ASSUME NEW i \in 1 .. Len(d) + 1, Append(d, m)[i].type = "enter",
                      \A j \in i + 1 .. Len(d) + 1 : Append(d, m)[j].type # "leave"
               PROVE  FALSE
    BY <1>1, <1>2, <1>4 DEF WillBe
  <2>1. i # Len(d) + 1
    BY <1>1, <1>4
  <2>2. Len(d) + 1 \in i + 1 .. Len(d) + 1
    BY <1>1, <2>1
  <2>3. QED
    BY <1>1, <1>4, <2>2
<1>5. ASSUME m.type \notin {"enter", "leave"} PROVE WillBe(Append(d, m), here) <=> WillBe(d, here)
  <2>1. ASSUME NEW i \in 1 .. Len(d), d[i].type = "enter", \A j \in i + 1 .. Len(d) : d[j].type # "leave"
        PROVE  /\ i \in 1 .. Len(Append(d, m)) /\ Append(d, m)[i].type = "enter"
               /\ \A j \in i + 1 .. Len(Append(d, m)) : Append(d, m)[j].type # "leave"
    <3>1. \A j \in i + 1 .. Len(d) + 1 : j \in i + 1 .. Len(d) \/ j = Len(d) + 1
      BY <1>1
    <3>2. \A j \in i + 1 .. Len(d) : j \in 1 .. Len(d)
      BY <1>1
    <3>3. QED
      BY <1>1, <1>5, <2>1, <3>1, <3>2
  <2>2. ASSUME NEW i \in 1 .. Len(d) + 1, Append(d, m)[i].type = "enter",
               \A j \in i + 1 .. Len(d) + 1 : Append(d, m)[j].type # "leave"
        PROVE  i \in 1 .. Len(d) /\ d[i].type = "enter" /\ \A j \in i + 1 .. Len(d) : d[j].type # "leave"
    <3>1. i \in 1 .. Len(d)
      BY <1>1, <1>5, <2>2
    <3>2. \A j \in i + 1 .. Len(d) : j \in 1 .. Len(d) /\ j \in i + 1 .. Len(d) + 1
      BY <1>1
    <3>3. QED
      BY <1>1, <2>2, <3>1, <3>2
  <2>3. QED
    BY <1>1, <1>2, <1>5, <2>1, <2>2 DEF WillBe
<1>6. QED
  BY <1>3, <1>4, <1>5

LEMMA WillBeTail ==
  ASSUME NEW S, NEW d \in Seq(S), d # <<>>, NEW here \in BOOLEAN
  PROVE  /\ Head(d).type = "enter" => (WillBe(Tail(d), TRUE) <=> WillBe(d, here))
         /\ Head(d).type = "leave" => (WillBe(Tail(d), FALSE) <=> WillBe(d, here))
         /\ Head(d).type \notin {"enter", "leave"} => (WillBe(Tail(d), here) <=> WillBe(d, here))
<1>1. /\ Len(d) \in Nat /\ Len(d) > 0 /\ Len(Tail(d)) = Len(d) - 1 /\ Head(d) = d[1]
      /\ \A i \in 1 .. Len(d) - 1 : Tail(d)[i] = d[i + 1]
  BY HeadTailProperties, EmptySeq, LenProperties
<1>2. Some(d, "leave") <=> Head(d).type = "leave" \/ Some(Tail(d), "leave")
  BY SomeTail
<1> DEFINE Last(q) == \E i \in 1 .. Len(q) : q[i].type = "enter" /\ \A j \in i + 1 .. Len(q) : q[j].type # "leave"
<1>3. ASSUME Last(Tail(d)) PROVE Last(d)
  <2>1. PICK i \in 1 .. Len(d) - 1 : /\ Tail(d)[i].type = "enter"
                                     /\ \A j \in i + 1 .. Len(d) - 1 : Tail(d)[j].type # "leave"
    BY <1>1, <1>3
  <2>2. i + 1 \in 1 .. Len(d) /\ d[i + 1].type = "enter"
    BY <1>1, <2>1
  <2>3. ASSUME NEW j \in (i + 1) + 1 .. Len(d) PROVE d[j].type # "leave"
    <3>1. j - 1 \in i + 1 .. Len(d) - 1 /\ j - 1 \in 1 .. Len(d) - 1 /\ (j - 1) + 1 = j
      BY <1>1
    <3>2. Tail(d)[j - 1] = d[j] /\ Tail(d)[j - 1].type # "leave"
      BY <1>1, <2>1, <3>1
    <3>3. QED
      BY <3>2
  <2>4. QED
    BY <2>2, <2>3
<1>4. ASSUME Last(d), ~Last(Tail(d)) PROVE Head(d).type = "enter" /\ ~Some(Tail(d), "leave")
  <2>1. PICK i \in 1 .. Len(d) : d[i].type = "enter" /\ \A j \in i + 1 .. Len(d) : d[j].type # "leave"
    BY <1>4
  <2>2. ASSUME i # 1 PROVE Last(Tail(d))
    <3>1. i - 1 \in 1 .. Len(Tail(d)) /\ Tail(d)[i - 1].type = "enter"
      <4>1. i - 1 \in 1 .. Len(d) - 1 /\ (i - 1) + 1 = i
        BY <1>1, <2>2
      <4>2. QED
        BY <1>1, <2>1, <4>1
    <3>2. \A j \in (i - 1) + 1 .. Len(Tail(d)) : Tail(d)[j].type # "leave"
      <4>1. \A j \in (i - 1) + 1 .. Len(d) - 1 : j \in 1 .. Len(d) - 1 /\ j + 1 \in i + 1 .. Len(d)
        BY <1>1
      <4>2. QED
        BY <1>1, <2>1, <4>1
    <3>3. QED
      BY <3>1, <3>2
  <2>3. i = 1
    BY <1>4, <2>2
  <2>4. ASSUME NEW j \in 1 .. Len(d) - 1 PROVE Tail(d)[j].type # "leave"
    <3>1. j + 1 \in i + 1 .. Len(d)
      BY <1>1, <2>3
    <3>2. QED
      BY <1>1, <2>1, <3>1
  <2>5. QED
    BY <1>1, <2>1, <2>3, <2>4 DEF Some
<1>5. ASSUME Head(d).type = "enter", ~Some(Tail(d), "leave") PROVE Last(d)
  <2>1. 1 \in 1 .. Len(d) /\ d[1].type = "enter"
    BY <1>1, <1>5
  <2>2. ASSUME NEW j \in 1 + 1 .. Len(d) PROVE d[j].type # "leave"
    <3>1. j - 1 \in 1 .. Len(d) - 1 /\ (j - 1) + 1 = j
      BY <1>1
    <3>2. QED
      BY <1>1, <1>5, <3>1 DEF Some
  <2>3. QED
    BY <2>1, <2>2
<1>6. \A h : /\ WillBe(d, h) <=> Last(d) \/ (h /\ ~Some(d, "leave"))
             /\ WillBe(Tail(d), h) <=> Last(Tail(d)) \/ (h /\ ~Some(Tail(d), "leave"))
  BY DEF WillBe
<1> HIDE DEF Last
<1>7. QED
  BY <1>2, <1>3, <1>4, <1>5, <1>6

LEMMA WillBeEmpty == \A here \in BOOLEAN : WillBe(<<>>, here) <=> here
BY DEF WillBe, Some

LEMMA EntryIsLastAppend ==
  ASSUME NEW S, NEW d \in Seq(S), NEW m \in S, EntryIsLast(d),
         m.type \in {"enter", "leave"} => ~Some(d, "enter")
  PROVE  EntryIsLast(Append(d, m))
<1>1. /\ Len(d) \in Nat /\ Len(Append(d, m)) = Len(d) + 1 /\ Append(d, m)[Len(d) + 1] = m
      /\ \A i \in 1 .. Len(d) : Append(d, m)[i] = d[i]
  BY AppendProperties, LenProperties
<1> SUFFICES ASSUME NEW i \in 1 .. Len(d) + 1, Append(d, m)[i].type = "enter", NEW j \in i + 1 .. Len(d) + 1
             PROVE  Append(d, m)[j].type \notin {"enter", "leave"}
  BY <1>1 DEF EntryIsLast
<1>2. i \in 1 .. Len(d) /\ d[i].type = "enter"
  BY <1>1
<1>3. CASE j = Len(d) + 1
  BY <1>1, <1>2, <1>3 DEF Some
<1>4. CASE j # Len(d) + 1
  <2>1. j \in i + 1 .. Len(d) /\ j \in 1 .. Len(d)
    BY <1>1, <1>2, <1>4
  <2>2. QED
    BY <1>1, <1>2, <2>1 DEF EntryIsLast
<1>5. QED
  BY <1>3, <1>4

LEMMA EntryIsLastTail ==
  ASSUME NEW S, NEW d \in Seq(S), d # <<>>, EntryIsLast(d)
  PROVE  /\ EntryIsLast(Tail(d))
         /\ Head(d).type = "enter" => ~Some(Tail(d), "enter") /\ ~Some(Tail(d), "leave")
<1>1. /\ Len(d) \in Nat /\ Len(d) > 0 /\ Len(Tail(d)) = Len(d) - 1 /\ Head(d) = d[1]
      /\ \A i \in 1 .. Len(d) - 1 : Tail(d)[i] = d[i + 1]
  BY HeadTailProperties, EmptySeq, LenProperties
<1>2. EntryIsLast(Tail(d))
  <2> SUFFICES ASSUME NEW i \in 1 .. Len(d) - 1, Tail(d)[i].type = "enter", NEW j \in i + 1 .. Len(d) - 1
               PROVE  Tail(d)[j].type \notin {"enter", "leave"}
    BY <1>1 DEF EntryIsLast
  <2>1. i + 1 \in 1 .. Len(d) /\ j + 1 \in (i + 1) + 1 .. Len(d) /\ j \in 1 .. Len(d) - 1
    BY <1>1
  <2>2. QED
    BY <1>1, <2>1 DEF EntryIsLast
<1>3. ASSUME Head(d).type = "enter", NEW i \in 1 .. Len(d) - 1 PROVE Tail(d)[i].type \notin {"enter", "leave"}
  <2>1. 1 \in 1 .. Len(d) /\ i + 1 \in 1 + 1 .. Len(d)
    BY <1>1
  <2>2. QED
    BY <1>1, <1>3, <2>1 DEF EntryIsLast
<1>4. QED
  BY <1>1, <1>2, <1>3 DEF Some

LEMMA EntryIsLastEmpty == EntryIsLast(<<>>)
BY DEF EntryIsLast

LEMMA EntersIfLast ==
  ASSUME NEW d, EntryIsLast(d), Some(d, "enter"), NEW here \in BOOLEAN
  PROVE  WillBe(d, here)
BY DEF EntryIsLast, Some, WillBe

(***************************************************************************)
(* What the operations of the table change.                                *)
(***************************************************************************)

\* The row of s is i in n, and all other rows are as in t.
OnlyRow(t, n, s, i) ==
    /\ DOMAIN n.players = DOMAIN t.players \cup {s}
    /\ n.players[s] = i
    /\ \A c \in DOMAIN t.players : c # s => n.players[c] = t.players[c]

LEMMA EmptyTableOK == TableOK(PM!EmptyTable) /\ DOMAIN PM!EmptyTable.players = {}
                      /\ DOMAIN PM!EmptyTable.sessionByPlayerId = {}
<1>1. /\ DOMAIN PM!EmptyTable = {"players", "sessionByPlayerId"}
      /\ PM!EmptyTable.players = <<>> /\ PM!EmptyTable.sessionByPlayerId = <<>>
  BY DEF PM!EmptyTable
<1>2. DOMAIN <<>> = {}
  OBVIOUS
<1>3. \A T : <<>> \in [{} -> T]
  OBVIOUS
<1>4. QED
  BY <1>1, <1>2, <1>3 DEF TableOK

LEMMA AddTable ==
  ASSUME NEW t, TableOK(t), NEW s \in Sessions, NEW n, n = PM!Add(t, s)
  PROVE  /\ TableOK(n) /\ OnlyRow(t, n, s, PM!FreshInfo)
         /\ n.sessionByPlayerId = t.sessionByPlayerId
<1>1. /\ DOMAIN t = {"players", "sessionByPlayerId"} /\ DOMAIN t.players \subseteq Sessions
      /\ t.players \in [DOMAIN t.players -> Info]
  BY DEF TableOK
<1>2. /\ DOMAIN n = DOMAIN t /\ n.sessionByPlayerId = t.sessionByPlayerId
      /\ n.players = PM!With(t.players, s, PM!FreshInfo)
  BY <1>1 DEF PM!Add
<1>3. OnlyRow(t, n, s, PM!FreshInfo)
  BY <1>2 DEF OnlyRow, PM!With
<1>4. PM!FreshInfo \in Info /\ RowOK(s, PM!FreshInfo)
  BY DEF PM!FreshInfo, Info, RowOK
<1>5. n.players \in [DOMAIN n.players -> Info]
  <2>1. n.players = [c \in DOMAIN n.players |-> n.players[c]]
    BY <1>2 DEF PM!With
  <2>2. \A c \in DOMAIN n.players : n.players[c] \in Info
    BY <1>1, <1>3, <1>4 DEF OnlyRow
  <2>3. QED
    BY <2>1, <2>2
<1>6. QED
  BY <1>1, <1>2, <1>3, <1>4, <1>5 DEF TableOK, OnlyRow

LEMMA RemoveTable ==
  ASSUME NEW t, TableOK(t), NEW s \in DOMAIN t.players, NEW n, n = PM!Remove(t, s)
  PROVE  /\ TableOK(n)
         /\ DOMAIN n.players = DOMAIN t.players \ {s}
         /\ \A c \in DOMAIN n.players : n.players[c] = t.players[c]
         /\ DOMAIN n.sessionByPlayerId = DOMAIN t.sessionByPlayerId \ {PM!FindPlayerId(t, s)}
         /\ \A p \in DOMAIN n.sessionByPlayerId : n.sessionByPlayerId[p] = t.sessionByPlayerId[p]
<1> DEFINE p == PM!FindPlayerId(t, s)
<1>1. /\ DOMAIN t = {"players", "sessionByPlayerId"} /\ DOMAIN t.players \subseteq Sessions
      /\ t.players \in [DOMAIN t.players -> Info]
      /\ DOMAIN t.sessionByPlayerId \subseteq Players
      /\ t.sessionByPlayerId \in [DOMAIN t.sessionByPlayerId -> Sessions]
  BY DEF TableOK
<1>2. NoPlayer \notin Players
  BY ZoneHandoffAssumption
<1> HIDE DEF p
<1>3. /\ DOMAIN n = {"players", "sessionByPlayerId"} /\ n.players = PM!Without(t.players, s)
      /\ n.sessionByPlayerId = IF p # NoPlayer THEN PM!Without(t.sessionByPlayerId, p)
                               ELSE t.sessionByPlayerId
  BY DEF PM!Remove, p
<1>4. /\ DOMAIN n.players = DOMAIN t.players \ {s}
      /\ n.players \in [DOMAIN n.players -> Info]
      /\ \A c \in DOMAIN n.players : n.players[c] = t.players[c]
  BY <1>1, <1>3 DEF PM!Without
<1>5. CASE p # NoPlayer
  <2>1. /\ DOMAIN n.sessionByPlayerId = DOMAIN t.sessionByPlayerId \ {p}
        /\ n.sessionByPlayerId \in [DOMAIN n.sessionByPlayerId -> Sessions]
        /\ \A q \in DOMAIN n.sessionByPlayerId : n.sessionByPlayerId[q] = t.sessionByPlayerId[q]
    BY <1>1, <1>3, <1>5 DEF PM!Without
  <2>2. QED
    BY <1>1, <1>3, <1>4, <2>1 DEF TableOK, p
<1>6. CASE p = NoPlayer
  <2>1. n.sessionByPlayerId = t.sessionByPlayerId /\ p \notin DOMAIN t.sessionByPlayerId
    BY <1>1, <1>2, <1>3, <1>6
  <2>2. QED
    BY <1>1, <1>3, <1>4, <2>1 DEF TableOK, p
<1>7. QED
  BY <1>5, <1>6

LEMMA ConfirmTable ==
  ASSUME NEW t, TableOK(t), NEW s \in DOMAIN t.players, NEW gold \in Nat,
         NEW n, n = PM!SetZoneId(PM!SetAuthenticated(t, s, AccountOf[s], {}, gold), s, EntryZone)
  PROVE  \E i : /\ TableOK(n) /\ OnlyRow(t, n, s, i)
                /\ i.authenticated /\ i.zoneId = EntryZone /\ i.playerId = AccountOf[s] /\ i.gold = gold
                /\ n.sessionByPlayerId = PM!With(t.sessionByPlayerId, AccountOf[s], s)
<1> DEFINE a == PM!SetAuthenticated(t, s, AccountOf[s], {}, gold)
           i == [playerId |-> AccountOf[s], zoneId |-> t.players[s].zoneId, authenticated |-> TRUE,
                 mails |-> {}, gold |-> gold]
           j == [i EXCEPT !.zoneId = EntryZone]
<1>1. /\ DOMAIN t = {"players", "sessionByPlayerId"} /\ DOMAIN t.players \subseteq Sessions
      /\ t.players \in [DOMAIN t.players -> Info]
      /\ DOMAIN t.sessionByPlayerId \subseteq Players
      /\ t.sessionByPlayerId \in [DOMAIN t.sessionByPlayerId -> Sessions]
  BY DEF TableOK
<1>2. AccountOf[s] \in Players /\ EntryZone \in Zones
  BY <1>1, ZoneHandoffAssumption
<1>3. /\ a.players = [t.players EXCEPT ![s] = i] /\ DOMAIN a = {"players", "sessionByPlayerId"}
      /\ a.sessionByPlayerId = PM!With(t.sessionByPlayerId, AccountOf[s], s)
  BY <1>1 DEF PM!SetAuthenticated, PM!Has
<1>4. n = PM!SetZoneId(a, s, EntryZone)
  OBVIOUS
<1> HIDE DEF a
<1>5. s \in DOMAIN a.players /\ a.players[s] = i
  BY <1>1, <1>3
<1>6. n = [a EXCEPT !.players[s] = j]
  BY <1>4, <1>5 DEF PM!SetZoneId, PM!Update, PM!Has, PM!Find
<1>7. /\ j \in Info /\ j.authenticated /\ j.playerId = AccountOf[s] /\ j.zoneId = EntryZone
      /\ j.gold = gold /\ RowOK(s, j)
  BY <1>2 DEF Info, RowOK
<1> HIDE DEF i, j
<1>8. /\ DOMAIN n = {"players", "sessionByPlayerId"}
      /\ n.players = [[t.players EXCEPT ![s] = i] EXCEPT ![s] = j]
      /\ n.sessionByPlayerId = PM!With(t.sessionByPlayerId, AccountOf[s], s)
  BY <1>3, <1>6
<1>9. /\ DOMAIN n.players = DOMAIN t.players
      /\ n.players \in [DOMAIN n.players -> Info]
      /\ n.players[s] = j
      /\ \A c \in DOMAIN t.players : c # s => n.players[c] = t.players[c]
  BY <1>1, <1>7, <1>8
<1>10. /\ DOMAIN n.sessionByPlayerId \subseteq Players
       /\ n.sessionByPlayerId \in [DOMAIN n.sessionByPlayerId -> Sessions]
  BY <1>1, <1>2, <1>8 DEF PM!With
<1>11. \A c \in DOMAIN n.players : RowOK(c, n.players[c])
  BY <1>7, <1>9 DEF TableOK
<1>12. TableOK(n)
  BY <1>1, <1>8, <1>9, <1>10, <1>11 DEF TableOK
<1>13. OnlyRow(t, n, s, j)
  BY <1>9 DEF OnlyRow
<1>14. QED
  BY <1>7, <1>8, <1>12, <1>13

\* The setters of a confirmed session.
LEMMA UpdateTable ==
  ASSUME NEW t, TableOK(t), NEW s \in DOMAIN t.players, NEW i \in Info, RowOK(s, i),
         NEW n, n = PM!Update(t, s, i)
  PROVE  /\ TableOK(n) /\ OnlyRow(t, n, s, i)
         /\ n.sessionByPlayerId = t.sessionByPlayerId
<1>1. /\ DOMAIN t = {"players", "sessionByPlayerId"} /\ DOMAIN t.players \subseteq Sessions
      /\ t.players \in [DOMAIN t.players -> Info]
  BY DEF TableOK
<1>2. n = [t EXCEPT !.players[s] = i]
  BY DEF PM!Update, PM!Has
<1>3. /\ DOMAIN n = DOMAIN t /\ n.sessionByPlayerId = t.sessionByPlayerId
      /\ n.players = [t.players EXCEPT ![s] = i]
  BY <1>1, <1>2
<1>4. /\ DOMAIN n.players = DOMAIN t.players
      /\ n.players \in [DOMAIN n.players -> Info]
      /\ n.players[s] = i
      /\ \A c \in DOMAIN t.players : c # s => n.players[c] = t.players[c]
  BY <1>1, <1>3
<1>5. \A c \in DOMAIN n.players : RowOK(c, n.players[c])
  BY <1>4 DEF TableOK
<1>6. QED
  BY <1>1, <1>3, <1>4, <1>5 DEF TableOK, OnlyRow

\* Either there is no such session, and nothing changes, or only its row does.
LEMMA RerouteTable ==
  ASSUME NEW t, TableOK(t), NEW s \in Sessions, NEW z \in Zones,
         s \in DOMAIN t.players => t.players[s].authenticated,
         NEW n, n = PM!SetZoneId(t, s, z)
  PROVE  /\ TableOK(n) /\ n.sessionByPlayerId = t.sessionByPlayerId
         /\ \/ s \notin DOMAIN t.players /\ n = t
            \/ s \in DOMAIN t.players /\ OnlyRow(t, n, s, [t.players[s] EXCEPT !.zoneId = z])
<1>1. CASE s \notin DOMAIN t.players
  BY <1>1 DEF PM!SetZoneId, PM!Update, PM!Has
<1>2. CASE s \in DOMAIN t.players
  <2> DEFINE i == [t.players[s] EXCEPT !.zoneId = z]
  <2>1. t.players[s] \in Info /\ RowOK(s, t.players[s]) /\ t.players[s].authenticated
    BY <1>2 DEF TableOK
  <2>2. i \in Info /\ RowOK(s, i)
    BY <2>1 DEF Info, RowOK
  <2>3. n = PM!Update(t, s, i)
    BY DEF PM!SetZoneId, PM!Find
  <2>4. QED
    BY <1>2, <2>2, <2>3, UpdateTable
<1>3. QED
  BY <1>1, <1>2

LEMMA CurrencyTable ==
  ASSUME NEW t, TableOK(t), NEW s \in Sessions, NEW gold \in Nat, NEW n, n = PM!SetCurrency(t, s, gold)
  PROVE  /\ TableOK(n) /\ n.sessionByPlayerId = t.sessionByPlayerId
         /\ \/ s \notin DOMAIN t.players /\ n = t
            \/ s \in DOMAIN t.players /\ OnlyRow(t, n, s, [t.players[s] EXCEPT !.gold = gold])
<1>1. CASE s \notin DOMAIN t.players
  BY <1>1 DEF PM!SetCurrency, PM!Update, PM!Has
<1>2. CASE s \in DOMAIN t.players
  <2> DEFINE i == [t.players[s] EXCEPT !.gold = gold]
  <2>1. t.players[s] \in Info /\ RowOK(s, t.players[s])
    BY <1>2 DEF TableOK
  <2>2. i \in Info /\ RowOK(s, i)
    BY <2>1 DEF Info, RowOK
  <2>3. n = PM!Update(t, s, i)
    BY DEF PM!SetCurrency, PM!Find
  <2>4. QED
    BY <1>2, <2>2, <2>3, UpdateTable
<1>3. QED
  BY <1>1, <1>2

(***************************************************************************)
(* Type correctness.                                                       *)
(***************************************************************************)

LEMMA Domains ==
  /\ DOMAIN Gateways = Sessions /\ DOMAIN Lanes = Owners /\ DOMAIN Jobs = Owners
  /\ DOMAIN Amounts = Players /\ DOMAIN Downs = Players /\ DOMAIN Ups = Players
  /\ DOMAIN Units = Players /\ DOMAIN Flags = Players /\ DOMAIN Visitors = Players
  /\ DOMAIN Targets = Players
  /\ \A s \in Sessions : s \in Owners /\ s \notin Players /\ AccountOf[s] \in Players
  /\ \A p \in Players : p \in Owners /\ p \notin Sessions
  /\ \A o \in Owners : o \in Sessions \/ o \in Players
BY ZoneHandoffAssumption
   DEF Gateways, Lanes, Jobs, Amounts, Downs, Ups, Units, Flags, Visitors, Targets, Owners

LEMMA OfQueue ==
  ASSUME NEW S, NEW q \in Seq(S)
  PROVE  /\ \A m \in S : Of(Append(q, m)) = Of(q) \cup {m.session}
         /\ q # <<>> => Of(Tail(q)) \subseteq Of(q) /\ Head(q).session \in Of(q)
<1>1. ASSUME NEW m \in S PROVE Of(Append(q, m)) = Of(q) \cup {m.session}
  <2>1. /\ Len(q) \in Nat /\ Len(Append(q, m)) = Len(q) + 1 /\ Append(q, m)[Len(q) + 1] = m
        /\ \A i \in 1 .. Len(q) : Append(q, m)[i] = q[i]
    BY AppendProperties, LenProperties
  <2>2. \A i \in 1 .. Len(q) + 1 : i \in 1 .. Len(q) \/ i = Len(q) + 1
    BY <2>1
  <2>3. Len(q) + 1 \in 1 .. Len(q) + 1 /\ \A i \in 1 .. Len(q) : i \in 1 .. Len(q) + 1
    BY <2>1
  <2>4. QED
    BY <2>1, <2>2, <2>3 DEF Of
<1>2. ASSUME q # <<>> PROVE Of(Tail(q)) \subseteq Of(q) /\ Head(q).session \in Of(q)
  <2>1. /\ Len(q) \in Nat /\ Len(q) > 0 /\ Len(Tail(q)) = Len(q) - 1 /\ Head(q) = q[1]
        /\ \A i \in 1 .. Len(q) - 1 : Tail(q)[i] = q[i + 1]
    BY <1>2, HeadTailProperties, EmptySeq, LenProperties
  <2>2. \A i \in 1 .. Len(q) - 1 : i + 1 \in 1 .. Len(q)
    BY <2>1
  <2>3. QED
    BY <2>1, <2>2 DEF Of
<1>3. QED
  BY <1>1, <1>2

\* Nothing of another zone or player changes.
ElsewhereSame(z, p) == \A y \in Zones, q \in Players : y # z \/ q # p =>
    /\ up'[y][q] = up[y][q] /\ down'[y][q] = down[y][q] /\ unit'[y][q] = unit[y][q]
    /\ leaving'[y][q] = leaving[y][q] /\ visit'[y][q] = visit[y][q]
    /\ crossings'[y][q] = crossings[y][q]

LEMMA TakesDown ==
  ASSUME TypeOK, NEW z \in Zones, NEW p \in Players, NEW type, TakeFromWorld(z, p, type)
  PROVE  /\ down[z][p] \in Seq(ToPlayer(p)) /\ down[z][p] # <<>>
         /\ Head(down[z][p]) \in ToPlayer(p) /\ Head(down[z][p]).type = type
         /\ Head(down[z][p]).session \in Of(down[z][p])
         /\ down'[z][p] = Tail(down[z][p]) /\ Tail(down[z][p]) \in Seq(ToPlayer(p))
         /\ Of(down'[z][p]) \subseteq Of(down[z][p])
         /\ Grid(down', Downs) /\ ~leaving[z][p]
         /\ \A y \in Zones, q \in Players : y # z \/ q # p => down'[y][q] = down[y][q]
<1>1. Grid(down, Downs) /\ DOMAIN Downs = Players /\ Downs[p] = Seq(ToPlayer(p))
  BY Domains DEF TypeOK, LinksOK, Downs
<1>2. down[z][p] \in Seq(ToPlayer(p))
  BY <1>1, GridAt
<1>3. /\ down[z][p] # <<>> /\ Head(down[z][p]).type = type /\ ~leaving[z][p]
      /\ down' = [down EXCEPT ![z][p] = Tail(down[z][p])]
  BY DEF TakeFromWorld
<1>4. Head(down[z][p]) \in ToPlayer(p) /\ Tail(down[z][p]) \in Seq(ToPlayer(p))
  BY <1>2, <1>3, HeadTailProperties
<1>5. /\ Grid(down', Downs) /\ down'[z][p] = Tail(down[z][p])
      /\ \A y \in Zones, q \in Players : y # z \/ q # p => down'[y][q] = down[y][q]
  <2> DEFINE v == Tail(down[z][p])
  <2>1. v \in Downs[p] /\ down' = [down EXCEPT ![z][p] = v]
    BY <1>1, <1>3, <1>4
  <2> HIDE DEF v
  <2>2. Grid(down', Downs)
    BY <1>1, <2>1, GridSet
  <2>3. /\ down'[z][p] = v
        /\ \A y \in Zones, q \in Players : y # z \/ q # p => down'[y][q] = down[y][q]
    BY <1>1, <2>1 DEF Grid, Row
  <2>4. QED
    BY <2>2, <2>3 DEF v
<1>6. Of(Tail(down[z][p])) \subseteq Of(down[z][p]) /\ Head(down[z][p]).session \in Of(down[z][p])
  BY <1>2, <1>3, OfQueue
<1>7. QED
  BY <1>2, <1>3, <1>4, <1>5, <1>6

LEMMA Sends ==
  ASSUME TypeOK, NEW z \in Zones, NEW p \in Players, NEW m \in ToPlayer(p), ToZone(z, p, m)
  PROVE  /\ down[z][p] \in Seq(ToPlayer(p)) /\ down'[z][p] = Append(down[z][p], m)
         /\ Of(down'[z][p]) = Of(down[z][p]) \cup {m.session}
         /\ Grid(down', Downs)
         /\ \A y \in Zones, q \in Players : y # z \/ q # p => down'[y][q] = down[y][q]
<1>1. Grid(down, Downs) /\ DOMAIN Downs = Players /\ Downs[p] = Seq(ToPlayer(p))
  BY Domains DEF TypeOK, LinksOK, Downs
<1>2. down[z][p] \in Seq(ToPlayer(p))
  BY <1>1, GridAt
<1>3. Append(down[z][p], m) \in Seq(ToPlayer(p))
  BY <1>2, AppendProperties
<1>4. down' = [down EXCEPT ![z][p] = Append(down[z][p], m)]
  BY DEF ToZone
<1>5. /\ Grid(down', Downs) /\ down'[z][p] = Append(down[z][p], m)
      /\ \A y \in Zones, q \in Players : y # z \/ q # p => down'[y][q] = down[y][q]
  <2> DEFINE v == Append(down[z][p], m)
  <2>1. v \in Downs[p] /\ down' = [down EXCEPT ![z][p] = v]
    BY <1>1, <1>3, <1>4
  <2> HIDE DEF v
  <2>2. Grid(down', Downs)
    BY <1>1, <2>1, GridSet
  <2>3. /\ down'[z][p] = v
        /\ \A y \in Zones, q \in Players : y # z \/ q # p => down'[y][q] = down[y][q]
    BY <1>1, <2>1 DEF Grid, Row
  <2>4. QED
    BY <2>2, <2>3 DEF v
<1>6. Of(Append(down[z][p], m)) = Of(down[z][p]) \cup {m.session}
  BY <1>2, OfQueue
<1>7. QED
  BY <1>2, <1>5, <1>6

LEMMA TakesUp ==
  ASSUME TypeOK, NEW z \in Zones, NEW p \in Players, NEW type, TakeFromZone(z, p, type)
  PROVE  /\ up[z][p] \in Seq(FromPlayer(p)) /\ up[z][p] # <<>> /\ job[p] = NoJob
         /\ Head(up[z][p]) \in FromPlayer(p) /\ Head(up[z][p]).type = type
         /\ Head(up[z][p]).session \in Of(up[z][p])
         /\ up'[z][p] = Tail(up[z][p]) /\ Tail(up[z][p]) \in Seq(FromPlayer(p))
         /\ Of(up'[z][p]) \subseteq Of(up[z][p])
         /\ Grid(up', Ups)
         /\ \A y \in Zones, q \in Players : y # z \/ q # p => up'[y][q] = up[y][q]
<1>1. Grid(up, Ups) /\ DOMAIN Ups = Players /\ Ups[p] = Seq(FromPlayer(p))
  BY Domains DEF TypeOK, LinksOK, Ups
<1>2. up[z][p] \in Seq(FromPlayer(p))
  BY <1>1, GridAt
<1>3. /\ up[z][p] # <<>> /\ Head(up[z][p]).type = type /\ job[p] = NoJob
      /\ up' = [up EXCEPT ![z][p] = Tail(up[z][p])]
  BY DEF TakeFromZone
<1>4. Head(up[z][p]) \in FromPlayer(p) /\ Tail(up[z][p]) \in Seq(FromPlayer(p))
  BY <1>2, <1>3, HeadTailProperties
<1>5. /\ Grid(up', Ups) /\ up'[z][p] = Tail(up[z][p])
      /\ \A y \in Zones, q \in Players : y # z \/ q # p => up'[y][q] = up[y][q]
  <2> DEFINE v == Tail(up[z][p])
  <2>1. v \in Ups[p] /\ up' = [up EXCEPT ![z][p] = v]
    BY <1>1, <1>3, <1>4
  <2> HIDE DEF v
  <2>2. Grid(up', Ups)
    BY <1>1, <2>1, GridSet
  <2>3. /\ up'[z][p] = v
        /\ \A y \in Zones, q \in Players : y # z \/ q # p => up'[y][q] = up[y][q]
    BY <1>1, <2>1 DEF Grid, Row
  <2>4. QED
    BY <2>2, <2>3 DEF v
<1>6. Of(Tail(up[z][p])) \subseteq Of(up[z][p]) /\ Head(up[z][p]).session \in Of(up[z][p])
  BY <1>2, <1>3, OfQueue
<1>7. QED
  BY <1>2, <1>3, <1>4, <1>5, <1>6

FromZone(z, p, m) == up' = [up EXCEPT ![z][p] = Append(@, m)]

LEMMA Reports ==
  ASSUME TypeOK, NEW z \in Zones, NEW p \in Players, NEW m \in FromPlayer(p), FromZone(z, p, m)
  PROVE  /\ up[z][p] \in Seq(FromPlayer(p)) /\ up'[z][p] = Append(up[z][p], m)
         /\ Of(up'[z][p]) = Of(up[z][p]) \cup {m.session}
         /\ Grid(up', Ups)
         /\ \A y \in Zones, q \in Players : y # z \/ q # p => up'[y][q] = up[y][q]
<1>1. Grid(up, Ups) /\ DOMAIN Ups = Players /\ Ups[p] = Seq(FromPlayer(p))
  BY Domains DEF TypeOK, LinksOK, Ups
<1>2. up[z][p] \in Seq(FromPlayer(p))
  BY <1>1, GridAt
<1>3. Append(up[z][p], m) \in Seq(FromPlayer(p))
  BY <1>2, AppendProperties
<1>4. /\ Grid(up', Ups) /\ up'[z][p] = Append(up[z][p], m)
      /\ \A y \in Zones, q \in Players : y # z \/ q # p => up'[y][q] = up[y][q]
  <2> DEFINE v == Append(up[z][p], m)
  <2>1. v \in Ups[p] /\ up' = [up EXCEPT ![z][p] = v]
    BY <1>1, <1>3 DEF FromZone
  <2> HIDE DEF v
  <2>2. Grid(up', Ups)
    BY <1>1, <2>1, GridSet
  <2>3. /\ up'[z][p] = v
        /\ \A y \in Zones, q \in Players : y # z \/ q # p => up'[y][q] = up[y][q]
    BY <1>1, <2>1 DEF Grid, Row
  <2>4. QED
    BY <2>2, <2>3 DEF v
<1>5. Of(Append(up[z][p], m)) = Of(up[z][p]) \cup {m.session}
  BY <1>2, OfQueue
<1>6. QED
  BY <1>2, <1>4, <1>5

\* The handler of o takes the first message of its lane.
LEMMA TakesLane ==
  ASSUME TypeOK, NEW o \in Owners, NEW types, TakeFromLane(o, types)
  PROVE  /\ lane[o] \in Seq(OnLane(o)) /\ lane[o] # <<>> /\ job[o] = NoJob
         /\ Head(lane[o]) \in OnLane(o) /\ Head(lane[o]).type \in types
         /\ Head(lane[o]).session \in Sessions
         /\ lane'[o] = Tail(lane[o]) /\ Row(lane', Lanes)
         /\ \A w \in Owners : w # o => lane'[w] = lane[w]
<1>1. Row(lane, Lanes) /\ o \in DOMAIN Lanes /\ Lanes[o] = Seq(OnLane(o))
  BY Domains DEF TypeOK, QueuesOK, Lanes
<1>2. lane[o] \in Seq(OnLane(o))
  BY <1>1 DEF Row
<1>3. /\ lane[o] # <<>> /\ Head(lane[o]).type \in types /\ job[o] = NoJob
      /\ lane' = [lane EXCEPT ![o] = Tail(lane[o])]
  BY DEF TakeFromLane
<1>4. Head(lane[o]) \in OnLane(o) /\ Tail(lane[o]) \in Seq(OnLane(o))
  BY <1>2, <1>3, HeadTailProperties
<1>5. /\ Row(lane', Lanes) /\ lane'[o] = Tail(lane[o])
      /\ \A w \in Owners : w # o => lane'[w] = lane[w]
  <2> DEFINE v == Tail(lane[o])
  <2>1. v \in Lanes[o] /\ lane' = [lane EXCEPT ![o] = v] /\ DOMAIN Lanes = Owners
    BY <1>1, <1>3, <1>4, Domains
  <2> HIDE DEF v
  <2>2. Row(lane', Lanes)
    BY <1>1, <2>1, RowSet
  <2>3. lane'[o] = v /\ \A w \in Owners : w # o => lane'[w] = lane[w]
    BY <1>1, <2>1 DEF Row
  <2>4. QED
    BY <2>2, <2>3 DEF v
<1>6. Head(lane[o]).session \in Sessions
  BY <1>4 DEF OnLane, SessionsOf
<1>7. QED
  BY <1>2, <1>3, <1>4, <1>5, <1>6

(***************************************************************************)
(* The steps of a zone.                                                    *)
(***************************************************************************)

LEMMA UnitAt ==
  ASSUME TypeOK, NEW z \in Zones, NEW p \in Players
  PROVE  /\ unit[z][p] \in Units[p]
         /\ Present(z, p) => unit[z][p] \in UnitOf(p) /\ unit[z][p].session \in Sessions
         /\ unit[z][p].session \in SessionsOf(p) \cup {NoSession}
         /\ unit[z][p].crossing \in BOOLEAN /\ leaving[z][p] \in BOOLEAN /\ crossings[z][p] \in Somewhere
         /\ visit[z][p] \in [to : Somewhere, removed : BOOLEAN]
<1>1. unit[z][p] \in Units[p] /\ leaving[z][p] \in Flags[p] /\ visit[z][p] \in Visitors[p]
      /\ crossings[z][p] \in Targets[p]
  BY GridAt, Domains DEF TypeOK, UnitsOK
<1>2. unit[z][p] = NoUnit \/ unit[z][p] \in UnitOf(p)
  BY <1>1 DEF Units
<1>3. unit[z][p] = NoUnit => unit[z][p].session = NoSession /\ unit[z][p].crossing = FALSE
  BY DEF NoUnit
<1>4. unit[z][p] \in UnitOf(p) =>
          unit[z][p].session \in SessionsOf(p) /\ unit[z][p].crossing \in BOOLEAN
  BY DEF UnitOf
<1>5. SessionsOf(p) \subseteq Sessions
  BY DEF SessionsOf
<1>6. leaving[z][p] \in BOOLEAN /\ crossings[z][p] \in Somewhere
      /\ visit[z][p] \in [to : Somewhere, removed : BOOLEAN]
  BY <1>1 DEF Flags, Visitors, Targets
<1>7. unit[z][p].crossing \in BOOLEAN
  BY <1>2, <1>3, <1>4
<1>8. QED
  BY <1>1, <1>2, <1>3, <1>4, <1>5, <1>6, <1>7 DEF Present

\* A unit with the session of somebody is somebody.
LEMMA SomebodyPresent ==
  ASSUME NEW u, u.session \in Sessions
  PROVE  u # NoUnit
BY ZoneHandoffAssumption DEF NoUnit

LEMMA UnitPut ==
  ASSUME TypeOK, NEW z \in Zones, NEW p \in Players, NEW v \in Units[p]
  PROVE  Grid([unit EXCEPT ![z][p] = v], Units) /\ Puts(unit, [unit EXCEPT ![z][p] = v], z, p, v)
BY GridPut, Domains DEF TypeOK, UnitsOK

LEMMA ZoneTypes ==
  ASSUME TypeOK, UNCHANGED <<clientVars, gateway, worldVars>>, LinksOK', UnitsOK'
  PROVE  TypeOK'
BY DEF TypeOK, QueuesOK, clientVars, worldVars, dbVars

\* What a zone step says of the session ids around it.
NoNewSession(z, p) == SessionsAt(z, p)' \subseteq SessionsAt(z, p) \cup {NoSession}

LEMMA EnterEffect ==
  ASSUME TypeOK, NEW z \in Zones, NEW p \in Players, HandleEnterZone(z, p)
  PROVE  /\ TypeOK' /\ ElsewhereSame(z, p) /\ NoNewSession(z, p)
         /\ down'[z][p] = Tail(down[z][p]) /\ unit'[z][p] # NoUnit /\ ~unit'[z][p].crossing
         /\ UNCHANGED <<up, leaving, visit, crossings>> /\ ~leaving[z][p]
<1> DEFINE m == Head(down[z][p])
           v == IF Present(z, p) THEN PutBack(unit[z][p])
                ELSE [session |-> m.session, gold |-> m.gold, crossing |-> FALSE, request |-> NoZone]
<1>1. /\ m \in ToPlayer(p) /\ m.session \in Of(down[z][p]) /\ down'[z][p] = Tail(down[z][p])
      /\ Of(down'[z][p]) \subseteq Of(down[z][p]) /\ Grid(down', Downs) /\ ~leaving[z][p]
      /\ \A y \in Zones, q \in Players : y # z \/ q # p => down'[y][q] = down[y][q]
  BY TakesDown DEF HandleEnterZone
<1>2. /\ unit' = [unit EXCEPT ![z][p] = v]
      /\ UNCHANGED <<clientVars, gateway, worldVars, up, leaving, visit, crossings, history>>
  BY DEF HandleEnterZone
<1>3. m.session \in SessionsOf(p) /\ m.gold \in Nat /\ SessionsOf(p) \subseteq Sessions
  BY <1>1 DEF ToPlayer, SessionsOf
<1>4. /\ v \in Units[p] /\ ~v.crossing /\ v.session \in {unit[z][p].session, m.session}
      /\ v.session \in Sessions
  <2>1. CASE Present(z, p)
    <3>1. unit[z][p] \in UnitOf(p) /\ v = [unit[z][p] EXCEPT !.request = NoZone, !.crossing = FALSE]
      BY <2>1, UnitAt DEF PutBack
    <3>2. v \in UnitOf(p) /\ v.crossing = FALSE /\ v.session = unit[z][p].session
      BY <3>1 DEF UnitOf, Somewhere
    <3>3. QED
      BY <2>1, <3>2, UnitAt DEF Units
  <2>2. CASE ~Present(z, p)
    BY <1>3, <2>2 DEF Units, UnitOf, Somewhere
  <2>3. QED
    BY <2>1, <2>2
<1> HIDE DEF m, v
<1>5. Grid(unit', Units) /\ Puts(unit, unit', z, p, v)
  BY <1>2, <1>4, UnitPut
<1>6. v # NoUnit
  BY <1>4, SomebodyPresent
<1>7. TypeOK'
  BY <1>1, <1>2, <1>5, ZoneTypes DEF TypeOK, LinksOK, UnitsOK
<1>8. ElsewhereSame(z, p)
  BY <1>1, <1>2, <1>5 DEF ElsewhereSame, Puts
<1>9. NoNewSession(z, p)
  BY <1>1, <1>2, <1>4, <1>5 DEF NoNewSession, SessionsAt, Puts
<1>10. QED
  BY <1>1, <1>2, <1>4, <1>5, <1>6, <1>7, <1>8, <1>9 DEF Puts

LEMMA LeaveEffect ==
  ASSUME TypeOK, NEW z \in Zones, NEW p \in Players, HandleLeaveZone(z, p)
  PROVE  /\ TypeOK' /\ ElsewhereSame(z, p) /\ NoNewSession(z, p)
         /\ down'[z][p] = Tail(down[z][p]) /\ (unit'[z][p] = NoUnit <=> unit[z][p] = NoUnit)
         /\ ~unit'[z][p].crossing /\ (leaving'[z][p] <=> Present(z, p))
         /\ UNCHANGED <<up, visit, crossings>>
<1> DEFINE v == [unit[z][p] EXCEPT !.crossing = FALSE]
<1>1. /\ down'[z][p] = Tail(down[z][p]) /\ ~leaving[z][p]
      /\ Of(down'[z][p]) \subseteq Of(down[z][p]) /\ Grid(down', Downs)
      /\ \A y \in Zones, q \in Players : y # z \/ q # p => down'[y][q] = down[y][q]
  <2>1. TakeFromWorld(z, p, "leave")
    BY DEF HandleLeaveZone
  <2>2. QED
    BY <2>1, TakesDown
<1>2. UNCHANGED <<clientVars, gateway, worldVars, up, visit, crossings, history>>
  BY DEF HandleLeaveZone
<1>3. CASE Present(z, p)
  <2>1. unit[z][p] \in UnitOf(p) /\ unit[z][p].session \in Sessions
    BY <1>3, UnitAt
  <2>2. v \in UnitOf(p) /\ v \in Units[p] /\ ~v.crossing /\ v.session = unit[z][p].session
    BY <2>1 DEF UnitOf, Units
  <2>3. unit' = [unit EXCEPT ![z][p] = v] /\ leaving' = [leaving EXCEPT ![z][p] = TRUE]
    BY <1>3 DEF HandleLeaveZone
  <2> HIDE DEF v
  <2>4. Grid(unit', Units) /\ Puts(unit, unit', z, p, v)
    BY <2>2, <2>3, UnitPut
  <2>5. Grid(leaving', Flags) /\ Puts(leaving, leaving', z, p, TRUE)
    <3>1. TRUE \in Flags[p] /\ Grid(leaving, Flags) /\ DOMAIN Flags = Players
      BY DEF Flags, TypeOK, UnitsOK
    <3>2. QED
      BY <2>3, <3>1, GridPut
  <2>6. v # NoUnit
    BY <2>1, <2>2, SomebodyPresent
  <2>7. TypeOK'
    BY <1>1, <1>2, <2>4, <2>5, ZoneTypes DEF TypeOK, LinksOK, UnitsOK
  <2>8. ElsewhereSame(z, p)
    BY <1>1, <1>2, <2>4, <2>5 DEF ElsewhereSame, Puts
  <2>9. NoNewSession(z, p)
    BY <1>1, <1>2, <2>2, <2>4 DEF NoNewSession, SessionsAt, Puts
  <2>10. QED
    BY <1>1, <1>2, <1>3, <2>2, <2>4, <2>5, <2>6, <2>7, <2>8, <2>9 DEF Puts, Present
<1>4. CASE ~Present(z, p)
  <2>1. UNCHANGED <<unit, leaving>>
    BY <1>4 DEF HandleLeaveZone
  <2>2. TypeOK'
    BY <1>1, <1>2, <2>1, ZoneTypes DEF TypeOK, LinksOK, UnitsOK
  <2>3. ElsewhereSame(z, p)
    BY <1>1, <1>2, <2>1 DEF ElsewhereSame
  <2>4. NoNewSession(z, p)
    BY <1>1, <1>2, <2>1 DEF NoNewSession, SessionsAt
  <2>5. ~unit[z][p].crossing
    BY <1>4 DEF Present, NoUnit
  <2>6. QED
    BY <1>1, <1>2, <1>4, <2>1, <2>2, <2>3, <2>4, <2>5
<1>5. QED
  BY <1>3, <1>4

LEMMA RemoveEffect ==
  ASSUME TypeOK, NEW z \in Zones, NEW p \in Players, RemoveUnit(z, p)
  PROVE  /\ TypeOK' /\ ElsewhereSame(z, p) /\ NoNewSession(z, p)
         /\ leaving[z][p] /\ ~leaving'[z][p] /\ unit'[z][p] = NoUnit
         /\ visit'[z][p].to = visit[z][p].to
         /\ visit'[z][p].removed <=> visit[z][p] # NoVisit
         /\ visit[z][p] = NoVisit => visit'[z][p] = NoVisit
         /\ UNCHANGED <<up, down, crossings>>
<1> DEFINE w == [visit[z][p] EXCEPT !.removed = visit[z][p] # NoVisit]
<1>1. /\ leaving[z][p]
      /\ unit' = [unit EXCEPT ![z][p] = NoUnit] /\ leaving' = [leaving EXCEPT ![z][p] = FALSE]
      /\ visit' = [visit EXCEPT ![z][p] = w]
      /\ UNCHANGED <<clientVars, gateway, worldVars, up, down, crossings, history>>
  BY DEF RemoveUnit
<1>2. NoUnit \in Units[p] /\ FALSE \in Flags[p] /\ Grid(leaving, Flags) /\ Grid(visit, Visitors)
  BY DEF Units, Flags, TypeOK, UnitsOK
<1>3. /\ w \in Visitors[p] /\ w.to = visit[z][p].to /\ (w.removed <=> visit[z][p] # NoVisit)
      /\ visit[z][p] = NoVisit => w = NoVisit
  <2>1. visit[z][p] \in [to : Somewhere, removed : BOOLEAN]
    BY UnitAt
  <2> DEFINE b == visit[z][p] # NoVisit
  <2>2. b \in BOOLEAN /\ w = [visit[z][p] EXCEPT !.removed = b]
    OBVIOUS
  <2> HIDE DEF b, w
  <2>3. w = [to |-> visit[z][p].to, removed |-> b] /\ w \in [to : Somewhere, removed : BOOLEAN]
    BY <2>1, <2>2
  <2>4. visit[z][p] = NoVisit => w = NoVisit
    <3>1. ASSUME visit[z][p] = NoVisit PROVE b = FALSE /\ visit[z][p].to = NoZone
      BY <3>1 DEF b, NoVisit
    <3>2. QED
      BY <2>3, <3>1 DEF NoVisit
  <2>5. w.removed <=> visit[z][p] # NoVisit
    BY <2>3 DEF b
  <2>6. QED
    BY <2>3, <2>4, <2>5 DEF Visitors
<1> HIDE DEF w
<1>4. Grid(unit', Units) /\ Puts(unit, unit', z, p, NoUnit)
  BY <1>1, <1>2, UnitPut
<1>5. Grid(leaving', Flags) /\ Puts(leaving, leaving', z, p, FALSE)
  BY <1>1, <1>2, GridPut, Domains
<1>6. Grid(visit', Visitors) /\ Puts(visit, visit', z, p, w)
  BY <1>1, <1>2, <1>3, GridPut, Domains
<1>7. TypeOK'
  BY <1>1, <1>4, <1>5, <1>6, ZoneTypes DEF TypeOK, LinksOK, UnitsOK
<1>8. ElsewhereSame(z, p)
  <2>1. UNCHANGED <<up, down, crossings>>
    BY <1>1
  <2>2. QED
    BY <1>4, <1>5, <1>6, <2>1 DEF ElsewhereSame, Puts
<1>9. NoNewSession(z, p)
  BY <1>1, <1>4 DEF NoNewSession, SessionsAt, Puts, NoUnit
<1>10. QED
  BY <1>1, <1>3, <1>4, <1>5, <1>6, <1>7, <1>8, <1>9 DEF Puts

\* A packet of the client: what there is of the player stays, and at most its
\* amount is reported.
LEMMA PacketEffect ==
  ASSUME TypeOK, NEW z \in Zones, NEW p \in Players, HandleMove(z, p) \/ HandleMailBuy(z, p)
  PROVE  /\ TypeOK' /\ ElsewhereSame(z, p) /\ NoNewSession(z, p)
         /\ Head(down[z][p]).type \in {"move", "buy"}
         /\ down'[z][p] = Tail(down[z][p]) /\ (unit'[z][p] = NoUnit <=> unit[z][p] = NoUnit)
         /\ unit'[z][p].crossing = unit[z][p].crossing
         /\ UNCHANGED <<leaving, visit, crossings>>
         /\ \/ up' = up
            \/ \E m \in FromPlayer(p) : m.type = "uow" /\ up'[z][p] = Append(up[z][p], m)
<1> DEFINE m == Head(down[z][p])
           u == unit[z][p]
           v == IF HandleMove(z, p) THEN [u EXCEPT !.request = m.to] ELSE [u EXCEPT !.gold = @ - 1]
           r == Msg("uow", NoSession, NoZone, u.gold - 1)
<1>1. /\ m \in ToPlayer(p) /\ m.type \in {"move", "buy"} /\ down'[z][p] = Tail(down[z][p])
      /\ Of(down'[z][p]) \subseteq Of(down[z][p]) /\ Grid(down', Downs)
      /\ \A y \in Zones, q \in Players : y # z \/ q # p => down'[y][q] = down[y][q]
  <2>1. PICK type \in {"move", "buy"} : TakeFromWorld(z, p, type)
    BY DEF HandleMove, HandleMailBuy
  <2>2. QED
    BY <2>1, TakesDown
<1>2. /\ UNCHANGED <<clientVars, gateway, worldVars, leaving, visit, crossings>>
      /\ \/ UNCHANGED <<unit, up>>
         \/ /\ Present(z, p) /\ unit' = [unit EXCEPT ![z][p] = v]
            /\ up' = up \/ (u.gold > 0 /\ FromZone(z, p, r))
            /\ HandleMove(z, p) \/ u.gold > 0
  BY DEF HandleMove, HandleMailBuy, CanPay, FromZone
<1>3. CASE UNCHANGED <<unit, up>>
  <2>1. TypeOK'
    BY <1>1, <1>2, <1>3, ZoneTypes DEF TypeOK, LinksOK, UnitsOK
  <2>2. ElsewhereSame(z, p)
    BY <1>1, <1>2, <1>3 DEF ElsewhereSame
  <2>3. NoNewSession(z, p)
    BY <1>1, <1>2, <1>3 DEF NoNewSession, SessionsAt
  <2>4. QED
    BY <1>1, <1>2, <1>3, <2>1, <2>2, <2>3
<1>4. CASE /\ Present(z, p) /\ unit' = [unit EXCEPT ![z][p] = v]
           /\ up' = up \/ (u.gold > 0 /\ FromZone(z, p, r))
           /\ HandleMove(z, p) \/ u.gold > 0
  <2>1. u \in UnitOf(p) /\ u.session \in Sessions
    BY <1>4, UnitAt
  <2>2. /\ v \in UnitOf(p) /\ v \in Units[p] /\ v.crossing = u.crossing /\ v.session = u.session
    <3>1. CASE HandleMove(z, p)
      <4>1. m.to \in Somewhere
        BY <1>1 DEF ToPlayer
      <4>2. QED
        BY <2>1, <3>1, <4>1 DEF UnitOf, Units
    <3>2. CASE ~HandleMove(z, p)
      <4>1. u.gold \in Nat /\ u.gold > 0
        BY <1>4, <2>1, <3>2 DEF UnitOf
      <4>2. u.gold - 1 \in Nat
        BY <4>1
      <4>3. QED
        BY <2>1, <3>2, <4>2 DEF UnitOf, Units
    <3>3. QED
      BY <3>1, <3>2
  <2>3. u.gold > 0 => r \in FromPlayer(p) /\ r.type = "uow" /\ r.session = NoSession
    <3>1. u.gold \in Nat
      BY <2>1 DEF UnitOf
    <3>2. u.gold > 0 => u.gold - 1 \in Nat
      BY <3>1
    <3>3. QED
      BY <3>2 DEF Msg, FromPlayer
  <2> HIDE DEF v, r
  <2>4. Grid(unit', Units) /\ Puts(unit, unit', z, p, v)
    BY <1>4, <2>2, UnitPut
  <2>5. v # NoUnit
    BY <2>1, <2>2, SomebodyPresent
  <2>6. /\ Grid(up', Ups)
        /\ \A y \in Zones, q \in Players : y # z \/ q # p => up'[y][q] = up[y][q]
        /\ Of(up'[z][p]) \subseteq Of(up[z][p]) \cup {NoSession}
        /\ up' = up \/ (r \in FromPlayer(p) /\ r.type = "uow" /\ up'[z][p] = Append(up[z][p], r))
    <3>1. CASE up' = up
      BY <3>1 DEF TypeOK, LinksOK
    <3>2. CASE u.gold > 0 /\ FromZone(z, p, r)
      <4>1. r \in FromPlayer(p) /\ r.type = "uow" /\ r.session = NoSession
        BY <2>3, <3>2
      <4>2. /\ up'[z][p] = Append(up[z][p], r) /\ Of(up'[z][p]) = Of(up[z][p]) \cup {r.session}
            /\ Grid(up', Ups)
            /\ \A y \in Zones, q \in Players : y # z \/ q # p => up'[y][q] = up[y][q]
        BY <3>2, <4>1, Reports
      <4>3. QED
        BY <4>1, <4>2
    <3>3. QED
      BY <1>4, <3>1, <3>2
  <2>7. TypeOK'
    BY <1>1, <1>2, <2>4, <2>6, ZoneTypes DEF TypeOK, LinksOK, UnitsOK
  <2>8. ElsewhereSame(z, p)
    BY <1>1, <1>2, <2>4, <2>6 DEF ElsewhereSame, Puts
  <2>9. NoNewSession(z, p)
    BY <1>1, <2>2, <2>4, <2>6 DEF NoNewSession, SessionsAt, Puts
  <2>10. QED
    BY <1>1, <1>2, <1>4, <2>2, <2>4, <2>5, <2>6, <2>7, <2>8, <2>9 DEF Puts, Present
<1>5. QED
  BY <1>2, <1>3, <1>4

LEMMA TickMoveEffect ==
  ASSUME TypeOK, NEW z \in Zones, NEW p \in Players, TickMove(z, p)
  PROVE  /\ TypeOK' /\ ElsewhereSame(z, p) /\ NoNewSession(z, p)
         /\ unit[z][p] # NoUnit /\ unit'[z][p] # NoUnit /\ unit'[z][p].crossing = unit[z][p].crossing
         /\ visit'[z][p] = NoVisit \/ (visit'[z][p].to # NoZone /\ ~visit'[z][p].removed)
         /\ UNCHANGED <<up, down, leaving, crossings>>
<1> DEFINE u == unit[z][p]
           v == [u EXCEPT !.request = NoZone]
           w == [visit[z][p] EXCEPT !.to = u.request]
<1>1. /\ Present(z, p) /\ visit[z][p] = NoVisit /\ u.request # NoZone
      /\ unit' = [unit EXCEPT ![z][p] = v]
      /\ visit' = visit \/ visit' = [visit EXCEPT ![z][p] = w]
      /\ UNCHANGED <<clientVars, gateway, worldVars, up, down, leaving, crossings, history>>
  BY DEF TickMove
<1>2. u \in UnitOf(p) /\ u.session \in Sessions
  BY <1>1, UnitAt
<1>3. v \in Units[p] /\ v.session = u.session /\ v.crossing = u.crossing
  BY <1>2 DEF UnitOf, Units, Somewhere
<1>4. w \in Visitors[p] /\ w.to # NoZone /\ ~w.removed
  <2>1. w = [to |-> u.request, removed |-> FALSE] /\ u.request \in Somewhere
    <3>1. w = [NoVisit EXCEPT !.to = u.request]
      BY <1>1
    <3>2. u.request \in Somewhere
      BY <1>2 DEF UnitOf
    <3> HIDE DEF w, u
    <3>3. QED
      BY <3>1, <3>2 DEF NoVisit
  <2>2. QED
    BY <1>1, <2>1 DEF Visitors
<1> HIDE DEF v, w
<1>5. Grid(unit', Units) /\ Puts(unit, unit', z, p, v)
  BY <1>1, <1>3, UnitPut
<1>6. v # NoUnit
  BY <1>2, <1>3, SomebodyPresent
<1>7. Grid(visit', Visitors) /\ (visit' = visit \/ Puts(visit, visit', z, p, w))
  <2>1. Grid(visit, Visitors)
    BY DEF TypeOK, UnitsOK
  <2>2. CASE visit' = visit
    BY <2>1, <2>2
  <2>3. CASE visit' = [visit EXCEPT ![z][p] = w]
    BY <1>4, <2>1, <2>3, GridPut, Domains
  <2>4. QED
    BY <1>1, <2>2, <2>3
<1>8. TypeOK'
  BY <1>1, <1>5, <1>7, ZoneTypes DEF TypeOK, LinksOK, UnitsOK
<1>9. ElsewhereSame(z, p)
  BY <1>1, <1>5, <1>7 DEF ElsewhereSame, Puts
<1>10. NoNewSession(z, p)
  BY <1>1, <1>3, <1>5 DEF NoNewSession, SessionsAt, Puts
<1>11. QED
  BY <1>1, <1>3, <1>4, <1>5, <1>6, <1>7, <1>8, <1>9, <1>10 DEF Puts, Present

\* The visited unit is there, or it was removed (VisitOK).
LEMMA ReportEffect ==
  ASSUME TypeOK, NEW z \in Zones, NEW p \in Players, ReportCrossing(z, p),
         ~visit[z][p].removed => Present(z, p)
  PROVE  /\ TypeOK' /\ ElsewhereSame(z, p) /\ NoNewSession(z, p)
         /\ (unit'[z][p] = NoUnit <=> unit[z][p] = NoUnit) /\ visit'[z][p] = NoVisit
         /\ \/ UNCHANGED <<unit, crossings>>
            \/ visit[z][p].removed /\ unit' = unit
            \/ ~unit[z][p].crossing /\ unit'[z][p].crossing
         /\ UNCHANGED <<up, down, leaving>>
<1> DEFINE u == unit[z][p]
           v == [u EXCEPT !.crossing = TRUE]
           c == visit[z][p].to
<1>1. /\ visit' = [visit EXCEPT ![z][p] = NoVisit]
      /\ UNCHANGED <<clientVars, gateway, worldVars, up, down, leaving, history>>
      /\ \/ UNCHANGED <<unit, crossings>>
         \/ /\ crossings' = [crossings EXCEPT ![z][p] = c]
            /\ \/ visit[z][p].removed /\ unit' = unit
               \/ /\ ~visit[z][p].removed /\ ~u.crossing
                  /\ unit' = [unit EXCEPT ![z][p] = v]
  BY DEF ReportCrossing
<1>2. NoVisit \in Visitors[p] /\ c \in Targets[p]
        /\ Grid(visit, Visitors) /\ Grid(crossings, Targets) /\ Grid(unit, Units)
  <2>1. visit[z][p] \in [to : Somewhere, removed : BOOLEAN]
    BY UnitAt
  <2>2. QED
    BY <2>1 DEF Visitors, Targets, NoVisit, TypeOK, UnitsOK, Somewhere
<1>3. ~visit[z][p].removed => /\ u \in UnitOf(p) /\ u.session \in Sessions
                              /\ v \in Units[p] /\ v.session = u.session /\ v.crossing
  <2>1. ~visit[z][p].removed => u \in UnitOf(p) /\ u.session \in Sessions
    BY UnitAt
  <2>2. QED
    BY <2>1 DEF UnitOf, Units
<1> HIDE DEF v, c
<1>4. Grid(visit', Visitors) /\ Puts(visit, visit', z, p, NoVisit)
  BY <1>1, <1>2, GridPut, Domains
<1>5. Grid(crossings', Targets) /\ (crossings' = crossings \/ Puts(crossings, crossings', z, p, c))
  <2>1. CASE crossings' = crossings
    BY <1>2, <2>1
  <2>2. CASE crossings' = [crossings EXCEPT ![z][p] = c]
    BY <1>2, <2>2, GridPut, Domains
  <2>3. QED
    BY <1>1, <2>1, <2>2
<1>6. /\ Grid(unit', Units)
      /\ unit' = unit \/ (Puts(unit, unit', z, p, v) /\ v.session = u.session /\ v # NoUnit /\ v.crossing
                          /\ ~u.crossing /\ u # NoUnit)
  <2>1. CASE unit' = unit
    BY <1>2, <2>1
  <2>2. CASE ~visit[z][p].removed /\ ~u.crossing /\ unit' = [unit EXCEPT ![z][p] = v]
    <3>1. Grid(unit', Units) /\ Puts(unit, unit', z, p, v)
      BY <1>3, <2>2, UnitPut
    <3>2. QED
      BY <1>3, <2>2, <3>1, SomebodyPresent
  <2>3. QED
    BY <1>1, <2>1, <2>2
<1>7. TypeOK'
  BY <1>1, <1>4, <1>5, <1>6, ZoneTypes DEF TypeOK, LinksOK, UnitsOK
<1>8. ElsewhereSame(z, p)
  BY <1>1, <1>4, <1>5, <1>6 DEF ElsewhereSame, Puts
<1>9. NoNewSession(z, p)
  BY <1>1, <1>6 DEF NoNewSession, SessionsAt, Puts
<1>10. \/ UNCHANGED <<unit, crossings>>
       \/ visit[z][p].removed /\ unit' = unit
       \/ ~unit[z][p].crossing /\ unit'[z][p].crossing
  <2>1. unit' = [unit EXCEPT ![z][p] = v] /\ ~visit[z][p].removed => unit'[z][p] = v /\ v.crossing
    BY <1>2, <1>3, Domains DEF Grid, Row
  <2>2. QED
    BY <1>1, <2>1
<1>11. QED
  BY <1>1, <1>4, <1>6, <1>7, <1>8, <1>9, <1>10 DEF Puts

LEMMA RequestEffect ==
  ASSUME TypeOK, NEW z \in Zones, NEW p \in Players, RequestZoneTransfer(z, p)
  PROVE  /\ TypeOK' /\ ElsewhereSame(z, p) /\ NoNewSession(z, p)
         /\ crossings[z][p] # NoZone /\ crossings'[z][p] = NoZone
         /\ UNCHANGED <<down, unit, leaving, visit>>
         /\ \/ ~Present(z, p) /\ UNCHANGED <<up, stray>>
            \/ /\ Present(z, p)
               /\ \E m \in FromPlayer(p) : m.type = "transfer" /\ up'[z][p] = Append(up[z][p], m)
               /\ stray' = IF leaving[z][p] \/ ~unit[z][p].crossing THEN stray \cup {p} ELSE stray
<1> DEFINE m == Msg("transfer", unit[z][p].session, crossings[z][p], 0)
<1>1. /\ crossings[z][p] # NoZone /\ crossings' = [crossings EXCEPT ![z][p] = NoZone]
      /\ UNCHANGED <<clientVars, gateway, worldVars, down, unit, leaving, visit>>
      /\ \/ ~Present(z, p) /\ UNCHANGED <<up, stray>>
         \/ /\ Present(z, p) /\ FromZone(z, p, m)
            /\ stray' = IF leaving[z][p] \/ ~unit[z][p].crossing THEN stray \cup {p} ELSE stray
  BY DEF RequestZoneTransfer, FromZone
<1>2. NoZone \in Targets[p] /\ Grid(crossings, Targets) /\ Grid(up, Ups)
  BY DEF Targets, TypeOK, UnitsOK, LinksOK, Somewhere
<1>3. Grid(crossings', Targets) /\ Puts(crossings, crossings', z, p, NoZone)
  BY <1>1, <1>2, GridPut, Domains
<1>4. Present(z, p) => m \in FromPlayer(p) /\ m.type = "transfer" /\ m.session = unit[z][p].session
  <2>1. Present(z, p) => unit[z][p].session \in SessionsOf(p)
    BY UnitAt DEF UnitOf
  <2>2. crossings[z][p] \in Positions
    BY <1>1, UnitAt DEF Somewhere
  <2>3. QED
    BY <2>1, <2>2 DEF FromPlayer, Msg
<1> HIDE DEF m
<1>5. /\ Grid(up', Ups)
      /\ \A y \in Zones, q \in Players : y # z \/ q # p => up'[y][q] = up[y][q]
      /\ Of(up'[z][p]) \subseteq Of(up[z][p]) \cup {unit[z][p].session}
      /\ Present(z, p) => up'[z][p] = Append(up[z][p], m)
  <2>1. CASE Present(z, p)
    <3>1. FromZone(z, p, m) /\ m \in FromPlayer(p) /\ m.session = unit[z][p].session
      BY <1>1, <1>4, <2>1
    <3>2. /\ up'[z][p] = Append(up[z][p], m) /\ Of(up'[z][p]) = Of(up[z][p]) \cup {m.session}
          /\ Grid(up', Ups)
          /\ \A y \in Zones, q \in Players : y # z \/ q # p => up'[y][q] = up[y][q]
      BY <3>1, Reports
    <3>3. QED
      BY <3>1, <3>2
  <2>2. CASE ~Present(z, p)
    BY <1>1, <1>2, <2>2
  <2>3. QED
    BY <2>1, <2>2
<1>6. TypeOK'
  BY <1>1, <1>3, <1>5, ZoneTypes DEF TypeOK, LinksOK, UnitsOK
<1>7. ElsewhereSame(z, p)
  BY <1>1, <1>3, <1>5 DEF ElsewhereSame, Puts
<1>8. NoNewSession(z, p)
  BY <1>1, <1>5 DEF NoNewSession, SessionsAt
<1>9. QED
  BY <1>1, <1>3, <1>4, <1>5, <1>6, <1>7, <1>8 DEF Puts

(***************************************************************************)
(* A session connects once and logs in once.                               *)
(***************************************************************************)

\* What the queues of a lane or a gateway hold after a message has been added
\* to q, or taken from it.
Added(q, r, m) == \A t :
    /\ Some(r, t) <=> Some(q, t) \/ m.type = t
    /\ Once(q, t) /\ (m.type = t => ~Some(q, t)) => Once(r, t)
Taken(q, r, m) == \A t :
    /\ Some(q, t) <=> m.type = t \/ Some(r, t)
    /\ Once(q, t) => Once(r, t) /\ (m.type = t => ~Some(r, t))

LEMMA AddedTaken ==
  ASSUME NEW S, NEW q \in Seq(S)
  PROVE  /\ \A m \in S : Added(q, Append(q, m), m)
         /\ q # <<>> => Taken(q, Tail(q), Head(q))
<1>1. ASSUME NEW m \in S PROVE Added(q, Append(q, m), m)
  BY SomeAppend DEF Added
<1>2. ASSUME q # <<>> PROVE Taken(q, Tail(q), Head(q))
  BY <1>2, SomeTail DEF Taken
<1>3. QED
  BY <1>1, <1>2

LEMMA GatewayPut ==
  ASSUME TypeOK, NEW s \in Sessions, NEW m \in OnGateway(s), ToWorld(s, m)
  PROVE  /\ Row(gateway', Gateways) /\ Added(gateway[s], gateway'[s], m)
         /\ \A c \in Sessions : c # s => gateway'[c] = gateway[c]
<1>1. Row(gateway, Gateways) /\ s \in DOMAIN Gateways /\ Gateways[s] = Seq(OnGateway(s))
      /\ DOMAIN Gateways = Sessions
  BY Domains DEF TypeOK, QueuesOK, Gateways
<1>2. gateway[s] \in Seq(OnGateway(s))
  BY <1>1 DEF Row
<1> DEFINE v == Append(gateway[s], m)
<1>3. v \in Gateways[s] /\ gateway' = [gateway EXCEPT ![s] = v]
  BY <1>1, <1>2, AppendProperties DEF ToWorld
<1>4. Added(gateway[s], v, m)
  BY <1>2, AddedTaken
<1> HIDE DEF v
<1>5. Row(gateway', Gateways)
  BY <1>1, <1>3, RowSet
<1>6. gateway'[s] = v /\ \A c \in Sessions : c # s => gateway'[c] = gateway[c]
  BY <1>1, <1>3 DEF Row
<1>7. QED
  BY <1>4, <1>5, <1>6

ToLane(o, m) == lane' = [lane EXCEPT ![o] = Append(@, m)]

LEMMA LanePut ==
  ASSUME TypeOK, NEW o \in Owners, NEW m \in OnLane(o), ToLane(o, m)
  PROVE  /\ Row(lane', Lanes) /\ Added(lane[o], lane'[o], m)
         /\ \A w \in Owners : w # o => lane'[w] = lane[w]
<1>1. Row(lane, Lanes) /\ o \in DOMAIN Lanes /\ Lanes[o] = Seq(OnLane(o)) /\ DOMAIN Lanes = Owners
  BY Domains DEF TypeOK, QueuesOK, Lanes
<1>2. lane[o] \in Seq(OnLane(o))
  BY <1>1 DEF Row
<1> DEFINE v == Append(lane[o], m)
<1>3. v \in Lanes[o] /\ lane' = [lane EXCEPT ![o] = v]
  BY <1>1, <1>2, AppendProperties DEF ToLane
<1>4. Added(lane[o], v, m)
  BY <1>2, AddedTaken
<1> HIDE DEF v
<1>5. Row(lane', Lanes)
  BY <1>1, <1>3, RowSet
<1>6. lane'[o] = v /\ \A w \in Owners : w # o => lane'[w] = lane[w]
  BY <1>1, <1>3 DEF Row
<1>7. QED
  BY <1>4, <1>5, <1>6

LEMMA LaneTaken ==
  ASSUME TypeOK, NEW o \in Owners, NEW types, TakeFromLane(o, types)
  PROVE  Taken(lane[o], lane'[o], Head(lane[o])) /\ Some(lane[o], Head(lane[o]).type)
<1>1. lane[o] \in Seq(OnLane(o)) /\ lane[o] # <<>> /\ lane'[o] = Tail(lane[o])
  BY TakesLane
<1>2. Taken(lane[o], Tail(lane[o]), Head(lane[o]))
  BY <1>1, AddedTaken
<1>3. Some(lane[o], Head(lane[o]).type)
  BY <1>2 DEF Taken
<1>4. QED
  BY <1>1, <1>2, <1>3

\* Nothing of the session itself changes.
LEMMA SessionSame ==
  ASSUME NEW s \in Sessions, SessionOK(s), client'[s] = client[s], gateway'[s] = gateway[s],
         lane'[s] = lane[s], s \in loading' <=> s \in loading,
         PM!Has(table, s)' <=> PM!Has(table, s),
         PM!Has(table, s) => (PM!Find(table, s).authenticated' <=> PM!Find(table, s).authenticated),
         Fresh(s) /\ Unseen(s) => Unseen(s)'
  PROVE  SessionOK(s)'
<1>1. Fresh(s)' <=> Fresh(s)
  BY DEF Fresh, Coming
<1>2. (Online(s)' <=> Online(s)) /\ (LoggingIn(s)' <=> LoggingIn(s))
  BY DEF Online, LoggingIn, Coming
<1>3. ConnectsOnce(s)'
  BY DEF SessionOK, ConnectsOnce, ComesOnce, Coming
<1>4. LogsInOnce(s)'
  BY <1>2 DEF SessionOK, LogsInOnce, ComesOnce, Coming
<1>5. QED
  BY <1>1, <1>3, <1>4 DEF SessionOK

\* What is in World about the session is kept by all steps of the zones.
LEMMA ZoneStepSessions ==
  ASSUME SessionInv, NEW z \in Zones, NEW p \in Players, TypeOK', ElsewhereSame(z, p), NoNewSession(z, p),
         UNCHANGED <<client, gateway, lane, loading, table, job>>
  PROVE  SessionInv'
<1>1. ASSUME NEW s \in Sessions, Unseen(s) PROVE Unseen(s)'
  <2>1. AccountOf[s] \in Players /\ s # NoSession
    BY Domains, ZoneHandoffAssumption
  <2>2. ASSUME NEW y \in Zones PROVE s \notin SessionsAt(y, AccountOf[s])'
    <3>1. s \notin SessionsAt(y, AccountOf[s])
      BY <1>1 DEF Unseen
    <3>2. CASE y = z /\ AccountOf[s] = p
      BY <2>1, <3>1, <3>2 DEF NoNewSession
    <3>3. CASE ~(y = z /\ AccountOf[s] = p)
      BY <2>1, <3>1, <3>3 DEF ElsewhereSame, SessionsAt
    <3>4. QED
      BY <3>2, <3>3
  <2>3. QED
    BY <1>1, <2>2 DEF Unseen
<1>2. \A s \in Sessions : SessionOK(s)'
  BY <1>1, SessionSame DEF SessionInv, PM!Has, PM!Find
<1>3. QED
  BY <1>2 DEF SessionInv, OnlyGame, IndexNamesItsSession

\* Nothing on the links, in the zones or about to be sent changes.
LEMMA SameUnseen ==
  ASSUME UNCHANGED <<job, up, down, unit>>, NEW s
  PROVE  Unseen(s) => Unseen(s)'
BY DEF Unseen, SessionsAt

LEMMA ClientSteps ==
  ASSUME SessionInv, NEW s \in Sessions, ClientStep(s)
  PROVE  SessionInv'
<1>1. PICK m \in OnGateway(s) :
        /\ ToWorld(s, m)
        /\ \/ m.type = "connected" /\ client[s] = "new" /\ client' = [client EXCEPT ![s] = "open"]
           \/ m.type = "login" /\ client[s] = "open" /\ client' = [client EXCEPT ![s] = "login"]
           \/ m.type \in {"move", "buy"} /\ client' = client
           \/ /\ m.type = "disconnected" /\ client[s] \in {"open", "login"}
              /\ client' = [client EXCEPT ![s] = "gone"]
  <2> DEFINE Says(m) ==
        /\ ToWorld(s, m)
        /\ \/ m.type = "connected" /\ client[s] = "new" /\ client' = [client EXCEPT ![s] = "open"]
           \/ m.type = "login" /\ client[s] = "open" /\ client' = [client EXCEPT ![s] = "login"]
           \/ m.type \in {"move", "buy"} /\ client' = client
           \/ /\ m.type = "disconnected" /\ client[s] \in {"open", "login"}
              /\ client' = [client EXCEPT ![s] = "gone"]
  <2>1. \A type \in FromClient, to \in Somewhere :
          /\ Msg(type, s, to, 0) \in OnGateway(s)
          /\ Msg(type, s, to, 0).type = type
    BY DEF Msg, OnGateway
  <2>2. NoZone \in Somewhere /\ Positions \subseteq Somewhere
        /\ {"connected", "login", "move", "buy", "disconnected"} \subseteq FromClient
    BY DEF Somewhere, FromClient
  <2>3. CASE ClientConnect(s)
    <3>1. Says(Msg("connected", s, NoZone, 0))
      BY <2>1, <2>2, <2>3 DEF ClientConnect
    <3>2. QED
      BY <2>1, <2>2, <3>1
  <2>4. CASE ClientLogin(s)
    <3>1. Says(Msg("login", s, NoZone, 0))
      BY <2>1, <2>2, <2>4 DEF ClientLogin
    <3>2. QED
      BY <2>1, <2>2, <3>1
  <2>5. CASE \E to \in Positions : ClientMove(s, to)
    <3>1. PICK to \in Positions : ClientMove(s, to)
      BY <2>5
    <3>2. Says(Msg("move", s, to, 0))
      BY <2>1, <2>2, <3>1 DEF ClientMove
    <3>3. QED
      BY <2>1, <2>2, <3>2
  <2>6. CASE ClientBuy(s)
    <3>1. Says(Msg("buy", s, NoZone, 0))
      BY <2>1, <2>2, <2>6 DEF ClientBuy
    <3>2. QED
      BY <2>1, <2>2, <3>1
  <2>7. CASE ClientDisconnect(s)
    <3>1. Says(Msg("disconnected", s, NoZone, 0))
      BY <2>1, <2>2, <2>7 DEF ClientDisconnect
    <3>2. QED
      BY <2>1, <2>2, <3>1
  <2>8. QED
    BY <2>3, <2>4, <2>5, <2>6, <2>7 DEF ClientStep
<1>2. UNCHANGED <<worldVars, up, down, zoneVars, history>>
  BY DEF ClientStep, ClientConnect, ClientLogin, ClientMove, ClientBuy, ClientDisconnect
<1>3. TypeOK
  BY DEF SessionInv
<1>4. /\ Row(gateway', Gateways) /\ Added(gateway[s], gateway'[s], m)
      /\ \A c \in Sessions : c # s => gateway'[c] = gateway[c]
  BY <1>1, <1>3, GatewayPut
<1>5. client' \in [Sessions -> {"new", "open", "login", "gone"}]
      /\ \A c \in Sessions : c # s => client'[c] = client[c]
      /\ client[s] \in {"new", "open", "login", "gone"}
  BY <1>1 DEF SessionInv, TypeOK
<1>6. TypeOK'
  BY <1>2, <1>3, <1>4, <1>5
     DEF TypeOK, QueuesOK, LinksOK, UnitsOK, worldVars, dbVars, zoneVars
<1>7. ASSUME NEW c \in Sessions, c # s PROVE SessionOK(c)'
  BY <1>2, <1>4, <1>5, <1>7, SessionSame, SameUnseen
     DEF SessionInv, PM!Has, PM!Find, worldVars, zoneVars
<1>8. SessionOK(s)'
  <2>1. SessionOK(s) /\ (Unseen(s) => Unseen(s)')
    BY <1>2, SameUnseen DEF SessionInv, worldVars, zoneVars
  <2>2. /\ client'[s] \in {"new", "open"} =>
               client[s] \in {"new", "open"} /\ m.type # "login" /\ client'[s] # "new"
        \/ client' = client
    BY <1>1, <1>5 DEF SessionInv, TypeOK
  <2>3. client'[s] = "new" => client[s] = "new" /\ client' = client
    BY <1>1, <1>5 DEF SessionInv, TypeOK
  <2>4. /\ m.type = "connected" => client[s] = "new" /\ client'[s] = "open"
        /\ m.type = "login" => client[s] = "open" /\ client'[s] = "login"
    BY <1>1, <1>5 DEF SessionInv, TypeOK
  <2>5. (Online(s)' <=> Online(s)) /\ (PM!Has(table, s)' <=> PM!Has(table, s)) /\ lane'[s] = lane[s]
        /\ loading' = loading
    BY <1>2 DEF Online, PM!Has, PM!Find, worldVars
  <2>6. ConnectsOnce(s)'
    BY <1>4, <2>1, <2>3, <2>4, <2>5 DEF SessionOK, ConnectsOnce, ComesOnce, Coming, Added
  <2>7. LogsInOnce(s)'
    BY <1>4, <2>1, <2>2, <2>4, <2>5 DEF SessionOK, LogsInOnce, LoggingIn, ComesOnce, Coming, Added
  <2>8. Fresh(s)' => Fresh(s)
    BY <1>2, <1>4, <2>3, <2>4, <2>5 DEF Fresh, Coming, Added, PM!Has, PM!Find, worldVars
  <2>9. QED
    BY <2>1, <2>6, <2>7, <2>8 DEF SessionOK
<1>9. QED
  BY <1>2, <1>6, <1>7, <1>8
     DEF SessionInv, OnlyGame, IndexNamesItsSession, PM!Has, PM!Find, PM!FindSessionByPlayerId, worldVars

\* A message goes to the lane of its session until the login is confirmed.
LEMMA OnRecvStreamStep ==
  ASSUME SessionInv, NEW s \in Sessions, OnRecvStream(s)
  PROVE  SessionInv'
<1> DEFINE m == Head(gateway[s])
           o == OwnerOf(s)
<1>1. TypeOK /\ SessionOK(s)
  BY DEF SessionInv
<1>2. Row(gateway, Gateways) /\ Gateways[s] = Seq(OnGateway(s)) /\ s \in DOMAIN Gateways
      /\ DOMAIN Gateways = Sessions
  BY <1>1, Domains DEF TypeOK, QueuesOK, Gateways
<1>3. /\ gateway[s] \in Seq(OnGateway(s)) /\ gateway[s] # <<>>
      /\ gateway' = [gateway EXCEPT ![s] = Tail(gateway[s])] /\ ToLane(o, m)
      /\ UNCHANGED <<clientVars, job, table, loading, dbVars, up, down, zoneVars, history>>
  BY <1>2 DEF Row, OnRecvStream, ToLane
<1>4. m \in OnGateway(s) /\ Tail(gateway[s]) \in Gateways[s]
  BY <1>2, <1>3, HeadTailProperties
<1>5. /\ o = s \/ (Online(s) /\ o = AccountOf[s])
      /\ ~Online(s) => o = s
  <2>1. PM!Has(table, s) => RowOK(s, PM!Find(table, s))
    BY <1>1 DEF TypeOK, TableOK, PM!Has, PM!Find
  <2>2. AccountOf[s] # NoPlayer
    BY Domains, ZoneHandoffAssumption
  <2>3. QED
    BY <2>1, <2>2 DEF OwnerOf, PM!FindPlayerId, RowOK, Online, PM!Has, PM!Find
<1>6. o \in Owners /\ m \in OnLane(o) /\ m.type # "loginSuccess"
  <2>1. CASE o = s
    BY <1>4, <2>1, Domains DEF OnGateway, OnLane, FromClient
  <2>2. CASE o = AccountOf[s]
    <3>1. o \in Players /\ o \notin Sessions /\ s \in SessionsOf(o)
      BY <2>2, Domains DEF SessionsOf
    <3>2. QED
      BY <1>4, <3>1, Domains DEF OnGateway, OnLane, FromClient
  <2>3. QED
    BY <1>5, <2>1, <2>2
<1>7. Taken(gateway[s], gateway'[s], m) /\ \A c \in Sessions : c # s => gateway'[c] = gateway[c]
  <2>1. gateway'[s] = Tail(gateway[s]) /\ \A c \in Sessions : c # s => gateway'[c] = gateway[c]
    BY <1>2, <1>3 DEF Row
  <2>2. QED
    BY <1>3, <2>1, AddedTaken
<1>8. Row(gateway', Gateways)
  <2> DEFINE v == Tail(gateway[s])
  <2>1. v \in Gateways[s] /\ gateway' = [gateway EXCEPT ![s] = v]
    BY <1>3, <1>4
  <2> HIDE DEF v
  <2>2. QED
    BY <1>2, <2>1, RowSet
<1> HIDE DEF m, o
<1>9. /\ Row(lane', Lanes) /\ Added(lane[o], lane'[o], m)
      /\ \A w \in Owners : w # o => lane'[w] = lane[w]
  BY <1>1, <1>3, <1>6, LanePut
<1>10. TypeOK'
  BY <1>1, <1>3, <1>8, <1>9
     DEF TypeOK, QueuesOK, LinksOK, UnitsOK, clientVars, dbVars, zoneVars
<1>11. ASSUME NEW c \in Sessions, c # s PROVE SessionOK(c)'
  <2>1. lane'[c] = lane[c]
    BY <1>5, <1>9, <1>11, Domains
  <2>2. QED
    BY <1>3, <1>7, <1>11, <2>1, SessionSame, SameUnseen
       DEF SessionInv, PM!Has, PM!Find, clientVars, zoneVars
<1>12. /\ m.type \in {"connected", "login"} => ~Online(s) /\ o = s
       /\ lane'[s] = lane[s] \/ o = s
  <2>1. Some(gateway[s], m.type)
    BY <1>7 DEF Taken
  <2>2. m.type \in {"connected", "login"} => ~Online(s)
    BY <1>1, <2>1 DEF SessionOK, ConnectsOnce, LogsInOnce, LoggingIn, Coming, Online
  <2>3. QED
    BY <1>5, <1>9, <2>2, Domains
<1>13. SessionOK(s)'
  <2>1. Unseen(s) => Unseen(s)'
    BY <1>3, SameUnseen DEF zoneVars
  <2>2. /\ (Online(s)' <=> Online(s)) /\ (PM!Has(table, s)' <=> PM!Has(table, s))
        /\ loading' = loading /\ client' = client
    BY <1>3 DEF Online, PM!Has, PM!Find, clientVars
  <2>3. \A t \in {"connected", "login"} :
          /\ (Some(gateway'[s], t) \/ Some(lane'[s], t)) <=> (Some(gateway[s], t) \/ Some(lane[s], t))
          /\ ComesOnce(s, t) => ComesOnce(s, t)'
    BY <1>7, <1>9, <1>12 DEF Taken, Added, ComesOnce
  <2>4. /\ Some(lane'[s], "loginSuccess") <=> Some(lane[s], "loginSuccess")
        /\ Once(lane[s], "loginSuccess") => Once(lane'[s], "loginSuccess")
    BY <1>6, <1>9, <1>12 DEF Added
  <2>5. ConnectsOnce(s)'
    BY <1>1, <2>2, <2>3 DEF SessionOK, ConnectsOnce, Coming
  <2>6. LogsInOnce(s)'
    BY <1>1, <2>2, <2>3, <2>4 DEF SessionOK, LogsInOnce, LoggingIn, Coming
  <2>7. Fresh(s)' => Fresh(s)
    BY <1>3, <2>2, <2>3 DEF Fresh, Coming, PM!Has, PM!Find
  <2>8. QED
    BY <1>1, <2>1, <2>5, <2>6, <2>7 DEF SessionOK
<1>14. \A p \in Players : OnlyGame(p)'
  <2> SUFFICES ASSUME NEW p \in Players, NEW t \in {"connected", "login", "loginSuccess"}
               PROVE  ~Some(lane'[p], t)
    BY DEF OnlyGame
  <2>1. ~Some(lane[p], t)
    BY DEF SessionInv, OnlyGame
  <2>2. CASE p # o
    BY <1>9, <2>1, <2>2, Domains
  <2>3. CASE p = o
    <3>1. o # s
      BY <2>3, Domains
    <3>2. m.type # t
      BY <1>6, <1>12, <3>1
    <3>3. QED
      BY <1>9, <2>1, <2>3, <3>2 DEF Added
  <2>4. QED
    BY <2>2, <2>3
<1>15. QED
  BY <1>3, <1>10, <1>11, <1>13, <1>14
     DEF SessionInv, IndexNamesItsSession, PM!Has, PM!Find, PM!FindSessionByPlayerId

\* The handler of o takes m, a message of s.
LEMMA LaneStep1 ==
  ASSUME SessionInv, NEW o \in Owners, NEW types, TakeFromLane(o, types),
         NEW m, m = Head(lane[o]), NEW s, s = m.session
  PROVE  /\ m \in OnLane(o) /\ m.type \in types /\ s \in Sessions /\ job[o] = NoJob
         /\ o = s \/ o = AccountOf[s]
         /\ m.type \in {"connected", "login", "loginSuccess"} => o = s /\ Some(lane[s], m.type)
         /\ Row(lane', Lanes) /\ \A p \in Players : OnlyGame(p)'
         /\ \A c \in Sessions : c # s => lane'[c] = lane[c]
         /\ \A t : /\ t # m.type => (Some(lane'[s], t) <=> Some(lane[s], t))
                   /\ Some(lane'[s], t) => Some(lane[s], t)
                   /\ Once(lane[s], t) => Once(lane'[s], t)
                   /\ o = s /\ t = m.type /\ Once(lane[s], t) => ~Some(lane'[s], t)
<1>1. TypeOK
  BY DEF SessionInv
<1>2. /\ job[o] = NoJob /\ m \in OnLane(o) /\ m.type \in types /\ s \in Sessions
      /\ Row(lane', Lanes) /\ \A w \in Owners : w # o => lane'[w] = lane[w]
  BY <1>1, TakesLane
<1>3. Taken(lane[o], lane'[o], m) /\ Some(lane[o], m.type)
  BY <1>1, LaneTaken
<1>4. o = s \/ (o \in Players /\ o = AccountOf[s])
  <2>1. CASE o \in Sessions
    BY <1>2, <2>1 DEF OnLane
  <2>2. CASE o \in Players
    <3>1. o \notin Sessions
      BY <2>2, Domains
    <3>2. s \in SessionsOf(o)
      BY <1>2, <3>1 DEF OnLane
    <3>3. QED
      BY <2>2, <3>2 DEF SessionsOf
  <2>3. QED
    BY <2>1, <2>2, Domains
<1>5. m.type \in {"connected", "login", "loginSuccess"} => o = s /\ Some(lane[s], m.type)
  <2>1. \A p \in Players : OnlyGame(p)
    BY DEF SessionInv
  <2>2. QED
    BY <1>3, <1>4, <2>1 DEF OnlyGame
<1>6. \A c \in Sessions : c # s => lane'[c] = lane[c]
  BY <1>2, <1>4, Domains
<1>7. \A p \in Players : OnlyGame(p)'
  <2> SUFFICES ASSUME NEW p \in Players, NEW t \in {"connected", "login", "loginSuccess"}
               PROVE  ~Some(lane'[p], t)
    BY DEF OnlyGame
  <2>1. ~Some(lane[p], t)
    BY DEF SessionInv, OnlyGame
  <2>2. CASE p # o
    BY <1>2, <2>1, <2>2, Domains
  <2>3. CASE p = o
    BY <1>3, <2>1, <2>3 DEF Taken
  <2>4. QED
    BY <2>2, <2>3
<1>8. o # s => lane'[s] = lane[s]
  BY <1>2, Domains
<1>9. \A t : /\ t # m.type => (Some(lane'[s], t) <=> Some(lane[s], t))
             /\ Some(lane'[s], t) => Some(lane[s], t)
             /\ Once(lane[s], t) => Once(lane'[s], t)
             /\ o = s /\ t = m.type /\ Once(lane[s], t) => ~Some(lane'[s], t)
  <2>1. CASE o = s
    BY <1>3, <2>1 DEF Taken
  <2>2. CASE o # s
    BY <1>8, <2>2
  <2>3. QED
    BY <2>1, <2>2
<1>10. QED
  BY <1>2, <1>4, <1>5, <1>6, <1>7, <1>9

LEMMA ConnectedStep ==
  ASSUME SessionInv, NEW o \in Owners, HandleClientConnected(o)
  PROVE  SessionInv'
<1>0. PICK s : s = Head(lane[o]).session
  OBVIOUS
<1>1. /\ TakeFromLane(o, {"connected"}) /\ table' = PM!Add(table, s)
      /\ UNCHANGED <<clientVars, gateway, job, loading, dbVars, up, down, zoneVars, history>>
  BY <1>0 DEF HandleClientConnected
<1>2. /\ s \in Sessions /\ o = s /\ Some(lane[s], "connected")
      /\ Row(lane', Lanes) /\ \A p \in Players : OnlyGame(p)'
      /\ \A c \in Sessions : c # s => lane'[c] = lane[c]
      /\ \A t : /\ t # "connected" => (Some(lane'[s], t) <=> Some(lane[s], t))
                /\ Once(lane[s], t) => Once(lane'[s], t)
                /\ t = "connected" /\ Once(lane[s], t) => ~Some(lane'[s], t)
  BY <1>0, <1>1, LaneStep1
<1>3. TypeOK /\ SessionOK(s) /\ TableOK(table) /\ IndexNamesItsSession
  BY <1>2 DEF SessionInv, TypeOK
<1>4. /\ TableOK(table') /\ OnlyRow(table, table', s, PM!FreshInfo)
      /\ table'.sessionByPlayerId = table.sessionByPlayerId
  BY <1>1, <1>2, <1>3, AddTable
<1>5. TypeOK'
  BY <1>1, <1>2, <1>3, <1>4
     DEF TypeOK, QueuesOK, LinksOK, UnitsOK, clientVars, dbVars, zoneVars
<1>6. ~PM!Has(table, s) /\ client[s] # "new"
  BY <1>2, <1>3 DEF SessionOK, ConnectsOnce, Coming
<1>7. ASSUME NEW c \in Sessions, c # s PROVE SessionOK(c)'
  <2>1. PM!Has(table, c)' <=> PM!Has(table, c)
    BY <1>4, <1>7 DEF OnlyRow, PM!Has
  <2>2. PM!Has(table, c) => PM!Find(table, c)' = PM!Find(table, c)
    BY <1>4, <1>7 DEF OnlyRow, PM!Has, PM!Find
  <2>3. QED
    BY <1>1, <1>2, <1>7, <2>1, <2>2, SessionSame, SameUnseen
       DEF SessionInv, PM!Find, clientVars, zoneVars
<1>8. SessionOK(s)'
  <2>1. ~Some(lane'[s], "connected") /\ ~Some(gateway'[s], "connected")
    BY <1>1, <1>2, <1>3 DEF SessionOK, ConnectsOnce, ComesOnce
  <2>2. ConnectsOnce(s)'
    BY <1>1, <1>2, <1>3, <1>6, <2>1 DEF SessionOK, ConnectsOnce, ComesOnce, Coming, clientVars
  <2>3. ~Online(s)'
    BY <1>4 DEF OnlyRow, Online, PM!Has, PM!Find, PM!FreshInfo
  <2>4. LogsInOnce(s)'
    BY <1>1, <1>2, <1>3, <2>3 DEF SessionOK, LogsInOnce, LoggingIn, ComesOnce, Coming, clientVars
  <2>5. Unseen(s)'
    BY <1>1, <1>2, <1>3, SameUnseen DEF SessionOK, Fresh, Coming, zoneVars
  <2>6. QED
    BY <2>2, <2>4, <2>5 DEF SessionOK
<1>9. IndexNamesItsSession'
  BY <1>3, <1>4, <1>6
     DEF IndexNamesItsSession, OnlyRow, PM!Has, PM!Find, PM!FindSessionByPlayerId
<1>10. QED
  BY <1>2, <1>5, <1>7, <1>8, <1>9 DEF SessionInv

LEMMA HandleLoginStep ==
  ASSUME SessionInv, NEW o \in Owners, HandleLogin(o)
  PROVE  SessionInv'
<1>0. PICK s : s = Head(lane[o]).session
  OBVIOUS
<1>1. /\ TakeFromLane(o, {"login"})
      /\ loading' = loading \/ loading' = loading \cup {s}
      /\ UNCHANGED <<clientVars, gateway, job, table, dbVars, up, down, zoneVars, history>>
  BY <1>0 DEF HandleLogin
<1>2. /\ s \in Sessions /\ o = s /\ Some(lane[s], "login")
      /\ Row(lane', Lanes) /\ \A p \in Players : OnlyGame(p)'
      /\ \A c \in Sessions : c # s => lane'[c] = lane[c]
      /\ \A t : /\ t # "login" => (Some(lane'[s], t) <=> Some(lane[s], t))
                /\ Once(lane[s], t) => Once(lane'[s], t)
                /\ t = "login" /\ Once(lane[s], t) => ~Some(lane'[s], t)
  BY <1>0, <1>1, LaneStep1
<1>3. TypeOK /\ SessionOK(s)
  BY <1>2 DEF SessionInv
<1>4. TypeOK'
  BY <1>1, <1>2, <1>3
     DEF TypeOK, QueuesOK, LinksOK, UnitsOK, clientVars, dbVars, zoneVars
<1>5. ASSUME NEW c \in Sessions, c # s PROVE SessionOK(c)'
  BY <1>1, <1>2, <1>5, SessionSame, SameUnseen
     DEF SessionInv, PM!Has, PM!Find, clientVars, zoneVars
<1>6. SessionOK(s)'
  <2>1. ~Some(lane'[s], "login") /\ ~Some(gateway'[s], "login")
    BY <1>1, <1>2, <1>3 DEF SessionOK, LogsInOnce, ComesOnce
  <2>2. /\ (Online(s)' <=> Online(s)) /\ (PM!Has(table, s)' <=> PM!Has(table, s))
        /\ (Fresh(s)' <=> Fresh(s)) /\ client' = client
    BY <1>1, <1>2 DEF Online, Fresh, Coming, PM!Has, PM!Find, clientVars
  <2>3. ConnectsOnce(s)'
    BY <1>1, <1>2, <1>3, <2>2 DEF SessionOK, ConnectsOnce, ComesOnce, Coming
  <2>4. LogsInOnce(s)'
    BY <1>1, <1>2, <1>3, <2>1, <2>2 DEF SessionOK, LogsInOnce, LoggingIn, ComesOnce, Coming
  <2>5. QED
    BY <1>1, <1>3, <2>2, <2>3, <2>4, SameUnseen DEF SessionOK, zoneVars
<1>7. QED
  BY <1>1, <1>2, <1>4, <1>5, <1>6
     DEF SessionInv, IndexNamesItsSession, PM!Has, PM!Find, PM!FindSessionByPlayerId

LEMMA LoadStep ==
  ASSUME SessionInv, NEW s \in Sessions, LoadPlayerContent(s)
  PROVE  SessionInv'
<1> DEFINE m == Msg("loginSuccess", s, NoZone, db[AccountOf[s]])
<1>1. /\ s \in loading /\ loading' = loading \ {s} /\ ToLane(s, m)
      /\ UNCHANGED <<clientVars, gateway, job, table, dbVars, up, down, zoneVars, history>>
  BY DEF LoadPlayerContent, ToLane
<1>2. TypeOK /\ SessionOK(s)
  BY DEF SessionInv
<1>3. m \in OnLane(s) /\ m.type = "loginSuccess"
  <2>1. db[AccountOf[s]] \in Nat
    BY <1>2, Domains DEF TypeOK
  <2>2. QED
    BY <2>1 DEF OnLane, Msg, Somewhere
<1> HIDE DEF m
<1>4. /\ Row(lane', Lanes) /\ Added(lane[s], lane'[s], m)
      /\ \A w \in Owners : w # s => lane'[w] = lane[w]
  BY <1>1, <1>2, <1>3, LanePut, Domains
<1>5. TypeOK'
  BY <1>1, <1>2, <1>4
     DEF TypeOK, QueuesOK, LinksOK, UnitsOK, clientVars, dbVars, zoneVars
<1>6. ASSUME NEW c \in Sessions, c # s PROVE SessionOK(c)'
  <2>1. lane'[c] = lane[c] /\ (c \in loading' <=> c \in loading)
    BY <1>1, <1>4, <1>6, Domains
  <2>2. QED
    BY <1>1, <1>6, <2>1, SessionSame, SameUnseen
       DEF SessionInv, PM!Has, PM!Find, clientVars, zoneVars
<1>7. SessionOK(s)'
  <2>1. /\ (Online(s)' <=> Online(s)) /\ (PM!Has(table, s)' <=> PM!Has(table, s)) /\ client' = client
    BY <1>1 DEF Online, PM!Has, PM!Find, clientVars
  <2>2. \A t : /\ t # "loginSuccess" => (Some(lane'[s], t) <=> Some(lane[s], t))
               /\ t # "loginSuccess" /\ Once(lane[s], t) => Once(lane'[s], t)
    BY <1>3, <1>4 DEF Added
  <2>3. ~Some(lane[s], "loginSuccess") /\ Once(lane'[s], "loginSuccess")
    BY <1>1, <1>2, <1>4 DEF SessionOK, LogsInOnce, Added
  <2>4. ConnectsOnce(s)'
    BY <1>1, <1>2, <2>1, <2>2 DEF SessionOK, ConnectsOnce, ComesOnce, Coming
  <2>5. LogsInOnce(s)'
    BY <1>1, <1>2, <2>1, <2>2, <2>3 DEF SessionOK, LogsInOnce, LoggingIn, ComesOnce, Coming
  <2>6. Fresh(s)' <=> Fresh(s)
    BY <1>1, <2>1, <2>2 DEF Fresh, Coming, PM!Has, PM!Find
  <2>7. QED
    BY <1>1, <1>2, <2>4, <2>5, <2>6, SameUnseen DEF SessionOK, zoneVars
<1>8. \A p \in Players : OnlyGame(p)'
  <2>1. \A p \in Players : lane'[p] = lane[p]
    BY <1>4, Domains
  <2>2. QED
    BY <2>1 DEF SessionInv, OnlyGame
<1>9. QED
  BY <1>1, <1>5, <1>6, <1>7, <1>8
     DEF SessionInv, IndexNamesItsSession, PM!Has, PM!Find, PM!FindSessionByPlayerId

\* A handler remembers what it still has to send.
LEMMA JobPut ==
  ASSUME TypeOK, NEW o \in Owners, NEW j \in JobOf(o), job' = [job EXCEPT ![o] = j]
  PROVE  /\ Row(job', Jobs) /\ job'[o] = j
         /\ \A w \in Owners : w # o => job'[w] = job[w]
<1>1. Row(job, Jobs) /\ o \in DOMAIN Jobs /\ Jobs[o] = JobOf(o) /\ DOMAIN Jobs = Owners
  BY Domains DEF TypeOK, QueuesOK, Jobs
<1>2. Row([job EXCEPT ![o] = j], Jobs)
  BY <1>1, RowSet
<1>3. job'[o] = j /\ \A w \in Owners : w # o => job'[w] = job[w]
  BY <1>1 DEF Row
<1>4. QED
  BY <1>2, <1>3

LEMMA JobAt ==
  ASSUME TypeOK, NEW o \in Owners
  PROVE  /\ job[o] \in JobOf(o)
         /\ job[o] # NoJob => /\ job[o].session \in Sessions
                              /\ o = job[o].session \/ o = AccountOf[job[o].session]
                              /\ job[o].gold \in Nat
         /\ job[o].do \in {"none", "enter", "enterFromCache", "leave", "forget"}
         /\ job[o].do = "none" <=> job[o] = NoJob
         /\ \/ job[o] = NoJob
            \/ job[o].zone \in Zones /\ job[o].player = AccountOf[job[o].session]
            \/ job[o].do = "forget" /\ job[o].zone = NoZone
         /\ job[o].do = "enter" => o \in Sessions /\ job[o].zone = EntryZone
         /\ job[o].do = "enterFromCache" => o \in Players
<1>1. job[o] \in JobOf(o)
  BY Domains DEF TypeOK, QueuesOK, Row, Jobs
<1>2. CASE job[o] = NoJob
  BY <1>1, <1>2 DEF NoJob
<1>3. CASE job[o] # NoJob /\ o \in Sessions
  BY <1>1, <1>3, ZoneHandoffAssumption DEF JobOf
<1>4. CASE job[o] # NoJob /\ o \notin Sessions
  BY <1>1, <1>4, Domains DEF JobOf, SessionsOf
<1>5. QED
  BY <1>2, <1>3, <1>4

LEMMA CompleteLoginStep ==
  ASSUME SessionInv, NEW o \in Owners, CompleteLogin(o)
  PROVE  SessionInv'
<1>0. PICK s, gold : s = Head(lane[o]).session /\ gold = Head(lane[o]).gold
  OBVIOUS
<1> DEFINE j == Job("enter", EntryZone, s, AccountOf[s], gold)
<1>1. /\ TakeFromLane(o, {"loginSuccess"})
      /\ UNCHANGED <<clientVars, gateway, loading, dbVars, up, down, zoneVars, history>>
      /\ IF PM!Has(table, s)
         THEN /\ table' = PM!SetZoneId(PM!SetAuthenticated(table, s, AccountOf[s], {}, gold), s, EntryZone)
              /\ job' = [job EXCEPT ![o] = j]
         ELSE UNCHANGED <<table, job>>
  BY <1>0 DEF CompleteLogin
<1>2. /\ s \in Sessions /\ o = s /\ Some(lane[s], "loginSuccess") /\ gold \in Nat
      /\ Row(lane', Lanes) /\ \A p \in Players : OnlyGame(p)'
      /\ \A c \in Sessions : c # s => lane'[c] = lane[c]
      /\ \A t : /\ t # "loginSuccess" => (Some(lane'[s], t) <=> Some(lane[s], t))
                /\ Once(lane[s], t) => Once(lane'[s], t)
                /\ t = "loginSuccess" /\ Once(lane[s], t) => ~Some(lane'[s], t)
  <2>1. Head(lane[o]) \in OnLane(o)
    BY <1>0, <1>1, LaneStep1
  <2>2. Head(lane[o]).gold \in Nat
    BY <2>1 DEF OnLane
  <2>3. QED
    BY <1>0, <1>1, <2>2, LaneStep1
<1>3. TypeOK /\ SessionOK(s) /\ TableOK(table) /\ IndexNamesItsSession
  BY <1>2 DEF SessionInv, TypeOK
<1>4. ~Some(lane'[s], "loginSuccess") /\ Once(lane'[s], "loginSuccess")
  BY <1>2, <1>3 DEF SessionOK, LogsInOnce
<1>5. /\ client' = client /\ gateway' = gateway /\ loading' = loading
  BY <1>1 DEF clientVars
<1>6. CASE ~PM!Has(table, s)
  <2>1. table' = table /\ job' = job
    BY <1>1, <1>6
  <2>2. TypeOK'
    BY <1>1, <1>2, <1>3, <2>1
       DEF TypeOK, QueuesOK, LinksOK, UnitsOK, clientVars, dbVars, zoneVars
  <2>3. ASSUME NEW c \in Sessions, c # s PROVE SessionOK(c)'
    BY <1>1, <1>2, <1>5, <2>1, <2>3, SessionSame, SameUnseen DEF SessionInv, PM!Has, PM!Find, zoneVars
  <2>4. SessionOK(s)'
    <3>1. /\ (Online(s)' <=> Online(s)) /\ (PM!Has(table, s)' <=> PM!Has(table, s))
          /\ (Fresh(s)' <=> Fresh(s))
      BY <1>2, <1>5, <2>1 DEF Online, Fresh, Coming, PM!Has, PM!Find
    <3>2. ConnectsOnce(s)'
      BY <1>2, <1>3, <1>5, <3>1 DEF SessionOK, ConnectsOnce, ComesOnce, Coming
    <3>3. LogsInOnce(s)'
      BY <1>2, <1>3, <1>4, <1>5, <3>1 DEF SessionOK, LogsInOnce, LoggingIn, ComesOnce, Coming
    <3>4. QED
      BY <1>1, <1>3, <2>1, <3>1, <3>2, <3>3, SameUnseen DEF SessionOK, zoneVars
  <2>5. IndexNamesItsSession'
    BY <1>3, <2>1 DEF IndexNamesItsSession, PM!Has, PM!Find, PM!FindSessionByPlayerId
  <2>6. QED
    BY <1>2, <2>2, <2>3, <2>4, <2>5 DEF SessionInv
<1>7. CASE PM!Has(table, s)
  <2>1. PICK i : /\ TableOK(table') /\ OnlyRow(table, table', s, i)
                 /\ i.authenticated /\ i.zoneId = EntryZone /\ i.playerId = AccountOf[s]
                 /\ table'.sessionByPlayerId = PM!With(table.sessionByPlayerId, AccountOf[s], s)
    BY <1>1, <1>2, <1>3, <1>7, ConfirmTable DEF PM!Has
  <2>2. j \in JobOf(s) /\ job' = [job EXCEPT ![s] = j]
    BY <1>1, <1>2, <1>7, Domains DEF JobOf, Job
  <2> HIDE DEF j
  <2>3. Row(job', Jobs) /\ \A w \in Owners : w # s => job'[w] = job[w]
    BY <1>2, <1>3, <2>2, JobPut
  <2>4. TypeOK'
    BY <1>1, <1>2, <1>3, <2>1, <2>3
       DEF TypeOK, QueuesOK, LinksOK, UnitsOK, clientVars, dbVars, zoneVars
  <2>5. ASSUME NEW c \in Sessions, c # s PROVE SessionOK(c)'
    <3>1. PM!Has(table, c)' <=> PM!Has(table, c)
      BY <2>1, <2>5 DEF OnlyRow, PM!Has
    <3>2. PM!Has(table, c) => PM!Find(table, c)' = PM!Find(table, c)
      BY <2>1, <2>5 DEF OnlyRow, PM!Has, PM!Find
    <3>3. Unseen(c) => Unseen(c)'
      <4>1. job'[c] = job[c] /\ job'[AccountOf[c]] = job[AccountOf[c]]
        BY <1>2, <2>3, <2>5, Domains
      <4>2. QED
        BY <1>1, <4>1 DEF Unseen, SessionsAt, zoneVars
    <3>4. QED
      BY <1>2, <1>5, <2>5, <3>1, <3>2, <3>3, SessionSame DEF SessionInv, PM!Find
  <2>6. SessionOK(s)'
    <3>1. PM!Has(table, s)' /\ Online(s)'
      BY <2>1 DEF OnlyRow, Online, PM!Has, PM!Find
    <3>2. client[s] # "new" /\ ~Coming(s, "connected")
      BY <1>3, <1>7 DEF SessionOK, ConnectsOnce
    <3>3. ~Coming(s, "connected")'
      BY <1>2, <1>5, <3>2 DEF Coming
    <3>4. ~Fresh(s)'
      BY <1>5, <3>1, <3>2, <3>3 DEF Fresh, Online
    <3>5. ConnectsOnce(s)'
      BY <1>2, <1>3, <1>5, <3>2, <3>3 DEF SessionOK, ConnectsOnce, ComesOnce
    <3>6. LoggingIn(s)
      BY <1>2 DEF LoggingIn
    <3>7. ~LoggingIn(s)' /\ client[s] \notin {"new", "open"}
      BY <1>2, <1>3, <1>4, <1>5, <3>6 DEF SessionOK, LogsInOnce, LoggingIn, Coming
    <3>8. LogsInOnce(s)'
      BY <1>2, <1>3, <1>4, <1>5, <3>7 DEF SessionOK, LogsInOnce, LoggingIn, ComesOnce, Coming
    <3>9. QED
      BY <3>4, <3>5, <3>8 DEF SessionOK
  <2>7. IndexNamesItsSession'
    <3>1. SUFFICES ASSUME NEW p \in DOMAIN table'.sessionByPlayerId
                   PROVE  /\ table'.sessionByPlayerId[p] \in DOMAIN table'.players
                          /\ table'.players[table'.sessionByPlayerId[p]].playerId = p
      BY DEF IndexNamesItsSession, PM!Has, PM!Find, PM!FindSessionByPlayerId
    <3>2. CASE p = AccountOf[s]
      <4>1. table'.sessionByPlayerId[p] = s
        BY <2>1, <3>2 DEF PM!With
      <4>2. QED
        BY <2>1, <3>2, <4>1 DEF OnlyRow
    <3>3. CASE p # AccountOf[s]
      <4>1. p \in DOMAIN table.sessionByPlayerId /\ table'.sessionByPlayerId[p] = table.sessionByPlayerId[p]
        BY <2>1, <3>3 DEF PM!With
      <4>2. PICK c : c = table.sessionByPlayerId[p]
        OBVIOUS
      <4>3. c \in DOMAIN table.players /\ table.players[c].playerId = p /\ p \in Players
        BY <1>3, <4>1, <4>2
           DEF IndexNamesItsSession, PM!Has, PM!Find, PM!FindSessionByPlayerId, TableOK
      <4>4. c # s
        BY <1>3, <3>3, <4>3, ZoneHandoffAssumption DEF TableOK, RowOK
      <4>5. QED
        BY <2>1, <4>1, <4>2, <4>3, <4>4 DEF OnlyRow
    <3>4. QED
      BY <3>2, <3>3
  <2>8. QED
    BY <1>2, <2>4, <2>5, <2>6, <2>7 DEF SessionInv
<1>8. QED
  BY <1>6, <1>7

\* A confirmed session is fresh no more.
LEMMA ConfirmedNotFresh ==
  ASSUME NEW s \in Sessions, SessionOK(s), Online(s)
  PROVE  ~Fresh(s)
BY DEF SessionOK, ConnectsOnce, Fresh, Online

\* The handler of a lane leaves what precedes the login alone.
LEMMA GameStep ==
  ASSUME SessionInv, TypeOK', NEW o \in Owners, TakeFromLane(o, {"move", "buy", "disconnected"}),
         UNCHANGED <<client, gateway, loading>>,
         \A c \in Sessions : Fresh(c) /\ Unseen(c) => Unseen(c)',
         \A c \in Sessions :
            /\ PM!Has(table, c)' <=> PM!Has(table, c)
            /\ PM!Has(table, c) => (PM!Find(table, c).authenticated' <=> PM!Find(table, c).authenticated),
         IndexNamesItsSession'
  PROVE  SessionInv'
<1>0. PICK s : s = Head(lane[o]).session
  OBVIOUS
<1>1. /\ s \in Sessions /\ \A p \in Players : OnlyGame(p)'
      /\ \A c \in Sessions : c # s => lane'[c] = lane[c]
      /\ \A t : /\ t \in {"connected", "login", "loginSuccess"} => (Some(lane'[s], t) <=> Some(lane[s], t))
                /\ Once(lane[s], t) => Once(lane'[s], t)
  BY <1>0, LaneStep1
<1>2. ASSUME NEW c \in Sessions, c # s PROVE SessionOK(c)'
  BY <1>1, <1>2, SessionSame DEF SessionInv
<1>3. SessionOK(s)'
  <2>1. SessionOK(s)
    BY <1>1 DEF SessionInv
  <2>2. /\ (Online(s)' <=> Online(s)) /\ (PM!Has(table, s)' <=> PM!Has(table, s))
        /\ (Fresh(s)' <=> Fresh(s))
    BY <1>1 DEF Online, Fresh, Coming
  <2>3. ConnectsOnce(s)'
    BY <1>1, <2>1, <2>2 DEF SessionOK, ConnectsOnce, ComesOnce, Coming
  <2>4. LogsInOnce(s)'
    BY <1>1, <2>1, <2>2 DEF SessionOK, LogsInOnce, LoggingIn, ComesOnce, Coming
  <2>5. QED
    BY <1>1, <2>1, <2>2, <2>3, <2>4 DEF SessionOK
<1>4. QED
  BY <1>1, <1>2, <1>3 DEF SessionInv

(***************************************************************************)
(* What World's handlers do once a session is logged in.                   *)
(***************************************************************************)

\* A change of a row that keeps its account keeps the index right.
LEMMA IndexKept ==
  ASSUME IndexNamesItsSession, NEW s, NEW i, s \in DOMAIN table.players,
         OnlyRow(table, table', s, i), i.playerId = table.players[s].playerId,
         table'.sessionByPlayerId = table.sessionByPlayerId
  PROVE  IndexNamesItsSession'
BY DEF IndexNamesItsSession, OnlyRow, PM!Has, PM!Find, PM!FindSessionByPlayerId

LEMMA RowKept ==
  ASSUME NEW s, NEW i, s \in DOMAIN table.players, OnlyRow(table, table', s, i),
         i.authenticated = table.players[s].authenticated, NEW c
  PROVE  /\ PM!Has(table, c)' <=> PM!Has(table, c)
         /\ PM!Has(table, c) => (PM!Find(table, c).authenticated' <=> PM!Find(table, c).authenticated)
BY DEF OnlyRow, PM!Has, PM!Find

\* A session that a link, a zone or a handler knows has been confirmed.
LEMMA SeenNotFresh ==
  ASSUME SessionInv, NEW s \in Sessions,
         \/ SendsFor(job[s]) = s \/ SendsFor(job[AccountOf[s]]) = s
         \/ \E z \in Zones : s \in SessionsAt(z, AccountOf[s])
  PROVE  /\ ~Fresh(s)
         /\ s \in DOMAIN table.players => table.players[s].authenticated
BY DEF SessionInv, SessionOK, Unseen, Fresh, PM!Has, PM!Find

\* Whatever a handler sends of s is new to no other session.
LEMMA UnseenKept ==
  ASSUME NEW s \in Sessions, NEW c \in Sessions, c # s, unit' = unit,
         \A o \in Owners : SendsFor(job'[o]) \in {SendsFor(job[o]), NoSession, s},
         \A z \in Zones, p \in Players :
            Of(up'[z][p]) \subseteq Of(up[z][p]) /\ Of(down'[z][p]) \subseteq Of(down[z][p]) \cup {s}
  PROVE  Unseen(c) => Unseen(c)'
<1> HAVE Unseen(c)
<1>1. AccountOf[c] \in Players /\ AccountOf[c] \in Owners /\ c \in Owners /\ c # NoSession
  BY Domains, ZoneHandoffAssumption
<1>2. SendsFor(job'[c]) # c /\ SendsFor(job'[AccountOf[c]]) # c
  BY <1>1 DEF Unseen
<1>3. ASSUME NEW z \in Zones PROVE c \notin SessionsAt(z, AccountOf[c])'
  <2>1. c \notin SessionsAt(z, AccountOf[c])
    BY DEF Unseen
  <2>2. /\ Of(up'[z][AccountOf[c]]) \subseteq Of(up[z][AccountOf[c]])
        /\ Of(down'[z][AccountOf[c]]) \subseteq Of(down[z][AccountOf[c]]) \cup {s}
    BY <1>1
  <2>3. QED
    BY <2>1, <2>2 DEF SessionsAt
<1>4. QED
  BY <1>2, <1>3 DEF Unseen

LEMMA WorldStep ==
  ASSUME SessionInv, TypeOK', UNCHANGED <<client, gateway, loading, lane>>,
         \A c \in Sessions : Fresh(c) /\ Unseen(c) => Unseen(c)',
         \A c \in Sessions :
            /\ PM!Has(table, c)' <=> PM!Has(table, c)
            /\ PM!Has(table, c) => (PM!Find(table, c).authenticated' <=> PM!Find(table, c).authenticated),
         IndexNamesItsSession'
  PROVE  SessionInv'
<1>1. ASSUME NEW c \in Sessions PROVE SessionOK(c)'
  BY <1>1, SessionSame DEF SessionInv
<1>2. ASSUME NEW p \in Players PROVE OnlyGame(p)'
  BY <1>2 DEF SessionInv, OnlyGame
<1>3. QED
  BY <1>1, <1>2 DEF SessionInv

LEMMA HandleFromClientStep ==
  ASSUME SessionInv, NEW o \in Owners, HandleFromClient(o)
  PROVE  SessionInv'
<1>0. PICK m : m = Head(lane[o])
  OBVIOUS
<1>1. PICK s : s = m.session
  OBVIOUS
<1>2. /\ TakeFromLane(o, {"move", "buy"})
      /\ UNCHANGED <<client, moves, buys, gateway, job, table, loading, dbVars, up, zoneVars, history>>
      /\ IF PM!Has(table, s) /\ PM!Find(table, s).authenticated
         THEN ToZone(PM!Find(table, s).zoneId, PM!Find(table, s).playerId, m)
         ELSE UNCHANGED down
  BY <1>0, <1>1 DEF HandleFromClient, clientVars
<1>3. /\ m \in OnLane(o) /\ m.type \in {"move", "buy"} /\ s \in Sessions
      /\ o = s \/ o = AccountOf[s]
      /\ Row(lane', Lanes)
  BY <1>0, <1>1, <1>2, LaneStep1
<1>4. TypeOK /\ SessionOK(s) /\ TableOK(table) /\ IndexNamesItsSession
  BY <1>3 DEF SessionInv, TypeOK
<1>5. TakeFromLane(o, {"move", "buy", "disconnected"})
  BY <1>2 DEF TakeFromLane
<1>6. IndexNamesItsSession'
  BY <1>2, <1>4 DEF IndexNamesItsSession, PM!Has, PM!Find, PM!FindSessionByPlayerId
<1>7. \A c \in Sessions :
         /\ PM!Has(table, c)' <=> PM!Has(table, c)
         /\ PM!Has(table, c) => (PM!Find(table, c).authenticated' <=> PM!Find(table, c).authenticated)
  BY <1>2 DEF PM!Has, PM!Find
<1>8. CASE Online(s)
  <2>1. PICK z, p : z = PM!Find(table, s).zoneId /\ p = PM!Find(table, s).playerId
    OBVIOUS
  <2>2. z \in Zones /\ p = AccountOf[s] /\ p \in Players
    BY <1>3, <1>4, <1>8, <2>1, Domains DEF TableOK, RowOK, Online, PM!Has, PM!Find
  <2>3. m \in ToPlayer(p) /\ ToZone(z, p, m)
    BY <1>1, <1>2, <1>3, <1>8, <2>1, <2>2 DEF OnLane, ToPlayer, SessionsOf, Online
  <2>4. /\ Grid(down', Downs) /\ Of(down'[z][p]) = Of(down[z][p]) \cup {m.session}
        /\ \A y \in Zones, q \in Players : y # z \/ q # p => down'[y][q] = down[y][q]
    BY <1>4, <2>2, <2>3, Sends
  <2>5. TypeOK'
    BY <1>2, <1>3, <1>4, <2>4
       DEF TypeOK, QueuesOK, LinksOK, UnitsOK, dbVars, zoneVars
  <2>6. ASSUME NEW c \in Sessions, Fresh(c), Unseen(c) PROVE Unseen(c)'
    <3>1. c # s
      BY <1>4, <1>8, <2>6, ConfirmedNotFresh
    <3>2. \A y \in Zones, q \in Players :
             Of(up'[y][q]) \subseteq Of(up[y][q]) /\ Of(down'[y][q]) \subseteq Of(down[y][q]) \cup {s}
      <4>1. ASSUME NEW y \in Zones, NEW q \in Players
            PROVE  Of(down'[y][q]) \subseteq Of(down[y][q]) \cup {s}
        BY <1>1, <2>4
      <4>2. QED
        BY <1>2, <4>1
    <3>3. \A w \in Owners : SendsFor(job'[w]) \in {SendsFor(job[w]), NoSession, s}
      BY <1>2
    <3>4. unit' = unit
      BY <1>2 DEF zoneVars
    <3>5. QED
      BY <1>3, <2>6, <3>1, <3>2, <3>3, <3>4, UnseenKept
  <2>7. QED
    BY <1>2, <1>5, <1>6, <1>7, <2>5, <2>6, GameStep
<1>9. CASE ~Online(s)
  <2>1. down' = down
    BY <1>2, <1>9 DEF Online
  <2>2. TypeOK'
    BY <1>2, <1>3, <1>4, <2>1
       DEF TypeOK, QueuesOK, LinksOK, UnitsOK, dbVars, zoneVars
  <2>3. \A c \in Sessions : Unseen(c) => Unseen(c)'
    BY <1>2, <2>1, SameUnseen DEF zoneVars
  <2>4. QED
    BY <1>2, <1>5, <1>6, <1>7, <2>2, <2>3, GameStep
<1>10. QED
  BY <1>8, <1>9

LEMMA DisconnectedStep ==
  ASSUME SessionInv, NEW o \in Owners, HandleClientDisconnected(o)
  PROVE  SessionInv'
<1>0. PICK s, z, p : /\ s = Head(lane[o]).session
                     /\ z = PM!Find(table, s).zoneId /\ p = PM!Find(table, s).playerId
  OBVIOUS
<1>1. PICK j : j = Job("forget", z, s, p, 0)
  OBVIOUS
<1>2. /\ TakeFromLane(o, {"disconnected"})
      /\ UNCHANGED <<client, moves, buys, gateway, table, loading, dbVars, up, down, zoneVars, history>>
      /\ job' = IF PM!Has(table, s) THEN [job EXCEPT ![o] = j] ELSE job
  BY <1>0, <1>1 DEF HandleClientDisconnected, clientVars
<1>3. s \in Sessions /\ (o = s \/ o = AccountOf[s]) /\ Row(lane', Lanes) /\ job[o] = NoJob
  BY <1>0, <1>2, LaneStep1
<1>4. TypeOK /\ SessionOK(s) /\ TableOK(table) /\ IndexNamesItsSession
  BY <1>3 DEF SessionInv, TypeOK
<1>5. j = [do |-> "forget", zone |-> z, session |-> s, player |-> p, gold |-> 0]
  BY <1>1 DEF Job
<1>6. ASSUME PM!Has(table, s)
      PROVE  /\ j \in JobOf(o) /\ SendsFor(j) \in {NoSession, s}
             /\ ~Online(s) => SendsFor(j) = NoSession
  <2>1. \/ z \in Zones /\ p = AccountOf[s]
        \/ z = NoZone /\ p = NoPlayer
    BY <1>0, <1>4, <1>6 DEF TableOK, RowOK, PM!Has, PM!Find
  <2>2. j \in JobOf(o)
    <3>1. CASE o = s
      BY <1>3, <1>5, <2>1, <3>1, Domains DEF JobOf
    <3>2. CASE o = AccountOf[s]
      <4>1. o \notin Sessions /\ s \in SessionsOf(o)
        BY <1>3, <3>2, Domains DEF SessionsOf
      <4>2. QED
        BY <1>5, <2>1, <3>2, <4>1 DEF JobOf
    <3>3. QED
      BY <1>3, <3>1, <3>2
  <2>3. ~Online(s) => z = NoZone
    BY <1>0, <1>4, <1>6 DEF TableOK, RowOK, Online, PM!Has, PM!Find
  <2>4. QED
    BY <1>5, <2>2, <2>3 DEF SendsFor
<1>7. /\ Row(job', Jobs)
      /\ \A w \in Owners : /\ SendsFor(job'[w]) \in {SendsFor(job[w]), NoSession, s}
                           /\ ~Online(s) => SendsFor(job'[w]) \in {SendsFor(job[w]), NoSession}
  <2>1. CASE ~PM!Has(table, s)
    BY <1>2, <1>4, <2>1 DEF TypeOK, QueuesOK
  <2>2. CASE PM!Has(table, s)
    <3>1. Row(job', Jobs) /\ job'[o] = j /\ \A w \in Owners : w # o => job'[w] = job[w]
      BY <1>2, <1>4, <1>6, <2>2, JobPut
    <3>2. QED
      BY <1>6, <2>2, <3>1
  <2>3. QED
    BY <2>1, <2>2
<1>8. TypeOK'
  BY <1>2, <1>3, <1>4, <1>7 DEF TypeOK, QueuesOK, LinksOK, UnitsOK, dbVars, zoneVars
<1>9. ASSUME NEW c \in Sessions, Fresh(c), Unseen(c) PROVE Unseen(c)'
  <2>1. CASE c # s
    BY <1>2, <1>3, <1>7, <1>9, <2>1, UnseenKept DEF zoneVars
  <2>2. CASE c = s
    <3>1. ~Online(s)
      BY <1>3, <1>4, <1>9, <2>2, ConfirmedNotFresh
    <3>2. AccountOf[s] \in Owners /\ s \in Owners /\ s # NoSession
      BY <1>3, Domains, ZoneHandoffAssumption
    <3>3. SendsFor(job'[s]) # s /\ SendsFor(job'[AccountOf[s]]) # s
      BY <1>7, <1>9, <2>2, <3>1, <3>2 DEF Unseen
    <3>4. QED
      BY <1>2, <1>9, <2>2, <3>3 DEF Unseen, SessionsAt, zoneVars
  <2>3. QED
    BY <2>1, <2>2
<1>10. IndexNamesItsSession'
  BY <1>2, <1>4 DEF IndexNamesItsSession, PM!Has, PM!Find, PM!FindSessionByPlayerId
<1>11. \A c \in Sessions :
          /\ PM!Has(table, c)' <=> PM!Has(table, c)
          /\ PM!Has(table, c) => (PM!Find(table, c).authenticated' <=> PM!Find(table, c).authenticated)
  BY <1>2 DEF PM!Has, PM!Find
<1>12. TakeFromLane(o, {"move", "buy", "disconnected"})
  BY <1>2 DEF TakeFromLane
<1>13. QED
  BY <1>2, <1>8, <1>9, <1>10, <1>11, <1>12, GameStep

\* What forgetting a client does to the handler's job.
LEMMA ForgetEffect ==
  ASSUME TypeOK, NEW o \in Owners, ForgetClient(o), NEW s, s = job[o].session
  PROVE  /\ s \in Sessions /\ (o = s \/ o = AccountOf[s]) /\ table' = PM!Remove(table, s)
         /\ Row(job', Jobs) /\ \A w \in Owners : w # o => job'[w] = job[w]
         /\ IF job[o].zone \in Zones THEN job'[o].do = "leave" /\ job'[o].zone = job[o].zone
            ELSE job'[o] = NoJob
         /\ SendsFor(job'[o]) \in {SendsFor(job[o]), NoSession}
<1>1. PICK j, k : /\ j = job[o]
                  /\ k = IF LinkToLeave(j.zone) THEN [j EXCEPT !.do = "leave"] ELSE NoJob
  OBVIOUS
<1>2. j.do = "forget" /\ table' = PM!Remove(table, s) /\ job' = [job EXCEPT ![o] = k]
  BY <1>1 DEF ForgetClient
<1>3. j \in JobOf(o) /\ s \in Sessions /\ (o = s \/ o = AccountOf[s])
  BY <1>1, <1>2, JobAt DEF NoJob
<1>4. CASE j.zone \in Zones
  <2>1. k = [j EXCEPT !.do = "leave"]
    BY <1>1, <1>4 DEF LinkToLeave
  <2>2. k \in JobOf(o) /\ k.do = "leave" /\ k.zone = j.zone /\ k.session = j.session
    <3>1. CASE o \in Sessions
      BY <1>2, <1>3, <1>4, <2>1, <3>1, ZoneHandoffAssumption DEF JobOf, NoJob
    <3>2. CASE o \notin Sessions
      BY <1>2, <1>3, <1>4, <2>1, <3>2, ZoneHandoffAssumption DEF JobOf, NoJob
    <3>3. QED
      BY <3>1, <3>2
  <2>3. SendsFor(k) = SendsFor(j)
    BY <1>2, <1>4, <2>2, ZoneHandoffAssumption DEF SendsFor
  <2>4. Row(job', Jobs) /\ job'[o] = k /\ \A w \in Owners : w # o => job'[w] = job[w]
    BY <1>2, <2>2, JobPut
  <2>5. QED
    BY <1>1, <1>2, <1>3, <1>4, <2>2, <2>3, <2>4
<1>5. CASE j.zone \notin Zones
  <2>1. k = NoJob /\ k \in JobOf(o)
    BY <1>1, <1>5 DEF LinkToLeave, JobOf
  <2>2. SendsFor(k) = NoSession
    BY <2>1 DEF SendsFor, NoJob
  <2>3. Row(job', Jobs) /\ job'[o] = k /\ \A w \in Owners : w # o => job'[w] = job[w]
    BY <1>2, <2>1, JobPut
  <2>4. QED
    BY <1>1, <1>2, <1>3, <1>5, <2>1, <2>2, <2>3
<1>6. QED
  BY <1>4, <1>5

LEMMA ForgetStep ==
  ASSUME SessionInv, NEW o \in Owners, ForgetClient(o)
  PROVE  SessionInv'
<1>0. PICK s : s = job[o].session
  OBVIOUS
<1>1. TypeOK /\ TableOK(table) /\ IndexNamesItsSession
  BY DEF SessionInv, TypeOK
<1>2. UNCHANGED <<client, moves, buys, gateway, lane, loading, dbVars, up, down, zoneVars>>
  BY DEF ForgetClient, clientVars
<1>3. /\ s \in Sessions /\ (o = s \/ o = AccountOf[s]) /\ table' = PM!Remove(table, s)
      /\ Row(job', Jobs)
      /\ \A w \in Owners : SendsFor(job'[w]) \in {SendsFor(job[w]), NoSession}
  BY <1>0, <1>1, ForgetEffect
<1>4. ASSUME NEW c \in Sessions, Unseen(c) PROVE Unseen(c)'
  <2>1. AccountOf[c] \in Owners /\ c \in Owners /\ c # NoSession
    BY Domains, ZoneHandoffAssumption
  <2>2. SendsFor(job'[c]) # c /\ SendsFor(job'[AccountOf[c]]) # c
    BY <1>3, <1>4, <2>1 DEF Unseen
  <2>3. QED
    BY <1>2, <1>4, <2>2 DEF Unseen, SessionsAt, zoneVars
<1>5. CASE ~PM!Has(table, s)
  <2>1. TableOK(table') /\ table'.players = table.players
        /\ table'.sessionByPlayerId = table.sessionByPlayerId
    <3>1. /\ DOMAIN table = {"players", "sessionByPlayerId"} /\ s \notin DOMAIN table.players
          /\ table.players \in [DOMAIN table.players -> Info]
      BY <1>1, <1>5 DEF TableOK, PM!Has
    <3>2. PM!Without(table.players, s) = table.players
      BY <3>1 DEF PM!Without
    <3>3. /\ DOMAIN table' = {"players", "sessionByPlayerId"} /\ table'.players = table.players
          /\ table'.sessionByPlayerId = table.sessionByPlayerId
      BY <1>3, <1>5, <3>2 DEF PM!Remove, PM!FindPlayerId
    <3>4. QED
      BY <1>1, <3>3 DEF TableOK
  <2>2. TypeOK'
    BY <1>1, <1>2, <1>3, <2>1 DEF TypeOK, QueuesOK, LinksOK, UnitsOK, dbVars, zoneVars
  <2>3. IndexNamesItsSession'
    BY <1>1, <2>1 DEF IndexNamesItsSession, PM!Has, PM!Find, PM!FindSessionByPlayerId
  <2>4. \A c \in Sessions :
           /\ PM!Has(table, c)' <=> PM!Has(table, c)
           /\ PM!Has(table, c) => (PM!Find(table, c).authenticated' <=> PM!Find(table, c).authenticated)
    BY <2>1 DEF PM!Has, PM!Find
  <2>5. QED
    BY <1>2, <1>4, <2>2, <2>3, <2>4, WorldStep
<1>6. CASE PM!Has(table, s)
  <2>1. /\ TableOK(table') /\ DOMAIN table'.players = DOMAIN table.players \ {s}
        /\ \A c \in DOMAIN table'.players : table'.players[c] = table.players[c]
        /\ DOMAIN table'.sessionByPlayerId = DOMAIN table.sessionByPlayerId \ {table.players[s].playerId}
        /\ \A p \in DOMAIN table'.sessionByPlayerId :
              table'.sessionByPlayerId[p] = table.sessionByPlayerId[p]
    BY <1>1, <1>3, <1>6, RemoveTable DEF PM!Has, PM!Find, PM!FindPlayerId
  <2>2. TypeOK'
    BY <1>1, <1>2, <1>3, <2>1 DEF TypeOK, QueuesOK, LinksOK, UnitsOK, dbVars, zoneVars
  <2>3. ASSUME NEW c \in Sessions, c # s PROVE SessionOK(c)'
    <3>1. /\ PM!Has(table, c)' <=> PM!Has(table, c)
          /\ PM!Has(table, c) => PM!Find(table, c)' = PM!Find(table, c)
      BY <2>1, <2>3 DEF PM!Has, PM!Find
    <3>2. QED
      BY <1>2, <1>4, <2>3, <3>1, SessionSame DEF SessionInv, PM!Find
  <2>4. SessionOK(s)'
    <3>1. ~PM!Has(table, s)' /\ ~Online(s)'
      BY <2>1 DEF Online, PM!Has
    <3>2. SessionOK(s) /\ client[s] # "new" /\ ~Coming(s, "connected")
      BY <1>3, <1>6 DEF SessionInv, SessionOK, ConnectsOnce
    <3>3. ~Fresh(s)'
      BY <1>2, <3>1, <3>2 DEF Fresh, Coming
    <3>4. ConnectsOnce(s)'
      BY <1>2, <3>1, <3>2 DEF SessionOK, ConnectsOnce, ComesOnce, Coming
    <3>5. LogsInOnce(s)'
      BY <1>2, <3>1, <3>2 DEF SessionOK, LogsInOnce, LoggingIn, ComesOnce, Coming
    <3>6. QED
      BY <3>3, <3>4, <3>5 DEF SessionOK
  <2>5. IndexNamesItsSession'
    <3>1. SUFFICES ASSUME NEW p \in DOMAIN table'.sessionByPlayerId
                   PROVE  /\ table'.sessionByPlayerId[p] \in DOMAIN table'.players
                          /\ table'.players[table'.sessionByPlayerId[p]].playerId = p
      BY DEF IndexNamesItsSession, PM!Has, PM!Find, PM!FindSessionByPlayerId
    <3>2. PICK c : c = table.sessionByPlayerId[p]
      OBVIOUS
    <3>3. c \in DOMAIN table.players /\ table.players[c].playerId = p
      BY <1>1, <2>1, <3>1, <3>2
         DEF IndexNamesItsSession, PM!Has, PM!Find, PM!FindSessionByPlayerId
    <3>4. QED
      BY <2>1, <3>1, <3>2, <3>3
  <2>6. \A p \in Players : OnlyGame(p)'
    BY <1>2 DEF SessionInv, OnlyGame
  <2>7. QED
    BY <2>2, <2>3, <2>4, <2>5, <2>6 DEF SessionInv
<1>7. QED
  BY <1>5, <1>6

LEMMA NoRow ==
  ASSUME NEW s \in Sessions
  PROVE  \A o \in Owners : NoJob \in JobOf(o) /\ SendsFor(NoJob) = NoSession
BY DEF JobOf, NoJob, SendsFor

LEMMA TransferStep ==
  ASSUME SessionInv, NEW z \in Zones, NEW p \in Players, HandleZoneTransfer(z, p)
  PROVE  SessionInv'
<1>0. PICK m : m = Head(up[z][p])
  OBVIOUS
<1>1. PICK s, target : s = m.session /\ target = IF m.to \in Zones THEN m.to ELSE z
  OBVIOUS
<1> DEFINE j == Job("enterFromCache", target, s, p, 0)
           leave == Msg("leave", s, NoZone, 0)
<1>2. /\ TakeFromZone(z, p, "transfer")
      /\ IF target # z THEN ToZone(z, p, leave) ELSE UNCHANGED down
      /\ table' = PM!SetZoneId(table, s, target)
      /\ job' = [job EXCEPT ![p] = j]
      /\ UNCHANGED <<client, moves, buys, gateway, lane, loading, dbVars, zoneVars, history>>
  BY <1>0, <1>1 DEF HandleZoneTransfer, LeaveToSource, Reroute, clientVars
<1>3. TypeOK /\ TableOK(table) /\ IndexNamesItsSession
  BY DEF SessionInv, TypeOK
<1>4. /\ m \in FromPlayer(p) /\ m.type = "transfer" /\ m.session \in Of(up[z][p])
      /\ Grid(up', Ups) /\ Of(up'[z][p]) \subseteq Of(up[z][p])
      /\ \A y \in Zones, q \in Players : y # z \/ q # p => up'[y][q] = up[y][q]
  BY <1>0, <1>2, <1>3, TakesUp
<1>5. s \in Sessions /\ AccountOf[s] = p /\ target \in Zones
  BY <1>1, <1>4 DEF FromPlayer, SessionsOf
<1>6. ~Fresh(s) /\ (s \in DOMAIN table.players => table.players[s].authenticated)
  BY <1>1, <1>4, <1>5, SeenNotFresh DEF SessionsAt
<1>7. /\ TableOK(table') /\ table'.sessionByPlayerId = table.sessionByPlayerId
      /\ \/ s \notin DOMAIN table.players /\ table' = table
         \/ s \in DOMAIN table.players
            /\ OnlyRow(table, table', s, [table.players[s] EXCEPT !.zoneId = target])
  BY <1>2, <1>3, <1>5, <1>6, RerouteTable
<1>8. j \in JobOf(p) /\ SendsFor(j) = s /\ leave \in ToPlayer(p) /\ leave.session = s
  BY <1>5, Domains DEF JobOf, Job, SendsFor, SessionsOf, ToPlayer, Msg, Somewhere
<1> HIDE DEF j, leave
<1>9. Row(job', Jobs) /\ SendsFor(job'[p]) = s /\ \A w \in Owners : w # p => job'[w] = job[w]
  BY <1>2, <1>3, <1>8, Domains, JobPut
<1>10. /\ Grid(down', Downs)
       /\ \A y \in Zones, q \in Players : Of(down'[y][q]) \subseteq Of(down[y][q]) \cup {s}
  <2>1. CASE target = z
    BY <1>2, <1>3, <2>1 DEF TypeOK, LinksOK
  <2>2. CASE target # z
    <3>1. ToZone(z, p, leave)
      BY <1>2, <2>2
    <3>2. /\ Grid(down', Downs) /\ Of(down'[z][p]) = Of(down[z][p]) \cup {leave.session}
          /\ \A y \in Zones, q \in Players : y # z \/ q # p => down'[y][q] = down[y][q]
      BY <1>3, <1>8, <3>1, Sends
    <3>3. ASSUME NEW y \in Zones, NEW q \in Players
          PROVE  Of(down'[y][q]) \subseteq Of(down[y][q]) \cup {s}
      BY <1>8, <3>2
    <3>4. QED
      BY <3>2, <3>3
  <2>3. QED
    BY <2>1, <2>2
<1>11. TypeOK'
  BY <1>2, <1>3, <1>4, <1>7, <1>9, <1>10
     DEF TypeOK, QueuesOK, LinksOK, UnitsOK, dbVars, zoneVars
<1>12. ASSUME NEW c \in Sessions, Fresh(c), Unseen(c) PROVE Unseen(c)'
  <2>1. c # s
    BY <1>6, <1>12
  <2>2. \A w \in Owners : SendsFor(job'[w]) \in {SendsFor(job[w]), NoSession, s}
    BY <1>9
  <2>3. \A y \in Zones, q \in Players :
           Of(up'[y][q]) \subseteq Of(up[y][q]) /\ Of(down'[y][q]) \subseteq Of(down[y][q]) \cup {s}
    <3>1. ASSUME NEW y \in Zones, NEW q \in Players PROVE Of(up'[y][q]) \subseteq Of(up[y][q])
      BY <1>4
    <3>2. QED
      BY <1>10, <3>1
  <2>4. unit' = unit
    BY <1>2 DEF zoneVars
  <2>5. QED
    BY <1>5, <1>12, <2>1, <2>2, <2>3, <2>4, UnseenKept
<1>13. /\ IndexNamesItsSession'
       /\ \A c \in Sessions :
         /\ PM!Has(table, c)' <=> PM!Has(table, c)
         /\ PM!Has(table, c) => (PM!Find(table, c).authenticated' <=> PM!Find(table, c).authenticated)
  <2>1. CASE table' = table
    BY <1>3, <2>1 DEF IndexNamesItsSession, PM!Has, PM!Find, PM!FindSessionByPlayerId
  <2>2. CASE table' # table
    <3>1. PICK i : i = [table.players[s] EXCEPT !.zoneId = target]
      OBVIOUS
    <3>2. OnlyRow(table, table', s, i) /\ s \in DOMAIN table.players
      BY <1>7, <2>2, <3>1
    <3>3. i.playerId = table.players[s].playerId /\ i.authenticated = table.players[s].authenticated
      BY <1>3, <3>1, <3>2 DEF TableOK, Info
    <3>4. QED
      BY <1>3, <1>7, <3>2, <3>3, IndexKept, RowKept
  <2>3. QED
    BY <2>1, <2>2
<1>14. QED
  BY <1>2, <1>11, <1>12, <1>13, WorldStep

\* A handler sends what it remembered and is done.
LEMMA SendStep ==
  ASSUME SessionInv, NEW o \in Owners, NEW m, NEW j, j = job[o], j # NoJob, j.do # "forget",
         m \in ToPlayer(AccountOf[j.session]), m.session = j.session,
         ToZone(j.zone, j.player, m), job' = [job EXCEPT ![o] = NoJob],
         UNCHANGED <<client, moves, buys, gateway, lane, table, loading, dbVars, up, zoneVars>>
  PROVE  SessionInv'
<1>1. PICK s, z, p : s = j.session /\ z = j.zone /\ p = j.player
  OBVIOUS
<1>2. TypeOK /\ TableOK(table) /\ IndexNamesItsSession
  BY DEF SessionInv, TypeOK
<1>3. s \in Sessions /\ z \in Zones /\ p = AccountOf[s] /\ p \in Players /\ (o = s \/ o = p)
  BY <1>1, <1>2, JobAt, Domains
<1>4. /\ Grid(down', Downs) /\ Of(down'[z][p]) = Of(down[z][p]) \cup {m.session}
      /\ \A y \in Zones, q \in Players : y # z \/ q # p => down'[y][q] = down[y][q]
  <2>1. m \in ToPlayer(p) /\ ToZone(z, p, m)
    BY <1>1, <1>3
  <2>2. TypeOK
    BY <1>2
  <2>3. z \in Zones /\ p \in Players
    BY <1>3
  <2>4. QED
    BY ONLY <2>1, <2>2, <2>3, Sends
<1>5. Row(job', Jobs) /\ job'[o] = NoJob /\ \A w \in Owners : w # o => job'[w] = job[w]
  BY <1>2, <1>3, NoRow, JobPut
<1>6. TypeOK'
  BY <1>2, <1>4, <1>5 DEF TypeOK, QueuesOK, LinksOK, UnitsOK, dbVars, zoneVars
<1>7. ~Fresh(s)
  <2>1. SendsFor(job[o]) = s
    BY <1>1 DEF SendsFor
  <2>2. QED
    BY <1>3, <2>1, SeenNotFresh
<1>8. ASSUME NEW c \in Sessions, Fresh(c), Unseen(c) PROVE Unseen(c)'
  <2>1. c # s
    BY <1>7, <1>8
  <2>2. \A w \in Owners : SendsFor(job'[w]) \in {SendsFor(job[w]), NoSession, s}
    BY <1>5, NoRow
  <2>3. \A y \in Zones, q \in Players :
           Of(up'[y][q]) \subseteq Of(up[y][q]) /\ Of(down'[y][q]) \subseteq Of(down[y][q]) \cup {s}
    <3>1. ASSUME NEW y \in Zones, NEW q \in Players
          PROVE  Of(down'[y][q]) \subseteq Of(down[y][q]) \cup {s}
      BY <1>1, <1>4
    <3>2. QED
      BY <3>1
  <2>4. unit' = unit
    BY DEF zoneVars
  <2>5. QED
    BY <1>3, <1>8, <2>1, <2>2, <2>3, <2>4, UnseenKept
<1>9. /\ IndexNamesItsSession'
      /\ \A c \in Sessions :
         /\ PM!Has(table, c)' <=> PM!Has(table, c)
         /\ PM!Has(table, c) => (PM!Find(table, c).authenticated' <=> PM!Find(table, c).authenticated)
  BY <1>2 DEF IndexNamesItsSession, PM!Has, PM!Find, PM!FindSessionByPlayerId
<1>10. QED
  BY <1>6, <1>8, <1>9, WorldStep

LEMMA SendEnterStep ==
  ASSUME SessionInv, NEW o \in Owners, SendEnterZone(o)
  PROVE  SessionInv'
<1>1. PICK j : j = job[o]
  OBVIOUS
<1>2. PICK gold : gold = IF j.do = "enter" THEN j.gold ELSE EnterZoneBodyFor(j.session)
  OBVIOUS
<1>3. PICK m : m = Msg("enter", j.session, NoZone, gold)
  OBVIOUS
<1>4. /\ j.do \in {"enter", "enterFromCache"}
      /\ ToZone(j.zone, j.player, m) /\ job' = [job EXCEPT ![o] = NoJob]
      /\ UNCHANGED <<client, moves, buys, gateway, lane, table, loading, dbVars, up, zoneVars>>
  BY <1>1, <1>2, <1>3 DEF SendEnterZone, clientVars
<1>5. TypeOK /\ TableOK(table)
  BY DEF SessionInv, TypeOK
<1>6. j # NoJob /\ j.session \in Sessions /\ j.gold \in Nat
  BY <1>1, <1>4, <1>5, JobAt DEF NoJob
<1>7. gold \in Nat
  BY <1>2, <1>5, <1>6 DEF EnterZoneBodyFor, TableOK, Info, PM!Has, PM!Find
<1>8. m \in ToPlayer(AccountOf[j.session]) /\ m.session = j.session
  BY <1>3, <1>6, <1>7 DEF ToPlayer, SessionsOf, Msg, Somewhere
<1>9. QED
  BY <1>1, <1>4, <1>6, <1>8, SendStep

LEMMA SendLeaveStep ==
  ASSUME SessionInv, NEW o \in Owners, SendLeaveZone(o)
  PROVE  SessionInv'
<1>1. PICK j : j = job[o]
  OBVIOUS
<1>2. PICK m : m = Msg("leave", j.session, NoZone, 0)
  OBVIOUS
<1>3. /\ j.do = "leave"
      /\ ToZone(j.zone, j.player, m) /\ job' = [job EXCEPT ![o] = NoJob]
      /\ UNCHANGED <<client, moves, buys, gateway, lane, table, loading, dbVars, up, zoneVars>>
  BY <1>1, <1>2 DEF SendLeaveZone, clientVars
<1>4. TypeOK
  BY DEF SessionInv
<1>5. j # NoJob /\ j.session \in Sessions
  BY <1>1, <1>3, <1>4, JobAt DEF NoJob
<1>6. m \in ToPlayer(AccountOf[j.session]) /\ m.session = j.session
  BY <1>2, <1>5 DEF ToPlayer, SessionsOf, Msg, Somewhere
<1>7. QED
  BY <1>1, <1>3, <1>5, <1>6, SendStep

\* The DB lane of p holds amounts.
LEMMA DbLane ==
  ASSUME TypeOK, NEW p \in Players
  PROVE  /\ \A v \in Seq(Nat) : Row([dbLane EXCEPT ![p] = v], Amounts)
         /\ dbLane[p] \in Seq(Nat)
<1>1. Row(dbLane, Amounts) /\ p \in DOMAIN Amounts /\ Amounts[p] = Seq(Nat)
  BY Domains DEF TypeOK, Amounts
<1>2. QED
  BY <1>1, RowSet DEF Row

LEMMA UnitOfWorkStep ==
  ASSUME SessionInv, NEW z \in Zones, NEW p \in Players, HandleUnitOfWorkStream(z, p)
  PROVE  SessionInv'
<1>0. PICK gold : gold = Head(up[z][p]).gold
  OBVIOUS
<1>1. /\ TakeFromZone(z, p, "uow")
      /\ UNCHANGED <<client, moves, buys, gateway, lane, job, loading, db, down, zoneVars, history>>
      /\ IF PM!HasPlayer(table, p)
         THEN /\ table' = PM!SetCurrency(table, PM!FindSessionByPlayerId(table, p), gold)
              /\ dbLane' = [dbLane EXCEPT ![p] = Append(dbLane[p], gold)]
         ELSE UNCHANGED <<table, dbLane>>
  BY <1>0 DEF HandleUnitOfWorkStream, clientVars
<1>2. TypeOK /\ TableOK(table) /\ IndexNamesItsSession
  BY DEF SessionInv, TypeOK
<1>3. /\ gold \in Nat /\ Grid(up', Ups) /\ Of(up'[z][p]) \subseteq Of(up[z][p])
      /\ \A y \in Zones, q \in Players : y # z \/ q # p => up'[y][q] = up[y][q]
  <2>1. /\ Head(up[z][p]) \in FromPlayer(p)
        /\ Grid(up', Ups) /\ Of(up'[z][p]) \subseteq Of(up[z][p])
        /\ \A y \in Zones, q \in Players : y # z \/ q # p => up'[y][q] = up[y][q]
    BY <1>1, <1>2, TakesUp
  <2>2. gold \in Nat
    BY <1>0, <2>1 DEF FromPlayer
  <2>3. QED
    BY <2>1, <2>2
<1>4. ASSUME NEW c \in Sessions, Unseen(c) PROVE Unseen(c)'
  <2>1. \A y \in Zones : Of(up'[y][AccountOf[c]]) \subseteq Of(up[y][AccountOf[c]])
    BY <1>3, Domains
  <2>2. QED
    BY <1>1, <1>4, <2>1 DEF Unseen, SessionsAt, zoneVars
<1>5. CASE ~PM!HasPlayer(table, p)
  <2>1. table' = table /\ dbLane' = dbLane
    BY <1>1, <1>5
  <2>2. TypeOK'
    BY <1>1, <1>2, <1>3, <2>1 DEF TypeOK, QueuesOK, LinksOK, UnitsOK, zoneVars
  <2>3. /\ IndexNamesItsSession'
        /\ \A c \in Sessions :
         /\ PM!Has(table, c)' <=> PM!Has(table, c)
         /\ PM!Has(table, c) => (PM!Find(table, c).authenticated' <=> PM!Find(table, c).authenticated)
    BY <1>2, <2>1 DEF IndexNamesItsSession, PM!Has, PM!Find, PM!FindSessionByPlayerId
  <2>4. QED
    BY <1>1, <1>4, <2>2, <2>3, WorldStep
<1>6. CASE PM!HasPlayer(table, p)
  <2>1. PICK s : s = PM!FindSessionByPlayerId(table, p)
    OBVIOUS
  <2>2. s \in DOMAIN table.players /\ s \in Sessions
    BY <1>2, <1>6, <2>1 DEF IndexNamesItsSession, TableOK, PM!HasPlayer, PM!FindSessionByPlayerId, PM!Has
  <2>3. PICK i : i = [table.players[s] EXCEPT !.gold = gold]
    OBVIOUS
  <2>4. TableOK(table') /\ table'.sessionByPlayerId = table.sessionByPlayerId /\ OnlyRow(table, table', s, i)
    BY <1>1, <1>2, <1>3, <1>6, <2>1, <2>2, <2>3, CurrencyTable
  <2>5. i.playerId = table.players[s].playerId /\ i.authenticated = table.players[s].authenticated
    BY <1>2, <2>2, <2>3 DEF TableOK, Info
  <2>6. Row(dbLane', Amounts)
    BY <1>1, <1>2, <1>3, <1>6, DbLane, AppendProperties
  <2>7. TypeOK'
    BY <1>1, <1>2, <1>3, <2>4, <2>6 DEF TypeOK, QueuesOK, LinksOK, UnitsOK, zoneVars
  <2>8. /\ IndexNamesItsSession'
        /\ \A c \in Sessions :
         /\ PM!Has(table, c)' <=> PM!Has(table, c)
         /\ PM!Has(table, c) => (PM!Find(table, c).authenticated' <=> PM!Find(table, c).authenticated)
    BY <1>2, <2>2, <2>4, <2>5, IndexKept, RowKept
  <2>9. QED
    BY <1>1, <1>4, <2>7, <2>8, WorldStep
<1>7. QED
  BY <1>5, <1>6

LEMMA OnExecuteStep ==
  ASSUME SessionInv, NEW p \in Players, OnExecute(p)
  PROVE  SessionInv'
<1>1. /\ dbLane[p] # <<>> /\ dbLane' = [dbLane EXCEPT ![p] = Tail(dbLane[p])]
      /\ db' = [db EXCEPT ![p] = Head(dbLane[p])]
      /\ UNCHANGED <<client, moves, buys, gateway, lane, job, table, loading, up, down, zoneVars, history>>
  BY DEF OnExecute, clientVars
<1>2. TypeOK /\ IndexNamesItsSession
  BY DEF SessionInv
<1>3. Row(dbLane', Amounts) /\ Head(dbLane[p]) \in Nat
  BY <1>1, <1>2, DbLane, HeadTailProperties
<1>4. db' \in [Players -> Nat]
  BY <1>1, <1>2, <1>3 DEF TypeOK
<1>5. TypeOK'
  BY <1>1, <1>2, <1>3, <1>4 DEF TypeOK, QueuesOK, LinksOK, UnitsOK, zoneVars
<1>6. /\ IndexNamesItsSession'
      /\ \A c \in Sessions :
         /\ PM!Has(table, c)' <=> PM!Has(table, c)
         /\ PM!Has(table, c) => (PM!Find(table, c).authenticated' <=> PM!Find(table, c).authenticated)
  BY <1>1, <1>2 DEF IndexNamesItsSession, PM!Has, PM!Find, PM!FindSessionByPlayerId
<1>7. \A c \in Sessions : Unseen(c) => Unseen(c)'
  BY <1>1, SameUnseen DEF zoneVars
<1>8. QED
  BY <1>1, <1>5, <1>6, <1>7, WorldStep

(***************************************************************************)
(* SessionInv and Visits hold, whatever the accounts are.                  *)
(***************************************************************************)

LEMMA VisitsAt ==
  ASSUME Visits, NEW z \in Zones, NEW p \in Players, ElsewhereSame(z, p),
         VisitOK(visit'[z][p], unit'[z][p]), leaving'[z][p] => unit'[z][p] # NoUnit
  PROVE  Visits'
BY DEF Visits, ElsewhereSame, Present

LEMMA VisitsSame ==
  ASSUME Visits, UNCHANGED zoneVars
  PROVE  Visits'
BY DEF Visits, Present, zoneVars

LEMMA ZoneSteps ==
  ASSUME SessionInv, Visits, NEW z \in Zones, NEW p \in Players, BasicStep(z, p) \/ TickStep(z, p)
  PROVE  SessionInv' /\ Visits'
<1>1. TypeOK /\ VisitOK(visit[z][p], unit[z][p]) /\ (leaving[z][p] => unit[z][p] # NoUnit)
  BY DEF SessionInv, Visits, Present
<1>2. UNCHANGED <<client, gateway, lane, loading, table, job>>
  BY DEF BasicStep, TickStep, HandleEnterZone, HandleLeaveZone, RemoveUnit, HandleMove, HandleMailBuy,
         TickMove, ReportCrossing, RequestZoneTransfer, clientVars, worldVars
<1>3. SUFFICES /\ TypeOK' /\ ElsewhereSame(z, p) /\ NoNewSession(z, p)
               /\ VisitOK(visit'[z][p], unit'[z][p])
               /\ leaving'[z][p] => unit'[z][p] # NoUnit
  BY <1>2, VisitsAt, ZoneStepSessions
<1>4. CASE HandleEnterZone(z, p)
  BY <1>1, <1>4, EnterEffect DEF VisitOK
<1>5. CASE HandleLeaveZone(z, p)
  BY <1>1, <1>5, LeaveEffect DEF VisitOK, Present
<1>6. CASE RemoveUnit(z, p)
  <2>1. TypeOK' /\ ElsewhereSame(z, p) /\ NoNewSession(z, p) /\ ~leaving'[z][p]
    BY <1>1, <1>6, RemoveEffect
  <2>2. VisitOK(visit'[z][p], unit'[z][p])
    <3>1. /\ unit'[z][p] = NoUnit /\ visit'[z][p].to = visit[z][p].to
          /\ visit'[z][p].removed <=> visit[z][p] # NoVisit
          /\ visit[z][p] = NoVisit => visit'[z][p] = NoVisit
      BY <1>1, <1>6, RemoveEffect
    <3>2. ~NoUnit.crossing /\ ~NoVisit.removed
      BY DEF NoUnit, NoVisit
    <3>3. QED
      BY <1>1, <3>1, <3>2 DEF VisitOK
  <2>3. QED
    BY <2>1, <2>2
<1>7. CASE HandleMove(z, p) \/ HandleMailBuy(z, p)
  BY <1>1, <1>7, PacketEffect DEF VisitOK
<1>8. CASE TickMove(z, p)
  <2>1. /\ TypeOK' /\ ElsewhereSame(z, p) /\ NoNewSession(z, p)
        /\ unit[z][p] # NoUnit /\ unit'[z][p] # NoUnit /\ leaving' = leaving
        /\ visit'[z][p] = NoVisit \/ (visit'[z][p].to # NoZone /\ ~visit'[z][p].removed)
    BY <1>1, <1>8, TickMoveEffect
  <2>2. ~NoVisit.removed
    BY DEF NoVisit
  <2>3. VisitOK(visit'[z][p], unit'[z][p])
    BY <2>1, <2>2 DEF VisitOK
  <2>4. QED
    BY <2>1, <2>3
<1>9. CASE ReportCrossing(z, p)
  <2>1. visit[z][p] # NoVisit
    BY <1>9 DEF ReportCrossing
  <2>2. ~visit[z][p].removed => Present(z, p)
    BY <1>1, <2>1 DEF VisitOK, Present
  <2>3. QED
    <3>1. /\ TypeOK' /\ ElsewhereSame(z, p) /\ NoNewSession(z, p)
          /\ (unit'[z][p] = NoUnit <=> unit[z][p] = NoUnit) /\ visit'[z][p] = NoVisit
          /\ leaving' = leaving
      BY <1>1, <1>9, <2>2, ReportEffect
    <3>2. VisitOK(visit'[z][p], unit'[z][p])
      BY <3>1 DEF VisitOK, NoVisit
    <3>3. QED
      BY <1>1, <3>1, <3>2
<1>10. CASE RequestZoneTransfer(z, p)
  BY <1>1, <1>10, RequestEffect
<1>11. QED
  BY <1>4, <1>5, <1>6, <1>7, <1>8, <1>9, <1>10 DEF BasicStep, TickStep

LEMMA SessionInit ==
  ASSUME Init
  PROVE  SessionInv /\ Visits
<1>1. /\ client \in [Sessions -> {"new", "open", "login", "gone"}]
      /\ loading \subseteq Sessions /\ db \in [Players -> Nat]
      /\ Row(dbLane, Amounts) /\ Row(gateway, Gateways) /\ Row(lane, Lanes) /\ Row(job, Jobs)
  BY Domains, NoRow, ZoneHandoffAssumption DEF Init, Row, Amounts, Gateways, Lanes, Jobs, JobOf
<1>2. /\ Grid(up, Ups) /\ Grid(down, Downs)
      /\ Grid(unit, Units) /\ Grid(leaving, Flags) /\ Grid(visit, Visitors) /\ Grid(crossings, Targets)
  BY Domains DEF Init, Grid, Row, Ups, Downs, Units, Flags, Visitors, Targets, Somewhere, NoVisit
<1>3. TableOK(table) /\ DOMAIN table.players = {} /\ DOMAIN table.sessionByPlayerId = {}
  BY EmptyTableOK DEF Init
<1>4. TypeOK
  BY <1>1, <1>2, <1>3 DEF TypeOK, QueuesOK, LinksOK, UnitsOK
<1>5. IndexNamesItsSession
  BY <1>3 DEF IndexNamesItsSession
<1>6. ASSUME NEW p \in Players PROVE OnlyGame(p)
  BY <1>6, Domains, SomeEmpty DEF OnlyGame, Init
<1>7. ASSUME NEW s \in Sessions PROVE SessionOK(s)
  <2>1. /\ gateway[s] = <<>> /\ lane[s] = <<>> /\ client[s] = "new" /\ s \notin loading
        /\ ~PM!Has(table, s) /\ ~Online(s)
    BY <1>3, Domains DEF Init, Online, PM!Has
  <2>2. ConnectsOnce(s) /\ LogsInOnce(s)
    BY <2>1, SomeEmpty DEF ConnectsOnce, LogsInOnce, ComesOnce, Coming, LoggingIn
  <2>3. job[s] = NoJob /\ job[AccountOf[s]] = NoJob
    BY Domains DEF Init
  <2>4. ASSUME NEW z \in Zones PROVE s \notin SessionsAt(z, AccountOf[s])
    BY Domains, ZoneHandoffAssumption DEF Init, SessionsAt, Of, NoUnit
  <2>5. Unseen(s)
    BY <2>3, <2>4, ZoneHandoffAssumption DEF Unseen, SendsFor, NoJob
  <2>6. QED
    BY <2>2, <2>5 DEF SessionOK
<1>8. Visits
  BY DEF Init, Visits, VisitOK, NoVisit
<1>9. QED
  BY <1>4, <1>5, <1>6, <1>7, <1>8 DEF SessionInv

LEMMA SessionNext ==
  ASSUME SessionInv, Visits, [Next]_vars
  PROVE  SessionInv' /\ Visits'
<1>1. ASSUME NEW s \in Sessions, ClientStep(s) PROVE SessionInv' /\ Visits'
  <2>1. UNCHANGED zoneVars
    BY <1>1 DEF ClientStep, ClientConnect, ClientLogin, ClientMove, ClientBuy, ClientDisconnect
  <2>2. QED
    BY <1>1, <2>1, ClientSteps, VisitsSame
<1>2. ASSUME NEW s \in Sessions, OnRecvStream(s) PROVE SessionInv' /\ Visits'
  <2>1. UNCHANGED zoneVars
    BY <1>2 DEF OnRecvStream
  <2>2. QED
    BY <1>2, <2>1, OnRecvStreamStep, VisitsSame
<1>3. ASSUME NEW s \in Sessions, LoadPlayerContent(s) PROVE SessionInv' /\ Visits'
  <2>1. UNCHANGED zoneVars
    BY <1>3 DEF LoadPlayerContent
  <2>2. QED
    BY <1>3, <2>1, LoadStep, VisitsSame
<1>4. ASSUME NEW o \in Owners, LaneStep(o) PROVE SessionInv' /\ Visits'
  <2>1. UNCHANGED zoneVars
    BY <1>4 DEF LaneStep, HandleClientConnected, HandleLogin, CompleteLogin, HandleFromClient,
                HandleClientDisconnected, ForgetClient, SendEnterZone, SendLeaveZone
  <2>2. SessionInv'
    BY <1>4, ConnectedStep, HandleLoginStep, CompleteLoginStep, HandleFromClientStep, DisconnectedStep,
       ForgetStep, SendEnterStep, SendLeaveStep DEF LaneStep
  <2>3. QED
    BY <2>1, <2>2, VisitsSame
<1>5. ASSUME NEW p \in Players, OnExecute(p) PROVE SessionInv' /\ Visits'
  <2>1. UNCHANGED zoneVars
    BY <1>5 DEF OnExecute
  <2>2. QED
    BY <1>5, <2>1, OnExecuteStep, VisitsSame
<1>6. ASSUME NEW z \in Zones, NEW p \in Players, ZoneLinkStep(z, p) PROVE SessionInv' /\ Visits'
  <2>1. UNCHANGED zoneVars
    BY <1>6 DEF ZoneLinkStep, HandleZoneTransfer, HandleUnitOfWorkStream
  <2>2. QED
    BY <1>6, <2>1, TransferStep, UnitOfWorkStep, VisitsSame DEF ZoneLinkStep
<1>7. ASSUME NEW z \in Zones, NEW p \in Players, BasicStep(z, p) \/ TickStep(z, p)
      PROVE  SessionInv' /\ Visits'
  BY <1>7, ZoneSteps
<1>8. CASE UNCHANGED vars
  <2>1. /\ UNCHANGED <<client, gateway, loading, lane, job, table, dbLane, db, up, down, zoneVars>>
    BY <1>8 DEF vars, clientVars, worldVars, dbVars
  <2>2. TypeOK' /\ IndexNamesItsSession'
    BY <2>1 DEF SessionInv, TypeOK, QueuesOK, LinksOK, UnitsOK, zoneVars, IndexNamesItsSession,
                PM!Has, PM!Find, PM!FindSessionByPlayerId
  <2>3. \A c \in Sessions :
         /\ PM!Has(table, c)' <=> PM!Has(table, c)
         /\ PM!Has(table, c) => (PM!Find(table, c).authenticated' <=> PM!Find(table, c).authenticated)
    BY <2>1 DEF PM!Has, PM!Find
  <2>4. \A c \in Sessions : Unseen(c) => Unseen(c)'
    BY <2>1, SameUnseen DEF zoneVars
  <2>5. SessionInv'
    BY <2>1, <2>2, <2>3, <2>4, WorldStep
  <2>6. QED
    BY <2>1, <2>5, VisitsSame
<1>9. QED
  BY <1>1, <1>2, <1>3, <1>4, <1>5, <1>6, <1>7, <1>8 DEF Next

\* A session that logs in once connects once and is confirmed at most once;
\* before that no handler, link or zone knows it, and afterwards what they know
\* of it is of its account.
LEMMA SessionInvariant == Spec => [](SessionInv /\ Visits)
<1>1. Init => SessionInv /\ Visits
  BY SessionInit
<1>2. SessionInv /\ Visits /\ [Next]_vars => (SessionInv /\ Visits)'
  BY SessionNext
<1>3. QED
  BY <1>1, <1>2, PTL DEF Spec

(***************************************************************************)
(* What a step of a zone does to where the player is going to be.          *)
(***************************************************************************)

\* Zone z will have the player as before, and asks for one transfer at a time.
KeepsAt(z, p) ==
    /\ WillBeIn(z, p)' <=> WillBeIn(z, p)
    /\ p \notin stray' => /\ Answer(z, p, TRUE) => Answer(z, p, TRUE)'
                          /\ Answer(z, p, FALSE) => Answer(z, p, FALSE)'

StraysGrow ==
    \A q \in Players : /\ q \in stray => q \in stray'
                       /\ q \in orphaned => q \in orphaned'
                       /\ q \in overtaken => q \in overtaken'
                       /\ q \in misled => q \in misled'

\* The handler sends as before, and has sent nothing.
SendsAs(j, k) == k = j \/ (j.do \in {"none", "forget"} /\ k.do \in {"none", "forget"})

LEMMA SameKeeps ==
  ASSUME NEW z, NEW p, down'[z][p] = down[z][p], up'[z][p] = up[z][p], unit'[z][p] = unit[z][p],
         leaving'[z][p] = leaving[z][p], crossings'[z][p] = crossings[z][p]
  PROVE  KeepsAt(z, p)
BY DEF KeepsAt, WillBeIn, Answer, Here, Present

LEMMA OnlineZone ==
  ASSUME TypeOK, NEW s \in Sessions, Online(s)
  PROVE  /\ ZoneOf(s) \in Zones /\ s \in DOMAIN table.players
         /\ table.players[s].playerId = AccountOf[s] /\ table.players[s].authenticated
BY DEF TypeOK, TableOK, RowOK, Online, ZoneOf, PM!Has, PM!Find

LEMMA WhereKept ==
  ASSUME TypeOK, NEW s \in Sessions, Where(s), NEW p \in Players, p = AccountOf[s],
         Online(s)' <=> Online(s), Online(s) => ZoneOf(s)' = ZoneOf(s),
         PM!HasPlayer(table, p) => PM!HasPlayer(table, p)',
         SendsAs(job[s], job'[s]), SendsAs(job[p], job'[p]), \A z \in Zones : KeepsAt(z, p), StraysGrow
  PROVE  Where(s)'
<1>1. \A z : /\ Entering(s, z)' <=> Entering(s, z)
             /\ Leaving(s, z)' <=> Leaving(s, z)
             /\ (job'[s].do = "enter" /\ job'[s].zone = z) <=> (job[s].do = "enter" /\ job[s].zone = z)
  BY DEF Entering, Leaving, EnterTo, LeaveTo, SendsAs
<1>2. CASE ~Online(s)
  <2>1. IsGone(s)
    BY <1>2 DEF Where
  <2>2. IsGone(s)'
    BY <1>1, <2>1 DEF IsGone, KeepsAt, StraysGrow
  <2>3. QED
    BY <1>2, <2>2 DEF Where
<1>3. CASE Online(s)
  <2>1. IsIn(s) /\ ZoneOf(s)' = ZoneOf(s)
    BY <1>3 DEF Where
  <2>2. /\ PM!HasPlayer(table, p)' /\ job'[s].do # "leave" /\ job'[p].do # "leave"
        /\ p \notin stray => ~(job'[s].do = "enter" /\ job'[p].do = "enterFromCache")
    BY <2>1 DEF IsIn, SendsAs
  <2>3. p \notin stray' => p \notin stray
    BY DEF StraysGrow
  <2>4. \E y : y = ZoneOf(s)' /\ (WillBeIn(y, p)' \/ Entering(s, y)')
    <3>1. PICK y : y = ZoneOf(s)
      OBVIOUS
    <3>2. y \in Zones
      BY <1>3, <3>1, OnlineZone
    <3>3. (WillBeIn(y, p)' <=> WillBeIn(y, p)) /\ (WillBeIn(y, p) \/ Entering(s, y))
      BY <2>1, <3>1, <3>2 DEF KeepsAt, IsIn
    <3>4. WillBeIn(y, p)' \/ Entering(s, y)'
      BY <1>1, <3>3
    <3>5. ZoneOf(s)' = y
      BY <2>1, <3>1
    <3>6. QED
      BY <3>4, <3>5
  <2>5. ASSUME p \notin stray', NEW z \in Zones PROVE Answer(z, p, Entering(s, z))'
    <3>1. Answer(z, p, Entering(s, z))
      BY <2>1, <2>3, <2>5 DEF IsIn
    <3>2. CASE Entering(s, z)
      <4>1. Answer(z, p, TRUE)
        BY <3>1, <3>2 DEF Answer, OneAnswer, Busy
      <4>2. Answer(z, p, TRUE)'
        BY <2>5, <4>1 DEF KeepsAt
      <4>3. QED
        BY <1>1, <3>2, <4>2 DEF Answer, OneAnswer, Busy
    <3>3. CASE ~Entering(s, z)
      <4>1. Answer(z, p, FALSE)
        BY <3>1, <3>3 DEF Answer, OneAnswer, Busy
      <4>2. Answer(z, p, FALSE)'
        BY <2>5, <4>1 DEF KeepsAt
      <4>3. QED
        BY <1>1, <3>3, <4>2 DEF Answer, OneAnswer, Busy
    <3>4. QED
      BY <3>2, <3>3
  <2>6. ASSUME p \notin stray', NEW z \in Zones, WillBeIn(z, p)' \/ Entering(s, z)' PROVE z = ZoneOf(s)'
    BY <1>1, <2>1, <2>3, <2>6 DEF IsIn, KeepsAt
  <2>7. IsIn(s)'
    BY <2>2, <2>3, <2>4, <2>5, <2>6 DEF IsIn
  <2>8. QED
    BY <1>3, <2>7 DEF Where
<1>4. QED
  BY <1>2, <1>3

LEMMA StepElsewhere ==
  ASSUME TypeOK, \A s \in Sessions : Where(s), NEW z \in Zones, NEW p \in Players,
         ElsewhereSame(z, p), KeepsAt(z, p), StraysGrow, UNCHANGED <<table, job>>
  PROVE  \A s \in Sessions : Where(s)'
<1>1. SUFFICES ASSUME NEW s \in Sessions PROVE Where(s)'
  OBVIOUS
<1>2. PICK q : q = AccountOf[s] /\ q \in Players
  BY Domains
<1>3. ASSUME NEW y \in Zones PROVE KeepsAt(y, q)
  <2>1. CASE y = z /\ q = p
    BY <2>1
  <2>2. CASE y # z \/ q # p
    BY <1>2, <2>2, SameKeeps DEF ElsewhereSame
  <2>3. QED
    BY <2>1, <2>2
<1>4. /\ Online(s)' <=> Online(s)
      /\ ZoneOf(s)' = ZoneOf(s) /\ (PM!HasPlayer(table, q)' <=> PM!HasPlayer(table, q))
  BY DEF Online, ZoneOf, PM!HasPlayer, PM!Has, PM!Find
<1>5. QED
  BY <1>2, <1>3, <1>4, WhereKept DEF SendsAs

LEMMA LinksAt ==
  ASSUME TypeOK, NEW z \in Zones, NEW p \in Players
  PROVE  down[z][p] \in Seq(ToPlayer(p)) /\ up[z][p] \in Seq(FromPlayer(p))
BY Domains, GridAt DEF TypeOK, LinksOK, Downs, Ups

LEMMA EnterKeeps ==
  ASSUME TypeOK, NEW z \in Zones, NEW p \in Players, HandleEnterZone(z, p)
  PROVE  KeepsAt(z, p)
<1>1. /\ down[z][p] \in Seq(ToPlayer(p)) /\ down[z][p] # <<>> /\ Head(down[z][p]).type = "enter"
      /\ down'[z][p] = Tail(down[z][p]) /\ Here(z, p)'
      /\ up' = up /\ crossings' = crossings
  <2>1. /\ down[z][p] \in Seq(ToPlayer(p)) /\ down[z][p] # <<>> /\ Head(down[z][p]).type = "enter"
        /\ down'[z][p] = Tail(down[z][p])
    BY TakesDown DEF HandleEnterZone
  <2>2. up' = up /\ crossings' = crossings /\ unit'[z][p] # NoUnit /\ leaving' = leaving /\ ~leaving[z][p]
    BY EnterEffect
  <2>3. QED
    BY <2>1, <2>2 DEF Here, Present
<1>2. PICK here \in BOOLEAN : here <=> Here(z, p)
  OBVIOUS
<1>3. WillBeIn(z, p)' <=> WillBeIn(z, p)
  <2>1. WillBe(Tail(down[z][p]), TRUE) <=> WillBe(down[z][p], here)
    BY <1>1, WillBeTail
  <2>2. QED
    <3>1. WillBeIn(z, p)' <=> WillBe(Tail(down[z][p]), TRUE)
      BY <1>1 DEF WillBeIn, WillBe
    <3>2. WillBeIn(z, p) <=> WillBe(down[z][p], here)
      BY <1>2 DEF WillBeIn, WillBe
    <3>3. QED
      BY <2>1, <3>1, <3>2
<1>4. ASSUME EntryIsLast(down[z][p])
      PROVE  /\ EntryIsLast(down'[z][p]) /\ ~Some(down'[z][p], "enter") /\ ~Some(down'[z][p], "leave")
             /\ Some(down[z][p], "enter")
  BY <1>1, <1>4, EntryIsLastTail, SomeTail
<1>5. ASSUME NEW e \in BOOLEAN, Answer(z, p, e) PROVE Answer(z, p, e)'
  BY <1>1, <1>4, <1>5 DEF Answer, OneAnswer, Busy
<1>6. QED
  BY <1>3, <1>5 DEF KeepsAt

LEMMA LeaveKeeps ==
  ASSUME TypeOK, NEW z \in Zones, NEW p \in Players, HandleLeaveZone(z, p)
  PROVE  KeepsAt(z, p)
<1>1. /\ down[z][p] \in Seq(ToPlayer(p)) /\ down[z][p] # <<>> /\ Head(down[z][p]).type = "leave"
      /\ down'[z][p] = Tail(down[z][p])
      /\ up' = up /\ crossings' = crossings
  BY LeaveEffect, TakesDown DEF HandleLeaveZone
<1>2. ~Here(z, p)'
  BY LeaveEffect DEF Here, Present
<1>3. PICK here \in BOOLEAN : here <=> Here(z, p)
  OBVIOUS
<1>4. WillBeIn(z, p)' <=> WillBeIn(z, p)
  <2>1. WillBe(Tail(down[z][p]), FALSE) <=> WillBe(down[z][p], here)
    BY <1>1, WillBeTail
  <2>2. QED
    <3>1. WillBeIn(z, p)' <=> WillBe(Tail(down[z][p]), FALSE)
      BY <1>1, <1>2 DEF WillBeIn, WillBe
    <3>2. WillBeIn(z, p) <=> WillBe(down[z][p], here)
      BY <1>3 DEF WillBeIn, WillBe
    <3>3. QED
      BY <2>1, <3>1, <3>2
<1>5. ASSUME EntryIsLast(down[z][p])
      PROVE  /\ EntryIsLast(down'[z][p]) /\ (Some(down'[z][p], "enter") => Some(down[z][p], "enter"))
             /\ Some(down[z][p], "leave")
  BY <1>1, <1>5, EntryIsLastTail, SomeTail
<1>6. ASSUME NEW e \in BOOLEAN, Answer(z, p, e) PROVE Answer(z, p, e)'
  BY <1>1, <1>2, <1>5, <1>6 DEF Answer, OneAnswer, Busy
<1>7. QED
  BY <1>4, <1>6 DEF KeepsAt

LEMMA RemoveKeeps ==
  ASSUME TypeOK, NEW z \in Zones, NEW p \in Players, RemoveUnit(z, p)
  PROVE  KeepsAt(z, p)
<1>1. /\ ~Here(z, p) /\ ~Here(z, p)' /\ down' = down /\ up' = up /\ crossings' = crossings
  BY RemoveEffect DEF Here, Present
<1>2. WillBeIn(z, p)' <=> WillBeIn(z, p)
  BY <1>1 DEF WillBeIn, WillBe
<1>3. ASSUME NEW e \in BOOLEAN, Answer(z, p, e) PROVE Answer(z, p, e)'
  BY <1>1, <1>3 DEF Answer, OneAnswer, Busy
<1>4. QED
  BY <1>2, <1>3 DEF KeepsAt

LEMMA PacketKeeps ==
  ASSUME TypeOK, NEW z \in Zones, NEW p \in Players, HandleMove(z, p) \/ HandleMailBuy(z, p)
  PROVE  KeepsAt(z, p)
<1>1. /\ down[z][p] \in Seq(ToPlayer(p)) /\ down[z][p] # <<>>
      /\ Head(down[z][p]).type \in {"move", "buy"} /\ down'[z][p] = Tail(down[z][p])
      /\ crossings' = crossings /\ unit'[z][p].crossing = unit[z][p].crossing
  <2>1. PICK type \in {"move", "buy"} : TakeFromWorld(z, p, type)
    BY DEF HandleMove, HandleMailBuy
  <2>2. down[z][p] \in Seq(ToPlayer(p)) /\ down[z][p] # <<>>
    BY <2>1, TakesDown
  <2>3. QED
    BY <2>2, PacketEffect
<1>2. Here(z, p)' <=> Here(z, p)
  BY PacketEffect DEF Here, Present
<1>3. PICK here \in BOOLEAN : here <=> Here(z, p)
  OBVIOUS
<1>4. WillBeIn(z, p)' <=> WillBeIn(z, p)
  <2>1. WillBe(Tail(down[z][p]), here) <=> WillBe(down[z][p], here)
    BY <1>1, WillBeTail
  <2>2. QED
    <3>1. WillBeIn(z, p)' <=> WillBe(Tail(down[z][p]), here)
      BY <1>1, <1>2, <1>3 DEF WillBeIn, WillBe
    <3>2. WillBeIn(z, p) <=> WillBe(down[z][p], here)
      BY <1>3 DEF WillBeIn, WillBe
    <3>3. QED
      BY <2>1, <3>1, <3>2
<1>5. /\ EntryIsLast(down[z][p]) => EntryIsLast(down'[z][p])
      /\ Some(down'[z][p], "enter") <=> Some(down[z][p], "enter")
      /\ Some(down'[z][p], "leave") <=> Some(down[z][p], "leave")
  BY <1>1, EntryIsLastTail, SomeTail
<1>6. /\ Some(up'[z][p], "transfer") <=> Some(up[z][p], "transfer")
      /\ Once(up[z][p], "transfer") => Once(up'[z][p], "transfer")
  <2>1. CASE up' = up
    BY <2>1
  <2>2. CASE up' # up
    <3>1. PICK m \in FromPlayer(p) : m.type = "uow" /\ up'[z][p] = Append(up[z][p], m)
      BY <2>2, PacketEffect
    <3>2. QED
      BY <3>1, LinksAt, SomeAppend
  <2>3. QED
    BY <2>1, <2>2
<1>7. ASSUME NEW e \in BOOLEAN, Answer(z, p, e) PROVE Answer(z, p, e)'
  BY <1>1, <1>2, <1>5, <1>6, <1>7 DEF Answer, OneAnswer, Busy
<1>8. QED
  BY <1>4, <1>7 DEF KeepsAt

LEMMA TickMoveKeeps ==
  ASSUME TypeOK, NEW z \in Zones, NEW p \in Players, TickMove(z, p)
  PROVE  KeepsAt(z, p)
<1>1. /\ Here(z, p)' <=> Here(z, p)
      /\ down' = down /\ up' = up /\ crossings' = crossings
      /\ unit'[z][p].crossing = unit[z][p].crossing
  BY TickMoveEffect DEF Here, Present
<1>2. WillBeIn(z, p)' <=> WillBeIn(z, p)
  BY <1>1 DEF WillBeIn, WillBe
<1>3. ASSUME NEW e \in BOOLEAN, Answer(z, p, e) PROVE Answer(z, p, e)'
  BY <1>1, <1>3 DEF Answer, OneAnswer, Busy
<1>4. QED
  BY <1>2, <1>3 DEF KeepsAt

\* A crossing is reported when the unit's flag was down, so that nothing of a
\* transfer was on its way.
LEMMA ReportKeeps ==
  ASSUME TypeOK, Visits, NEW z \in Zones, NEW p \in Players, ReportCrossing(z, p)
  PROVE  KeepsAt(z, p)
<1>1. VisitOK(visit[z][p], unit[z][p]) /\ visit[z][p] # NoVisit
  BY DEF Visits, ReportCrossing
<1>2. ~visit[z][p].removed => Present(z, p)
  BY <1>1 DEF VisitOK, Present
<1>3. /\ Here(z, p)' <=> Here(z, p)
      /\ down' = down /\ up' = up
      /\ \/ UNCHANGED <<unit, crossings>>
         \/ ~unit[z][p].crossing
  BY <1>1, <1>2, ReportEffect DEF Here, Present, VisitOK
<1>4. WillBeIn(z, p)' <=> WillBeIn(z, p)
  BY <1>3 DEF WillBeIn, WillBe
<1>5. ASSUME NEW e \in BOOLEAN, Answer(z, p, e) PROVE Answer(z, p, e)'
  BY <1>3, <1>5 DEF Answer, OneAnswer, Busy
<1>6. QED
  BY <1>4, <1>5 DEF KeepsAt

\* The transfer of a crossing: had one been under way already, the zone would
\* have been locked and the crossing not reported.
LEMMA RequestKeeps ==
  ASSUME TypeOK, NEW z \in Zones, NEW p \in Players, RequestZoneTransfer(z, p)
  PROVE  KeepsAt(z, p)
<1>1. /\ Here(z, p)' <=> Here(z, p)
      /\ down' = down /\ unit' = unit /\ crossings[z][p] # NoZone /\ crossings'[z][p] = NoZone
  BY RequestEffect DEF Here, Present
<1>2. WillBeIn(z, p)' <=> WillBeIn(z, p)
  BY <1>1 DEF WillBeIn, WillBe
<1>3. CASE ~Present(z, p)
  <2>1. up' = up /\ ~Here(z, p)
    BY <1>3, RequestEffect DEF Here
  <2>2. ASSUME NEW e \in BOOLEAN, Answer(z, p, e) PROVE Answer(z, p, e)'
    BY <1>1, <2>1, <2>2 DEF Answer, OneAnswer, Busy
  <2>3. QED
    BY <1>2, <2>2 DEF KeepsAt
<1>4. CASE Present(z, p)
  <2>1. /\ stray' = IF leaving[z][p] \/ ~unit[z][p].crossing THEN stray \cup {p} ELSE stray
        /\ \E m \in FromPlayer(p) : m.type = "transfer" /\ up'[z][p] = Append(up[z][p], m)
    BY <1>4, RequestEffect
  <2>2. SUFFICES ASSUME p \notin stray', NEW e \in BOOLEAN, Answer(z, p, e) PROVE Answer(z, p, e)'
    BY <1>2 DEF KeepsAt
  <2>3. Here(z, p) /\ unit[z][p].crossing
    BY <1>4, <2>1, <2>2 DEF Here
  <2>4. /\ Some(up'[z][p], "transfer")
        /\ ~Some(up[z][p], "transfer") => Once(up'[z][p], "transfer")
    <3>1. PICK m \in FromPlayer(p) : m.type = "transfer" /\ up'[z][p] = Append(up[z][p], m)
      BY <2>1
    <3>2. Once(up[z][p], "transfer")
      BY <2>2 DEF Answer, OneAnswer
    <3>3. QED
      BY <3>1, <3>2, LinksAt, SomeAppend
  <2>5. ~Busy(down[z][p], up[z][p], e)
    BY <1>1, <2>2, <2>3 DEF Answer, OneAnswer
  <2>6. QED
    BY <1>1, <2>2, <2>3, <2>4, <2>5 DEF Answer, OneAnswer, Busy
<1>5. QED
  BY <1>3, <1>4

LEMMA ZoneStepWhere ==
  ASSUME SessionInv, Visits, \A s \in Sessions : Where(s), NEW z \in Zones, NEW p \in Players,
         BasicStep(z, p) \/ TickStep(z, p)
  PROVE  \A s \in Sessions : Where(s)'
<1>1. TypeOK
  BY DEF SessionInv
<1>2. UNCHANGED <<table, job>> /\ StraysGrow
  BY DEF BasicStep, TickStep, HandleEnterZone, HandleLeaveZone, RemoveUnit, HandleMove, HandleMailBuy,
         TickMove, ReportCrossing, RequestZoneTransfer, clientVars, worldVars, history, zoneHistory,
         worldHistory, StraysGrow
<1>3. KeepsAt(z, p)
  BY <1>1, EnterKeeps, LeaveKeeps, RemoveKeeps, PacketKeeps, TickMoveKeeps, ReportKeeps, RequestKeeps
     DEF BasicStep, TickStep
<1>4. ElsewhereSame(z, p)
  <2>1. CASE ReportCrossing(z, p)
    <3>1. ~visit[z][p].removed => Present(z, p)
      BY <2>1 DEF Visits, VisitOK, ReportCrossing, Present
    <3>2. QED
      BY <1>1, <2>1, <3>1, ReportEffect
  <2>2. CASE ~ReportCrossing(z, p)
    BY <1>1, <2>2, EnterEffect, LeaveEffect, RemoveEffect, PacketEffect, TickMoveEffect, RequestEffect
       DEF BasicStep, TickStep
  <2>3. QED
    BY <2>1, <2>2
<1>5. QED
  BY <1>1, <1>2, <1>3, <1>4, StepElsewhere

(***************************************************************************)
(* What a step of World does to it.                                        *)
(***************************************************************************)

\* A session's row and its account's entry in the index lead as before.
RouteSame(s) ==
    /\ Online(s)' <=> Online(s)
    /\ Online(s) => ZoneOf(s)' = ZoneOf(s)
    /\ PM!HasPlayer(table, AccountOf[s]) => PM!HasPlayer(table, AccountOf[s])'

\* Sessions of other accounts see nothing of what a handler of s did.
LEMMA OthersSame ==
  ASSUME TypeOK, OneSessionEach, NEW s \in Sessions, NEW p, p = AccountOf[s],
         \A c \in Sessions : Where(c), StraysGrow, UNCHANGED zoneVars,
         \A w \in Owners : w # s /\ w # p => job'[w] = job[w],
         \A z \in Zones, q \in Players : q # p => down'[z][q] = down[z][q] /\ up'[z][q] = up[z][q],
         NEW c \in Sessions, c # s, RouteSame(c)
  PROVE  Where(c)'
<1>1. PICK q : q = AccountOf[c] /\ q \in Players /\ q # p
  BY Domains DEF OneSessionEach
<1>2. job'[c] = job[c] /\ job'[q] = job[q]
  BY <1>1, Domains
<1>3. \A z \in Zones : KeepsAt(z, q)
  BY <1>1, SameKeeps DEF zoneVars
<1>4. QED
  BY <1>1, <1>2, <1>3, WhereKept DEF RouteSame, SendsAs

LEMMA RoutesSame ==
  ASSUME table' = table, NEW s
  PROVE  RouteSame(s)
BY DEF RouteSame, Online, ZoneOf, PM!HasPlayer, PM!Has, PM!Find

\* The row of s changes, the account of s may be put in the index.
LEMMA OtherRoutesSame ==
  ASSUME NEW s, NEW i, OnlyRow(table, table', s, i), NEW c, c # s,
         DOMAIN table.sessionByPlayerId \subseteq DOMAIN table'.sessionByPlayerId
  PROVE  RouteSame(c)
BY DEF RouteSame, OnlyRow, Online, ZoneOf, PM!HasPlayer, PM!Has, PM!Find

\* A step that leaves links, jobs and the routes alone.
LEMMA QuietStep ==
  ASSUME TypeOK, \A s \in Sessions : Where(s), UNCHANGED <<job, down, up, zoneVars, history>>,
         \A s \in Sessions : RouteSame(s)
  PROVE  \A s \in Sessions : Where(s)'
<1>1. ASSUME NEW s \in Sessions PROVE Where(s)'
  <2>1. PICK p : p = AccountOf[s] /\ p \in Players
    BY Domains
  <2>2. \A z \in Zones : KeepsAt(z, p)
    BY SameKeeps DEF zoneVars
  <2>3. StraysGrow
    BY DEF StraysGrow, history, zoneHistory, worldHistory
  <2>4. QED
    BY <2>1, <2>2, <2>3, WhereKept DEF RouteSame, SendsAs
<1>2. QED
  BY <1>1

\* A packet of a client is queued for its player.
LEMMA FromClientWhere ==
  ASSUME SessionInv, \A s \in Sessions : Where(s), NEW o \in Owners, HandleFromClient(o)
  PROVE  \A s \in Sessions : Where(s)'
<1>0. PICK m, s : m = Head(lane[o]) /\ s = m.session
  OBVIOUS
<1>1. /\ TakeFromLane(o, {"move", "buy"})
      /\ UNCHANGED <<job, table, up, zoneVars, history>>
      /\ IF PM!Has(table, s) /\ PM!Find(table, s).authenticated
         THEN ToZone(PM!Find(table, s).zoneId, PM!Find(table, s).playerId, m)
         ELSE UNCHANGED down
  BY <1>0 DEF HandleFromClient
<1>2. /\ m \in OnLane(o) /\ m.type \in {"move", "buy"} /\ s \in Sessions /\ TypeOK
  BY <1>0, <1>1, LaneStep1 DEF SessionInv
<1>3. CASE ~Online(s)
  BY <1>1, <1>2, <1>3, RoutesSame, QuietStep DEF Online
<1>4. CASE Online(s)
  <2>1. PICK z, p : z = ZoneOf(s) /\ p = AccountOf[s]
    OBVIOUS
  <2>2. /\ z \in Zones /\ p \in Players /\ ToZone(z, p, m)
    BY <1>1, <1>2, <1>4, <2>1, OnlineZone, Domains DEF Online, ZoneOf, PM!Find
  <2>3. m \in ToPlayer(p)
    BY <1>0, <1>2, <2>1 DEF OnLane, ToPlayer, SessionsOf
  <2>4. /\ down[z][p] \in Seq(ToPlayer(p)) /\ down'[z][p] = Append(down[z][p], m)
        /\ \A y \in Zones, q \in Players : y # z \/ q # p => down'[y][q] = down[y][q]
    BY <1>2, <2>2, <2>3, Sends
  <2>5. ElsewhereSame(z, p)
    BY <1>1, <2>4 DEF ElsewhereSame, zoneVars
  <2>6. Here(z, p)' <=> Here(z, p)
    BY <1>1 DEF Here, Present, zoneVars
  <2>7. PICK here \in BOOLEAN : here <=> Here(z, p)
    OBVIOUS
  <2>8. WillBeIn(z, p)' <=> WillBeIn(z, p)
    <3>1. WillBe(Append(down[z][p], m), here) <=> WillBe(down[z][p], here)
      BY <1>2, <2>3, <2>4, WillBeAppend
    <3>2. QED
      <4>1. WillBeIn(z, p)' <=> WillBe(Append(down[z][p], m), here)
        BY <2>4, <2>6, <2>7 DEF WillBeIn, WillBe
      <4>2. WillBeIn(z, p) <=> WillBe(down[z][p], here)
        BY <2>7 DEF WillBeIn, WillBe
      <4>3. QED
        BY <3>1, <4>1, <4>2
  <2>9. /\ EntryIsLast(down[z][p]) => EntryIsLast(down'[z][p])
        /\ Some(down'[z][p], "enter") <=> Some(down[z][p], "enter")
        /\ Some(down'[z][p], "leave") <=> Some(down[z][p], "leave")
    BY <1>2, <2>3, <2>4, EntryIsLastAppend, SomeAppend
  <2>10. ASSUME NEW e \in BOOLEAN, Answer(z, p, e) PROVE Answer(z, p, e)'
    BY <1>1, <2>6, <2>9, <2>10 DEF Answer, OneAnswer, Busy, zoneVars
  <2>11. KeepsAt(z, p)
    BY <2>8, <2>10 DEF KeepsAt
  <2>12. StraysGrow
    BY <1>1 DEF StraysGrow, history, zoneHistory, worldHistory
  <2>13. QED
    BY <1>1, <1>2, <2>2, <2>5, <2>11, <2>12, StepElsewhere
<1>5. QED
  BY <1>3, <1>4

LEMMA UnitOfWorkWhere ==
  ASSUME SessionInv, \A s \in Sessions : Where(s), NEW z \in Zones, NEW p \in Players,
         HandleUnitOfWorkStream(z, p)
  PROVE  \A s \in Sessions : Where(s)'
<1>0. PICK gold : gold = Head(up[z][p]).gold
  OBVIOUS
<1>1. /\ TakeFromZone(z, p, "uow") /\ UNCHANGED <<job, down, zoneVars, history>>
      /\ IF PM!HasPlayer(table, p)
         THEN table' = PM!SetCurrency(table, PM!FindSessionByPlayerId(table, p), gold)
         ELSE UNCHANGED table
  BY <1>0 DEF HandleUnitOfWorkStream
<1>2. TypeOK /\ TableOK(table) /\ IndexNamesItsSession
  BY DEF SessionInv, TypeOK
<1>3. /\ up[z][p] \in Seq(FromPlayer(p)) /\ up[z][p] # <<>> /\ Head(up[z][p]).type = "uow"
      /\ up'[z][p] = Tail(up[z][p]) /\ gold \in Nat
      /\ \A y \in Zones, q \in Players : y # z \/ q # p => up'[y][q] = up[y][q]
  <2>1. /\ up[z][p] \in Seq(FromPlayer(p)) /\ up[z][p] # <<>> /\ Head(up[z][p]).type = "uow"
        /\ up'[z][p] = Tail(up[z][p]) /\ Head(up[z][p]) \in FromPlayer(p)
        /\ \A y \in Zones, q \in Players : y # z \/ q # p => up'[y][q] = up[y][q]
    BY <1>1, <1>2, TakesUp
  <2>2. gold \in Nat
    BY <1>0, <2>1 DEF FromPlayer
  <2>3. QED
    BY <2>1, <2>2
<1>4. \A c \in Sessions : RouteSame(c)
  <2>1. CASE ~PM!HasPlayer(table, p)
    BY <1>1, <2>1, RoutesSame
  <2>2. CASE PM!HasPlayer(table, p)
    <3>1. PICK s : s = PM!FindSessionByPlayerId(table, p)
      OBVIOUS
    <3>2. s \in DOMAIN table.players /\ s \in Sessions
      BY <1>2, <2>2, <3>1 DEF IndexNamesItsSession, TableOK, PM!HasPlayer, PM!FindSessionByPlayerId, PM!Has
    <3>3. PICK i : i = [table.players[s] EXCEPT !.gold = gold]
      OBVIOUS
    <3>4. table'.sessionByPlayerId = table.sessionByPlayerId /\ OnlyRow(table, table', s, i)
      BY <1>1, <1>2, <1>3, <2>2, <3>1, <3>2, <3>3, CurrencyTable
    <3>5. i.zoneId = table.players[s].zoneId /\ i.authenticated = table.players[s].authenticated
      BY <1>2, <3>2, <3>3 DEF TableOK, Info
    <3>6. QED
      BY <3>2, <3>4, <3>5 DEF RouteSame, OnlyRow, Online, ZoneOf, PM!HasPlayer, PM!Has, PM!Find
  <2>3. QED
    BY <2>1, <2>2
<1>5. KeepsAt(z, p)
  <2>1. /\ Some(up'[z][p], "transfer") <=> Some(up[z][p], "transfer")
        /\ Once(up[z][p], "transfer") => Once(up'[z][p], "transfer")
    BY <1>3, SomeTail
  <2>2. (Here(z, p)' <=> Here(z, p)) /\ (WillBeIn(z, p)' <=> WillBeIn(z, p))
    BY <1>1 DEF WillBeIn, Here, Present, zoneVars
  <2>3. ASSUME NEW e \in BOOLEAN, Answer(z, p, e) PROVE Answer(z, p, e)'
    BY <1>1, <2>1, <2>2, <2>3 DEF Answer, OneAnswer, Busy, zoneVars
  <2>4. QED
    BY <2>2, <2>3 DEF KeepsAt
<1>6. ASSUME NEW s \in Sessions PROVE Where(s)'
  <2>1. PICK q : q = AccountOf[s] /\ q \in Players
    BY Domains
  <2>2. ASSUME NEW y \in Zones PROVE KeepsAt(y, q)
    <3>1. CASE y = z /\ q = p
      BY <1>5, <3>1
    <3>2. CASE y # z \/ q # p
      BY <1>1, <1>3, <2>1, <3>2, SameKeeps DEF zoneVars
    <3>3. QED
      BY <3>1, <3>2
  <2>3. StraysGrow
    BY <1>1 DEF StraysGrow, history, zoneHistory, worldHistory
  <2>4. QED
    BY <1>1, <1>2, <1>4, <2>1, <2>2, <2>3, WhereKept DEF RouteSame, SendsAs
<1>7. QED
  BY <1>6

LEMMA QuietWhere ==
  ASSUME SessionInv, \A s \in Sessions : Where(s),
         \/ \E s \in Sessions : ClientStep(s) \/ OnRecvStream(s) \/ LoadPlayerContent(s)
         \/ \E o \in Owners : HandleLogin(o)
         \/ \E p \in Players : OnExecute(p)
  PROVE  \A s \in Sessions : Where(s)'
<1>1. UNCHANGED <<job, down, up, zoneVars, history>> /\ table' = table
  BY DEF ClientStep, ClientConnect, ClientLogin, ClientMove, ClientBuy, ClientDisconnect, OnRecvStream,
         LoadPlayerContent, HandleLogin, OnExecute, worldVars
<1>2. TypeOK
  BY DEF SessionInv
<1>3. QED
  BY <1>1, <1>2, RoutesSame, QuietStep

LEMMA ConnectedWhere ==
  ASSUME SessionInv, \A s \in Sessions : Where(s), NEW o \in Owners, HandleClientConnected(o)
  PROVE  \A s \in Sessions : Where(s)'
<1>0. PICK s : s = Head(lane[o]).session
  OBVIOUS
<1>1. /\ TakeFromLane(o, {"connected"}) /\ table' = PM!Add(table, s)
      /\ UNCHANGED <<job, down, up, zoneVars, history>>
  BY <1>0 DEF HandleClientConnected
<1>2. s \in Sessions /\ Some(lane[s], "connected")
  BY <1>0, <1>1, LaneStep1
<1>3. TypeOK /\ TableOK(table) /\ ~PM!Has(table, s)
  BY <1>2 DEF SessionInv, TypeOK, SessionOK, ConnectsOnce, Coming
<1>4. OnlyRow(table, table', s, PM!FreshInfo) /\ table'.sessionByPlayerId = table.sessionByPlayerId
  BY <1>1, <1>2, <1>3, AddTable
<1>5. RouteSame(s)
  BY <1>3, <1>4 DEF RouteSame, OnlyRow, Online, PM!FreshInfo, PM!Has, PM!Find, PM!HasPlayer
<1>6. \A c \in Sessions : RouteSame(c)
  <2>1. PICK i : i = PM!FreshInfo
    OBVIOUS
  <2>2. QED
    BY <1>4, <1>5, <2>1, OtherRoutesSame
<1>7. QED
  BY <1>1, <1>3, <1>6, QuietStep

\* Nothing of the player is anywhere when its login is confirmed.
LEMMA NothingYet ==
  ASSUME SessionInv, OneSessionEach, NEW s \in Sessions, Unseen(s), NEW p, p = AccountOf[s]
  PROVE  /\ job[p].do \in {"none", "forget"}
         /\ \A z \in Zones : unit[z][p] = NoUnit /\ down[z][p] = <<>> /\ ~Some(up[z][p], "transfer")
<1>1. p \in Players /\ TypeOK /\ SessionsOf(p) = {s}
  BY Domains DEF OneSessionEach, SessionsOf, SessionInv
<1>2. job[p].do \in {"none", "forget"}
  <2>1. SendsFor(job[p]) # s /\ job[p] \in JobOf(p)
    BY <1>1, Domains, JobAt DEF Unseen
  <2>2. QED
    BY <1>1, <2>1, Domains DEF JobOf, SendsFor, NoJob
<1>3. ASSUME NEW z \in Zones
      PROVE  unit[z][p] = NoUnit /\ down[z][p] = <<>> /\ ~Some(up[z][p], "transfer")
  <2>1. s \notin SessionsAt(z, p)
    BY DEF Unseen
  <2>2. unit[z][p] = NoUnit
    <3>1. SUFFICES ASSUME Present(z, p) PROVE FALSE
      BY DEF Present
    <3>2. unit[z][p].session \in SessionsOf(p)
      BY <1>1, <3>1, UnitAt, ZoneHandoffAssumption
    <3>3. QED
      BY <1>1, <2>1, <3>2 DEF SessionsAt
  <2>3. down[z][p] \in Seq(ToPlayer(p)) /\ up[z][p] \in Seq(FromPlayer(p))
    BY <1>1, LinksAt
  <2>4. down[z][p] = <<>>
    <3>1. SUFFICES ASSUME down[z][p] # <<>> PROVE FALSE
      OBVIOUS
    <3>2. Head(down[z][p]) \in ToPlayer(p) /\ Head(down[z][p]).session \in Of(down[z][p])
      BY <2>3, <3>1, OfQueue, HeadTailProperties
    <3>3. QED
      BY <1>1, <2>1, <3>2 DEF ToPlayer, SessionsAt
  <2>5. ~Some(up[z][p], "transfer")
    <3>1. SUFFICES ASSUME NEW i \in 1 .. Len(up[z][p]), up[z][p][i].type = "transfer" PROVE FALSE
      BY DEF Some
    <3>2. up[z][p][i] \in FromPlayer(p)
      BY <2>3, ElementOfSeq
    <3>3. up[z][p][i].session = s
      BY <1>1, <3>1, <3>2 DEF FromPlayer
    <3>4. QED
      BY <2>1, <3>3 DEF SessionsAt, Of
  <2>6. QED
    BY <2>2, <2>4, <2>5
<1>4. QED
  BY <1>2, <1>3

LEMMA CompleteLoginWhere ==
  ASSUME SessionInv, SessionInv', OneSessionEach, \A s \in Sessions : Where(s), NEW o \in Owners,
         CompleteLogin(o)
  PROVE  \A s \in Sessions : Where(s)'
<1>0. PICK s, gold : s = Head(lane[o]).session /\ gold = Head(lane[o]).gold
  OBVIOUS
<1> DEFINE j == Job("enter", EntryZone, s, AccountOf[s], gold)
<1>1. /\ TakeFromLane(o, {"loginSuccess"})
      /\ UNCHANGED <<up, down, zoneVars, history>>
      /\ IF PM!Has(table, s)
         THEN /\ table' = PM!SetZoneId(PM!SetAuthenticated(table, s, AccountOf[s], {}, gold), s, EntryZone)
              /\ job' = [job EXCEPT ![o] = j]
         ELSE UNCHANGED <<table, job>>
  BY <1>0 DEF CompleteLogin
<1>2. /\ s \in Sessions /\ o = s /\ Some(lane[s], "loginSuccess") /\ gold \in Nat /\ job[o] = NoJob
  <2>1. Head(lane[o]) \in OnLane(o)
    BY <1>0, <1>1, LaneStep1
  <2>2. Head(lane[o]).gold \in Nat
    BY <2>1 DEF OnLane
  <2>3. QED
    BY <1>0, <1>1, <2>2, LaneStep1
<1>3. TypeOK /\ SessionOK(s) /\ TableOK(table)
  BY <1>2 DEF SessionInv, TypeOK
<1>4. CASE ~PM!Has(table, s)
  BY <1>1, <1>3, <1>4, RoutesSame, QuietStep
<1>5. CASE PM!Has(table, s)
  <2>1. PICK i : /\ OnlyRow(table, table', s, i)
                 /\ i.authenticated /\ i.zoneId = EntryZone /\ i.playerId = AccountOf[s]
                 /\ table'.sessionByPlayerId = PM!With(table.sessionByPlayerId, AccountOf[s], s)
    BY <1>1, <1>2, <1>3, <1>5, ConfirmTable DEF PM!Has
  <2>2. PICK p : p = AccountOf[s] /\ p \in Players /\ p # s
    BY <1>2, Domains
  <2>3. j.do = "enter" /\ j.zone = EntryZone
    BY DEF Job
  <2> HIDE DEF j
  <2>4. job'[s] = j /\ \A w \in Owners : w # s => job'[w] = job[w]
    BY <1>1, <1>2, <1>3, <1>5, Domains DEF TypeOK, QueuesOK, Row
  <2>5. ~Online(s) /\ Unseen(s)
    BY <1>2, <1>3, <1>5 DEF SessionOK, LogsInOnce, LoggingIn, Fresh, Online
  <2>6. /\ job'[p].do \in {"none", "forget"}
        /\ \A z \in Zones : unit[z][p] = NoUnit /\ down[z][p] = <<>> /\ ~Some(up[z][p], "transfer")
    BY <1>2, <2>2, <2>4, <2>5, NothingYet, Domains
  <2>7. NoJob.do = "none"
    BY DEF NoJob
  <2>8. Online(s)' /\ ZoneOf(s)' = EntryZone /\ PM!HasPlayer(table, p)'
    BY <2>1, <2>2 DEF OnlyRow, Online, ZoneOf, PM!Has, PM!Find, PM!HasPlayer, PM!With
  <2>9. \A z \in Zones : Entering(s, z)' <=> z = EntryZone
    BY <2>2, <2>3, <2>4, <2>6, <2>7 DEF Entering, EnterTo
  <2>10. \A z \in Zones : ~Here(z, p)' /\ ~WillBeIn(z, p)'
    BY <1>1, <2>6, SomeEmpty DEF Here, Present, WillBeIn, WillBe, zoneVars
  <2>11. ASSUME NEW z \in Zones PROVE Answer(z, p, Entering(s, z))'
    <3>1. ~Some(down'[z][p], "enter") /\ EntryIsLast(down'[z][p])
      BY <1>1, <2>6, SomeEmpty, EntryIsLastEmpty
    <3>2. ~Some(up'[z][p], "transfer") /\ Once(up'[z][p], "transfer")
      BY <1>1, <2>6 DEF Once, Some
    <3>3. QED
      BY <2>10, <3>1, <3>2 DEF Answer, OneAnswer
  <2>12. WillBeIn(ZoneOf(s), p)' \/ Entering(s, ZoneOf(s))'
    BY <2>8, <2>9, ZoneHandoffAssumption
  <2>13. IsIn(s)'
    BY <2>2, <2>3, <2>4, <2>6, <2>7, <2>8, <2>9, <2>10, <2>11, <2>12 DEF IsIn
  <2>14. ASSUME NEW c \in Sessions, c # s PROVE Where(c)'
    <3>1. RouteSame(c)
      <4>1. DOMAIN table.sessionByPlayerId \subseteq DOMAIN table'.sessionByPlayerId
        BY <2>1 DEF PM!With
      <4>2. QED
        BY <2>1, <2>14, <4>1, OtherRoutesSame
    <3>2. StraysGrow
      BY <1>1 DEF StraysGrow, history, zoneHistory, worldHistory
    <3>3. QED
      BY <1>1, <1>2, <1>3, <2>2, <2>4, <2>14, <3>1, <3>2, OthersSame
  <2>15. QED
    BY <2>8, <2>13, <2>14 DEF Where
<1>6. QED
  BY <1>4, <1>5

LEMMA DisconnectedWhere ==
  ASSUME SessionInv, \A s \in Sessions : Where(s), NEW o \in Owners, HandleClientDisconnected(o)
  PROVE  \A s \in Sessions : Where(s)'
<1>1. PICK types : /\ TakeFromLane(o, types) /\ table' = table
                   /\ UNCHANGED <<up, down, zoneVars, history>>
  BY DEF HandleClientDisconnected
<1>2. job[o] = NoJob
  BY <1>1 DEF TakeFromLane
<1>3. TypeOK
  BY DEF SessionInv
<1>4. \A w \in Owners : SendsAs(job[w], job'[w])
  <2>1. job' = job \/ \E z, s, p : job' = [job EXCEPT ![o] = Job("forget", z, s, p, 0)]
    BY DEF HandleClientDisconnected
  <2>2. Row(job, Jobs) /\ DOMAIN Jobs = Owners
    BY <1>3, Domains DEF TypeOK, QueuesOK
  <2>3. NoJob.do = "none" /\ \A z, s, p : Job("forget", z, s, p, 0).do = "forget"
    BY DEF NoJob, Job
  <2>4. CASE job' = job
    BY <2>4 DEF SendsAs
  <2>5. CASE \E z, s, p : job' = [job EXCEPT ![o] = Job("forget", z, s, p, 0)]
    <3>1. PICK j : j.do = "forget" /\ job' = [job EXCEPT ![o] = j]
      BY <2>3, <2>5
    <3>2. job'[o] = j /\ \A w \in Owners : w # o => job'[w] = job[w]
      BY <2>2, <3>1 DEF Row
    <3>3. QED
      BY <1>2, <2>3, <3>1, <3>2 DEF SendsAs
  <2>6. QED
    BY <2>1, <2>4, <2>5
<1>5. ASSUME NEW s \in Sessions PROVE Where(s)'
  <2>1. PICK p : p = AccountOf[s] /\ p \in Players
    BY Domains
  <2>2. SendsAs(job[s], job'[s]) /\ SendsAs(job[p], job'[p])
    BY <1>4, <2>1, Domains
  <2>3. \A z \in Zones : KeepsAt(z, p)
    BY <1>1, SameKeeps DEF zoneVars
  <2>4. StraysGrow
    BY <1>1 DEF StraysGrow, history, zoneHistory, worldHistory
  <2>5. RouteSame(s)
    BY <1>1, RoutesSame
  <2>6. QED
    BY <1>3, <2>1, <2>2, <2>3, <2>4, <2>5, WhereKept DEF RouteSame
<1>6. QED
  BY <1>5

\* The zone that is told is the zone of the row, or the player is misled.
LEMMA ForgetWhere ==
  ASSUME SessionInv, OneSessionEach, \A s \in Sessions : Where(s), NEW o \in Owners, ForgetClient(o)
  PROVE  \A s \in Sessions : Where(s)'
<1>0. PICK s, j : j = job[o] /\ s = j.session
  OBVIOUS
<1>1. TypeOK /\ TableOK(table)
  BY DEF SessionInv, TypeOK
<1>2. /\ j.do = "forget" /\ UNCHANGED <<up, down, zoneVars, zoneHistory, orphaned, overtaken>>
      /\ misled' = IF PM!Has(table, s) /\ PM!Find(table, s).zoneId # j.zone
                   THEN misled \cup {PM!FindPlayerId(table, s)} ELSE misled
  BY <1>0 DEF ForgetClient
<1>3. /\ s \in Sessions /\ (o = s \/ o = AccountOf[s]) /\ table' = PM!Remove(table, s)
      /\ \A w \in Owners : w # o => job'[w] = job[w]
      /\ IF j.zone \in Zones THEN job'[o].do = "leave" /\ job'[o].zone = j.zone ELSE job'[o] = NoJob
  BY <1>0, <1>1, ForgetEffect
<1>4. PICK p : p = AccountOf[s] /\ p \in Players /\ p # s /\ s \in Owners
  BY <1>3, Domains
<1>5. StraysGrow
  BY <1>2 DEF StraysGrow, zoneHistory
<1>6. job'[o].do \in {"leave", "none"}
  BY <1>3 DEF NoJob
<1>7. /\ job'[s].do = "enter" => job'[s] = job[s]
      /\ \A z : Leaving(s, z) => Leaving(s, z)'
  <2>1. \A w \in {s, p} : job'[w] = job[w] \/ (w = o /\ job[w].do = "forget" /\ job'[w].do # "enter")
    BY <1>0, <1>2, <1>3, <1>4, <1>6, Domains
  <2>2. QED
    BY <1>4, <2>1 DEF Leaving, LeaveTo
<1>8. \A z \in Zones : WillBeIn(z, p)' <=> WillBeIn(z, p)
  BY <1>2 DEF WillBeIn, Here, Present, zoneVars
<1>9. ~Online(s)'
  BY <1>3 DEF Online, PM!Has, PM!Remove, PM!Without
<1>10. ASSUME NEW c \in Sessions, c # s PROVE Where(c)'
  <2>1. RouteSame(c)
    <3>1. /\ \A d : d # s => (d \in DOMAIN table'.players <=> d \in DOMAIN table.players)
          /\ \A d \in DOMAIN table'.players : table'.players[d] = table.players[d]
      BY <1>3 DEF PM!Remove, PM!Without
    <3>2. AccountOf[c] \in DOMAIN table.sessionByPlayerId => AccountOf[c] \in DOMAIN table'.sessionByPlayerId
      <4>1. AccountOf[c] # PM!FindPlayerId(table, s)
        BY <1>1, <1>3, <1>10, Domains, ZoneHandoffAssumption
           DEF TableOK, RowOK, OneSessionEach, PM!Has, PM!FindPlayerId
      <4>2. QED
        BY <1>3, <4>1 DEF PM!Remove, PM!Without
    <3>3. QED
      BY <1>10, <3>1, <3>2 DEF RouteSame, Online, ZoneOf, PM!Has, PM!Find, PM!HasPlayer
  <2>2. \A w \in Owners : w # s /\ w # p => job'[w] = job[w]
    BY <1>3, <1>4
  <2>3. \A z \in Zones, q \in Players : q # p => down'[z][q] = down[z][q] /\ up'[z][q] = up[z][q]
    BY <1>2
  <2>4. UNCHANGED zoneVars
    BY <1>2
  <2>5. QED
    BY <1>1, <1>3, <1>4, <1>5, <1>10, <2>1, <2>2, <2>3, <2>4, OthersSame
<1>11. CASE ~Online(s)
  <2>1. IsGone(s)
    BY <1>3, <1>11 DEF Where
  <2>2. IsGone(s)'
    BY <1>4, <1>5, <1>7, <1>8, <2>1 DEF IsGone, StraysGrow
  <2>3. QED
    BY <1>9, <1>10, <2>2 DEF Where
<1>12. CASE Online(s)
  <2>1. PICK y : y = ZoneOf(s) /\ y \in Zones
    BY <1>1, <1>3, <1>12, OnlineZone
  <2>2. IsIn(s)
    BY <1>3, <1>12 DEF Where
  <2>3. PM!Has(table, s) /\ PM!Find(table, s).zoneId = y /\ PM!FindPlayerId(table, s) = p
    BY <1>1, <1>3, <1>4, <1>12, <2>1, OnlineZone DEF Online, ZoneOf, PM!Has, PM!Find, PM!FindPlayerId
  <2>4. CASE j.zone # y
    <3>1. p \in misled'
      BY <1>2, <2>3, <2>4
    <3>2. IsGone(s)'
      BY <1>4, <3>1 DEF IsGone
    <3>3. QED
      BY <1>9, <1>10, <3>2 DEF Where
  <2>5. CASE j.zone = y
    <3>1. Leaving(s, y)'
      BY <1>3, <1>4, <2>1, <2>5 DEF Leaving, LeaveTo
    <3>2. ASSUME p \notin stray', NEW z \in Zones,
                 WillBeIn(z, p)' \/ (job'[s].do = "enter" /\ job'[s].zone = z)
          PROVE  z = y
      <4>1. p \notin stray
        BY <1>4, <1>5, <3>2 DEF StraysGrow
      <4>2. WillBeIn(z, p) \/ Entering(s, z)
        BY <1>7, <1>8, <3>2 DEF Entering, EnterTo
      <4>3. QED
        BY <1>4, <2>1, <2>2, <4>1, <4>2 DEF IsIn
    <3>3. IsGone(s)'
      BY <1>4, <3>1, <3>2 DEF IsGone
    <3>4. QED
      BY <1>9, <1>10, <3>3 DEF Where
  <2>6. QED
    BY <2>4, <2>5
<1>13. QED
  BY <1>11, <1>12

\* The player is in a zone that has nothing to tell it, when a transfer of the
\* zone arrives; so it is in the zone World routes it to.
LEMMA TransferFromHome ==
  ASSUME TypeOK, NEW s \in Sessions, IsIn(s), NEW p, p = AccountOf[s], p \notin stray, NEW z \in Zones,
         Some(up[z][p], "transfer"), job[p] = NoJob
  PROVE  /\ z = ZoneOf(s) /\ job[s].do # "enter" /\ \A y \in Zones : ~Entering(s, y)
         /\ unit[z][p].crossing /\ crossings[z][p] = NoZone
<1>1. Answer(z, p, Entering(s, z)) /\ \A y \in Zones : WillBeIn(y, p) \/ Entering(s, y) => y = ZoneOf(s)
  BY DEF IsIn
<1>2. Here(z, p) /\ ~Some(down[z][p], "leave") /\ ~Entering(s, z)
      /\ unit[z][p].crossing /\ crossings[z][p] = NoZone
  BY <1>1 DEF Answer, OneAnswer, Busy
<1>3. z = ZoneOf(s)
  BY <1>1, <1>2 DEF WillBeIn, WillBe
<1>4. NoJob.do = "none"
  BY DEF NoJob
<1>5. ASSUME NEW y \in Zones PROVE ~Entering(s, y)
  BY <1>1, <1>2, <1>3
<1>6. job[s].do = "enter" => job[s].zone \in Zones
  BY JobAt, Domains DEF NoJob
<1>7. job[s].do # "enter"
  BY <1>5, <1>6 DEF Entering, EnterTo
<1>8. QED
  BY <1>2, <1>3, <1>5, <1>7

LEMMA TransferWhere ==
  ASSUME SessionInv, OneSessionEach, \A s \in Sessions : Where(s), NEW z \in Zones, NEW p \in Players,
         HandleZoneTransfer(z, p)
  PROVE  \A s \in Sessions : Where(s)'
<1>0. PICK m : m = Head(up[z][p])
  OBVIOUS
<1>1. PICK s, target : s = m.session /\ target = IF m.to \in Zones THEN m.to ELSE z
  OBVIOUS
<1> DEFINE j == Job("enterFromCache", target, s, p, 0)
           leave == Msg("leave", s, NoZone, 0)
<1>2. /\ TakeFromZone(z, p, "transfer")
      /\ IF target # z THEN ToZone(z, p, leave) ELSE UNCHANGED down
      /\ table' = PM!SetZoneId(table, s, target)
      /\ job' = [job EXCEPT ![p] = j]
      /\ UNCHANGED <<zoneVars, history>>
  BY <1>0, <1>1 DEF HandleZoneTransfer, LeaveToSource, Reroute
<1>3. TypeOK /\ TableOK(table) /\ IndexNamesItsSession
  BY DEF SessionInv, TypeOK
<1>4. /\ m \in FromPlayer(p) /\ m.type = "transfer" /\ m.session \in Of(up[z][p]) /\ job[p] = NoJob
      /\ up[z][p] \in Seq(FromPlayer(p)) /\ up[z][p] # <<>> /\ up'[z][p] = Tail(up[z][p])
      /\ \A y \in Zones, q \in Players : y # z \/ q # p => up'[y][q] = up[y][q]
  BY <1>0, <1>2, <1>3, TakesUp
<1>5. s \in Sessions /\ AccountOf[s] = p /\ target \in Zones /\ s # p
  BY <1>1, <1>4, Domains DEF FromPlayer, SessionsOf
<1>6. s \in DOMAIN table.players => table.players[s].authenticated
  BY <1>1, <1>4, <1>5, SeenNotFresh DEF SessionsAt
<1>7. /\ table'.sessionByPlayerId = table.sessionByPlayerId
      /\ \/ s \notin DOMAIN table.players /\ table' = table
         \/ s \in DOMAIN table.players
            /\ OnlyRow(table, table', s, [table.players[s] EXCEPT !.zoneId = target])
  BY <1>2, <1>3, <1>5, <1>6, RerouteTable
<1>8. /\ j.do = "enterFromCache" /\ j.zone = target
      /\ leave \in ToPlayer(p) /\ leave.type = "leave" /\ NoJob.do = "none"
  BY <1>5 DEF Job, SessionsOf, ToPlayer, Msg, Somewhere, NoJob
<1> HIDE DEF j, leave
<1>9. job'[p] = j /\ \A w \in Owners : w # p => job'[w] = job[w]
  BY <1>2, <1>3, Domains DEF TypeOK, QueuesOK, Row
<1>10. /\ down[z][p] \in Seq(ToPlayer(p))
       /\ target = z => down'[z][p] = down[z][p]
       /\ target # z => down'[z][p] = Append(down[z][p], leave)
       /\ \A y \in Zones, q \in Players : y # z \/ q # p => down'[y][q] = down[y][q]
  BY <1>2, <1>3, <1>8, Sends, LinksAt
<1>11. Some(up[z][p], "transfer") /\ (Once(up[z][p], "transfer") => ~Some(up'[z][p], "transfer"))
  BY <1>0, <1>4, SomeTail
<1>12. \A y \in Zones : Here(y, p)' <=> Here(y, p)
  BY <1>2 DEF Here, Present, zoneVars
<1>13. ASSUME NEW y \in Zones, y # z PROVE WillBeIn(y, p)' <=> WillBeIn(y, p)
  <2>1. down'[y][p] = down[y][p] /\ (Here(y, p)' <=> Here(y, p))
    BY <1>10, <1>12, <1>13
  <2>2. QED
    BY <2>1 DEF WillBeIn, WillBe
<1>14. target # z => ~WillBeIn(z, p)'
  <2>1. PICK here \in BOOLEAN : here <=> Here(z, p)
    OBVIOUS
  <2>2. ~WillBe(Append(down[z][p], leave), here)
    BY <1>8, <1>10, WillBeAppend
  <2>3. QED
    BY <1>10, <1>12, <2>1, <2>2 DEF WillBeIn, WillBe
<1>15. target = z => (WillBeIn(z, p)' <=> WillBeIn(z, p))
  BY <1>10, <1>12 DEF WillBeIn, WillBe
<1>16. StraysGrow /\ (p \in stray' <=> p \in stray)
  BY <1>2 DEF StraysGrow, history, zoneHistory, worldHistory
<1>17. ASSUME NEW c \in Sessions, c # s PROVE Where(c)'
  <2>1. RouteSame(c)
    <3>1. CASE table' = table
      BY <3>1, RoutesSame
    <3>2. CASE table' # table
      <4>1. PICK i : i = [table.players[s] EXCEPT !.zoneId = target]
        OBVIOUS
      <4>2. OnlyRow(table, table', s, i)
        BY <1>7, <3>2, <4>1
      <4>3. QED
        BY <1>7, <1>17, <4>2, OtherRoutesSame
    <3>3. QED
      BY <3>1, <3>2
  <2>2. QED
    BY <1>2, <1>3, <1>4, <1>5, <1>9, <1>10, <1>16, <1>17, <2>1, OthersSame
<1>18. job'[s] = job[s]
  BY <1>5, <1>9, Domains
<1>19. \A y \in Zones : Leaving(s, y) => Leaving(s, y)'
  BY <1>4, <1>5, <1>8, <1>9, <1>18 DEF Leaving, LeaveTo
<1>20. CASE ~Online(s)
  <2>1. table' = table
    BY <1>6, <1>7, <1>20 DEF Online, PM!Has, PM!Find
  <2>2. ~Online(s)' /\ IsGone(s)
    BY <1>5, <1>20, <2>1 DEF Online, PM!Has, PM!Find, Where
  <2>3. IsGone(s)'
    BY <1>5, <1>13, <1>14, <1>15, <1>16, <1>18, <1>19, <2>2 DEF IsGone, StraysGrow
  <2>4. QED
    BY <1>17, <2>2, <2>3 DEF Where
<1>21. CASE Online(s)
  <2>1. IsIn(s)
    BY <1>5, <1>21 DEF Where
  <2>2. Online(s)' /\ ZoneOf(s)' = target /\ PM!HasPlayer(table, p)'
    <3>1. PICK i : i = [table.players[s] EXCEPT !.zoneId = target]
      OBVIOUS
    <3>2. s \in DOMAIN table.players /\ OnlyRow(table, table', s, i)
      BY <1>7, <1>21, <3>1 DEF Online, PM!Has
    <3>3. i.zoneId = target /\ i.authenticated = table.players[s].authenticated
      BY <1>3, <3>1, <3>2 DEF TableOK, Info
    <3>4. Online(s)' /\ ZoneOf(s)' = target
      BY <1>21, <3>2, <3>3 DEF OnlyRow, Online, ZoneOf, PM!Has, PM!Find
    <3>5. PM!HasPlayer(table, p)'
      BY <1>5, <1>7, <2>1 DEF IsIn, PM!HasPlayer
    <3>6. QED
      BY <3>4, <3>5
  <2>3. job'[s].do # "leave" /\ job'[p].do # "leave"
    BY <1>8, <1>9, <1>18, <2>1 DEF IsIn
  <2>4. Entering(s, target)'
    BY <1>5, <1>8, <1>9 DEF Entering, EnterTo
  <2>5. CASE p \in stray
    <3>1. IsIn(s)'
      BY <1>5, <1>16, <2>2, <2>3, <2>4, <2>5 DEF IsIn
    <3>2. QED
      BY <1>17, <2>2, <3>1 DEF Where
  <2>6. CASE p \notin stray
    <3>1. /\ z = ZoneOf(s) /\ job[s].do # "enter" /\ \A y \in Zones : ~Entering(s, y)
          /\ unit[z][p].crossing /\ crossings[z][p] = NoZone
      BY <1>3, <1>4, <1>5, <1>11, <2>1, <2>6, TransferFromHome
    <3>2. /\ \A y \in Zones : WillBeIn(y, p) => y = z
          /\ \A y \in Zones : Answer(y, p, FALSE)
      BY <1>5, <2>1, <2>6, <3>1 DEF IsIn, Answer, OneAnswer, Busy
    <3>3. \A y \in Zones : Entering(s, y)' <=> y = target
      BY <1>5, <1>8, <1>9, <1>18, <3>1 DEF Entering, EnterTo
    <3>4. ASSUME NEW y \in Zones, WillBeIn(y, p)' PROVE y = target
      BY <1>13, <1>14, <3>2, <3>4
    <3>5. /\ ~Some(down[z][p], "enter") /\ ~Some(down[z][p], "leave") /\ EntryIsLast(down[z][p])
          /\ Once(up[z][p], "transfer")
      BY <1>11, <3>2 DEF Answer, OneAnswer
    <3>6. ~Some(up'[z][p], "transfer") /\ Once(up'[z][p], "transfer")
      BY <1>4, <1>11, <3>5, SomeTail
    <3>7. UNCHANGED <<unit, crossings>>
      BY <1>2 DEF zoneVars
    <3>8. ASSUME NEW y \in Zones PROVE Answer(y, p, Entering(s, y))'
      <4>1. CASE y = z
        <5>1. ~Some(down'[z][p], "enter") /\ EntryIsLast(down'[z][p])
          <6>1. CASE target = z
            BY <1>10, <3>5, <6>1
          <6>2. CASE target # z
            <7>1. leave.type # "enter"
              BY <1>8
            <7>2. ~Some(Append(down[z][p], leave), "enter")
              BY <1>8, <1>10, <3>5, <7>1, SomeAppend
            <7>3. EntryIsLast(Append(down[z][p], leave))
              BY <1>8, <1>10, <3>5, EntryIsLastAppend
            <7>4. QED
              BY <1>10, <6>2, <7>2, <7>3
          <6>3. QED
            BY <6>1, <6>2
        <5>2. QED
          BY <3>1, <3>6, <3>7, <4>1, <5>1 DEF Answer, OneAnswer
      <4>2. CASE y # z /\ y # target
        <5>1. down'[y][p] = down[y][p] /\ up'[y][p] = up[y][p] /\ ~Entering(s, y)'
          BY <1>4, <1>10, <3>3, <4>2
        <5>2. QED
          BY <1>12, <3>2, <3>7, <5>1 DEF Answer, OneAnswer, Busy
      <4>3. CASE y # z /\ y = target
        <5>1. down'[y][p] = down[y][p] /\ up'[y][p] = up[y][p]
          BY <1>4, <1>10, <4>3
        <5>2. ~WillBeIn(y, p) /\ Answer(y, p, FALSE)
          BY <3>2, <4>3
        <5>3. ~Some(down[y][p], "enter")
          <6>1. PICK here \in BOOLEAN : here <=> Here(y, p)
            OBVIOUS
          <6>2. ~WillBe(down[y][p], here)
            BY <5>2, <6>1 DEF WillBeIn, WillBe
          <6>3. QED
            BY <5>2, <6>2, EntersIfLast DEF Answer, OneAnswer
        <5>4. Here(y, p) => Some(down[y][p], "leave")
          BY <5>2 DEF WillBeIn, WillBe
        <5>5. ~Some(up[y][p], "transfer")
          BY <5>2, <5>4 DEF Answer, OneAnswer
        <5>6. QED
          BY <1>12, <3>7, <5>1, <5>2, <5>3, <5>4, <5>5 DEF Answer, OneAnswer, Busy
      <4>4. QED
        BY <4>1, <4>2, <4>3
    <3>9. IsIn(s)'
      BY <1>5, <1>18, <2>2, <2>3, <2>4, <3>1, <3>3, <3>4, <3>8 DEF IsIn
    <3>10. QED
      BY <1>17, <2>2, <3>9 DEF Where
  <2>7. QED
    BY <2>5, <2>6
<1>22. QED
  BY <1>20, <1>21

\* The handler has nothing more to send.
LEMMA JobDone ==
  ASSUME TypeOK, NEW o \in Owners, job' = [job EXCEPT ![o] = NoJob]
  PROVE  job'[o] = NoJob /\ \A w \in Owners : w # o => job'[w] = job[w]
BY Domains DEF TypeOK, QueuesOK, Row

LEMMA SendEnterWhere ==
  ASSUME SessionInv, OneSessionEach, \A s \in Sessions : Where(s), NEW o \in Owners, SendEnterZone(o)
  PROVE  \A s \in Sessions : Where(s)'
<1>1. PICK j : j = job[o]
  OBVIOUS
<1>2. PICK gold : gold = IF j.do = "enter" THEN j.gold ELSE EnterZoneBodyFor(j.session)
  OBVIOUS
<1>3. PICK m : m = Msg("enter", j.session, NoZone, gold)
  OBVIOUS
<1>4. /\ j.do \in {"enter", "enterFromCache"}
      /\ ToZone(j.zone, j.player, m) /\ job' = [job EXCEPT ![o] = NoJob]
      /\ orphaned' = IF j.do = "enterFromCache" /\ ~PM!Has(table, j.session)
                     THEN orphaned \cup {j.player} ELSE orphaned
      /\ UNCHANGED <<table, up, zoneVars, zoneHistory, overtaken, misled>>
  BY <1>1, <1>2, <1>3 DEF SendEnterZone
<1>5. TypeOK /\ TableOK(table)
  BY DEF SessionInv, TypeOK
<1>6. PICK s, y, p : s = j.session /\ y = j.zone /\ p = AccountOf[s]
  OBVIOUS
<1>7. j # NoJob /\ j.session \in Sessions /\ j.gold \in Nat /\ j.player = p
      /\ (j.do = "enter" => o \in Sessions) /\ (j.do = "enterFromCache" => o \in Players)
  BY <1>1, <1>4, <1>5, <1>6, JobAt DEF NoJob
<1>8. m \in ToPlayer(AccountOf[j.session]) /\ m.session = j.session /\ m.type = "enter"
  <2>1. gold \in Nat
    BY <1>2, <1>5, <1>7 DEF EnterZoneBodyFor, TableOK, Info, PM!Has, PM!Find
  <2>2. QED
    BY <1>3, <1>7, <2>1 DEF ToPlayer, SessionsOf, Msg, Somewhere
<1>9. /\ s \in Sessions /\ y \in Zones /\ p \in Players /\ s # p /\ (o = s \/ o = p)
      /\ s \in DOMAIN table.players => table.players[s].authenticated
      /\ down[y][p] \in Seq(ToPlayer(p)) /\ down'[y][p] = Append(down[y][p], m)
      /\ \A x \in Zones, q \in Players : x # y \/ q # p => down'[x][q] = down[x][q]
      /\ job'[o] = NoJob /\ \A w \in Owners : w # o => job'[w] = job[w]
  <2>1. /\ job[o] # NoJob /\ s = job[o].session /\ y = job[o].zone
        /\ m \in ToPlayer(p) /\ ToZone(y, p, m)
    BY <1>1, <1>4, <1>6, <1>7, <1>8
  <2>2. p = AccountOf[s]
    BY <1>6
  <2>3. job'[o] = NoJob /\ \A w \in Owners : w # o => job'[w] = job[w]
    BY <1>4, <1>5, JobDone
  <2>4. s \in Sessions /\ y \in Zones /\ p \in Players /\ s # p /\ (o = s \/ o = p)
    BY <1>1, <1>4, <1>5, <2>1, <2>2, JobAt, Domains
  <2>5. /\ down[y][p] \in Seq(ToPlayer(p)) /\ down'[y][p] = Append(down[y][p], m)
        /\ \A x \in Zones, q \in Players : x # y \/ q # p => down'[x][q] = down[x][q]
    BY <1>5, <2>1, <2>4, Sends
  <2>6. s \in DOMAIN table.players => table.players[s].authenticated
    BY <1>1, <1>4, <2>1, <2>2, <2>4, SeenNotFresh DEF SendsFor
  <2>7. QED
    BY <2>3, <2>4, <2>5, <2>6
<1>10. NoJob.do = "none" /\ (j.do = "enter" <=> o = s) /\ (j.do = "enterFromCache" <=> o = p)
  <2>1. s \notin Players /\ p \notin Sessions
    BY <1>9, Domains
  <2>2. (j.do = "enter" => o = s) /\ (j.do = "enterFromCache" => o = p)
    BY <1>7, <1>9, <2>1
  <2>3. j.do = "enter" \/ j.do = "enterFromCache"
    BY <1>4
  <2>4. QED
    BY <1>9, <2>2, <2>3 DEF NoJob
<1>11. \A x \in Zones : Here(x, p)' <=> Here(x, p)
  BY <1>4 DEF Here, Present, zoneVars
<1>12. ASSUME NEW x \in Zones, x # y PROVE WillBeIn(x, p)' <=> WillBeIn(x, p)
  <2>1. down'[x][p] = down[x][p] /\ (Here(x, p)' <=> Here(x, p))
    BY <1>9, <1>11, <1>12
  <2>2. QED
    BY <2>1 DEF WillBeIn, WillBe
<1>13. WillBeIn(y, p)'
  <2>1. PICK here \in BOOLEAN : here <=> Here(y, p)
    OBVIOUS
  <2>2. WillBe(Append(down[y][p], m), here)
    BY <1>6, <1>8, <1>9, WillBeAppend
  <2>3. QED
    BY <1>9, <1>11, <2>1, <2>2 DEF WillBeIn, WillBe
<1>14. StraysGrow /\ (p \in stray' <=> p \in stray)
  BY <1>4 DEF StraysGrow, zoneHistory
<1>15. ASSUME NEW c \in Sessions, c # s PROVE Where(c)'
  <2>1. \A w \in Owners : w # s /\ w # p => job'[w] = job[w]
    BY <1>9
  <2>2. RouteSame(c)
    BY <1>4, RoutesSame
  <2>3. \A z \in Zones, q \in Players : q # p => down'[z][q] = down[z][q] /\ up'[z][q] = up[z][q]
    BY <1>4, <1>9
  <2>4. QED
    BY <1>4, <1>5, <1>6, <1>9, <1>14, <1>15, <2>1, <2>2, <2>3, OthersSame
<1>16. Entering(s, y)
  BY <1>1, <1>4, <1>6, <1>9, <1>10 DEF Entering, EnterTo
<1>17. \A x \in Zones : /\ Entering(s, x)' => Entering(s, x)
                        /\ Entering(s, x) => Entering(s, x)' \/ x = y
  <2>1. CASE o = s
    <3>1. job[s].do = "enter" /\ job[s].zone = y /\ job'[s] = NoJob /\ job'[p] = job[p]
      BY <1>1, <1>6, <1>9, <1>10, <2>1, Domains
    <3>2. QED
      BY <1>6, <1>10, <3>1 DEF Entering, EnterTo
  <2>2. CASE o = p
    <3>1. job[p].do = "enterFromCache" /\ job[p].zone = y /\ job'[p] = NoJob /\ job'[s] = job[s]
      BY <1>1, <1>6, <1>9, <1>10, <2>2, Domains
    <3>2. QED
      BY <1>6, <1>10, <3>1 DEF Entering, EnterTo
  <2>3. QED
    BY <1>9, <2>1, <2>2
<1>18. CASE Online(s)
  <2>1. IsIn(s) /\ Online(s)' /\ ZoneOf(s)' = ZoneOf(s)
    BY <1>4, <1>9, <1>18 DEF Where, Online, ZoneOf, PM!Has, PM!Find
  <2>2. ZoneOf(s) \in Zones
    BY <1>5, <1>9, <1>18, OnlineZone
  <2>3. /\ PM!HasPlayer(table, p)' /\ job'[s].do # "leave" /\ job'[p].do # "leave"
    BY <1>4, <1>6, <1>9, <1>10, <2>1, Domains DEF IsIn, PM!HasPlayer
  <2>4. WillBeIn(ZoneOf(s), p)' \/ Entering(s, ZoneOf(s))'
    <3>1. PICK x : x = ZoneOf(s)
      OBVIOUS
    <3>2. WillBeIn(x, p)' \/ Entering(s, x)'
      BY <1>6, <1>12, <1>13, <1>17, <2>1, <2>2, <3>1 DEF IsIn
    <3>3. QED
      BY <2>1, <3>1, <3>2
  <2>5. CASE p \in stray
    <3>1. IsIn(s)'
      BY <1>6, <1>14, <2>1, <2>3, <2>4, <2>5 DEF IsIn
    <3>2. QED
      BY <1>15, <2>1, <3>1 DEF Where
  <2>6. CASE p \notin stray
    <3>1. /\ ~(job[s].do = "enter" /\ job[p].do = "enterFromCache")
          /\ \A x \in Zones : WillBeIn(x, p) \/ Entering(s, x) => x = ZoneOf(s)
          /\ \A x \in Zones : Answer(x, p, Entering(s, x))
      BY <1>6, <2>1, <2>6 DEF IsIn
    <3>2. y = ZoneOf(s)
      BY <1>9, <1>16, <3>1
    <3>3. \A x \in Zones : ~Entering(s, x)'
      <4>1. CASE o = s
        <5>1. job[s].do = "enter" /\ job'[s] = NoJob /\ job'[p] = job[p]
          BY <1>1, <1>9, <1>10, <4>1, Domains
        <5>2. QED
          BY <1>6, <1>10, <3>1, <5>1 DEF Entering, EnterTo
      <4>2. CASE o = p
        <5>1. job[p].do = "enterFromCache" /\ job'[p] = NoJob /\ job'[s] = job[s]
          BY <1>1, <1>9, <1>10, <4>2, Domains
        <5>2. QED
          BY <1>6, <1>10, <3>1, <5>1 DEF Entering, EnterTo
      <4>3. QED
        BY <1>9, <4>1, <4>2
    <3>4. ASSUME NEW x \in Zones, WillBeIn(x, p)' PROVE x = ZoneOf(s)
      BY <1>12, <3>1, <3>2, <3>4
    <3>5. ~(job'[s].do = "enter" /\ job'[p].do = "enterFromCache")
      BY <1>9, <1>10
    <3>6. ASSUME NEW x \in Zones PROVE Answer(x, p, Entering(s, x))'
      <4>1. unit' = unit /\ crossings' = crossings /\ up' = up
        BY <1>4 DEF zoneVars
      <4>2. CASE x # y
        <5>1. down'[x][p] = down[x][p]
          BY <1>9, <4>2
        <5>2. Answer(x, p, Entering(s, x)) /\ ~Entering(s, x)'
          BY <3>1, <3>3
        <5>3. QED
          BY <1>11, <4>1, <5>1, <5>2 DEF Answer, OneAnswer, Busy
      <4>3. CASE x = y
        <5>1. Answer(y, p, Entering(s, y)) /\ ~Entering(s, y)'
          BY <1>9, <3>1, <3>3
        <5>2. /\ ~Some(down[y][p], "enter") /\ EntryIsLast(down[y][p])
              /\ ~Some(up[y][p], "transfer") /\ Once(up[y][p], "transfer")
              /\ Here(y, p) => unit[y][p].crossing /\ crossings[y][p] = NoZone
          BY <1>16, <5>1 DEF Answer, OneAnswer, Busy
        <5>3. EntryIsLast(Append(down[y][p], m))
          BY <1>6, <1>8, <1>9, <5>2, EntryIsLastAppend
        <5>4. QED
          BY <1>9, <1>11, <4>1, <4>3, <5>1, <5>2, <5>3 DEF Answer, OneAnswer
      <4>4. QED
        BY <4>2, <4>3
    <3>7. IsIn(s)'
      BY <1>6, <2>1, <2>3, <2>4, <3>3, <3>4, <3>5, <3>6 DEF IsIn
    <3>8. QED
      BY <1>15, <2>1, <3>7 DEF Where
  <2>7. QED
    BY <2>5, <2>6
<1>19. CASE ~Online(s)
  <2>1. ~PM!Has(table, s) /\ IsGone(s) /\ ~Online(s)'
    BY <1>4, <1>9, <1>19 DEF Where, Online, PM!Has, PM!Find
  <2>2. CASE o = p
    <3>1. p \in orphaned'
      BY <1>4, <1>6, <1>7, <1>10, <2>1, <2>2
    <3>2. IsGone(s)'
      BY <1>6, <3>1 DEF IsGone
    <3>3. QED
      BY <1>15, <2>1, <3>2 DEF Where
  <2>3. CASE o = s
    <3>1. /\ job[s].do = "enter" /\ job[s].zone = y /\ job'[s] = NoJob /\ job'[p] = job[p]
      BY <1>1, <1>6, <1>9, <1>10, <2>3, Domains
    <3>2. SUFFICES ASSUME p \notin stray' \cup orphaned' \cup overtaken' \cup misled', NEW x \in Zones,
                          WillBeIn(x, p)' \/ (job'[s].do = "enter" /\ job'[s].zone = x)
                   PROVE  Leaving(s, x)'
      BY <1>6, <1>15, <2>1 DEF IsGone, Where
    <3>3. p \notin stray \cup orphaned \cup overtaken \cup misled
      BY <1>9, <1>14, <3>2 DEF StraysGrow
    <3>4. WillBeIn(x, p) \/ x = y
      BY <1>10, <1>12, <3>1, <3>2
    <3>5. Leaving(s, x)
      BY <1>6, <2>1, <3>1, <3>3, <3>4 DEF IsGone
    <3>6. QED
      BY <1>6, <3>1, <3>5 DEF Leaving, LeaveTo
  <2>4. QED
    BY <1>9, <2>2, <2>3
<1>20. QED
  BY <1>18, <1>19

LEMMA SendLeaveWhere ==
  ASSUME SessionInv, OneSessionEach, \A s \in Sessions : Where(s), NEW o \in Owners, SendLeaveZone(o)
  PROVE  \A s \in Sessions : Where(s)'
<1>1. PICK j : j = job[o]
  OBVIOUS
<1>2. PICK m : m = Msg("leave", j.session, NoZone, 0)
  OBVIOUS
<1>3. PICK s, y, p : s = j.session /\ y = j.zone /\ p = AccountOf[s]
  OBVIOUS
<1>4. /\ j.do = "leave"
      /\ ToZone(j.zone, j.player, m) /\ job' = [job EXCEPT ![o] = NoJob]
      /\ overtaken' = IF job[s].do = "enter" THEN overtaken \cup {j.player} ELSE overtaken
      /\ UNCHANGED <<table, up, zoneVars, zoneHistory, orphaned, misled>>
  BY <1>1, <1>2, <1>3 DEF SendLeaveZone
<1>5. TypeOK
  BY DEF SessionInv
<1>6. j # NoJob /\ j.session \in Sessions /\ j.player = p
  BY <1>1, <1>3, <1>4, <1>5, JobAt DEF NoJob
<1>7. m \in ToPlayer(AccountOf[j.session]) /\ m.session = j.session /\ m.type = "leave"
  BY <1>2, <1>6 DEF ToPlayer, SessionsOf, Msg, Somewhere
<1>8. /\ s \in Sessions /\ y \in Zones /\ p \in Players /\ s # p /\ (o = s \/ o = p)
      /\ down[y][p] \in Seq(ToPlayer(p)) /\ down'[y][p] = Append(down[y][p], m)
      /\ \A x \in Zones, q \in Players : x # y \/ q # p => down'[x][q] = down[x][q]
      /\ job'[o] = NoJob /\ \A w \in Owners : w # o => job'[w] = job[w]
  <2>1. /\ job[o] # NoJob /\ s = job[o].session /\ y = job[o].zone
        /\ m \in ToPlayer(p) /\ ToZone(y, p, m)
    BY <1>1, <1>3, <1>4, <1>6, <1>7
  <2>2. p = AccountOf[s]
    BY <1>3
  <2>3. job'[o] = NoJob /\ \A w \in Owners : w # o => job'[w] = job[w]
    BY <1>4, <1>5, JobDone
  <2>4. s \in Sessions /\ y \in Zones /\ p \in Players /\ s # p /\ (o = s \/ o = p)
    BY <1>1, <1>4, <1>5, <2>1, <2>2, JobAt, Domains
  <2>5. /\ down[y][p] \in Seq(ToPlayer(p)) /\ down'[y][p] = Append(down[y][p], m)
        /\ \A x \in Zones, q \in Players : x # y \/ q # p => down'[x][q] = down[x][q]
    BY <1>5, <2>1, <2>4, Sends
  <2>6. QED
    BY <2>3, <2>4, <2>5
<1>9. NoJob.do = "none"
  BY DEF NoJob
<1>10. \A x \in Zones : Here(x, p)' <=> Here(x, p)
  BY <1>4 DEF Here, Present, zoneVars
<1>11. ASSUME NEW x \in Zones, x # y PROVE WillBeIn(x, p)' <=> WillBeIn(x, p)
  <2>1. down'[x][p] = down[x][p] /\ (Here(x, p)' <=> Here(x, p))
    BY <1>8, <1>10, <1>11
  <2>2. QED
    BY <2>1 DEF WillBeIn, WillBe
<1>12. ~WillBeIn(y, p)'
  <2>1. PICK here \in BOOLEAN : here <=> Here(y, p)
    OBVIOUS
  <2>2. ~WillBe(Append(down[y][p], m), here)
    BY <1>3, <1>7, <1>8, WillBeAppend
  <2>3. QED
    BY <1>8, <1>10, <2>1, <2>2 DEF WillBeIn, WillBe
<1>13. StraysGrow /\ (p \in stray' <=> p \in stray)
  BY <1>4 DEF StraysGrow, zoneHistory
<1>14. ASSUME NEW c \in Sessions, c # s PROVE Where(c)'
  <2>1. \A w \in Owners : w # s /\ w # p => job'[w] = job[w]
    BY <1>8
  <2>2. RouteSame(c)
    BY <1>4, RoutesSame
  <2>3. \A z \in Zones, q \in Players : q # p => down'[z][q] = down[z][q] /\ up'[z][q] = up[z][q]
    BY <1>4, <1>8
  <2>4. QED
    BY <1>3, <1>4, <1>5, <1>8, <1>13, <1>14, <2>1, <2>2, <2>3, OthersSame
<1>15. ~Online(s)
  BY <1>1, <1>3, <1>4, <1>8 DEF Where, IsIn
<1>16. ~Online(s)' /\ IsGone(s)
  BY <1>4, <1>8, <1>15 DEF Where, Online, PM!Has, PM!Find
<1>17. SUFFICES ASSUME p \notin stray' \cup orphaned' \cup overtaken' \cup misled', NEW x \in Zones,
                       WillBeIn(x, p)' \/ (job'[s].do = "enter" /\ job'[s].zone = x)
                PROVE  Leaving(s, x)'
  BY <1>3, <1>14, <1>16 DEF IsGone, Where
<1>18. p \notin stray \cup orphaned \cup overtaken \cup misled /\ job[s].do # "enter"
  BY <1>4, <1>6, <1>8, <1>13, <1>17 DEF StraysGrow
<1>19. job'[s].do # "enter"
  BY <1>8, <1>9, <1>18, Domains
<1>20. WillBeIn(x, p) /\ x # y
  BY <1>11, <1>12, <1>17, <1>19
<1>21. Leaving(s, x)
  BY <1>3, <1>16, <1>18, <1>20 DEF IsGone
<1>22. PICK w \in {s, p} : job[w].do = "leave" /\ job[w].zone = x
  BY <1>3, <1>21 DEF Leaving, LeaveTo
<1>23. w # o
  BY <1>1, <1>3, <1>20, <1>22
<1>24. job'[w] = job[w]
  BY <1>8, <1>22, <1>23, Domains
<1>25. QED
  BY <1>3, <1>22, <1>24 DEF Leaving, LeaveTo

(***************************************************************************)
(* HandoffInv, and what follows when all has settled.                      *)
(***************************************************************************)

LEMMA HandoffInit ==
  ASSUME OneSessionEach, Init
  PROVE  HandoffInv
<1>1. SessionInv /\ Visits
  BY SessionInit
<1>2. ASSUME NEW s \in Sessions PROVE Where(s)
  <2>1. ~Online(s)
    BY EmptyTableOK DEF Init, Online, PM!Has
  <2>2. job[s].do = "none"
    BY Domains DEF Init, NoJob
  <2>3. ASSUME NEW z \in Zones PROVE ~WillBeIn(z, AccountOf[s])
    BY Domains, SomeEmpty DEF Init, WillBeIn, WillBe, Here, Present
  <2>4. IsGone(s)
    BY <2>2, <2>3 DEF IsGone
  <2>5. QED
    BY <2>1, <2>4 DEF Where
<1>3. QED
  BY <1>1, <1>2 DEF HandoffInv

LEMMA HandoffNext ==
  ASSUME HandoffInv, [Next]_vars
  PROVE  HandoffInv'
<1>1. /\ OneSessionEach /\ SessionInv /\ Visits /\ \A s \in Sessions : Where(s)
      /\ SessionInv' /\ Visits'
  BY SessionNext DEF HandoffInv
<1>2. SUFFICES \A s \in Sessions : Where(s)'
  BY <1>1 DEF HandoffInv, OneSessionEach
<1>3. ASSUME NEW s \in Sessions, ClientStep(s) \/ OnRecvStream(s) \/ LoadPlayerContent(s)
      PROVE  \A c \in Sessions : Where(c)'
  BY <1>1, <1>3, QuietWhere
<1>4. ASSUME NEW o \in Owners, LaneStep(o) PROVE \A c \in Sessions : Where(c)'
  BY <1>1, <1>4, QuietWhere, ConnectedWhere, CompleteLoginWhere, FromClientWhere, DisconnectedWhere,
     ForgetWhere, SendEnterWhere, SendLeaveWhere DEF LaneStep
<1>5. ASSUME NEW p \in Players, OnExecute(p) PROVE \A c \in Sessions : Where(c)'
  BY <1>1, <1>5, QuietWhere
<1>6. ASSUME NEW z \in Zones, NEW p \in Players, ZoneLinkStep(z, p)
      PROVE  \A c \in Sessions : Where(c)'
  BY <1>1, <1>6, TransferWhere, UnitOfWorkWhere DEF ZoneLinkStep
<1>7. ASSUME NEW z \in Zones, NEW p \in Players, BasicStep(z, p) \/ TickStep(z, p)
      PROVE  \A c \in Sessions : Where(c)'
  BY <1>1, <1>7, ZoneStepWhere
<1>8. CASE UNCHANGED vars
  <2>1. UNCHANGED <<job, down, up, zoneVars, history>> /\ table' = table /\ TypeOK
    BY <1>1, <1>8 DEF vars, worldVars, SessionInv
  <2>2. QED
    BY <1>1, <2>1, RoutesSame, QuietStep
<1>9. QED
  BY <1>3, <1>4, <1>5, <1>6, <1>7, <1>8 DEF Next

\* With one session per account, which logs in once: wherever its login,
\* transfers and leave have got to, the zone of an online client's row is where
\* its player will be, and a zone that will have somebody who is gone is about
\* to be told, but for the players GoneLeavesNobody excepts.
THEOREM HandoffInvariant == OneSessionEach /\ Spec => []HandoffInv
<1>1. OneSessionEach /\ Init => HandoffInv
  BY HandoffInit
<1>2. HandoffInv /\ [Next]_vars => HandoffInv'
  BY HandoffNext
<1>3. QED
  BY <1>1, <1>2, PTL DEF Spec

\* A settled zone will have the players it has now.
LEMMA SettledHere ==
  ASSUME NEW p \in Players, Settled(p), NEW z \in Zones
  PROVE  WillBeIn(z, p) <=> z \in Holders(p)
BY SomeEmpty DEF Settled, WillBeIn, WillBe, Here, Holders

\* BasicProcessor.cpp:389-437, ZoneProcessor.cpp: when all of a player has
\* settled, the zone World routes its client to has the player, and no other
\* zone has, however moves, transfers and their answers met.
THEOREM HandoffReachesItsZone == OneSessionEach /\ Spec => []RoutedZoneHoldsPlayer
<1>1. HandoffInv => RoutedZoneHoldsPlayer
  <2>1. SUFFICES ASSUME HandoffInv, NEW s \in Sessions, Online(s), Settled(AccountOf[s])
                 PROVE  /\ ZoneOf(s) \in Holders(AccountOf[s])
                        /\ AccountOf[s] \notin stray => Holders(AccountOf[s]) = {ZoneOf(s)}
    BY DEF RoutedZoneHoldsPlayer, ZoneOf
  <2>2. PICK p : p = AccountOf[s] /\ p \in Players
    BY Domains
  <2>3. IsIn(s) /\ ZoneOf(s) \in Zones
    BY <2>1, OnlineZone DEF HandoffInv, Where, SessionInv
  <2>4. job[s].do = "none" /\ job[p].do = "none"
    BY <2>1, <2>2 DEF Settled, NoJob
  <2>5. \A z \in Zones : ~Entering(s, z) /\ (WillBeIn(z, p) <=> z \in Holders(p))
    BY <2>1, <2>2, <2>4, SettledHere DEF Entering, EnterTo
  <2>6. ZoneOf(s) \in Holders(p)
    <3>1. PICK y : y = ZoneOf(s)
      OBVIOUS
    <3>2. WillBeIn(y, p) \/ Entering(s, y)
      BY <2>2, <2>3, <3>1 DEF IsIn
    <3>3. QED
      BY <2>3, <2>5, <3>1, <3>2
  <2>7. ASSUME p \notin stray PROVE Holders(p) = {ZoneOf(s)}
    <3>1. \A z \in Zones : WillBeIn(z, p) => z = ZoneOf(s)
      BY <2>2, <2>3, <2>7 DEF IsIn
    <3>2. Holders(p) \subseteq Zones
      BY DEF Holders
    <3>3. QED
      BY <2>5, <2>6, <3>1, <3>2
  <2>8. QED
    BY <2>2, <2>6, <2>7
<1>2. QED
  BY <1>1, HandoffInvariant, PTL

\* BasicProcessor.cpp:272-296, 380-435: a client that went away leaves no player
\* in any zone, unless its leave was sent before the entry of its login, a
\* transfer entered the player after it was gone, or a transfer came between
\* the look-up that chose the zone to tell and the removal.
THEOREM TheGoneLeaveNobody == OneSessionEach /\ Spec => []GoneLeavesNobody
<1>1. HandoffInv => GoneLeavesNobody
  <2>1. SUFFICES ASSUME HandoffInv, NEW p \in Players, p \notin stray \cup orphaned \cup overtaken \cup misled,
                        Settled(p), NobodyOnline(p), NEW z \in Holders(p)
                 PROVE  FALSE
    BY DEF GoneLeavesNobody
  <2>2. TypeOK /\ z \in Zones /\ Present(z, p)
    BY <2>1 DEF HandoffInv, SessionInv, Holders
  <2>3. PICK s \in Sessions : p = AccountOf[s]
    BY <2>1, <2>2, UnitAt, ZoneHandoffAssumption DEF SessionsOf
  <2>4. ~Online(s)
    BY <2>1, <2>3 DEF HandoffInv, Where, IsIn, NobodyOnline
  <2>5. IsGone(s)
    BY <2>1, <2>4 DEF HandoffInv, Where
  <2>6. WillBeIn(z, p)
    BY <2>1, <2>2, SettledHere
  <2>7. Leaving(s, z)
    BY <2>1, <2>2, <2>3, <2>5, <2>6 DEF IsGone
  <2>8. job[s].do = "none" /\ job[p].do = "none"
    BY <2>1, <2>3 DEF Settled, NoJob
  <2>9. QED
    BY <2>3, <2>7, <2>8 DEF Leaving, LeaveTo
<1>2. QED
  BY <1>1, HandoffInvariant, PTL

(***************************************************************************)
(* What a player owns.  Purchases are reported before the transfer that    *)
(* takes the player away, so the cache is up to date when a handoff reads  *)
(* it, and only the zone of the row can report more.                       *)
(***************************************************************************)

Left(p) == InitialGold - spent[p]
CacheOf(s) == PM!Find(table, s).gold

\* What v is once the reports in x have been applied to g.
Ends(x, g, v) ==
    IF Some(x, "uow")
    THEN \A i \in 1 .. Len(x) :
            x[i].type = "uow" /\ (\A j \in i + 1 .. Len(x) : x[j].type # "uow") => x[i].gold = v
    ELSE g = v

\* Nothing is reported after a transfer was asked for.
ReportsFirst(x) ==
    \A i \in 1 .. Len(x) : x[i].type = "transfer" => \A j \in i + 1 .. Len(x) : x[j].type # "uow"

Bring(q, type, v) == \A i \in 1 .. Len(q) : q[i].type = type => q[i].gold = v

LastIs(q, g, v) == IF q = <<>> THEN g = v ELSE q[Len(q)] = v

\* The links of a zone and its unit, home saying whether it is the zone of
\* the row: who is there and stays has v, who is still to come brings it.
Part(x, d, here, gold, home, g, v) ==
    /\ ReportsFirst(x)
    /\ home => Ends(x, g, v)
    /\ home /\ here /\ ~Some(d, "leave") => gold = v
    /\ ~(home /\ here /\ ~Some(d, "leave")) => ~Some(x, "uow")
    /\ home /\ ~(here /\ ~Some(d, "leave")) => Bring(d, "enter", v)

PartAt(s, z) == LET p == AccountOf[s] IN
    Part(up[z][p], down[z][p], Here(z, p), unit[z][p].gold, z = ZoneOf(s), CacheOf(s), Left(p))

Kept(s) == LET p == AccountOf[s] IN
    /\ LastIs(dbLane[p], db[p], CacheOf(s))
    /\ job[s].do = "enter" => job[s].gold = Left(p)
    /\ \A z \in Zones : PartAt(s, z)

\* Before its login is confirmed the player has bought nothing.
Before(s) == LET p == AccountOf[s] IN
    /\ spent[p] = 0 /\ db[p] = InitialGold /\ dbLane[p] = <<>>
    /\ Bring(lane[s], "loginSuccess", InitialGold)
    /\ \A z \in Zones : up[z][p] = <<>>

Content(s) ==
    /\ Fresh(s) => Before(s)
    /\ Online(s) /\ AccountOf[s] \notin ahead \cup stray => Kept(s)

Contents == \A s \in Sessions : Content(s)

ContentInv == HandoffInv /\ spent \in [Players -> Nat] /\ Contents

LEMMA EndsAppend ==
  ASSUME NEW S, NEW x \in Seq(S), NEW m \in S, NEW g, NEW v
  PROVE  /\ m.type = "uow" => Ends(Append(x, m), g, m.gold)
         /\ m.type # "uow" /\ Ends(x, g, v) => Ends(Append(x, m), g, v)
<1>1. /\ Len(x) \in Nat /\ Len(Append(x, m)) = Len(x) + 1 /\ Append(x, m)[Len(x) + 1] = m
      /\ \A i \in 1 .. Len(x) : Append(x, m)[i] = x[i]
  BY AppendProperties, LenProperties
<1>2. Some(Append(x, m), "uow") <=> Some(x, "uow") \/ m.type = "uow"
  BY SomeAppend
<1>3. ASSUME m.type = "uow" PROVE Ends(Append(x, m), g, m.gold)
  <2> SUFFICES ASSUME NEW i \in 1 .. Len(x) + 1,
                      \A j \in i + 1 .. Len(x) + 1 : Append(x, m)[j].type # "uow"
               PROVE  Append(x, m)[i].gold = m.gold
    BY <1>1, <1>2, <1>3 DEF Ends
  <2>1. ASSUME i # Len(x) + 1 PROVE FALSE
    <3>1. Len(x) + 1 \in i + 1 .. Len(x) + 1
      BY <1>1, <2>1
    <3>2. QED
      BY <1>1, <1>3, <3>1
  <2>2. QED
    BY <1>1, <2>1
<1>4. ASSUME m.type # "uow", Ends(x, g, v) PROVE Ends(Append(x, m), g, v)
  <2>1. CASE ~Some(x, "uow")
    BY <1>2, <1>4, <2>1 DEF Ends
  <2>2. CASE Some(x, "uow")
    <3> SUFFICES ASSUME NEW i \in 1 .. Len(x) + 1, Append(x, m)[i].type = "uow",
                        \A j \in i + 1 .. Len(x) + 1 : Append(x, m)[j].type # "uow"
                 PROVE  Append(x, m)[i].gold = v
      BY <1>1, <1>2, <2>2 DEF Ends
    <3>1. i \in 1 .. Len(x) /\ x[i].type = "uow" /\ Append(x, m)[i] = x[i]
      BY <1>1, <1>4
    <3>2. \A j \in i + 1 .. Len(x) : j \in 1 .. Len(x) /\ j \in i + 1 .. Len(x) + 1
      BY <1>1
    <3>3. \A j \in i + 1 .. Len(x) : x[j].type # "uow"
      BY <1>1, <3>2
    <3>4. x[i].gold = v
      BY <1>4, <2>2, <3>1, <3>3 DEF Ends
    <3>5. QED
      BY <3>1, <3>4
  <2>3. QED
    BY <2>1, <2>2
<1>5. QED
  BY <1>3, <1>4

LEMMA EndsTail ==
  ASSUME NEW S, NEW x \in Seq(S), x # <<>>, NEW g, NEW v, Ends(x, g, v)
  PROVE  /\ Head(x).type = "uow" => Ends(Tail(x), Head(x).gold, v)
         /\ Head(x).type # "uow" => Ends(Tail(x), g, v)
<1>1. /\ Len(x) \in Nat /\ Len(x) > 0 /\ Len(Tail(x)) = Len(x) - 1 /\ Head(x) = x[1]
      /\ \A i \in 1 .. Len(x) - 1 : Tail(x)[i] = x[i + 1]
  BY HeadTailProperties, EmptySeq, LenProperties
<1>2. Some(x, "uow") <=> Head(x).type = "uow" \/ Some(Tail(x), "uow")
  BY SomeTail
<1>3. ASSUME Some(Tail(x), "uow"), NEW w PROVE Ends(Tail(x), w, v)
  <2> SUFFICES ASSUME NEW i \in 1 .. Len(x) - 1, Tail(x)[i].type = "uow",
                      \A j \in i + 1 .. Len(x) - 1 : Tail(x)[j].type # "uow"
               PROVE  Tail(x)[i].gold = v
    BY <1>1, <1>3 DEF Ends
  <2>1. i + 1 \in 1 .. Len(x) /\ Tail(x)[i] = x[i + 1]
    BY <1>1
  <2>2. ASSUME NEW j \in (i + 1) + 1 .. Len(x) PROVE x[j].type # "uow"
    <3>1. j - 1 \in i + 1 .. Len(x) - 1 /\ j - 1 \in 1 .. Len(x) - 1 /\ (j - 1) + 1 = j
      BY <1>1
    <3>2. Tail(x)[j - 1] = x[j] /\ Tail(x)[j - 1].type # "uow"
      BY <1>1, <3>1
    <3>3. QED
      BY <3>2
  <2>3. QED
    BY <1>2, <1>3, <2>1, <2>2 DEF Ends
<1>4. ASSUME ~Some(Tail(x), "uow"), Head(x).type = "uow" PROVE Head(x).gold = v
  <2>1. ASSUME NEW j \in 1 + 1 .. Len(x) PROVE x[j].type # "uow"
    <3>1. j - 1 \in 1 .. Len(x) - 1 /\ (j - 1) + 1 = j
      BY <1>1
    <3>2. QED
      BY <1>1, <1>4, <3>1 DEF Some
  <2>2. 1 \in 1 .. Len(x) /\ x[1].type = "uow"
    BY <1>1, <1>4
  <2>3. x[1].gold = v
    BY <1>2, <1>4, <2>1, <2>2 DEF Ends
  <2>4. QED
    BY <1>1, <2>3
<1>5. QED
  BY <1>2, <1>3, <1>4 DEF Ends

LEMMA ReportsFirstAppend ==
  ASSUME NEW S, NEW x \in Seq(S), NEW m \in S, ReportsFirst(x),
         m.type = "uow" => ~Some(x, "transfer")
  PROVE  ReportsFirst(Append(x, m))
<1>1. /\ Len(x) \in Nat /\ Len(Append(x, m)) = Len(x) + 1 /\ Append(x, m)[Len(x) + 1] = m
      /\ \A i \in 1 .. Len(x) : Append(x, m)[i] = x[i]
  BY AppendProperties, LenProperties
<1> SUFFICES ASSUME NEW i \in 1 .. Len(x) + 1, Append(x, m)[i].type = "transfer", NEW j \in i + 1 .. Len(x) + 1
             PROVE  Append(x, m)[j].type # "uow"
  BY <1>1 DEF ReportsFirst
<1>2. i \in 1 .. Len(x) /\ x[i].type = "transfer"
  BY <1>1
<1>3. CASE j = Len(x) + 1
  BY <1>1, <1>2, <1>3 DEF Some
<1>4. CASE j # Len(x) + 1
  <2>1. j \in i + 1 .. Len(x) /\ j \in 1 .. Len(x)
    BY <1>1, <1>2, <1>4
  <2>2. QED
    BY <1>1, <1>2, <2>1 DEF ReportsFirst
<1>5. QED
  BY <1>3, <1>4

LEMMA ReportsFirstTail ==
  ASSUME NEW S, NEW x \in Seq(S), x # <<>>, ReportsFirst(x)
  PROVE  /\ ReportsFirst(Tail(x))
         /\ Head(x).type = "transfer" => ~Some(Tail(x), "uow")
<1>1. /\ Len(x) \in Nat /\ Len(x) > 0 /\ Len(Tail(x)) = Len(x) - 1 /\ Head(x) = x[1]
      /\ \A i \in 1 .. Len(x) - 1 : Tail(x)[i] = x[i + 1]
  BY HeadTailProperties, EmptySeq, LenProperties
<1>2. ReportsFirst(Tail(x))
  <2> SUFFICES ASSUME NEW i \in 1 .. Len(x) - 1, Tail(x)[i].type = "transfer", NEW j \in i + 1 .. Len(x) - 1
               PROVE  Tail(x)[j].type # "uow"
    BY <1>1 DEF ReportsFirst
  <2>1. i + 1 \in 1 .. Len(x) /\ j + 1 \in (i + 1) + 1 .. Len(x) /\ j \in 1 .. Len(x) - 1
    BY <1>1
  <2>2. QED
    BY <1>1, <2>1 DEF ReportsFirst
<1>3. ASSUME Head(x).type = "transfer", NEW i \in 1 .. Len(x) - 1 PROVE Tail(x)[i].type # "uow"
  <2>1. 1 \in 1 .. Len(x) /\ i + 1 \in 1 + 1 .. Len(x)
    BY <1>1
  <2>2. QED
    BY <1>1, <1>3, <2>1 DEF ReportsFirst
<1>4. QED
  BY <1>1, <1>2, <1>3 DEF Some

LEMMA BringAppend ==
  ASSUME NEW S, NEW q \in Seq(S), NEW m \in S, NEW t, NEW v, Bring(q, t, v), m.type = t => m.gold = v
  PROVE  Bring(Append(q, m), t, v)
<1>1. /\ Len(q) \in Nat /\ Len(Append(q, m)) = Len(q) + 1 /\ Append(q, m)[Len(q) + 1] = m
      /\ \A i \in 1 .. Len(q) : Append(q, m)[i] = q[i]
  BY AppendProperties, LenProperties
<1>2. QED
  BY <1>1 DEF Bring

LEMMA BringTail ==
  ASSUME NEW S, NEW q \in Seq(S), q # <<>>, NEW t, NEW v, Bring(q, t, v)
  PROVE  Bring(Tail(q), t, v) /\ (Head(q).type = t => Head(q).gold = v)
<1>1. /\ Len(q) \in Nat /\ Len(q) > 0 /\ Len(Tail(q)) = Len(q) - 1 /\ Head(q) = q[1]
      /\ \A i \in 1 .. Len(q) - 1 : Tail(q)[i] = q[i + 1]
  BY HeadTailProperties, EmptySeq, LenProperties
<1>2. 1 \in 1 .. Len(q) /\ \A i \in 1 .. Len(q) - 1 : i + 1 \in 1 .. Len(q)
  BY <1>1
<1>3. QED
  BY <1>1, <1>2 DEF Bring

LEMMA LastIsAppend ==
  ASSUME NEW S, NEW q \in Seq(S), NEW m \in S, NEW g
  PROVE  LastIs(Append(q, m), g, m)
<1>1. /\ Len(q) \in Nat /\ Len(Append(q, m)) = Len(q) + 1 /\ Append(q, m)[Len(q) + 1] = m
  BY AppendProperties, LenProperties
<1>2. Append(q, m) # <<>>
  BY <1>1, EmptySeq
<1>3. QED
  BY <1>1, <1>2 DEF LastIs

LEMMA LastIsTail ==
  ASSUME NEW S, NEW q \in Seq(S), q # <<>>, NEW g, NEW v, LastIs(q, g, v)
  PROVE  LastIs(Tail(q), Head(q), v)
<1>1. /\ Len(q) \in Nat /\ Len(q) > 0 /\ Len(Tail(q)) = Len(q) - 1 /\ Head(q) = q[1]
      /\ \A i \in 1 .. Len(q) - 1 : Tail(q)[i] = q[i + 1]
      /\ Tail(q) \in Seq(S)
  BY HeadTailProperties, EmptySeq, LenProperties
<1>2. q[Len(q)] = v /\ (Tail(q) = <<>> <=> Len(Tail(q)) = 0)
  <2>1. q[Len(q)] = v
    BY DEF LastIs
  <2>2. Len(<<>>) = 0 /\ (Tail(q) # <<>> => Len(Tail(q)) \in Nat \ {0})
    BY <1>1, EmptySeq
  <2>3. QED
    BY <2>1, <2>2
<1>3. CASE Len(q) = 1
  <2>1. Tail(q) = <<>>
    BY <1>1, <1>2, <1>3
  <2>2. QED
    BY <1>1, <1>2, <1>3, <2>1 DEF LastIs
<1>4. CASE Len(q) # 1
  <2>1. Len(q) - 1 \in 1 .. Len(q) - 1 /\ (Len(q) - 1) + 1 = Len(q)
    BY <1>1, <1>4
  <2>2. Tail(q)[Len(Tail(q))] = v
    BY <1>1, <1>2, <2>1
  <2>3. Tail(q) # <<>>
    BY <1>1, <1>2, <1>4
  <2>4. QED
    BY <2>2, <2>3 DEF LastIs
<1>5. QED
  BY <1>3, <1>4


(***************************************************************************)
(* Who is not concerned by a step keeps what they own.                     *)
(***************************************************************************)

SessionSteady(s) ==
    /\ Fresh(s)' => Fresh(s)
    /\ Bring(lane[s], "loginSuccess", InitialGold) => Bring(lane'[s], "loginSuccess", InitialGold)
    /\ Online(s)' => Online(s) /\ ZoneOf(s)' = ZoneOf(s) /\ CacheOf(s)' = CacheOf(s)
    /\ job'[s].do = "enter" => job'[s] = job[s]

PlayerSteady(p) ==
    /\ p \in ahead \cup stray => p \in ahead' \cup stray'
    /\ spent'[p] = spent[p] /\ dbLane'[p] = dbLane[p] /\ db'[p] = db[p]

LinkSteady(z, p) ==
    /\ up'[z][p] = up[z][p] /\ down'[z][p] = down[z][p] /\ unit'[z][p] = unit[z][p]
    /\ leaving'[z][p] = leaving[z][p]

LEMMA Steady ==
  ASSUME NEW s \in Sessions, Content(s), SessionSteady(s), NEW p, p = AccountOf[s], PlayerSteady(p),
         \A z \in Zones : up[z][p] = <<>> => up'[z][p] = <<>>,
         Online(s)' => \A z \in Zones : PartAt(s, z) => PartAt(s, z)'
  PROVE  Content(s)'
<1>1. Fresh(s)' => Before(s)'
  BY DEF Content, SessionSteady, PlayerSteady, Before
<1>2. ASSUME Online(s)', AccountOf[s] \notin ahead' \cup stray' PROVE Kept(s)'
  <2>1. Kept(s)
    BY <1>2 DEF Content, SessionSteady, PlayerSteady
  <2>2. LastIs(dbLane'[p], db'[p], CacheOf(s)')
    BY <1>2, <2>1 DEF SessionSteady, PlayerSteady, Kept
  <2>3. job'[s].do = "enter" => job'[s].gold = Left(p)'
    BY <2>1 DEF SessionSteady, PlayerSteady, Kept, Left
  <2>4. \A z \in Zones : PartAt(s, z)'
    BY <1>2, <2>1 DEF Kept
  <2>5. QED
    BY <2>2, <2>3, <2>4 DEF Kept
<1>3. QED
  BY <1>1, <1>2 DEF Content

LEMMA PartSteady ==
  ASSUME NEW s, NEW z, NEW p, p = AccountOf[s], LinkSteady(z, p), spent'[p] = spent[p],
         ZoneOf(s)' = ZoneOf(s), CacheOf(s)' = CacheOf(s), PartAt(s, z)
  PROVE  PartAt(s, z)'
BY DEF LinkSteady, PartAt, Left, Here, Present

LEMMA LinksSteady ==
  ASSUME NEW s \in Sessions, Content(s), SessionSteady(s), NEW p, p = AccountOf[s], PlayerSteady(p),
         \A z \in Zones : LinkSteady(z, p)
  PROVE  Content(s)'
<1>1. \A z \in Zones : up[z][p] = <<>> => up'[z][p] = <<>>
  BY DEF LinkSteady
<1>2. Online(s)' => \A z \in Zones : PartAt(s, z) => PartAt(s, z)'
  BY PartSteady DEF SessionSteady, PlayerSteady
<1>3. QED
  BY <1>1, <1>2, Steady

LEMMA LinksUntouched ==
  ASSUME UNCHANGED <<up, down, unit, leaving>>, NEW z, NEW p
  PROVE  LinkSteady(z, p)
BY DEF LinkSteady

LEMMA PlayerUntouched ==
  ASSUME UNCHANGED <<spent, ahead, stray, db, dbLane>>, NEW p
  PROVE  PlayerSteady(p)
BY DEF PlayerSteady

\* What makes a session fresh.
LEMMA FreshFrom ==
  ASSUME NEW s, client'[s] = "new" => client[s] = "new",
         Coming(s, "connected")' => Coming(s, "connected") \/ client[s] = "new",
         PM!Has(table, s)' /\ ~PM!Find(table, s).authenticated' =>
             (PM!Has(table, s) /\ ~PM!Find(table, s).authenticated) \/ Coming(s, "connected")
  PROVE  Fresh(s)' => Fresh(s)
BY DEF Fresh

LEMMA TableUntouched ==
  ASSUME table' = table, NEW s
  PROVE  /\ Online(s)' <=> Online(s)
         /\ ZoneOf(s)' = ZoneOf(s) /\ CacheOf(s)' = CacheOf(s)
         /\ PM!Has(table, s)' <=> PM!Has(table, s)
         /\ PM!Find(table, s).authenticated' = PM!Find(table, s).authenticated
BY DEF Online, ZoneOf, CacheOf, PM!Has, PM!Find

LEMMA RowUntouched ==
  ASSUME NEW s, NEW i, OnlyRow(table, table', s, i), NEW c, c # s
  PROVE  /\ Online(c)' <=> Online(c)
         /\ Online(c) => ZoneOf(c)' = ZoneOf(c) /\ CacheOf(c)' = CacheOf(c)
         /\ PM!Has(table, c)' <=> PM!Has(table, c)
         /\ PM!Has(table, c) => PM!Find(table, c).authenticated' = PM!Find(table, c).authenticated
BY DEF OnlyRow, Online, ZoneOf, CacheOf, PM!Has, PM!Find

LEMMA LaneTakenSteady ==
  ASSUME TypeOK, NEW o \in Owners, NEW types, TakeFromLane(o, types), NEW s \in Sessions
  PROVE  /\ Bring(lane[s], "loginSuccess", InitialGold) => Bring(lane'[s], "loginSuccess", InitialGold)
         /\ \A t : Some(lane'[s], t) => Some(lane[s], t)
<1>1. /\ lane[o] \in Seq(OnLane(o)) /\ lane[o] # <<>>
      /\ lane'[o] = Tail(lane[o]) /\ \A w \in Owners : w # o => lane'[w] = lane[w]
  BY TakesLane
<1>2. CASE s = o
  BY <1>1, <1>2, BringTail, SomeTail
<1>3. CASE s # o
  BY <1>1, <1>3, Domains
<1>4. QED
  BY <1>2, <1>3

\* A handler that takes a message of its lane and keeps the rows.
LEMMA HandlerSteady ==
  ASSUME TypeOK, NEW o \in Owners, NEW types, TakeFromLane(o, types), UNCHANGED <<client, gateway>>,
         NEW s \in Sessions, job'[s].do = "enter" => job'[s] = job[s],
         Online(s)' => Online(s) /\ ZoneOf(s)' = ZoneOf(s) /\ CacheOf(s)' = CacheOf(s),
         PM!Has(table, s)' /\ ~PM!Find(table, s).authenticated' =>
             (PM!Has(table, s) /\ ~PM!Find(table, s).authenticated) \/ Coming(s, "connected")
  PROVE  SessionSteady(s)
<1>1. /\ Bring(lane[s], "loginSuccess", InitialGold) => Bring(lane'[s], "loginSuccess", InitialGold)
      /\ \A t : Some(lane'[s], t) => Some(lane[s], t)
  BY LaneTakenSteady
<1>2. Fresh(s)' => Fresh(s)
  BY <1>1, FreshFrom DEF Coming
<1>3. QED
  BY <1>1, <1>2 DEF SessionSteady

\* A step that takes no message.
LEMMA RestSteady ==
  ASSUME UNCHANGED <<client, gateway, lane>>,
         NEW s, job'[s].do = "enter" => job'[s] = job[s],
         Online(s)' => Online(s) /\ ZoneOf(s)' = ZoneOf(s) /\ CacheOf(s)' = CacheOf(s),
         PM!Has(table, s)' /\ ~PM!Find(table, s).authenticated' =>
             PM!Has(table, s) /\ ~PM!Find(table, s).authenticated
  PROVE  SessionSteady(s)
<1>1. Fresh(s)' => Fresh(s)
  BY FreshFrom DEF Coming
<1>2. QED
  BY <1>1 DEF SessionSteady

LEMMA ClientSteady ==
  ASSUME SessionInv, NEW c \in Sessions, ClientStep(c), NEW s \in Sessions
  PROVE  SessionSteady(s)
<1>1. TypeOK /\ UNCHANGED <<lane, job, table>>
  BY DEF ClientStep, ClientConnect, ClientLogin, ClientMove, ClientBuy, ClientDisconnect, worldVars, SessionInv
<1>2. PICK m \in OnGateway(c) : ToWorld(c, m) /\ (m.type = "connected" => client[c] = "new")
  <2>1. \A t \in FromClient, to \in Somewhere : Msg(t, c, to, 0) \in OnGateway(c) /\ Msg(t, c, to, 0).type = t
    BY DEF Msg, OnGateway
  <2>2. NoZone \in Somewhere /\ Positions \subseteq Somewhere
    BY DEF Somewhere
  <2>3. {"connected", "login", "move", "buy", "disconnected"} \subseteq FromClient
    BY DEF FromClient
  <2>4. CASE ClientConnect(c)
    BY <2>1, <2>2, <2>3, <2>4 DEF ClientConnect
  <2>5. CASE ClientLogin(c)
    BY <2>1, <2>2, <2>3, <2>5 DEF ClientLogin
  <2>6. CASE \E to \in Positions : ClientMove(c, to)
    <3>1. PICK to \in Positions : ClientMove(c, to)
      BY <2>6
    <3>2. ToWorld(c, Msg("move", c, to, 0))
      BY <3>1 DEF ClientMove
    <3>3. Msg("move", c, to, 0) \in OnGateway(c) /\ Msg("move", c, to, 0).type = "move"
      BY <2>1, <2>2, <2>3
    <3>4. QED
      BY <3>2, <3>3
  <2>7. CASE ClientBuy(c)
    BY <2>1, <2>2, <2>3, <2>7 DEF ClientBuy
  <2>8. CASE ClientDisconnect(c)
    BY <2>1, <2>2, <2>3, <2>8 DEF ClientDisconnect
  <2>9. QED
    BY <2>4, <2>5, <2>6, <2>7, <2>8 DEF ClientStep
<1>3. client'[s] = "new" => client[s] = "new"
  <2>1. client \in [Sessions -> {"new", "open", "login", "gone"}]
    BY <1>1 DEF TypeOK
  <2>2. client' = client \/ \E v \in {"open", "login", "gone"} : client' = [client EXCEPT ![c] = v]
    BY DEF ClientStep, ClientConnect, ClientLogin, ClientMove, ClientBuy, ClientDisconnect
  <2>3. QED
    BY <2>1, <2>2
<1>4. Coming(s, "connected")' => Coming(s, "connected") \/ client[s] = "new"
  <2>1. Added(gateway[c], gateway'[c], m) /\ \A w \in Sessions : w # c => gateway'[w] = gateway[w]
    BY <1>1, <1>2, GatewayPut
  <2>2. CASE s = c
    BY <1>1, <1>2, <2>1, <2>2 DEF Added, Coming
  <2>3. CASE s # c
    BY <1>1, <2>1, <2>3 DEF Coming
  <2>4. QED
    BY <2>2, <2>3
<1>5. /\ Online(s)' <=> Online(s)
      /\ ZoneOf(s)' = ZoneOf(s) /\ CacheOf(s)' = CacheOf(s)
      /\ PM!Has(table, s)' <=> PM!Has(table, s)
      /\ PM!Find(table, s).authenticated' = PM!Find(table, s).authenticated
  BY <1>1, TableUntouched
<1>6. Fresh(s)' => Fresh(s)
  BY <1>3, <1>4, <1>5, FreshFrom
<1>7. QED
  BY <1>1, <1>5, <1>6 DEF SessionSteady

LEMMA OnRecvStreamSteady ==
  ASSUME SessionInv, NEW c \in Sessions, OnRecvStream(c), NEW s \in Sessions
  PROVE  SessionSteady(s)
<1> DEFINE m == Head(gateway[c])
           o == OwnerOf(c)
<1>1. TypeOK
  BY DEF SessionInv
<1>2. Row(gateway, Gateways) /\ Gateways[c] = Seq(OnGateway(c)) /\ c \in DOMAIN Gateways
      /\ DOMAIN Gateways = Sessions
  BY <1>1, Domains DEF TypeOK, QueuesOK, Gateways
<1>3. /\ gateway[c] \in Seq(OnGateway(c)) /\ gateway[c] # <<>>
      /\ gateway' = [gateway EXCEPT ![c] = Tail(gateway[c])] /\ ToLane(o, m)
      /\ UNCHANGED <<client, job, table>>
  BY <1>2 DEF Row, OnRecvStream, ToLane, clientVars
<1>4. m \in OnGateway(c) /\ m.type # "loginSuccess" /\ m.session = c
  <2>1. m \in OnGateway(c)
    BY <1>3, HeadTailProperties
  <2>2. QED
    BY <2>1 DEF OnGateway, FromClient
<1>5. o = c \/ o = AccountOf[c]
  <2>1. PM!Has(table, c) => RowOK(c, PM!Find(table, c))
    BY <1>1 DEF TypeOK, TableOK, PM!Has, PM!Find
  <2>2. QED
    BY <2>1 DEF OwnerOf, PM!FindPlayerId, RowOK, PM!Has, PM!Find
<1>6. o \in Owners /\ m \in OnLane(o) /\ (o \in Sessions => o = c)
  <2>1. CASE o = c
    BY <1>4, <2>1, Domains DEF OnGateway, OnLane, FromClient
  <2>2. CASE o = AccountOf[c]
    <3>1. o \in Players /\ o \notin Sessions /\ c \in SessionsOf(o)
      BY <2>2, Domains DEF SessionsOf
    <3>2. QED
      BY <1>4, <3>1, Domains DEF OnGateway, OnLane, FromClient
  <2>3. QED
    BY <1>5, <2>1, <2>2
<1> HIDE DEF m, o
<1>7. Taken(gateway[c], gateway'[c], Head(gateway[c])) /\ \A w \in Sessions : w # c => gateway'[w] = gateway[w]
  <2>1. gateway'[c] = Tail(gateway[c]) /\ \A w \in Sessions : w # c => gateway'[w] = gateway[w]
    BY <1>2, <1>3 DEF Row
  <2>2. QED
    BY <1>3, <2>1, AddedTaken
<1>8. /\ lane[o] \in Seq(OnLane(o)) /\ lane'[o] = Append(lane[o], m)
      /\ Added(lane[o], lane'[o], m) /\ \A w \in Owners : w # o => lane'[w] = lane[w]
  <2>1. Added(lane[o], lane'[o], m) /\ \A w \in Owners : w # o => lane'[w] = lane[w]
    BY <1>1, <1>3, <1>6, LanePut
  <2>2. Row(lane, Lanes) /\ DOMAIN Lanes = Owners /\ Lanes[o] = Seq(OnLane(o))
    BY <1>1, <1>6, Domains DEF TypeOK, QueuesOK, Lanes
  <2>3. lane[o] \in Seq(OnLane(o)) /\ lane'[o] = Append(lane[o], m)
    BY <1>3, <1>6, <2>2 DEF Row, ToLane
  <2>4. QED
    BY <2>1, <2>3
<1>9. Bring(lane[s], "loginSuccess", InitialGold) => Bring(lane'[s], "loginSuccess", InitialGold)
  <2>1. CASE s = o
    BY <1>4, <1>6, <1>8, <2>1, BringAppend
  <2>2. CASE s # o
    BY <1>8, <2>2, Domains
  <2>3. QED
    BY <2>1, <2>2
<1>10. Coming(s, "connected")' => Coming(s, "connected")
  <2>1. CASE s = c
    <3>1. s # o => lane'[s] = lane[s]
      BY <1>8, Domains
    <3>2. Some(lane'[s], "connected") => Some(lane[s], "connected") \/ m.type = "connected"
      BY <1>8, <3>1 DEF Added
    <3>3. /\ m.type = "connected" => Some(gateway[s], "connected")
          /\ Some(gateway'[s], "connected") => Some(gateway[s], "connected")
      BY <1>7, <2>1 DEF Taken, m
    <3>4. QED
      BY <3>2, <3>3 DEF Coming
  <2>2. CASE s # c
    <3>1. lane'[s] = lane[s]
      BY <1>6, <1>8, <2>2, Domains
    <3>2. QED
      BY <1>7, <2>2, <3>1 DEF Coming
  <2>3. QED
    BY <2>1, <2>2
<1>11. /\ Online(s)' <=> Online(s)
       /\ ZoneOf(s)' = ZoneOf(s) /\ CacheOf(s)' = CacheOf(s)
       /\ PM!Has(table, s)' <=> PM!Has(table, s)
       /\ PM!Find(table, s).authenticated' = PM!Find(table, s).authenticated
  BY <1>3, TableUntouched
<1>12. Fresh(s)' => Fresh(s)
  BY <1>3, <1>10, <1>11, FreshFrom
<1>13. QED
  BY <1>3, <1>9, <1>11, <1>12 DEF SessionSteady


(***************************************************************************)
(* Steps of World that leave what players own alone.                       *)
(***************************************************************************)

LEMMA UntouchedContent ==
  ASSUME Contents, \A s \in Sessions : SessionSteady(s),
         UNCHANGED <<up, down, unit, leaving, spent, ahead, stray, db, dbLane>>
  PROVE  Contents'
<1> SUFFICES ASSUME NEW s \in Sessions PROVE Content(s)'
  BY DEF Contents
<1>1. PICK p : p = AccountOf[s]
  OBVIOUS
<1>2. PlayerSteady(p) /\ \A z \in Zones : LinkSteady(z, p)
  BY PlayerUntouched, LinksUntouched
<1>3. Content(s) /\ SessionSteady(s)
  BY DEF Contents
<1>4. QED
  BY <1>1, <1>2, <1>3, LinksSteady

LEMMA QuietContent ==
  ASSUME SessionInv, Contents, NEW c \in Sessions, ClientStep(c) \/ OnRecvStream(c)
  PROVE  Contents'
<1>1. \A s \in Sessions : SessionSteady(s)
  BY ClientSteady, OnRecvStreamSteady
<1>2. UNCHANGED <<up, down, unit, leaving, spent, ahead, stray, db, dbLane>>
  BY DEF ClientStep, ClientConnect, ClientLogin, ClientMove, ClientBuy, ClientDisconnect, OnRecvStream,
         worldVars, dbVars, zoneVars, history, zoneHistory
<1>3. QED
  BY <1>1, <1>2, UntouchedContent

LEMMA HandleLoginContent ==
  ASSUME SessionInv, Contents, NEW o \in Owners, HandleLogin(o)
  PROVE  Contents'
<1>1. /\ TakeFromLane(o, {"login"}) /\ TypeOK
      /\ UNCHANGED <<client, gateway, job, table, up, down, unit, leaving, spent, ahead, stray, db, dbLane>>
  BY DEF HandleLogin, SessionInv, clientVars, dbVars, zoneVars, history, zoneHistory
<1>2. ASSUME NEW s \in Sessions PROVE SessionSteady(s)
  BY <1>1, HandlerSteady, TableUntouched
<1>3. QED
  BY <1>1, <1>2, UntouchedContent

LEMMA ConnectedContent ==
  ASSUME SessionInv, Contents, NEW o \in Owners, HandleClientConnected(o)
  PROVE  Contents'
<1>0. PICK c, i : c = Head(lane[o]).session /\ i = PM!FreshInfo
  OBVIOUS
<1>1. /\ TakeFromLane(o, {"connected"}) /\ TypeOK /\ table' = PM!Add(table, c)
      /\ UNCHANGED <<client, gateway, job, up, down, unit, leaving, spent, ahead, stray, db, dbLane>>
  BY <1>0 DEF HandleClientConnected, SessionInv, clientVars, dbVars, zoneVars, history, zoneHistory
<1>2. c \in Sessions /\ Some(lane[c], "connected")
  BY <1>0, <1>1, LaneStep1
<1>3. OnlyRow(table, table', c, i) /\ ~i.authenticated
  BY <1>0, <1>1, <1>2, AddTable DEF TypeOK, PM!FreshInfo
<1>4. ASSUME NEW s \in Sessions PROVE SessionSteady(s)
  <2>1. CASE s = c
    <3>1. ~Online(s)' /\ Coming(s, "connected")
      BY <1>2, <1>3, <2>1 DEF Online, OnlyRow, PM!Has, PM!Find, Coming
    <3>2. QED
      BY <1>1, <3>1, HandlerSteady
  <2>2. CASE s # c
    <3>1. /\ Online(s)' <=> Online(s)
          /\ Online(s) => ZoneOf(s)' = ZoneOf(s) /\ CacheOf(s)' = CacheOf(s)
          /\ PM!Has(table, s)' <=> PM!Has(table, s)
          /\ PM!Has(table, s) => PM!Find(table, s).authenticated' = PM!Find(table, s).authenticated
      BY <1>3, <2>2, RowUntouched
    <3>2. QED
      BY <1>1, <3>1, HandlerSteady
  <2>3. QED
    BY <2>1, <2>2
<1>5. QED
  BY <1>1, <1>4, UntouchedContent

LEMMA DisconnectedContent ==
  ASSUME SessionInv, Contents, NEW o \in Owners, HandleClientDisconnected(o)
  PROVE  Contents'
<1>1. /\ TakeFromLane(o, {"disconnected"}) /\ TypeOK
      /\ UNCHANGED <<client, gateway, table, up, down, unit, leaving, spent, ahead, stray, db, dbLane>>
      /\ job' = job \/ \E z, c, p : job' = [job EXCEPT ![o] = Job("forget", z, c, p, 0)]
  BY DEF HandleClientDisconnected, SessionInv, clientVars, dbVars, zoneVars, history, zoneHistory
<1>2. ASSUME NEW s \in Sessions PROVE job'[s].do = "enter" => job'[s] = job[s]
  <2>1. CASE job' = job
    BY <2>1
  <2>2. CASE \E z, c, p : job' = [job EXCEPT ![o] = Job("forget", z, c, p, 0)]
    <3>1. Row(job, Jobs) /\ DOMAIN Jobs = Owners
      BY <1>1, Domains DEF TypeOK, QueuesOK
    <3>2. QED
      BY <2>2, <3>1, Domains DEF Job, Row
  <2>3. QED
    BY <1>1, <2>1, <2>2
<1>3. ASSUME NEW s \in Sessions PROVE SessionSteady(s)
  BY <1>1, <1>2, HandlerSteady, TableUntouched
<1>4. QED
  BY <1>1, <1>3, UntouchedContent

LEMMA ForgetContent ==
  ASSUME SessionInv, Contents, NEW o \in Owners, ForgetClient(o)
  PROVE  Contents'
<1>0. PICK c : c = job[o].session
  OBVIOUS
<1>1. /\ TypeOK
      /\ UNCHANGED <<client, gateway, lane, up, down, unit, leaving, spent, ahead, stray, db, dbLane>>
  BY DEF ForgetClient, SessionInv, clientVars, dbVars, zoneVars, zoneHistory
<1>2. /\ table' = PM!Remove(table, c) /\ \A w \in Owners : w # o => job'[w] = job[w]
      /\ job'[o].do # "enter"
  BY <1>0, <1>1, ForgetEffect DEF NoJob
<1>3. ASSUME NEW s \in Sessions PROVE SessionSteady(s)
  <2>1. job'[s].do = "enter" => job'[s] = job[s]
    BY <1>2, Domains
  <2>2. /\ DOMAIN table'.players = DOMAIN table.players \ {c}
        /\ \A d \in DOMAIN table'.players : table'.players[d] = table.players[d]
    BY <1>2 DEF PM!Remove, PM!Without
  <2>3. /\ Online(s)' => Online(s) /\ ZoneOf(s)' = ZoneOf(s) /\ CacheOf(s)' = CacheOf(s)
        /\ PM!Has(table, s)' /\ ~PM!Find(table, s).authenticated' =>
               PM!Has(table, s) /\ ~PM!Find(table, s).authenticated
    BY <2>2 DEF Online, ZoneOf, CacheOf, PM!Has, PM!Find
  <2>4. QED
    BY <1>1, <2>1, <2>3, RestSteady
<1>4. QED
  BY <1>1, <1>3, UntouchedContent

\* The account as the DB has it goes to the lane of the session.
LEMMA LoadContent ==
  ASSUME SessionInv, Contents, NEW c \in Sessions, LoadPlayerContent(c)
  PROVE  Contents'
<1>0. PICK m : m = Msg("loginSuccess", c, NoZone, db[AccountOf[c]])
  OBVIOUS
<1>1. /\ c \in loading /\ ToLane(c, m) /\ TypeOK
      /\ UNCHANGED <<client, gateway, job, table, up, down, unit, leaving, spent, ahead, stray, db, dbLane>>
  BY <1>0 DEF LoadPlayerContent, ToLane, SessionInv, clientVars, dbVars, zoneVars, history, zoneHistory
<1>2. /\ m.type = "loginSuccess" /\ m.gold = db[AccountOf[c]]
      /\ m \in OnLane(c) /\ c \in Owners
  BY <1>0, <1>1, Domains DEF Msg, OnLane, TypeOK, Somewhere
<1>3. /\ lane[c] \in Seq(OnLane(c)) /\ lane'[c] = Append(lane[c], m)
      /\ Added(lane[c], lane'[c], m) /\ \A w \in Owners : w # c => lane'[w] = lane[w]
  <2>1. Added(lane[c], lane'[c], m) /\ \A w \in Owners : w # c => lane'[w] = lane[w]
    BY <1>1, <1>2, LanePut
  <2>2. Row(lane, Lanes) /\ DOMAIN Lanes = Owners /\ Lanes[c] = Seq(OnLane(c))
    BY <1>1, <1>2, Domains DEF TypeOK, QueuesOK, Lanes
  <2>3. QED
    BY <1>1, <1>2, <2>1, <2>2 DEF Row, ToLane
<1>4. ~Online(c)
  BY <1>1 DEF SessionInv, SessionOK, LogsInOnce, LoggingIn
<1>5. ASSUME NEW s \in Sessions PROVE Fresh(s)' => Fresh(s)
  <2>1. Coming(s, "connected")' => Coming(s, "connected")
    <3>1. CASE s = c
      BY <1>1, <1>2, <1>3, <3>1 DEF Coming, Added
    <3>2. CASE s # c
      BY <1>1, <1>3, <3>2, Domains DEF Coming
    <3>3. QED
      BY <3>1, <3>2
  <2>2. QED
    BY <1>1, <2>1, TableUntouched, FreshFrom
<1>6. ASSUME NEW s \in Sessions, s # c PROVE Content(s)'
  <2>1. SessionSteady(s)
    BY <1>1, <1>3, <1>5, <1>6, TableUntouched, Domains DEF SessionSteady
  <2>2. PICK p : p = AccountOf[s]
    OBVIOUS
  <2>3. PlayerSteady(p) /\ \A z \in Zones : LinkSteady(z, p)
    BY <1>1, PlayerUntouched, LinksUntouched
  <2>4. QED
    BY <2>1, <2>2, <2>3, LinksSteady DEF Contents
<1>7. Content(c)'
  <2>1. ~Online(c)'
    BY <1>1, <1>4, TableUntouched
  <2>2. ASSUME Fresh(c)' PROVE Before(c)'
    <3>1. Before(c)
      BY <1>5, <2>2 DEF Contents, Content
    <3>2. Bring(lane'[c], "loginSuccess", InitialGold)
      BY <1>2, <1>3, <3>1, BringAppend DEF Before
    <3>3. QED
      BY <1>1, <3>1, <3>2 DEF Before
  <2>3. QED
    BY <2>1, <2>2 DEF Content
<1>8. QED
  BY <1>6, <1>7 DEF Contents


(***************************************************************************)
(* Links.                                                                  *)
(***************************************************************************)

\* A message that is neither an entry nor a leave does not matter.
LEMMA PartDown ==
  ASSUME NEW x, NEW d, NEW e, NEW here, NEW gold, NEW home, NEW g, NEW v,
         Some(e, "leave") <=> Some(d, "leave"), Bring(d, "enter", v) => Bring(e, "enter", v),
         Part(x, d, here, gold, home, g, v)
  PROVE  Part(x, e, here, gold, home, g, v)
BY DEF Part

\* Who has another account sees nothing of a step of the player of s.
LEMMA OthersContent ==
  ASSUME OneSessionEach, Contents, NEW s \in Sessions, NEW p, p = AccountOf[s],
         \A q \in Players : q # p => PlayerSteady(q) /\ \A z \in Zones : LinkSteady(z, q),
         NEW c \in Sessions, c # s, SessionSteady(c)
  PROVE  Content(c)'
<1>1. PICK q : q = AccountOf[c] /\ q \in Players /\ q # p
  BY Domains DEF OneSessionEach
<1>2. PlayerSteady(q) /\ \A z \in Zones : LinkSteady(z, q)
  BY <1>1
<1>3. QED
  BY <1>1, <1>2, LinksSteady DEF Contents

LEMMA FromClientContent ==
  ASSUME SessionInv, Contents, NEW o \in Owners, HandleFromClient(o)
  PROVE  Contents'
<1>0. PICK m, s : m = Head(lane[o]) /\ s = m.session
  OBVIOUS
<1>1. /\ TakeFromLane(o, {"move", "buy"}) /\ TypeOK
      /\ UNCHANGED <<client, gateway, job, table, up, unit, leaving, spent, ahead, stray, db, dbLane>>
      /\ IF Online(s) THEN ToZone(PM!Find(table, s).zoneId, PM!Find(table, s).playerId, m)
         ELSE UNCHANGED down
  BY <1>0 DEF HandleFromClient, SessionInv, clientVars, dbVars, zoneVars, history, zoneHistory, Online
<1>2. m \in OnLane(o) /\ m.type \in {"move", "buy"} /\ s \in Sessions
  BY <1>0, <1>1, LaneStep1
<1>3. \A c \in Sessions : SessionSteady(c)
  BY <1>1, HandlerSteady, TableUntouched
<1>4. CASE ~Online(s)
  BY <1>1, <1>3, <1>4, UntouchedContent
<1>5. CASE Online(s)
  <2>1. PICK z, p : z = ZoneOf(s) /\ p = AccountOf[s]
    OBVIOUS
  <2>2. /\ z \in Zones /\ p \in Players /\ ToZone(z, p, m)
    BY <1>1, <1>2, <1>5, <2>1, OnlineZone, Domains DEF ZoneOf, PM!Find
  <2>3. m \in ToPlayer(p)
    BY <1>0, <1>2, <2>1 DEF OnLane, ToPlayer, SessionsOf
  <2>4. /\ down[z][p] \in Seq(ToPlayer(p)) /\ down'[z][p] = Append(down[z][p], m)
        /\ \A y \in Zones, q \in Players : y # z \/ q # p => down'[y][q] = down[y][q]
    BY <1>1, <2>2, <2>3, Sends
  <2>5. ASSUME NEW c \in Sessions PROVE Content(c)'
    <3>1. PICK q : q = AccountOf[c] /\ q \in Players
      BY Domains
    <3>2. PlayerSteady(q) /\ SessionSteady(c) /\ Content(c)
      BY <1>1, <1>3, PlayerUntouched DEF Contents
    <3>3. ASSUME NEW y \in Zones, y # z \/ q # p, PartAt(c, y) PROVE PartAt(c, y)'
      <4>1. LinkSteady(y, q)
        BY <1>1, <2>4, <3>1, <3>3 DEF LinkSteady
      <4>2. spent'[q] = spent[q] /\ ZoneOf(c)' = ZoneOf(c) /\ CacheOf(c)' = CacheOf(c)
        BY <1>1, TableUntouched
      <4>3. QED
        BY <3>1, <3>3, <4>1, <4>2, PartSteady
    <3>4. ASSUME q = p, PartAt(c, z) PROVE PartAt(c, z)'
      <4>1. /\ Some(down'[z][p], "leave") <=> Some(down[z][p], "leave")
            /\ \A v : Bring(down[z][p], "enter", v) => Bring(down'[z][p], "enter", v)
        BY <1>2, <2>3, <2>4, SomeAppend, BringAppend
      <4>2. /\ ZoneOf(c)' = ZoneOf(c) /\ CacheOf(c)' = CacheOf(c) /\ Left(p)' = Left(p)
            /\ up' = up /\ unit' = unit /\ Here(z, p)' = Here(z, p)
        BY <1>1, TableUntouched DEF Left, Here, Present
      <4>3. Part(up[z][p], down[z][p], Here(z, p), unit[z][p].gold, z = ZoneOf(c), CacheOf(c), Left(p))
        BY <3>1, <3>4 DEF PartAt
      <4>4. Part(up[z][p], down'[z][p], Here(z, p), unit[z][p].gold, z = ZoneOf(c), CacheOf(c), Left(p))
        BY <4>1, <4>3, PartDown
      <4>5. QED
        BY <3>1, <3>4, <4>2, <4>4 DEF PartAt
    <3>5. QED
      BY <1>1, <3>1, <3>2, <3>3, <3>4, Steady
  <2>6. QED
    BY <2>5 DEF Contents
<1>6. QED
  BY <1>4, <1>5

\* A leave is sent for somebody who is gone.
LEMMA SendLeaveContent ==
  ASSUME HandoffInv, Contents, NEW o \in Owners, SendLeaveZone(o)
  PROVE  Contents'
<1>0. PICK j, s, p, m : j = job[o] /\ s = j.session /\ p = j.player /\ m = Msg("leave", s, NoZone, 0)
  OBVIOUS
<1>1. /\ j.do = "leave" /\ TypeOK /\ SessionInv /\ OneSessionEach
      /\ ToZone(j.zone, p, m) /\ job' = [job EXCEPT ![o] = NoJob]
      /\ UNCHANGED <<client, gateway, lane, table, up, unit, leaving, spent, ahead, stray, db, dbLane>>
  BY <1>0 DEF SendLeaveZone, HandoffInv, SessionInv, clientVars, dbVars, zoneVars, zoneHistory
<1>2. /\ s \in Sessions /\ j.zone \in Zones /\ (o = s \/ o = p) /\ p = AccountOf[s] /\ p \in Players
  BY <1>0, <1>1, JobAt, Domains DEF NoJob
<1>3. ~Online(s)
  BY <1>0, <1>1, <1>2 DEF HandoffInv, Where, IsIn
<1>4. m \in ToPlayer(p)
  BY <1>0, <1>2 DEF Msg, ToPlayer, SessionsOf, Somewhere
<1>5. \A y \in Zones, q \in Players : y # j.zone \/ q # p => down'[y][q] = down[y][q]
  BY <1>1, <1>2, <1>4, Sends
<1>6. ASSUME NEW c \in Sessions PROVE SessionSteady(c)
  <2>1. job'[c].do = "enter" => job'[c] = job[c]
    BY <1>1, Domains, JobDone DEF NoJob
  <2>2. QED
    BY <1>1, <2>1, RestSteady, TableUntouched
<1>7. \A q \in Players : PlayerSteady(q)
  BY <1>1, PlayerUntouched
<1>8. Content(s)'
  BY <1>1, <1>2, <1>3, <1>6, <1>7, TableUntouched, Steady DEF Contents
<1>9. ASSUME NEW c \in Sessions, c # s PROVE Content(c)'
  <2>1. \A q \in Players : q # p => \A z \in Zones : LinkSteady(z, q)
    BY <1>1, <1>5 DEF LinkSteady
  <2>2. QED
    BY <1>1, <1>2, <1>6, <1>7, <1>9, <2>1, OthersContent
<1>10. QED
  BY <1>8, <1>9 DEF Contents


LEMMA PartAway ==
  ASSUME NEW x, NEW d, NEW here, NEW gold, NEW g, NEW v
  PROVE  Part(x, d, here, gold, FALSE, g, v) <=> ReportsFirst(x) /\ ~Some(x, "uow")
BY DEF Part

LEMMA NothingOwned ==
  ASSUME NEW d, NEW here, NEW gold, NEW home, NEW v, d = <<>>, ~here
  PROVE  Part(<<>>, d, here, gold, home, v, v)
BY SomeEmpty DEF Part, Ends, ReportsFirst, Bring

\* The login of s is confirmed: the cache is what the DB had.
LEMMA CompleteLoginContent ==
  ASSUME SessionInv, SessionInv', OneSessionEach, Contents, spent \in [Players -> Nat], NEW o \in Owners,
         CompleteLogin(o)
  PROVE  Contents'
<1>0. PICK s, gold, p : s = Head(lane[o]).session /\ gold = Head(lane[o]).gold /\ p = AccountOf[s]
  OBVIOUS
<1>1. /\ TakeFromLane(o, {"loginSuccess"}) /\ TypeOK
      /\ UNCHANGED <<client, gateway, up, down, unit, leaving, spent, ahead, stray, db, dbLane>>
      /\ IF PM!Has(table, s)
         THEN /\ table' = PM!SetZoneId(PM!SetAuthenticated(table, s, p, {}, gold), s, EntryZone)
              /\ job' = [job EXCEPT ![o] = Job("enter", EntryZone, s, p, gold)]
         ELSE UNCHANGED <<table, job>>
  BY <1>0 DEF CompleteLogin, SessionInv, clientVars, dbVars, zoneVars, history, zoneHistory
<1>2. /\ s \in Sessions /\ o = s /\ Some(lane[s], "loginSuccess") /\ p \in Players /\ p # s
      /\ Head(lane[s]).type = "loginSuccess" /\ gold \in Nat
  <2>1. Head(lane[o]) \in OnLane(o) /\ Head(lane[o]).type = "loginSuccess"
    BY <1>0, <1>1, LaneStep1
  <2>2. s \in Sessions /\ o = s /\ Some(lane[s], "loginSuccess")
    BY <1>0, <1>1, <2>1, LaneStep1
  <2>3. gold \in Nat
    BY <1>0, <2>1 DEF OnLane
  <2>4. QED
    BY <1>0, <2>1, <2>2, <2>3, Domains
<1>3. CASE ~PM!Has(table, s)
  <2>1. \A c \in Sessions : SessionSteady(c)
    BY <1>1, <1>3, HandlerSteady, TableUntouched
  <2>2. QED
    BY <1>1, <2>1, UntouchedContent
<1>4. CASE PM!Has(table, s)
  <2>1. PICK i : /\ OnlyRow(table, table', s, i)
                 /\ i.authenticated /\ i.zoneId = EntryZone /\ i.gold = gold
    <3>1. table' = PM!SetZoneId(PM!SetAuthenticated(table, s, AccountOf[s], {}, gold), s, EntryZone)
      BY <1>0, <1>1, <1>4
    <3>2. TableOK(table) /\ s \in DOMAIN table.players
      BY <1>1, <1>4 DEF TypeOK, PM!Has
    <3>3. QED
      BY <1>2, <3>1, <3>2, ConfirmTable
  <2>2. job'[s] = Job("enter", EntryZone, s, p, gold) /\ \A w \in Owners : w # s => job'[w] = job[w]
    BY <1>1, <1>2, <1>4, Domains DEF TypeOK, QueuesOK, Row
  <2>3. \A q \in Players : PlayerSteady(q) /\ \A z \in Zones : LinkSteady(z, q)
    BY <1>1, PlayerUntouched, LinksUntouched
  <2>4. ASSUME NEW c \in Sessions, c # s PROVE Content(c)'
    <3>1. /\ Online(c)' <=> Online(c)
          /\ Online(c) => ZoneOf(c)' = ZoneOf(c) /\ CacheOf(c)' = CacheOf(c)
          /\ PM!Has(table, c)' <=> PM!Has(table, c)
          /\ PM!Has(table, c) => PM!Find(table, c).authenticated' = PM!Find(table, c).authenticated
      BY <2>1, <2>4, RowUntouched
    <3>2. SessionSteady(c)
      BY <1>1, <2>2, <2>4, <3>1, HandlerSteady, Domains
    <3>3. QED
      BY <1>0, <1>2, <2>3, <2>4, <3>2, OthersContent
  <2>5. Content(s)'
    <3>1. Fresh(s) /\ Unseen(s) /\ Before(s)
      <4>1. ~Online(s)
        BY <1>2 DEF SessionInv, SessionOK, LogsInOnce, LoggingIn
      <4>2. Fresh(s)
        BY <1>4, <4>1 DEF Fresh, Online
      <4>3. QED
        BY <1>2, <4>2 DEF SessionInv, SessionOK, Contents, Content
    <3>2. Online(s)' /\ CacheOf(s)' = gold
      BY <2>1 DEF OnlyRow, Online, CacheOf, PM!Has, PM!Find
    <3>3. ~Fresh(s)'
      <4>1. SessionOK(s)'
        BY <1>2 DEF SessionInv
      <4>2. QED
        BY <3>2, <4>1 DEF SessionOK, ConnectsOnce, LogsInOnce, Fresh, Online
    <3>4. gold = InitialGold
      <4>1. lane[s] \in Seq(OnLane(s)) /\ lane[s] # <<>>
        BY <1>1, <1>2, TakesLane
      <4>2. Bring(lane[s], "loginSuccess", InitialGold)
        BY <3>1 DEF Before
      <4>3. Head(lane[s]).gold = gold
        BY <1>0, <1>2
      <4>4. QED
        BY <1>2, <4>1, <4>2, <4>3, BringTail
    <3>5. Left(p)' = InitialGold
      <4>1. spent'[p] = 0
        BY <1>0, <1>1, <3>1 DEF Before
      <4>2. QED
        BY <4>1, ZoneHandoffAssumption DEF Left
    <3>6. LastIs(dbLane'[p], db'[p], CacheOf(s)')
      BY <1>0, <1>1, <3>1, <3>2, <3>4 DEF Before, LastIs
    <3>7. job'[s].gold = Left(p)'
      BY <2>2, <3>4, <3>5 DEF Job
    <3>8. ASSUME NEW z \in Zones PROVE PartAt(s, z)'
      <4>1. up'[z][p] = <<>> /\ down'[z][p] = <<>> /\ ~Here(z, p)'
        <5>1. up[z][p] = <<>>
          BY <1>0, <3>1 DEF Before
        <5>2. unit[z][p] = NoUnit /\ down[z][p] = <<>>
          BY <1>0, <1>2, <3>1, NothingYet
        <5>3. QED
          BY <1>1, <5>1, <5>2 DEF Here, Present
      <4>2. CacheOf(s)' = Left(p)'
        BY <3>2, <3>4, <3>5
      <4>3. Part(up'[z][p], down'[z][p], Here(z, p)', unit'[z][p].gold, z = ZoneOf(s)', CacheOf(s)', Left(p)')
        BY <4>1, <4>2, NothingOwned
      <4>4. QED
        BY <1>0, <4>3 DEF PartAt
    <3>9. QED
      BY <1>0, <3>3, <3>6, <3>7, <3>8 DEF Content, Kept
  <2>6. QED
    BY <2>4, <2>5 DEF Contents
<1>5. QED
  BY <1>3, <1>4


\* The content of a player whose session is confirmed.
LEMMA KeptSteady ==
  ASSUME NEW s, NEW p, p = AccountOf[s], Kept(s), PlayerSteady(p), CacheOf(s)' = CacheOf(s),
         job'[s].do = "enter" => job'[s] = job[s], \A z \in Zones : PartAt(s, z)'
  PROVE  Kept(s)'
BY DEF Kept, PlayerSteady, Left

\* The last report of a zone has been applied when its transfer is handled, so
\* that the cache which the other zone is given is up to date.
LEMMA TransferContent ==
  ASSUME HandoffInv, Contents, NEW z \in Zones, NEW p \in Players, HandleZoneTransfer(z, p)
  PROVE  Contents'
<1>0. PICK m : m = Head(up[z][p])
  OBVIOUS
<1>1. PICK s, target : s = m.session /\ target = IF m.to \in Zones THEN m.to ELSE z
  OBVIOUS
<1> DEFINE j == Job("enterFromCache", target, s, p, 0)
           leave == Msg("leave", s, NoZone, 0)
<1>2. /\ TakeFromZone(z, p, "transfer")
      /\ IF target # z THEN ToZone(z, p, leave) ELSE UNCHANGED down
      /\ table' = PM!SetZoneId(table, s, target)
      /\ job' = [job EXCEPT ![p] = j]
      /\ UNCHANGED <<client, gateway, lane, unit, leaving, spent, ahead, stray, db, dbLane>>
  BY <1>0, <1>1 DEF HandleZoneTransfer, LeaveToSource, Reroute, clientVars, dbVars, zoneVars, history, zoneHistory
<1>3. TypeOK /\ TableOK(table) /\ OneSessionEach /\ SessionInv
  BY DEF HandoffInv, SessionInv, TypeOK
<1>4. /\ m \in FromPlayer(p) /\ m.type = "transfer" /\ m.session \in Of(up[z][p]) /\ job[p] = NoJob
      /\ up[z][p] \in Seq(FromPlayer(p)) /\ up[z][p] # <<>> /\ up'[z][p] = Tail(up[z][p])
      /\ \A y \in Zones, q \in Players : y # z \/ q # p => up'[y][q] = up[y][q]
  BY <1>0, <1>2, <1>3, TakesUp
<1>5. s \in Sessions /\ AccountOf[s] = p /\ target \in Zones /\ s # p
  BY <1>1, <1>4, Domains DEF FromPlayer, SessionsOf
<1>6. ~Fresh(s) /\ (s \in DOMAIN table.players => table.players[s].authenticated)
  BY <1>1, <1>3, <1>4, <1>5, SeenNotFresh DEF SessionsAt
<1>7. \/ s \notin DOMAIN table.players /\ table' = table
      \/ s \in DOMAIN table.players
         /\ OnlyRow(table, table', s, [table.players[s] EXCEPT !.zoneId = target])
  BY <1>2, <1>3, <1>5, <1>6, RerouteTable
<1>8. leave \in ToPlayer(p) /\ leave.type = "leave"
  BY <1>5 DEF SessionsOf, ToPlayer, Msg, Somewhere
<1> HIDE DEF j, leave
<1>9. \A w \in Owners : w # p => job'[w] = job[w]
  BY <1>2, <1>3, Domains DEF TypeOK, QueuesOK, Row
<1>10. /\ down[z][p] \in Seq(ToPlayer(p))
       /\ target = z => down'[z][p] = down[z][p]
       /\ target # z => down'[z][p] = Append(down[z][p], leave)
       /\ \A y \in Zones, q \in Players : y # z \/ q # p => down'[y][q] = down[y][q]
  BY <1>2, <1>3, <1>8, Sends, LinksAt
<1>11. Some(up[z][p], "transfer")
  BY <1>0, <1>4, SomeTail
<1>12. \A q \in Players : PlayerSteady(q) /\ (q # p => \A y \in Zones : LinkSteady(y, q))
  BY <1>2, <1>4, <1>10, PlayerUntouched DEF LinkSteady
<1>13. Online(s) => /\ Online(s)' /\ ZoneOf(s)' = target /\ CacheOf(s)' = CacheOf(s)
  <2>1. SUFFICES ASSUME Online(s) PROVE Online(s)' /\ ZoneOf(s)' = target /\ CacheOf(s)' = CacheOf(s)
    OBVIOUS
  <2>2. s \in DOMAIN table.players /\ table.players[s] \in Info
    BY <1>3, <2>1 DEF Online, PM!Has, TableOK
  <2>3. PICK i : i = [table.players[s] EXCEPT !.zoneId = target]
    OBVIOUS
  <2>4. /\ i.zoneId = target /\ i.gold = table.players[s].gold
        /\ i.authenticated = table.players[s].authenticated
    BY <2>2, <2>3 DEF Info
  <2>5. QED
    BY <1>7, <2>1, <2>2, <2>3, <2>4 DEF OnlyRow, Online, ZoneOf, CacheOf, PM!Has, PM!Find
<1>14. ASSUME NEW c \in Sessions, c # s PROVE Content(c)'
  <2>1. /\ Online(c)' <=> Online(c)
        /\ Online(c) => ZoneOf(c)' = ZoneOf(c) /\ CacheOf(c)' = CacheOf(c)
        /\ PM!Has(table, c)' <=> PM!Has(table, c)
        /\ PM!Has(table, c) => PM!Find(table, c).authenticated' = PM!Find(table, c).authenticated
    <3>1. CASE table' = table
      BY <3>1, TableUntouched
    <3>2. CASE table' # table
      <4>1. PICK i : OnlyRow(table, table', s, i)
        BY <1>7, <3>2
      <4>2. QED
        BY <1>14, <4>1, RowUntouched
    <3>3. QED
      BY <3>1, <3>2
  <2>2. SessionSteady(c)
    BY <1>2, <1>9, <2>1, RestSteady, Domains
  <2>3. QED
    BY <1>3, <1>5, <1>12, <1>14, <2>2, OthersContent
<1>15. CASE ~Online(s)
  <2>1. s \notin DOMAIN table.players /\ table' = table
    BY <1>6, <1>7, <1>15 DEF Online, PM!Has, PM!Find
  <2>2. SessionSteady(s)
    BY <1>2, <1>5, <1>9, <2>1, RestSteady, TableUntouched, Domains
  <2>3. ~Online(s)' /\ \A y \in Zones : up[y][p] = <<>> => up'[y][p] = <<>>
    BY <1>4, <1>15, <2>1, TableUntouched
  <2>4. Content(s)'
    BY <1>5, <1>12, <2>2, <2>3, Steady DEF Contents
  <2>5. QED
    BY <1>14, <2>4 DEF Contents
<1>16. CASE Online(s)
  <2>1. ~Fresh(s)'
    <3>1. UNCHANGED <<client, gateway, lane>> /\ Online(s)'
      BY <1>2, <1>13, <1>16
    <3>2. QED
      BY <1>6, <3>1 DEF Fresh, Coming, Online
  <2>2. ASSUME p \notin ahead' \cup stray' PROVE Kept(s)'
    <3>1. Kept(s) /\ p \notin stray /\ IsIn(s)
      BY <1>2, <1>3, <1>5, <1>16, <2>2 DEF Contents, Content, HandoffInv, Where
    <3>2. /\ z = ZoneOf(s) /\ \A y \in Zones : ~Entering(s, y)
      BY <1>3, <1>4, <1>5, <1>11, <3>1, TransferFromHome
    <3>3. job'[s] = job[s]
      BY <1>5, <1>9, Domains
    <3>4. PartAt(s, z)
      BY <3>1 DEF Kept
    <3>5. /\ ReportsFirst(up'[z][p]) /\ ~Some(up'[z][p], "uow") /\ CacheOf(s) = Left(p)
      <4>1. Part(up[z][p], down[z][p], Here(z, p), unit[z][p].gold, TRUE, CacheOf(s), Left(p))
        BY <1>5, <3>2, <3>4 DEF PartAt
      <4>2. ReportsFirst(up[z][p]) /\ Ends(up[z][p], CacheOf(s), Left(p))
        BY <4>1 DEF Part
      <4>3. ReportsFirst(up'[z][p]) /\ ~Some(up'[z][p], "uow")
        BY <1>0, <1>4, <4>2, ReportsFirstTail
      <4>4. Ends(up'[z][p], CacheOf(s), Left(p))
        BY <1>0, <1>4, <4>2, EndsTail
      <4>5. QED
        BY <4>3, <4>4 DEF Ends
    <3>6. \A y \in Zones : Here(y, p)' = Here(y, p)
      BY <1>2 DEF Here, Present
    <3>7. CacheOf(s)' = CacheOf(s) /\ ZoneOf(s)' = target /\ Left(p)' = Left(p) /\ unit' = unit
      BY <1>2, <1>13, <1>16 DEF Left
    <3>8. PartAt(s, z)'
      <4>1. CASE target = z
        <5>1. Part(up[z][p], down[z][p], Here(z, p), unit[z][p].gold, TRUE, CacheOf(s), Left(p))
          BY <1>5, <3>2, <3>4 DEF PartAt
        <5>2. Part(up'[z][p], down[z][p], Here(z, p), unit[z][p].gold, TRUE, CacheOf(s), Left(p))
          BY <3>5, <5>1 DEF Part, Ends
        <5>3. QED
          BY <1>5, <1>10, <3>6, <3>7, <4>1, <5>2 DEF PartAt, Part
      <4>2. CASE target # z
        <5>1. Part(up'[z][p], down'[z][p], Here(z, p), unit[z][p].gold, FALSE, CacheOf(s), Left(p))
          BY <3>5, PartAway
        <5>2. QED
          BY <1>5, <3>6, <3>7, <4>2, <5>1 DEF PartAt, Part
      <4>3. QED
        BY <4>1, <4>2
    <3>9. ASSUME NEW y \in Zones, y # z PROVE PartAt(s, y)'
      <4>1. up'[y][p] = up[y][p] /\ down'[y][p] = down[y][p]
        BY <1>4, <1>10, <3>9
      <4>2. ReportsFirst(up[y][p]) /\ ~Some(up[y][p], "uow")
        <5>1. PartAt(s, y) /\ y # ZoneOf(s)
          BY <3>1, <3>2, <3>9 DEF Kept
        <5>2. Part(up[y][p], down[y][p], Here(y, p), unit[y][p].gold, FALSE, CacheOf(s), Left(p))
          BY <1>5, <5>1 DEF PartAt
        <5>3. QED
          BY <5>2, PartAway
      <4>3. ~(Here(y, p) /\ ~Some(down[y][p], "leave")) /\ ~Some(down[y][p], "enter")
        <5>1. ~WillBeIn(y, p) /\ Answer(y, p, Entering(s, y))
          BY <1>5, <3>1, <3>2, <3>9 DEF IsIn
        <5>2. EntryIsLast(down[y][p])
          BY <5>1 DEF Answer, OneAnswer
        <5>3. PICK here \in BOOLEAN : here <=> Here(y, p)
          OBVIOUS
        <5>4. ~WillBe(down[y][p], here)
          BY <5>1, <5>3 DEF WillBeIn, WillBe
        <5>5. ~Some(down[y][p], "enter")
          BY <5>2, <5>4, EntersIfLast
        <5>6. QED
          BY <5>1, <5>5 DEF WillBeIn, WillBe
      <4>4. Part(up[y][p], down[y][p], Here(y, p), unit[y][p].gold, y = target, CacheOf(s), Left(p))
        BY <3>5, <4>2, <4>3 DEF Part, Ends, Bring, Some
      <4>5. QED
        BY <1>5, <3>6, <3>7, <4>1, <4>4 DEF PartAt, Part
    <3>10. \A y \in Zones : PartAt(s, y)'
      BY <3>8, <3>9
    <3>11. QED
      BY <1>5, <1>12, <3>1, <3>3, <3>7, <3>10, KeptSteady
  <2>3. Content(s)'
    BY <1>5, <2>1, <2>2 DEF Content
  <2>4. QED
    BY <1>14, <2>3 DEF Contents
<1>17. QED
  BY <1>15, <1>16


\* An entry brings what the player owns, unless the player is there already.
LEMMA SendEnterContent ==
  ASSUME HandoffInv, Contents, NEW o \in Owners, SendEnterZone(o)
  PROVE  Contents'
<1>1. PICK j : j = job[o]
  OBVIOUS
<1>2. PICK gold : gold = IF j.do = "enter" THEN j.gold ELSE EnterZoneBodyFor(j.session)
  OBVIOUS
<1>3. PICK m : m = Msg("enter", j.session, NoZone, gold)
  OBVIOUS
<1>4. /\ j.do \in {"enter", "enterFromCache"}
      /\ ToZone(j.zone, j.player, m) /\ job' = [job EXCEPT ![o] = NoJob]
      /\ UNCHANGED <<client, gateway, lane, table, up, unit, leaving, spent, ahead, stray, db, dbLane>>
  BY <1>1, <1>2, <1>3 DEF SendEnterZone, clientVars, dbVars, zoneVars, zoneHistory
<1>5. TypeOK /\ TableOK(table) /\ OneSessionEach /\ SessionInv
  BY DEF HandoffInv, SessionInv, TypeOK
<1>6. PICK s, y, p : s = j.session /\ y = j.zone /\ p = AccountOf[s]
  OBVIOUS
<1>7. /\ s \in Sessions /\ y \in Zones /\ p \in Players /\ s # p /\ j.player = p /\ j.gold \in Nat
      /\ (o = s \/ o = p) /\ (j.do = "enter" => o = s) /\ (j.do = "enterFromCache" => o = p)
  <2>1. j # NoJob
    BY <1>4 DEF NoJob
  <2>2. /\ s \in Sessions /\ y \in Zones /\ (o = s \/ o = p) /\ j.player = p /\ j.gold \in Nat
        /\ (j.do = "enter" => o \in Sessions) /\ (j.do = "enterFromCache" => o \in Players)
    BY <1>1, <1>4, <1>5, <1>6, <2>1, JobAt
  <2>3. QED
    BY <1>6, <2>2, Domains
<1>8. m \in ToPlayer(p) /\ m.type = "enter" /\ m.gold = gold
  <2>1. gold \in Nat
    BY <1>2, <1>5, <1>7 DEF EnterZoneBodyFor, TableOK, Info, PM!Has, PM!Find
  <2>2. QED
    BY <1>3, <1>6, <1>7, <2>1 DEF ToPlayer, SessionsOf, Msg, Somewhere
<1>9. /\ down[y][p] \in Seq(ToPlayer(p)) /\ down'[y][p] = Append(down[y][p], m)
      /\ \A x \in Zones, q \in Players : x # y \/ q # p => down'[x][q] = down[x][q]
  <2>1. ToZone(y, p, m)
    BY <1>4, <1>6, <1>7
  <2>2. QED
    BY <1>5, <1>7, <1>8, <2>1, Sends
<1>10. job'[o] = NoJob /\ \A w \in Owners : w # o => job'[w] = job[w]
  BY <1>4, <1>5, JobDone
<1>11. ASSUME NEW c \in Sessions PROVE SessionSteady(c)
  <2>1. job'[c].do = "enter" => job'[c] = job[c]
    BY <1>10, Domains DEF NoJob
  <2>2. QED
    BY <1>4, <2>1, RestSteady, TableUntouched
<1>12. \A q \in Players : PlayerSteady(q) /\ (q # p => \A x \in Zones : LinkSteady(x, q))
  BY <1>4, <1>9, PlayerUntouched DEF LinkSteady
<1>13. ~Fresh(s)
  BY <1>1, <1>4, <1>5, <1>6, <1>7, SeenNotFresh DEF SendsFor
<1>14. ASSUME Online(s), p \notin ahead \cup stray PROVE Kept(s)'
  <2>1. Kept(s) /\ IsIn(s) /\ p \notin stray
    BY <1>5, <1>6, <1>7, <1>14 DEF Contents, Content, HandoffInv, Where
  <2>2. y = ZoneOf(s)
    <3>1. Entering(s, y)
      BY <1>1, <1>4, <1>6, <1>7 DEF Entering, EnterTo
    <3>2. QED
      BY <1>6, <1>7, <2>1, <3>1 DEF IsIn
  <2>3. UNCHANGED <<up, unit>> /\ CacheOf(s)' = CacheOf(s) /\ ZoneOf(s)' = ZoneOf(s) /\ Left(p)' = Left(p)
        /\ \A x \in Zones : Here(x, p)' = Here(x, p)
    BY <1>4, TableUntouched DEF Left, Here, Present
  <2>4. ASSUME NEW x \in Zones, x # y PROVE PartAt(s, x)'
    <3>1. LinkSteady(x, p) /\ spent'[p] = spent[p]
      BY <1>4, <1>7, <1>9, <2>4 DEF LinkSteady
    <3>2. PartAt(s, x)
      BY <2>1 DEF Kept
    <3>3. QED
      BY <1>6, <2>3, <3>1, <3>2, PartSteady
  <2>5. PartAt(s, y)'
    <3>1. Part(up[y][p], down[y][p], Here(y, p), unit[y][p].gold, TRUE, CacheOf(s), Left(p))
      BY <1>6, <1>7, <2>1, <2>2 DEF Kept, PartAt
    <3>2. Some(down'[y][p], "leave") <=> Some(down[y][p], "leave")
      BY <1>8, <1>9, SomeAppend
    <3>3. CASE Here(y, p) /\ ~Some(down[y][p], "leave")
      <4>1. Part(up[y][p], down'[y][p], Here(y, p), unit[y][p].gold, TRUE, CacheOf(s), Left(p))
        BY <3>1, <3>2, <3>3 DEF Part
      <4>2. QED
        BY <1>6, <1>7, <2>2, <2>3, <4>1 DEF PartAt, Part
    <3>4. CASE ~(Here(y, p) /\ ~Some(down[y][p], "leave"))
      <4>1. CacheOf(s) = Left(p) /\ Bring(down[y][p], "enter", Left(p))
        BY <3>1, <3>4 DEF Part, Ends
      <4>2. gold = Left(p)
        <5>1. CASE j.do = "enter"
          BY <1>1, <1>2, <1>6, <1>7, <2>1, <5>1 DEF Kept
        <5>2. CASE j.do = "enterFromCache"
          BY <1>2, <1>6, <1>14, <4>1, <5>2 DEF EnterZoneBodyFor, CacheOf, Online
        <5>3. QED
          BY <1>4, <5>1, <5>2
      <4>3. Bring(down'[y][p], "enter", Left(p))
        BY <1>8, <1>9, <4>1, <4>2, BringAppend
      <4>4. Part(up[y][p], down'[y][p], Here(y, p), unit[y][p].gold, TRUE, CacheOf(s), Left(p))
        BY <3>1, <3>2, <3>4, <4>3 DEF Part
      <4>5. QED
        BY <1>6, <1>7, <2>2, <2>3, <4>4 DEF PartAt, Part
    <3>5. QED
      BY <3>3, <3>4
  <2>6. \A x \in Zones : PartAt(s, x)'
    BY <2>4, <2>5
  <2>7. QED
    BY <1>6, <1>7, <1>11, <1>12, <2>1, <2>3, <2>6, KeptSteady DEF SessionSteady
<1>15. Content(s)'
  <2>1. ~Fresh(s)'
    BY <1>7, <1>11, <1>13 DEF SessionSteady
  <2>2. /\ Online(s)' => Online(s)
        /\ AccountOf[s] \notin ahead' \cup stray' => p \notin ahead \cup stray
    BY <1>4, <1>6, TableUntouched
  <2>3. QED
    BY <1>14, <2>1, <2>2 DEF Content
<1>16. ASSUME NEW c \in Sessions, c # s PROVE Content(c)'
  BY <1>5, <1>6, <1>7, <1>11, <1>12, <1>16, OthersContent
<1>17. QED
  BY <1>15, <1>16 DEF Contents

\* A report goes to the cache and to the DB lane: the zone it is from is the
\* zone of the row.
LEMMA UnitOfWorkContent ==
  ASSUME HandoffInv, Contents, NEW z \in Zones, NEW p \in Players, HandleUnitOfWorkStream(z, p)
  PROVE  Contents'
<1>0. PICK gold : gold = Head(up[z][p]).gold
  OBVIOUS
<1>1. /\ TakeFromZone(z, p, "uow")
      /\ UNCHANGED <<client, gateway, lane, job, down, unit, leaving, spent, ahead, stray, db>>
      /\ IF PM!HasPlayer(table, p)
         THEN /\ table' = PM!SetCurrency(table, PM!FindSessionByPlayerId(table, p), gold)
              /\ dbLane' = [dbLane EXCEPT ![p] = Append(@, gold)]
         ELSE UNCHANGED <<table, dbLane>>
  BY <1>0 DEF HandleUnitOfWorkStream, clientVars, zoneVars, history, zoneHistory
<1>2. TypeOK /\ TableOK(table) /\ IndexNamesItsSession /\ OneSessionEach /\ SessionInv
  BY DEF HandoffInv, SessionInv, TypeOK
<1>3. /\ up[z][p] \in Seq(FromPlayer(p)) /\ up[z][p] # <<>> /\ Head(up[z][p]).type = "uow"
      /\ up'[z][p] = Tail(up[z][p]) /\ gold \in Nat
      /\ \A y \in Zones, q \in Players : y # z \/ q # p => up'[y][q] = up[y][q]
  <2>1. /\ up[z][p] \in Seq(FromPlayer(p)) /\ up[z][p] # <<>> /\ Head(up[z][p]).type = "uow"
        /\ up'[z][p] = Tail(up[z][p]) /\ Head(up[z][p]) \in FromPlayer(p)
        /\ \A y \in Zones, q \in Players : y # z \/ q # p => up'[y][q] = up[y][q]
    BY <1>1, <1>2, TakesUp
  <2>2. gold \in Nat
    BY <1>0, <2>1 DEF FromPlayer
  <2>3. QED
    BY <2>1, <2>2
<1>4. \A q \in Players : q # p => \A y \in Zones : LinkSteady(y, q)
  BY <1>1, <1>3 DEF LinkSteady
<1>5. CASE ~PM!HasPlayer(table, p)
  <2>1. ASSUME NEW c \in Sessions PROVE SessionSteady(c)
    BY <1>1, <1>5, RestSteady, TableUntouched
  <2>2. \A q \in Players : PlayerSteady(q)
    BY <1>1, <1>5, PlayerUntouched
  <2>3. ASSUME NEW c \in Sessions PROVE Content(c)'
    <3>1. CASE AccountOf[c] = p
      <4>1. ~Online(c)'
        BY <1>1, <1>5, <3>1, TableUntouched DEF HandoffInv, Where, IsIn
      <4>2. \A y \in Zones : up[y][p] = <<>> => up'[y][p] = <<>>
        BY <1>3
      <4>3. QED
        BY <2>1, <2>2, <3>1, <4>1, <4>2, Steady DEF Contents
    <3>2. CASE AccountOf[c] # p
      <4>1. PICK q : q = AccountOf[c] /\ q \in Players
        BY Domains
      <4>2. QED
        BY <1>4, <2>1, <2>2, <3>2, <4>1, LinksSteady DEF Contents
    <3>3. QED
      BY <3>1, <3>2
  <2>4. QED
    BY <2>3 DEF Contents
<1>6. CASE PM!HasPlayer(table, p)
  <2>1. PICK s : s = PM!FindSessionByPlayerId(table, p)
    OBVIOUS
  <2>2. /\ s \in DOMAIN table.players /\ s \in Sessions /\ AccountOf[s] = p /\ Online(s)
    BY <1>2, <1>6, <2>1, ZoneHandoffAssumption
       DEF IndexNamesItsSession, TableOK, RowOK, Online, PM!HasPlayer, PM!FindSessionByPlayerId, PM!Has, PM!Find
  <2>3. PICK i : i = [table.players[s] EXCEPT !.gold = gold]
    OBVIOUS
  <2>4. OnlyRow(table, table', s, i)
    BY <1>1, <1>2, <1>3, <1>6, <2>1, <2>2, <2>3, CurrencyTable
  <2>5. /\ i.zoneId = table.players[s].zoneId /\ i.authenticated = table.players[s].authenticated
        /\ i.gold = gold
    BY <1>2, <2>2, <2>3 DEF TableOK, Info
  <2>6. Online(s)' /\ ZoneOf(s)' = ZoneOf(s) /\ CacheOf(s)' = gold
    BY <2>2, <2>4, <2>5 DEF OnlyRow, Online, ZoneOf, CacheOf, PM!Has, PM!Find
  <2>7. dbLane[p] \in Seq(Nat) /\ dbLane'[p] = Append(dbLane[p], gold)
        /\ \A q \in Players : q # p => dbLane'[q] = dbLane[q]
    <3>1. Row(dbLane, Amounts) /\ DOMAIN Amounts = Players
      BY <1>2, Domains DEF TypeOK
    <3>2. dbLane[p] \in Seq(Nat)
      BY <1>2, DbLane
    <3>3. QED
      BY <1>1, <1>6, <3>1, <3>2 DEF Row
  <2>8. ASSUME NEW c \in Sessions, c # s PROVE Content(c)'
    <3>1. /\ Online(c)' <=> Online(c)
          /\ Online(c) => ZoneOf(c)' = ZoneOf(c) /\ CacheOf(c)' = CacheOf(c)
          /\ PM!Has(table, c)' <=> PM!Has(table, c)
          /\ PM!Has(table, c) => PM!Find(table, c).authenticated' = PM!Find(table, c).authenticated
      BY <2>4, <2>8, RowUntouched
    <3>2. SessionSteady(c)
      BY <1>1, <3>1, RestSteady
    <3>3. \A q \in Players : q # p => PlayerSteady(q)
      BY <1>1, <2>7 DEF PlayerSteady
    <3>4. QED
      BY <1>2, <1>4, <2>2, <2>8, <3>2, <3>3, OthersContent
  <2>9. ~Fresh(s)'
    <3>1. ~Fresh(s)
      BY <1>2, <2>2, ConfirmedNotFresh DEF SessionInv
    <3>2. QED
      BY <1>1, <2>6, <3>1 DEF Fresh, Coming, Online
  <2>10. ASSUME p \notin ahead' \cup stray' PROVE Kept(s)'
    <3>1. Kept(s)
      BY <1>1, <2>2, <2>10 DEF Contents, Content
    <3>2. Some(up[z][p], "uow")
      BY <1>3, SomeTail
    <3>3. z = ZoneOf(s)
      <4>1. SUFFICES ASSUME z # ZoneOf(s) PROVE FALSE
        OBVIOUS
      <4>2. Part(up[z][p], down[z][p], Here(z, p), unit[z][p].gold, FALSE, CacheOf(s), Left(p))
        BY <2>2, <3>1, <4>1 DEF Kept, PartAt
      <4>3. QED
        BY <3>2, <4>2, PartAway
    <3>4. /\ Left(p)' = Left(p) /\ UNCHANGED <<unit, down>> /\ \A y \in Zones : Here(y, p)' = Here(y, p)
      BY <1>1 DEF Left, Here, Present
    <3>5. LastIs(dbLane'[p], db'[p], CacheOf(s)')
      BY <1>3, <2>6, <2>7, LastIsAppend
    <3>6. PartAt(s, z)'
      <4>1. Part(up[z][p], down[z][p], Here(z, p), unit[z][p].gold, TRUE, CacheOf(s), Left(p))
        BY <2>2, <3>1, <3>3 DEF Kept, PartAt
      <4>2. ReportsFirst(up'[z][p])
        BY <1>3, <4>1, ReportsFirstTail DEF Part
      <4>3. Ends(up[z][p], CacheOf(s), Left(p))
        BY <4>1 DEF Part
      <4>4. Ends(up'[z][p], gold, Left(p))
        BY <1>0, <1>3, <4>3, EndsTail
      <4>5. Part(up'[z][p], down[z][p], Here(z, p), unit[z][p].gold, TRUE, gold, Left(p))
        BY <3>2, <4>1, <4>2, <4>4 DEF Part
      <4>6. QED
        BY <2>2, <2>6, <3>3, <3>4, <4>5 DEF PartAt, Part
    <3>7. ASSUME NEW y \in Zones, y # z PROVE PartAt(s, y)'
      <4>1. Part(up[y][p], down[y][p], Here(y, p), unit[y][p].gold, FALSE, CacheOf(s), Left(p))
        BY <2>2, <3>1, <3>3, <3>7 DEF Kept, PartAt
      <4>2. Part(up'[y][p], down[y][p], Here(y, p), unit[y][p].gold, FALSE, gold, Left(p))
        BY <1>3, <3>7, <4>1, PartAway
      <4>3. QED
        BY <2>2, <2>6, <3>3, <3>4, <3>7, <4>2 DEF PartAt, Part
    <3>8. job'[s].do = "enter" => job'[s].gold = Left(p)'
      BY <1>1, <2>2, <3>1, <3>4 DEF Kept
    <3>9. QED
      BY <2>2, <3>5, <3>6, <3>7, <3>8 DEF Kept
  <2>11. Content(s)'
    BY <2>2, <2>9, <2>10 DEF Content
  <2>12. QED
    BY <2>8, <2>11 DEF Contents
<1>7. QED
  BY <1>5, <1>6


\* A report is written, in the order in which it was applied.
LEMMA OnExecuteContent ==
  ASSUME SessionInv, Contents, NEW p \in Players, OnExecute(p)
  PROVE  Contents'
<1>1. /\ dbLane[p] # <<>> /\ dbLane' = [dbLane EXCEPT ![p] = Tail(@)]
      /\ db' = [db EXCEPT ![p] = Head(dbLane[p])] /\ TypeOK
      /\ UNCHANGED <<client, gateway, lane, job, table, up, down, unit, leaving, spent, ahead, stray>>
  BY DEF OnExecute, SessionInv, clientVars, zoneVars, history, zoneHistory
<1>2. /\ dbLane[p] \in Seq(Nat) /\ dbLane'[p] = Tail(dbLane[p]) /\ db'[p] = Head(dbLane[p])
      /\ \A q \in Players : q # p => dbLane'[q] = dbLane[q] /\ db'[q] = db[q]
  <2>1. Row(dbLane, Amounts) /\ DOMAIN Amounts = Players /\ db \in [Players -> Nat]
    BY <1>1, Domains DEF TypeOK
  <2>2. QED
    BY <1>1, <2>1, DbLane DEF Row
<1>3. ASSUME NEW c \in Sessions PROVE Content(c)'
  <2>1. SessionSteady(c)
    BY <1>1, RestSteady, TableUntouched
  <2>2. PICK q : q = AccountOf[c] /\ q \in Players
    BY Domains
  <2>3. \A z \in Zones : LinkSteady(z, q)
    BY <1>1, LinksUntouched
  <2>4. Content(c)
    BY DEF Contents
  <2>5. CASE q # p
    <3>1. PlayerSteady(q)
      BY <1>1, <1>2, <2>2, <2>5 DEF PlayerSteady
    <3>2. QED
      BY <2>1, <2>2, <2>3, <2>4, <3>1, LinksSteady
  <2>6. CASE q = p
    <3>1. ~Fresh(c)'
      BY <1>1, <2>1, <2>2, <2>4, <2>6 DEF SessionSteady, Content, Before
    <3>2. ASSUME Online(c)', p \notin ahead' \cup stray' PROVE Kept(c)'
      <4>1. Kept(c)
        BY <1>1, <2>1, <2>2, <2>4, <2>6, <3>2 DEF Content, SessionSteady
      <4>2. ZoneOf(c)' = ZoneOf(c) /\ CacheOf(c)' = CacheOf(c)
        BY <1>1, TableUntouched
      <4>3. LastIs(dbLane'[p], db'[p], CacheOf(c)')
        BY <1>1, <1>2, <2>2, <2>6, <4>1, <4>2, LastIsTail DEF Kept
      <4>4. \A z \in Zones : PartAt(c, z)'
        BY <1>1, <2>2, <2>3, <4>1, <4>2, PartSteady DEF Kept
      <4>5. job'[c].do = "enter" => job'[c].gold = Left(p)'
        BY <1>1, <2>2, <2>6, <4>1 DEF Kept, Left
      <4>6. QED
        BY <2>2, <2>6, <4>3, <4>4, <4>5 DEF Kept
    <3>3. QED
      BY <2>2, <2>6, <3>1, <3>2 DEF Content
  <2>7. QED
    BY <2>5, <2>6
<1>4. QED
  BY <1>3 DEF Contents


(***************************************************************************)
(* Steps of a zone.                                                        *)
(***************************************************************************)

\* What a step of zone z about p has to do for the player.
ZoneKeeps(s, z, p) ==
    /\ Fresh(s) => up' = up /\ spent' = spent
    /\ Online(s) /\ p \notin ahead' \cup stray' /\ Kept(s) => Kept(s)'

LEMMA ZoneContent ==
  ASSUME TypeOK, Contents, NEW z \in Zones, NEW p \in Players, ElsewhereSame(z, p),
         UNCHANGED <<client, gateway, lane, job, table, db, dbLane>>,
         \A q \in Players : /\ q \in ahead \cup stray => q \in ahead' \cup stray'
                            /\ q # p => spent'[q] = spent[q],
         \A s \in Sessions : AccountOf[s] = p => ZoneKeeps(s, z, p)
  PROVE  Contents'
<1>1. ASSUME NEW c \in Sessions PROVE Content(c)'
  <2>1. SessionSteady(c)
    BY RestSteady, TableUntouched
  <2>2. PICK q : q = AccountOf[c] /\ q \in Players
    BY Domains
  <2>3. Content(c)
    BY DEF Contents
  <2>4. CASE q # p
    <3>1. PlayerSteady(q) /\ \A y \in Zones : LinkSteady(y, q)
      BY <2>2, <2>4 DEF PlayerSteady, ElsewhereSame, LinkSteady
    <3>2. QED
      BY <2>1, <2>2, <2>3, <3>1, LinksSteady
  <2>5. CASE q = p
    <3>1. ZoneKeeps(c, z, p)
      BY <2>2, <2>5
    <3>2. Fresh(c)' => Before(c)'
      BY <2>1, <2>3, <3>1 DEF ZoneKeeps, SessionSteady, Content, Before
    <3>3. Online(c)' /\ p \notin ahead' \cup stray' => Kept(c)'
      BY <2>1, <2>2, <2>3, <2>5, <3>1 DEF ZoneKeeps, SessionSteady, Content
    <3>4. QED
      BY <2>2, <2>5, <3>2, <3>3 DEF Content
  <2>6. QED
    BY <2>4, <2>5
<1>2. QED
  BY <1>1 DEF Contents

\* A step that pays for nothing: what becomes of the part of z is left to show.
LEMMA ZonePart ==
  ASSUME TypeOK, Contents, NEW z \in Zones, NEW p \in Players, ElsewhereSame(z, p),
         UNCHANGED <<client, gateway, lane, job, table, db, dbLane, spent>>,
         \A q \in Players : q \in ahead \cup stray => q \in ahead' \cup stray',
         \A s \in Sessions : AccountOf[s] = p => (Fresh(s) => up' = up),
         \A home \in BOOLEAN : \A g, v :
            /\ Part(up[z][p], down[z][p], Here(z, p), unit[z][p].gold, home, g, v)
            /\ p \notin ahead' \cup stray'
            => Part(up'[z][p], down'[z][p], Here(z, p)', unit'[z][p].gold, home, g, v)
  PROVE  Contents'
<1>1. ASSUME NEW s \in Sessions, AccountOf[s] = p PROVE ZoneKeeps(s, z, p)
  <2>1. SUFFICES ASSUME p \notin ahead' \cup stray', Kept(s) PROVE Kept(s)'
    BY <1>1 DEF ZoneKeeps
  <2>2. ZoneOf(s)' = ZoneOf(s) /\ CacheOf(s)' = CacheOf(s) /\ Left(p)' = Left(p)
    BY TableUntouched DEF Left
  <2>3. PartAt(s, z)'
    <3>1. PICK home \in BOOLEAN : home = (z = ZoneOf(s))
      OBVIOUS
    <3>2. Part(up[z][p], down[z][p], Here(z, p), unit[z][p].gold, home, CacheOf(s), Left(p))
      BY <1>1, <2>1, <3>1 DEF Kept, PartAt
    <3>3. Part(up'[z][p], down'[z][p], Here(z, p)', unit'[z][p].gold, home, CacheOf(s), Left(p))
      BY <2>1, <3>2
    <3>4. QED
      BY <1>1, <2>2, <3>1, <3>3 DEF PartAt
  <2>4. ASSUME NEW y \in Zones, y # z PROVE PartAt(s, y)'
    <3>1. LinkSteady(y, p)
      BY <2>4 DEF ElsewhereSame, LinkSteady
    <3>2. QED
      BY <1>1, <2>1, <2>2, <3>1, PartSteady DEF Kept
  <2>5. PlayerSteady(p)
    BY DEF PlayerSteady
  <2>6. QED
    BY <1>1, <2>1, <2>2, <2>3, <2>4, <2>5, KeptSteady
<1>2. QED
  BY <1>1, ZoneContent

\* An entry gives the player what it brings, unless the player is there.
LEMMA EnterContent ==
  ASSUME TypeOK, Contents, NEW z \in Zones, NEW p \in Players, HandleEnterZone(z, p)
  PROVE  Contents'
<1>0. PICK m : m = Head(down[z][p])
  OBVIOUS
<1>1. /\ TakeFromWorld(z, p, "enter")
      /\ unit' = [unit EXCEPT ![z][p] = IF Present(z, p) THEN PutBack(@)
                                        ELSE [session |-> m.session, gold |-> m.gold,
                                              crossing |-> FALSE, request |-> NoZone]]
      /\ UNCHANGED <<client, gateway, lane, job, table, db, dbLane, spent, ahead, stray>>
  BY <1>0 DEF HandleEnterZone, clientVars, worldVars, dbVars, history, zoneHistory
<1>2. /\ ElsewhereSame(z, p) /\ UNCHANGED <<up, leaving>> /\ ~leaving[z][p] /\ Present(z, p)'
  BY EnterEffect DEF Present
<1>3. /\ down[z][p] \in Seq(ToPlayer(p)) /\ down[z][p] # <<>>
      /\ m.type = "enter" /\ down'[z][p] = Tail(down[z][p])
  BY <1>0, <1>1, TakesDown
<1>4. Here(z, p)' /\ (Here(z, p) <=> Present(z, p))
  BY <1>2 DEF Here
<1>5. unit'[z][p].gold = IF Present(z, p) THEN unit[z][p].gold ELSE m.gold
  <2>1. Grid(unit, Units) /\ DOMAIN Units = Players
    BY Domains DEF TypeOK, UnitsOK
  <2>2. unit'[z][p] = IF Present(z, p) THEN PutBack(unit[z][p])
                      ELSE [session |-> m.session, gold |-> m.gold, crossing |-> FALSE, request |-> NoZone]
    BY <1>1, <2>1 DEF Grid, Row
  <2>3. Present(z, p) => unit[z][p] \in UnitOf(p)
    BY UnitAt
  <2>4. QED
    BY <2>2, <2>3 DEF PutBack, UnitOf
<1>6. ASSUME NEW home \in BOOLEAN, NEW g, NEW v,
             Part(up[z][p], down[z][p], Here(z, p), unit[z][p].gold, home, g, v)
      PROVE  Part(up'[z][p], down'[z][p], Here(z, p)', unit'[z][p].gold, home, g, v)
  <2>1. Some(down'[z][p], "leave") <=> Some(down[z][p], "leave")
    BY <1>0, <1>3, SomeTail
  <2>2. Bring(down[z][p], "enter", v) => Bring(down'[z][p], "enter", v) /\ m.gold = v
    BY <1>0, <1>3, BringTail
  <2>3. QED
    BY <1>2, <1>4, <1>5, <1>6, <2>1, <2>2 DEF Part
<1>7. QED
  BY <1>1, <1>2, <1>6, ZonePart

\* A leave ends whatever the player had left to do there.
LEMMA LeaveContent ==
  ASSUME TypeOK, Contents, NEW z \in Zones, NEW p \in Players, HandleLeaveZone(z, p)
  PROVE  Contents'
<1>1. /\ TakeFromWorld(z, p, "leave")
      /\ UNCHANGED <<client, gateway, lane, job, table, db, dbLane, spent, ahead, stray>>
  BY DEF HandleLeaveZone, clientVars, worldVars, dbVars, history, zoneHistory
<1>2. /\ ElsewhereSame(z, p) /\ UNCHANGED up /\ ~Here(z, p)'
  BY LeaveEffect DEF Here, Present
<1>3. /\ down[z][p] \in Seq(ToPlayer(p)) /\ down[z][p] # <<>>
      /\ Head(down[z][p]).type = "leave" /\ down'[z][p] = Tail(down[z][p])
  BY <1>1, TakesDown
<1>4. ASSUME NEW home \in BOOLEAN, NEW g, NEW v,
             Part(up[z][p], down[z][p], Here(z, p), unit[z][p].gold, home, g, v)
      PROVE  Part(up'[z][p], down'[z][p], Here(z, p)', unit'[z][p].gold, home, g, v)
  <2>1. Some(down[z][p], "leave")
    BY <1>3, SomeTail
  <2>2. Bring(down[z][p], "enter", v) => Bring(down'[z][p], "enter", v)
    BY <1>3, BringTail
  <2>3. QED
    BY <1>2, <1>4, <2>1, <2>2 DEF Part
<1>5. QED
  BY <1>1, <1>2, <1>4, ZonePart

LEMMA RemoveContent ==
  ASSUME TypeOK, Contents, NEW z \in Zones, NEW p \in Players, RemoveUnit(z, p)
  PROVE  Contents'
<1>1. UNCHANGED <<client, gateway, lane, job, table, db, dbLane, spent, ahead, stray>>
  BY DEF RemoveUnit, clientVars, worldVars, dbVars, history, zoneHistory
<1>2. /\ ElsewhereSame(z, p) /\ UNCHANGED <<up, down>> /\ ~Here(z, p)' /\ ~Here(z, p)
  BY RemoveEffect DEF Here, Present
<1>3. ASSUME NEW home \in BOOLEAN, NEW g, NEW v,
             Part(up[z][p], down[z][p], Here(z, p), unit[z][p].gold, home, g, v)
      PROVE  Part(up'[z][p], down'[z][p], Here(z, p)', unit'[z][p].gold, home, g, v)
  BY <1>2, <1>3 DEF Part
<1>4. QED
  BY <1>1, <1>2, <1>3, ZonePart

\* A packet that pays for nothing.
LEMMA PacketContent ==
  ASSUME TypeOK, Contents, NEW z \in Zones, NEW p \in Players, HandleMove(z, p) \/ HandleMailBuy(z, p),
         unit'[z][p].gold = unit[z][p].gold, UNCHANGED <<up, spent, ahead, stray>>
  PROVE  Contents'
<1>1. /\ \E type \in {"move", "buy"} : TakeFromWorld(z, p, type)
      /\ UNCHANGED <<client, gateway, lane, job, table, db, dbLane>>
  BY DEF HandleMove, HandleMailBuy, clientVars, worldVars, dbVars
<1>2. ElsewhereSame(z, p) /\ Here(z, p)' = Here(z, p)
  BY PacketEffect DEF Here, Present
<1>3. /\ down[z][p] \in Seq(ToPlayer(p)) /\ down[z][p] # <<>>
      /\ Head(down[z][p]).type \in {"move", "buy"} /\ down'[z][p] = Tail(down[z][p])
  BY <1>1, TakesDown
<1>4. ASSUME NEW home \in BOOLEAN, NEW g, NEW v,
             Part(up[z][p], down[z][p], Here(z, p), unit[z][p].gold, home, g, v)
      PROVE  Part(up'[z][p], down'[z][p], Here(z, p)', unit'[z][p].gold, home, g, v)
  <2>1. Some(down'[z][p], "leave") <=> Some(down[z][p], "leave")
    BY <1>3, SomeTail
  <2>2. Bring(down[z][p], "enter", v) => Bring(down'[z][p], "enter", v)
    BY <1>3, BringTail
  <2>3. QED
    BY <1>2, <1>4, <2>1, <2>2, PartDown
<1>5. QED
  BY <1>1, <1>2, <1>4, ZonePart

LEMMA MoveContent ==
  ASSUME TypeOK, Contents, NEW z \in Zones, NEW p \in Players, HandleMove(z, p)
  PROVE  Contents'
<1>1. UNCHANGED <<up, spent, ahead, stray>>
  BY DEF HandleMove, history, zoneHistory
<1>2. unit'[z][p].gold = unit[z][p].gold
  <2>1. Grid(unit, Units) /\ DOMAIN Units = Players
    BY Domains DEF TypeOK, UnitsOK
  <2>2. CASE Present(z, p)
    <3>1. unit[z][p] \in UnitOf(p)
      BY <2>2, UnitAt
    <3>2. unit' = [unit EXCEPT ![z][p].request = Head(down[z][p]).to]
      BY <2>2 DEF HandleMove
    <3>3. QED
      BY <2>1, <3>1, <3>2 DEF Grid, Row, UnitOf
  <2>3. CASE ~Present(z, p)
    BY <2>3 DEF HandleMove
  <2>4. QED
    BY <2>2, <2>3
<1>3. QED
  BY <1>1, <1>2, PacketContent

\* The tick: where a unit is, not what it has.
LEMMA TickContent ==
  ASSUME TypeOK, Visits, Contents, NEW z \in Zones, NEW p \in Players, TickMove(z, p) \/ ReportCrossing(z, p)
  PROVE  Contents'
<1>1. UNCHANGED <<client, gateway, lane, job, table, db, dbLane, spent, ahead, stray, up, down, leaving>>
  BY DEF TickMove, ReportCrossing, clientVars, worldVars, dbVars, history, zoneHistory
<1>2. ElsewhereSame(z, p) /\ (Present(z, p)' <=> Present(z, p))
  <2>1. CASE TickMove(z, p)
    BY <2>1, TickMoveEffect DEF Present
  <2>2. CASE ReportCrossing(z, p)
    <3>1. ~visit[z][p].removed => Present(z, p)
      BY <2>2 DEF Visits, VisitOK, Present, ReportCrossing
    <3>2. QED
      BY <2>2, <3>1, ReportEffect DEF Present
  <2>3. QED
    BY <2>1, <2>2
<1>3. unit'[z][p].gold = unit[z][p].gold
  <2>1. Grid(unit, Units) /\ DOMAIN Units = Players
    BY Domains DEF TypeOK, UnitsOK
  <2>2. \/ unit' = unit \/ unit' = [unit EXCEPT ![z][p].request = NoZone]
        \/ unit' = [unit EXCEPT ![z][p].crossing = TRUE]
    BY DEF TickMove, ReportCrossing
  <2>3. unit[z][p] \in {NoUnit} \cup UnitOf(p)
    BY UnitAt DEF Units
  <2>4. QED
    BY <2>1, <2>2, <2>3 DEF Grid, Row, UnitOf, NoUnit
<1>4. Here(z, p)' = Here(z, p)
  BY <1>1, <1>2 DEF Here
<1>5. ASSUME NEW home \in BOOLEAN, NEW g, NEW v,
             Part(up[z][p], down[z][p], Here(z, p), unit[z][p].gold, home, g, v)
      PROVE  Part(up'[z][p], down'[z][p], Here(z, p)', unit'[z][p].gold, home, g, v)
  BY <1>1, <1>3, <1>4, <1>5
<1>6. QED
  BY <1>1, <1>2, <1>5, ZonePart

\* A transfer is asked for after all that has been reported.
LEMMA RequestContent ==
  ASSUME SessionInv, OneSessionEach, Contents, NEW z \in Zones, NEW p \in Players,
         RequestZoneTransfer(z, p)
  PROVE  Contents'
<1>1. /\ UNCHANGED <<client, gateway, lane, job, table, db, dbLane, spent, ahead, down, unit, leaving>>
      /\ TypeOK
  BY DEF RequestZoneTransfer, clientVars, worldVars, dbVars, SessionInv
<1>2. /\ ElsewhereSame(z, p) /\ Here(z, p)' = Here(z, p)
      /\ \/ UNCHANGED <<up, stray>>
         \/ /\ Present(z, p) /\ stray \subseteq stray'
            /\ \E m \in FromPlayer(p) : m.type = "transfer" /\ up'[z][p] = Append(up[z][p], m)
  BY <1>1, RequestEffect DEF Here, Present
<1>3. up[z][p] \in Seq(FromPlayer(p))
  BY <1>1, LinksAt
<1>4. ASSUME NEW home \in BOOLEAN, NEW g, NEW v,
             Part(up[z][p], down[z][p], Here(z, p), unit[z][p].gold, home, g, v)
      PROVE  Part(up'[z][p], down'[z][p], Here(z, p)', unit'[z][p].gold, home, g, v)
  <2>1. CASE up' = up
    BY <1>1, <1>2, <1>4, <2>1
  <2>2. CASE up' # up
    <3>1. PICK m \in FromPlayer(p) : m.type = "transfer" /\ up'[z][p] = Append(up[z][p], m)
      BY <1>2, <2>2
    <3>2. Some(up'[z][p], "uow") <=> Some(up[z][p], "uow")
      BY <1>3, <3>1, SomeAppend
    <3>3. ReportsFirst(up[z][p]) => ReportsFirst(up'[z][p])
      BY <1>3, <3>1, ReportsFirstAppend
    <3>4. Ends(up[z][p], g, v) => Ends(up'[z][p], g, v)
      BY <1>3, <3>1, EndsAppend
    <3>5. Part(up'[z][p], down[z][p], Here(z, p), unit[z][p].gold, home, g, v)
      BY <1>4, <3>2, <3>3, <3>4 DEF Part
    <3>6. QED
      BY <1>1, <1>2, <3>5
  <2>3. QED
    BY <2>1, <2>2
<1>5. ASSUME NEW s \in Sessions, AccountOf[s] = p, Fresh(s) PROVE up' = up
  <2>1. Unseen(s)
    BY <1>5 DEF SessionInv, SessionOK
  <2>2. ~Present(z, p)
    BY <1>5, <2>1, NothingYet DEF Present
  <2>3. QED
    BY <1>2, <2>2
<1>6. \A q \in Players : q \in ahead \cup stray => q \in ahead' \cup stray'
  BY <1>1, <1>2
<1>7. QED
  BY <1>1, <1>2, <1>4, <1>5, <1>6, ZonePart


\* A purchase pays with what the player has where it is at home, and is
\* reported there before anything is asked of World.
LEMMA BuyContent ==
  ASSUME HandoffInv, spent \in [Players -> Nat], Contents, NEW z \in Zones, NEW p \in Players,
         HandleMailBuy(z, p)
  PROVE  Contents'
<1>0. TypeOK /\ SessionInv /\ OneSessionEach
  BY DEF HandoffInv, SessionInv
<1>1. CASE ~(Present(z, p) /\ CanPay(unit[z][p]))
  <2>1. UNCHANGED <<unit, up, spent, ahead, stray>>
    BY <1>1 DEF HandleMailBuy
  <2>2. QED
    BY <1>0, <2>1, PacketContent
<1>2. CASE Present(z, p) /\ CanPay(unit[z][p])
  <2>1. PICK u, m : u = unit[z][p] /\ m = Msg("uow", NoSession, NoZone, u.gold - 1)
    OBVIOUS
  <2>2. /\ TakeFromWorld(z, p, "buy") /\ FromZone(z, p, m)
        /\ unit' = [unit EXCEPT ![z][p].gold = @ - 1]
        /\ spent' = [spent EXCEPT ![p] = @ + 1]
        /\ ahead' = IF Asked(z, p) THEN ahead \cup {p} ELSE ahead
        /\ UNCHANGED <<client, gateway, lane, job, table, db, dbLane, leaving, crossings, stray>>
    BY <1>2, <2>1 DEF HandleMailBuy, FromZone, clientVars, worldVars, dbVars
  <2>3. u \in UnitOf(p) /\ u.gold \in Nat /\ u.gold > 0
    BY <1>0, <1>2, <2>1, UnitAt DEF UnitOf, CanPay
  <2>4. m \in FromPlayer(p) /\ m.type = "uow" /\ m.gold = u.gold - 1
    BY <2>1, <2>3 DEF Msg, FromPlayer
  <2>5. /\ up[z][p] \in Seq(FromPlayer(p)) /\ up'[z][p] = Append(up[z][p], m)
    BY <1>0, <2>2, <2>4, Reports
  <2>6. /\ down[z][p] \in Seq(ToPlayer(p)) /\ down[z][p] # <<>>
        /\ Head(down[z][p]).type = "buy" /\ down'[z][p] = Tail(down[z][p]) /\ ~leaving[z][p]
    BY <1>0, <2>2, TakesDown
  <2>7. /\ ElsewhereSame(z, p) /\ Present(z, p)'
    BY <1>0, <1>2, PacketEffect DEF Present
  <2>8. unit'[z][p].gold = u.gold - 1
    <3>1. Grid(unit, Units) /\ DOMAIN Units = Players
      BY <1>0, Domains DEF TypeOK, UnitsOK
    <3>2. QED
      BY <2>1, <2>2, <2>3, <3>1 DEF Grid, Row, UnitOf
  <2>9. Here(z, p) /\ Here(z, p)'
    BY <1>2, <2>2, <2>6, <2>7 DEF Here
  <2>10. /\ spent'[p] = spent[p] + 1 /\ spent[p] \in Nat
         /\ \A q \in Players : q # p => spent'[q] = spent[q]
    BY <2>2
  <2>11. Left(p)' = Left(p) - 1 /\ Left(p) \in Int
    BY <2>10, ZoneHandoffAssumption DEF Left
  <2>12. \A q \in Players : q \in ahead \cup stray => q \in ahead' \cup stray'
    BY <2>2
  <2>13. ASSUME NEW s \in Sessions, AccountOf[s] = p PROVE ZoneKeeps(s, z, p)
    <3>1. ~Fresh(s)
      <4>1. SUFFICES ASSUME Fresh(s) PROVE FALSE
        OBVIOUS
      <4>2. Unseen(s)
        BY <1>0, <4>1 DEF SessionInv, SessionOK
      <4>3. QED
        BY <1>0, <1>2, <2>13, <4>2, NothingYet DEF Present
    <3>2. ASSUME Online(s), p \notin ahead' \cup stray', Kept(s) PROVE Kept(s)'
      <4>1. IsIn(s) /\ p \notin stray /\ ~Asked(z, p)
        BY <2>2, <3>2 DEF HandoffInv, Where
      <4>2. Answer(z, p, Entering(s, z))
        BY <2>13, <4>1 DEF IsIn
      <4>3. ~Busy(down[z][p], up[z][p], Entering(s, z))
        BY <2>9, <4>1, <4>2 DEF Answer, OneAnswer, Asked
      <4>4. ~Some(down[z][p], "leave") /\ ~Some(up[z][p], "transfer") /\ ~Entering(s, z)
        BY <4>3 DEF Busy
      <4>5. z = ZoneOf(s)
        <5>1. WillBeIn(z, p)
          BY <2>9, <4>4 DEF WillBeIn, WillBe
        <5>2. QED
          BY <2>13, <4>1, <5>1 DEF IsIn
      <4>6. job[s].do # "enter"
        <5>1. SUFFICES ASSUME job[s].do = "enter" PROVE FALSE
          OBVIOUS
        <5>2. job[s].zone \in Zones
          BY <1>0, <5>1, JobAt, Domains, ZoneHandoffAssumption
        <5>3. Entering(s, job[s].zone)
          BY <5>1 DEF Entering, EnterTo
        <5>4. job[s].zone = ZoneOf(s)
          BY <2>13, <4>1, <5>2, <5>3 DEF IsIn
        <5>5. QED
          BY <4>4, <4>5, <5>3, <5>4
      <4>7. /\ ZoneOf(s)' = ZoneOf(s) /\ CacheOf(s)' = CacheOf(s)
        BY <2>2, TableUntouched
      <4>8. LastIs(dbLane'[p], db'[p], CacheOf(s)')
        BY <2>2, <2>13, <3>2, <4>7 DEF Kept
      <4>9. PartAt(s, z)'
        <5>1. Part(up[z][p], down[z][p], Here(z, p), u.gold, TRUE, CacheOf(s), Left(p))
          BY <2>1, <2>13, <3>2, <4>5 DEF Kept, PartAt
        <5>2. ReportsFirst(up[z][p]) /\ u.gold = Left(p)
          BY <2>9, <4>4, <5>1 DEF Part
        <5>3. ReportsFirst(up'[z][p])
          BY <2>4, <2>5, <4>4, <5>2, ReportsFirstAppend
        <5>4. Ends(up'[z][p], CacheOf(s), m.gold)
          BY <2>4, <2>5, EndsAppend
        <5>5. m.gold = Left(p)' /\ unit'[z][p].gold = Left(p)'
          BY <2>4, <2>8, <2>11, <5>2
        <5>6. ~Some(down'[z][p], "leave")
          BY <2>6, <4>4, SomeTail
        <5>7. Part(up'[z][p], down'[z][p], Here(z, p)', unit'[z][p].gold, TRUE, CacheOf(s), Left(p)')
          BY <2>9, <5>3, <5>4, <5>5, <5>6 DEF Part
        <5>8. QED
          BY <2>13, <4>5, <4>7, <5>7 DEF PartAt, Part
      <4>10. ASSUME NEW y \in Zones, y # z PROVE PartAt(s, y)'
        <5>1. Part(up[y][p], down[y][p], Here(y, p), unit[y][p].gold, FALSE, CacheOf(s), Left(p))
          BY <2>13, <3>2, <4>5, <4>10 DEF Kept, PartAt
        <5>2. up'[y][p] = up[y][p]
          BY <2>7, <4>10 DEF ElsewhereSame
        <5>3. Part(up'[y][p], down'[y][p], Here(y, p)', unit'[y][p].gold, FALSE, CacheOf(s)', Left(p)')
          BY <5>1, <5>2, PartAway
        <5>4. QED
          BY <2>13, <4>5, <4>7, <4>10, <5>3 DEF PartAt, Part
      <4>11. \A y \in Zones : PartAt(s, y)'
        BY <4>9, <4>10
      <4>12. job'[s].do # "enter"
        BY <2>2, <4>6
      <4>13. QED
        BY <2>13, <4>8, <4>11, <4>12 DEF Kept
    <3>3. QED
      BY <3>1, <3>2 DEF ZoneKeeps
  <2>14. QED
    BY <1>0, <2>2, <2>7, <2>10, <2>12, <2>13, ZoneContent
<1>3. QED
  BY <1>1, <1>2

(***************************************************************************)
(* ContentInv, and what follows when all has settled.                      *)
(***************************************************************************)

LEMMA ContentInit ==
  ASSUME OneSessionEach, Init
  PROVE  ContentInv
<1>1. HandoffInv
  BY HandoffInit
<1>2. spent \in [Players -> Nat]
  BY DEF Init
<1>3. ASSUME NEW s \in Sessions PROVE Content(s)
  <2>1. ~Online(s)
    BY EmptyTableOK DEF Init, Online, PM!Has
  <2>2. Before(s)
    BY Domains DEF Init, Before, Bring
  <2>3. QED
    BY <2>1, <2>2 DEF Content
<1>4. QED
  BY <1>1, <1>2, <1>3 DEF ContentInv, Contents

LEMMA SpentStep ==
  ASSUME spent \in [Players -> Nat], [Next]_vars
  PROVE  spent' \in [Players -> Nat]
<1>1. ASSUME NEW z \in Zones, NEW p \in Players, HandleMailBuy(z, p) PROVE spent' \in [Players -> Nat]
  BY <1>1 DEF HandleMailBuy
<1>2. CASE spent' = spent
  BY <1>2
<1>3. CASE UNCHANGED vars
  BY <1>3 DEF vars, history, zoneHistory
<1>4. ASSUME NEW s \in Sessions, ClientStep(s) \/ OnRecvStream(s) \/ LoadPlayerContent(s)
      PROVE  spent' = spent
  BY <1>4 DEF ClientStep, ClientConnect, ClientLogin, ClientMove, ClientBuy, ClientDisconnect,
     OnRecvStream, LoadPlayerContent, history, zoneHistory
<1>5. ASSUME NEW o \in Owners, LaneStep(o) PROVE spent' = spent
  BY <1>5 DEF LaneStep, HandleClientConnected, HandleLogin, CompleteLogin, HandleFromClient,
     HandleClientDisconnected, ForgetClient, SendEnterZone, SendLeaveZone, history, zoneHistory
<1>6. ASSUME NEW p \in Players, OnExecute(p) PROVE spent' = spent
  BY <1>6 DEF OnExecute, history, zoneHistory
<1>7. ASSUME NEW z \in Zones, NEW p \in Players, ZoneLinkStep(z, p) \/ BasicStep(z, p) \/ TickStep(z, p)
      PROVE  HandleMailBuy(z, p) \/ spent' = spent
  BY <1>7 DEF ZoneLinkStep, HandleZoneTransfer, HandleUnitOfWorkStream, BasicStep, HandleEnterZone,
     HandleLeaveZone, RemoveUnit, HandleMove, TickStep, TickMove, ReportCrossing, RequestZoneTransfer,
     history, zoneHistory
<1>8. QED
  BY <1>1, <1>2, <1>3, <1>4, <1>5, <1>6, <1>7 DEF Next

LEMMA ContentNext ==
  ASSUME ContentInv, [Next]_vars
  PROVE  ContentInv'
<1>1. /\ HandoffInv /\ spent \in [Players -> Nat] /\ Contents /\ HandoffInv'
      /\ OneSessionEach /\ SessionInv /\ SessionInv' /\ Visits /\ TypeOK
  BY HandoffNext DEF ContentInv, HandoffInv, SessionInv
<1>2. SUFFICES Contents'
  BY <1>1, SpentStep DEF ContentInv
<1>3. ASSUME NEW s \in Sessions, ClientStep(s) \/ OnRecvStream(s) \/ LoadPlayerContent(s)
      PROVE  Contents'
  BY <1>1, <1>3, QuietContent, LoadContent
<1>4. ASSUME NEW o \in Owners, LaneStep(o) PROVE Contents'
  BY <1>1, <1>4, ConnectedContent, HandleLoginContent, CompleteLoginContent, FromClientContent,
     DisconnectedContent, ForgetContent, SendEnterContent, SendLeaveContent DEF LaneStep
<1>5. ASSUME NEW p \in Players, OnExecute(p) PROVE Contents'
  BY <1>1, <1>5, OnExecuteContent
<1>6. ASSUME NEW z \in Zones, NEW p \in Players, ZoneLinkStep(z, p) PROVE Contents'
  BY <1>1, <1>6, TransferContent, UnitOfWorkContent DEF ZoneLinkStep
<1>7. ASSUME NEW z \in Zones, NEW p \in Players, BasicStep(z, p) PROVE Contents'
  BY <1>1, <1>7, EnterContent, LeaveContent, RemoveContent, MoveContent, BuyContent DEF BasicStep
<1>8. ASSUME NEW z \in Zones, NEW p \in Players, TickStep(z, p) PROVE Contents'
  BY <1>1, <1>8, TickContent, RequestContent DEF TickStep
<1>9. CASE UNCHANGED vars
  <2>1. /\ UNCHANGED <<client, gateway, lane, job, up, down, unit, leaving, spent, ahead, stray, db, dbLane>>
        /\ table' = table
    BY <1>9 DEF vars, clientVars, worldVars, dbVars, zoneVars, history, zoneHistory
  <2>2. \A s \in Sessions : SessionSteady(s)
    BY <2>1, RestSteady, TableUntouched
  <2>3. QED
    BY <1>1, <2>1, <2>2, UntouchedContent
<1>10. QED
  BY <1>3, <1>4, <1>5, <1>6, <1>7, <1>8, <1>9 DEF Next

\* With one session per account: what a player has bought comes off what the
\* zone of its row has, then off what that zone has reported, which World
\* applies to the cache before it handles that zone's transfer, and off what
\* the DB lane will have written, while an entry on its way brings the rest.
THEOREM ContentInvariant == OneSessionEach /\ Spec => []ContentInv
<1>1. OneSessionEach /\ Init => ContentInv
  BY ContentInit
<1>2. ContentInv /\ [Next]_vars => ContentInv'
  BY ContentNext
<1>3. QED
  BY <1>1, <1>2, PTL DEF Spec

\* BasicProcessor.cpp:425-429, 484-560: when all of a player has settled, the
\* zone, the cache and the DB agree with the purchases that succeeded, whatever
\* handoffs they met, unless one was made after the transfer had been asked for.
THEOREM WhatIsOwnedIsKept == OneSessionEach /\ Spec => []ContentKept
<1>1. ContentInv => ContentKept
  <2>1. SUFFICES ASSUME ContentInv, NEW s \in Sessions, NEW p, p = AccountOf[s], Online(s), Settled(p),
                        p \notin ahead \cup stray
                 PROVE  /\ CacheOf(s) = Left(p) /\ db[p] = Left(p)
                        /\ \A z \in Holders(p) : unit[z][p].gold = Left(p)
    BY DEF ContentKept, CacheOf, Left
  <2>2. Kept(s) /\ IsIn(s) /\ ZoneOf(s) \in Zones /\ p \in Players
    BY <2>1, OnlineZone, Domains DEF ContentInv, Contents, Content, HandoffInv, Where, SessionInv
  <2>3. job[s].do = "none" /\ job[p].do = "none"
    BY <2>1 DEF Settled, NoJob
  <2>4. \A z \in Zones : ~Entering(s, z) /\ (WillBeIn(z, p) <=> z \in Holders(p))
    BY <2>1, <2>2, <2>3, SettledHere DEF Entering, EnterTo
  <2>5. \A z \in Zones : up[z][p] = <<>> /\ ~Some(down[z][p], "leave") /\ (Here(z, p) <=> z \in Holders(p))
    BY <2>1, SomeEmpty DEF Settled, Here, Holders
  <2>6. PICK h \in Zones : h = ZoneOf(s)
    BY <2>2
  <2>7. Part(up[h][p], down[h][p], Here(h, p), unit[h][p].gold, TRUE, CacheOf(s), Left(p))
    BY <2>1, <2>2, <2>6 DEF Kept, PartAt
  <2>8. CacheOf(s) = Left(p)
    BY <2>5, <2>7, SomeEmpty DEF Part, Ends
  <2>9. db[p] = Left(p)
    BY <2>1, <2>2, <2>8 DEF Kept, LastIs, Settled
  <2>10. ASSUME NEW z \in Holders(p) PROVE unit[z][p].gold = Left(p)
    <3>1. z \in Zones /\ WillBeIn(z, p)
      BY <2>4 DEF Holders
    <3>2. z = h
      BY <2>1, <2>2, <2>6, <3>1 DEF IsIn
    <3>3. QED
      BY <2>5, <2>7, <2>10, <3>2 DEF Part
  <2>11. QED
    BY <2>8, <2>9, <2>10
<1>2. QED
  BY <1>1, ContentInvariant, PTL
=============================================================================
