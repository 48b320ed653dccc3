------------------------------- MODULE ToolLink -------------------------------
(***************************************************************************)
(* The operator tool and World: WorldLinkClient keeps one connection and   *)
(* shares it among all callers, pairing answers with requests by id; it    *)
(* says hello first, gives up on an answer after a time, and after a loss  *)
(* wakes its callers and connects again.  ToolProcessor handles what       *)
(* arrives on a connection in order, on a lane of its own, while clients   *)
(* come and go, and answers on that connection.                            *)
(*                                                                         *)
(* Time is not modelled: a request that waits may time out at any moment.  *)
(***************************************************************************)
EXTENDS Naturals, Sequences, FiniteSets

CONSTANTS
    Callers,        \* tasks of the tool, each with one command
    CommandOf,      \* [kind, target]
    Clients,        \* game clients
    NoClient,
    MaxConnects     \* bound: connections

Mails == {"mail", "delete"}   \* commands for one client
Kinds == Mails \cup {"mailAll"}

ASSUME ToolLinkAssumption ==
    /\ \A c \in Callers : CommandOf[c] \in [kind : Kinds, target : Clients \cup {NoClient}]
    /\ NoClient \notin Clients
    /\ MaxConnects \in Nat /\ IsFiniteSet(Callers)

VARIABLES
    loop,       \* ExecuteAsync: where the task that keeps the connection is
    authenticated, \* authenticated_
    stream,     \* stream_: the number of its connection, or 0
    connects,   \* connections made so far
    up,         \* the last connection has not been lost
    toTool,     \* on that connection, not yet read by the tool
    lastId,     \* nextRequestId_
    helloId,    \* the request the loop waits for
    pending,    \* keys of pending_
    outcome,    \* per id: what the completion was set to
    caller,     \* per caller: where its SendCommandAsync is
    idOf,       \* per caller: its request id
    result,     \* per caller: what SendCommandAsync returned
    secretOk,   \* both sides are configured with one secret
    lane,       \* per connection: messages for World's BASIC lane
    job,        \* per connection: the handler World is in the middle of
    authSessions, \* authenticatedSessions_
    online,     \* clients in World's table
    inZone,     \* and those in a zone that is linked
    delivered   \* history: per id, the clients whose zones got the packet

loopVars == <<loop, authenticated, stream, helloId>>
netVars == <<connects, up, toTool>>
callVars == <<caller, idOf, result>>
idVars == <<lastId, pending, outcome>>
handlerVars == <<job, authSessions, delivered>>
worldVars == <<lane, handlerVars>>
clientVars == <<online, inZone>>
linkVars == <<loopVars, netVars, callVars, idVars, secretOk, worldVars, clientVars>>

Connections == 1 .. MaxConnects
RequestIds == 1 .. Cardinality(Callers) + MaxConnects
NoJob == [id |-> 0, type |-> "none", left |-> {}]

LinkInit ==
    /\ loop = "delay" /\ authenticated = FALSE /\ stream = 0 /\ helloId = 0
    /\ connects = 0 /\ up = FALSE /\ toTool = <<>>
    /\ lastId = 0 /\ pending = {} /\ outcome = [i \in RequestIds |-> "none"]
    /\ caller = [c \in Callers |-> "idle"]
    /\ idOf = [c \in Callers |-> 0]
    /\ result = [c \in Callers |-> "none"]
    /\ secretOk \in BOOLEAN
    /\ lane = [k \in Connections |-> <<>>]
    /\ job = [k \in Connections |-> NoJob]
    /\ authSessions = {}
    /\ online = Clients /\ inZone = {}
    /\ delivered = [i \in RequestIds |-> {}]

(***************************************************************************)
(* Ids and completions, common to the callers and the loop.                *)
(***************************************************************************)

Register(id) == lastId' = id /\ pending' = pending \cup {id} /\ outcome' = outcome

\* Mutant: an answer wakes who has waited longest.
CompleteOldest(id, what) ==
    IF pending = {} THEN UNCHANGED <<pending, outcome>>
    ELSE LET oldest == CHOOSE i \in pending : \A j \in pending : i <= j
         IN  pending' = pending \ {oldest} /\ outcome' = [outcome EXCEPT ![oldest] = what]

\* Complete: nobody waits for the answer to a request that was given up.
Complete(id, what) ==
    IF id \in pending
    THEN pending' = pending \ {id} /\ outcome' = [outcome EXCEPT ![id] = what]
    ELSE UNCHANGED <<pending, outcome>>

\* World pushes what arrives on the lane of the connection.  A write on a
\* connection that is gone fails, or is lost without a word, as is what is on
\* its way when the connection is lost.
Written(m) == lane' = IF up THEN [lane EXCEPT ![connects] = Append(@, m)] ELSE lane

(***************************************************************************)
(* SendCommandAsync.                                                       *)
(***************************************************************************)

Return(c, what) ==
    /\ caller' = [caller EXCEPT ![c] = "done"]
    /\ result' = [result EXCEPT ![c] = what]

\* IsReady is read once; the socket may know already that it is closed.
Begin(c) ==
    /\ caller[c] = "idle"
    /\ \/ /\ authenticated
          /\ caller' = [caller EXCEPT ![c] = "ready"]
          /\ UNCHANGED result
       \/ /\ ~authenticated \/ ~up
          /\ Return(c, "ToolNotConnected")
    /\ UNCHANGED <<idOf, loopVars, netVars, idVars, secretOk, worldVars, clientVars>>

\* The request is entered in the table, then written.  A sweep of the table
\* between the two finds it there, as one right after them does.
Send(c) ==
    /\ caller[c] = "ready"
    /\ stream # 0
    /\ Register(lastId + 1)
    /\ idOf' = [idOf EXCEPT ![c] = lastId + 1]
    /\ Written([type |-> CommandOf[c].kind, id |-> lastId + 1, target |-> CommandOf[c].target])
    /\ caller' = [caller EXCEPT ![c] = "waiting"]
    /\ UNCHANGED <<result, loopVars, netVars, secretOk, handlerVars, clientVars>>

SendFails(c) ==
    /\ caller[c] = "ready"
    /\ stream = 0 \/ ~up
    /\ lastId' = lastId + 1
    /\ idOf' = [idOf EXCEPT ![c] = lastId + 1]
    /\ Return(c, "ToolNotConnected")
    /\ UNCHANGED <<loopVars, netVars, pending, outcome, secretOk, worldVars, clientVars>>

Answered(c) ==
    /\ caller[c] = "waiting"
    /\ outcome[idOf[c]] # "none"
    /\ Return(c, outcome[idOf[c]])
    /\ UNCHANGED <<idOf, loopVars, netVars, idVars, secretOk, worldVars, clientVars>>

\* Mutant: what was given up stays in the table.
TimeoutForgets(c) ==
    /\ caller[c] = "waiting"
    /\ outcome[idOf[c]] = "none"
    /\ Return(c, "ToolTimeout")
    /\ UNCHANGED <<idOf, loopVars, netVars, idVars, secretOk, worldVars, clientVars>>

Timeout(c) ==
    /\ caller[c] = "waiting"
    /\ outcome[idOf[c]] = "none"
    /\ pending' = pending \ {idOf[c]}
    /\ Return(c, "ToolTimeout")
    /\ UNCHANGED <<idOf, loopVars, netVars, lastId, outcome, secretOk, worldVars, clientVars>>

(***************************************************************************)
(* ExecuteAsync: connect, say hello, pump, tear down.                      *)
(***************************************************************************)

Connect ==
    /\ loop = "delay"
    /\ connects < MaxConnects
    /\ connects' = connects + 1
    /\ stream' = connects + 1
    /\ up' = TRUE /\ toTool' = <<>>
    /\ loop' = "connected"
    /\ UNCHANGED <<authenticated, helloId, callVars, idVars, secretOk, worldVars, clientVars>>

\* The read loop is running by now.
SendHello ==
    /\ loop = "connected"
    /\ Register(lastId + 1)
    /\ helloId' = lastId + 1
    /\ \/ Written([type |-> "hello", id |-> lastId + 1, target |-> NoClient]) /\ loop' = "hello"
       \/ ~up /\ loop' = "teardown" /\ lane' = lane
    /\ UNCHANGED <<authenticated, stream, netVars, callVars, secretOk, handlerVars, clientVars>>

HelloAnswered ==
    /\ loop = "hello"
    /\ outcome[helloId] # "none"
    /\ authenticated' = (outcome[helloId] = "Ok")
    /\ loop' = "pumping"
    /\ UNCHANGED <<stream, helloId, netVars, callVars, idVars, secretOk, worldVars, clientVars>>

HelloTimeout ==
    /\ loop = "hello"
    /\ outcome[helloId] = "none"
    /\ pending' = pending \ {helloId}
    /\ loop' = "teardown"
    /\ UNCHANGED <<authenticated, stream, helloId, netVars, callVars, lastId, outcome, secretOk,
                   worldVars, clientVars>>

\* HandlePacket, in the read loop.
ReadAnswer ==
    /\ stream = connects
    /\ toTool # <<>>
    /\ toTool' = Tail(toTool)
    /\ Complete(Head(toTool).id, Head(toTool).what)
    /\ UNCHANGED <<loopVars, connects, up, callVars, lastId, secretOk, worldVars, clientVars>>

\* The loop notices a loss when it comes to wait for the read loop.
ReadLoopEnds ==
    /\ loop = "pumping"
    /\ ~up /\ toTool = <<>>
    /\ loop' = "teardown"
    /\ UNCHANGED <<authenticated, stream, helloId, netVars, callVars, idVars, secretOk, worldVars, clientVars>>

\* Teardown: the flag and everyone who waits, then the socket.  Who has passed
\* IsReady may come in between, and waits until the time is over.
WakeAll ==
    /\ loop = "teardown"
    /\ authenticated' = FALSE
    /\ outcome' = [i \in RequestIds |-> IF i \in pending THEN "ToolNotConnected" ELSE outcome[i]]
    /\ pending' = {}
    /\ loop' = "dispose"
    /\ UNCHANGED <<stream, helloId, netVars, callVars, lastId, secretOk, worldVars, clientVars>>

Dispose ==
    /\ loop = "dispose"
    /\ stream' = 0
    /\ up' = FALSE /\ toTool' = <<>>
    /\ loop' = "delay"
    /\ UNCHANGED <<authenticated, helloId, connects, callVars, idVars, secretOk, worldVars, clientVars>>

\* The connection is lost, with what is on its way.
Drop ==
    /\ up
    /\ up' = FALSE /\ toTool' = <<>>
    /\ UNCHANGED <<loopVars, connects, callVars, idVars, secretOk, worldVars, clientVars>>

(***************************************************************************)
(* World.                                                                  *)
(***************************************************************************)

\* An answer goes to the connection the request came on, if it still lives.
SendCommandResult(k, id, what) ==
    toTool' = IF up /\ k = connects THEN Append(toTool, [id |-> id, what |-> what]) ELSE toTool

Take(k, types) ==
    /\ job[k] = NoJob
    /\ lane[k] # <<>>
    /\ Head(lane[k]).type \in types
    /\ lane' = [lane EXCEPT ![k] = Tail(@)]

IsAuthenticated(k) == k \in authSessions

RefuseStranger(k) ==
    /\ Take(k, Kinds)
    /\ ~IsAuthenticated(k)
    /\ SendCommandResult(k, Head(lane[k]).id, "NotAuthenticated")
    /\ UNCHANGED <<loopVars, connects, up, callVars, idVars, secretOk, job, authSessions,
                   delivered, clientVars>>

\* A refused hello is answered and the connection closed, so that the answer
\* may not get out.
HandleHello(k) ==
    /\ Take(k, {"hello"})
    /\ \/ /\ secretOk
          /\ authSessions' = authSessions \cup {k}
          /\ SendCommandResult(k, Head(lane[k]).id, "Ok")
          /\ up' = up
       \/ /\ ~secretOk
          /\ authSessions' = authSessions
          /\ up' = (up /\ k # connects)
          /\ \/ SendCommandResult(k, Head(lane[k]).id, "NotAuthenticated")
             \/ UNCHANGED toTool
    /\ UNCHANGED <<loopVars, connects, callVars, idVars, secretOk, job, delivered, clientVars>>

\* HandleMailSend and HandleMailDelete.  A mail without a title or a duration,
\* or to an unknown kind of target, is refused; which are is left open.  For the
\* others, look the client up, or take a snapshot of all ...
HandleMail(k) ==
    LET m == Head(lane[k])
        targets == IF m.type = "mailAll" THEN online ELSE {m.target} \cap online
    IN  /\ Take(k, Mails \cup {"mailAll"})
        /\ IsAuthenticated(k)
        /\ \/ /\ m.type # "delete"
              /\ SendCommandResult(k, m.id, "BadRequest")
              /\ job' = job
           \/ /\ targets = {}
              /\ SendCommandResult(k, m.id, IF m.type = "mailAll" THEN "Ok" ELSE "TargetNotFound")
              /\ job' = job
           \/ /\ targets # {}
              /\ job' = [job EXCEPT ![k] = [id |-> m.id, type |-> m.type, left |-> targets]]
              /\ toTool' = toTool
        /\ UNCHANGED <<loopVars, connects, up, callVars, idVars, secretOk, authSessions,
                       delivered, clientVars>>

\* Mutant: the answer is that of the first lookup.
AnswerOfLookup(type, receivers) == "Ok"
\* What became of the packet; for all online, how many got it.
MailAnswer(type, receivers) == IF type = "mailAll" \/ receivers # {} THEN "Ok" ELSE "ZoneUnavailable"

\* ... and once more to send, as the client may be gone by then.  The answer
\* goes out after the last one.
InjectClientPacket(k, p) ==
    LET j == job[k]
        receivers == delivered[j.id] \cup ({p} \cap inZone)
    IN  /\ p \in j.left
        /\ delivered' = [delivered EXCEPT ![j.id] = receivers]
        /\ IF j.left = {p}
           THEN SendCommandResult(k, j.id, MailAnswer(j.type, receivers)) /\ job' = [job EXCEPT ![k] = NoJob]
           ELSE job' = [job EXCEPT ![k].left = @ \ {p}] /\ toTool' = toTool
        /\ UNCHANGED <<loopVars, connects, up, callVars, idVars, secretOk, lane, authSessions, clientVars>>

\* OnToolLinkClosed, after all that the connection brought.
OnToolLinkClosed(k) ==
    /\ k < connects \/ (k = connects /\ ~up)
    /\ k \in authSessions
    /\ lane[k] = <<>> /\ job[k] = NoJob
    /\ authSessions' = authSessions \ {k}
    /\ UNCHANGED <<loopVars, netVars, callVars, idVars, secretOk, lane, job, delivered, clientVars>>

\* A client is routed to a zone that is linked, or goes; its session number
\* does not come back.
ClientMoves(p) ==
    /\ p \in online
    /\ \/ inZone' = inZone \cup {p} /\ online' = online
       \/ online' = online \ {p} /\ inZone' = inZone \ {p}
    /\ UNCHANGED <<loopVars, netVars, callVars, idVars, secretOk, worldVars>>

CallStep(c) == Send(c) \/ SendFails(c) \/ Answered(c) \/ Timeout(c)

LoopStep ==
    \/ Connect \/ SendHello \/ HelloAnswered \/ HelloTimeout \/ ReadLoopEnds
    \/ WakeAll \/ Dispose

WorldStep(k) ==
    \/ RefuseStranger(k) \/ HandleHello(k) \/ HandleMail(k)
    \/ (\E p \in Clients : InjectClientPacket(k, p)) \/ OnToolLinkClosed(k)

LinkNext ==
    \/ \E c \in Callers : CallStep(c)
    \/ LoopStep \/ ReadAnswer \/ Drop
    \/ \E k \in Connections : WorldStep(k)
    \/ \E p \in Clients : ClientMoves(p)

-----------------------------------------------------------------------------
\* A caller is told what became of its own command, however many share the
\* connection and whatever was given up, lost or answered late: Ok means the
\* zone of the client got it, a refusal that nothing was sent
\* (WorldLinkClient.cs:35-36).
AnswersMatch ==
    \A c \in Callers :
        /\ result[c] = "Ok" /\ CommandOf[c].kind \in Mails => delivered[idOf[c]] = {CommandOf[c].target}
        /\ result[c] \in {"NotAuthenticated", "BadRequest", "TargetNotFound", "ZoneUnavailable"}
               => delivered[idOf[c]] = {}

\* The table of pending requests holds none that nobody waits for: a long
\* run of losses, timeouts and late answers leaves nothing behind.
PendingIsWaited ==
    pending \subseteq {idOf[c] : c \in {d \in Callers : caller[d] = "waiting"}}
                    \cup (IF loop \in {"hello", "teardown"} THEN {helloId} ELSE {})
=============================================================================
