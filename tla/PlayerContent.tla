---------------------------- MODULE PlayerContent ----------------------------
(***************************************************************************)
(* What one player owns, from the zone that changes it to the database     *)
(* that keeps it: the mail box and the wallet (MailModel, CurrencyModel),  *)
(* the unit of work that collects a request's changes and sends them or    *)
(* takes them back when it goes out of scope (ZoneUnitOfWork), World's     *)
(* cache and DB lane that follow, and the client's own list.               *)
(*                                                                         *)
(* The zone's BASIC lane handles the player's requests one at a time; its  *)
(* TICK lane removes mails whose time is over.  The mail box has a lock    *)
(* (Mutexed), held for one model call or for the whole of TickMail; a unit *)
(* of work is closed with no lock held, so the two lanes' sends interleave.*)
(*                                                                         *)
(* A mail is an id, numbered in the order of issue; its content is its     *)
(* end.  The wallet holds gold.  The player stays in the zone; World's     *)
(* table (PlayerManager) loses it when the client disconnects.             *)
(***************************************************************************)
EXTENDS Integers, Sequences, SequencesExt, FiniteSetsExt

CONSTANTS
    MaxMailId,      \* bound: mails are 1 .. MaxMailId
    InitialEnds,    \* the ends of the mails the DB holds at the start
    Durations,      \* lifetimes a client may ask for
    Prices,         \* prices a client may offer
    InitialGold,
    MaxMailCount,   \* kMaxMailCount
    EnterBudget,    \* mails that fit into W2ZEnterZone
    MaxTime,        \* bound: the clock
    MaxRequests,    \* bound: requests of the client
    MaxFailures,    \* bound: transactions the DB refuses
    NoExpire,       \* kNoExpire, later than any end
    Session, Player, NoPlayer, NoZone

ASSUME PlayerContentAssumption ==
    /\ MaxMailId \in Nat /\ MaxMailCount \in Nat /\ EnterBudget \in Nat
    /\ MaxTime \in Nat /\ MaxRequests \in Nat /\ MaxFailures \in Nat
    /\ InitialEnds \in Seq(Int) /\ Len(InitialEnds) <= MaxMailId
    /\ Durations \subseteq Int /\ Prices \subseteq Nat /\ InitialGold \in Nat
    /\ NoExpire \in Int
    /\ \A d \in Durations : MaxTime + d < NoExpire
    /\ NoPlayer # Player

PM == INSTANCE PlayerManager

VARIABLES
    now,        \* the clock, in seconds
    requests,   \* requests the client has sent
    content,    \* the zone's models: box, next (nextExpireUt_) and gold
    endOf,      \* the ends of the mails issued, in the order of their ids
    basic,      \* the BASIC lane: its request and unit of work
    tick,       \* the TICK lane: its unit of work
    up,         \* zone to World: streams and results
    table,      \* World: PlayerManager
    dbLane,     \* World: transactions waiting for the player's DB lane
    db,         \* the database: the state of each mail, the gold
    client,     \* the client's list of mails
    failures,   \* transactions refused
    priceOf,    \* history: what was asked for each mail issued
    bought,     \* history: mails whose purchase went through
    refused,    \* history: mails whose request ended in an error
    overtaken,  \* history: mails that expired before the request that added
                \* them had been answered
    unsaved     \* history: mails, or gold, last written by a refused transaction

zoneVars == <<content, endOf, basic, tick>>
worldVars == <<table, dbLane, db, failures, unsaved>>
history == <<priceOf, bought, refused>>
vars == <<now, requests, zoneVars, up, worldVars, client, history, overtaken>>

MailIds == 1 .. MaxMailId

AddTask(m) == [kind |-> "add", mail |-> m, new |-> 0, prev |-> 0]
DelTask(m) == [kind |-> "del", mail |-> m, new |-> 0, prev |-> 0]
GoldTask(new, prev) == [kind |-> "gold", mail |-> 0, new |-> new, prev |-> prev]

Idle == [step |-> "idle", tasks |-> <<>>, price |-> 0, error |-> FALSE]
IdleTick == [step |-> "idle", tasks |-> <<>>, nowUt |-> 0]

\* The mails an entry carries: the newest that fit.
EnterZoneBody(mails) ==
    {m \in mails : Cardinality({n \in mails : n > m}) < EnterBudget}

EndsOf(mails, ends) == {ends[m] : m \in mails}

\* RecomputeNextExpireUt.
Earliest(mails, ends) == Min(EndsOf(mails, ends) \cup {NoExpire})

Init ==
    LET mails == DOMAIN InitialEnds
        entered == EnterZoneBody(mails) IN
    /\ now = 0 /\ requests = 0
    /\ endOf = InitialEnds
    /\ content = [box |-> entered, next |-> Earliest(entered, InitialEnds), gold |-> InitialGold]
    /\ basic = Idle /\ tick = IdleTick
    /\ up = <<>>
    /\ table = PM!SetAuthenticated(PM!Add(PM!EmptyTable, Session), Session, Player,
                                   mails, InitialGold)
    /\ dbLane = <<>>
    /\ db = [mail |-> [m \in MailIds |-> IF m \in mails THEN "alive" ELSE "none"],
             gold |-> InitialGold]
    /\ client = {}
    /\ failures = 0
    /\ priceOf = [m \in MailIds |-> 0]
    /\ bought = {} /\ refused = {} /\ overtaken = {} /\ unsaved = {}

(***************************************************************************)
(* The models.                                                             *)
(***************************************************************************)

IsFull(c) == Cardinality(c.box) >= MaxMailCount

\* Mutant of Added: a mail that ends before all others is not noticed.
AddedOnly(c, m, end) == [c EXCEPT !.box = @ \cup {m}]

\* AddMail and InsertMail, of a mail that is not in the box.
Added(c, m, end) == [c EXCEPT !.box = @ \cup {m}, !.next = Min({@, end})]

\* Mutant of Removed: the next expiry is kept when the earliest mail goes.
RemovedOnly(c, m) == [c EXCEPT !.box = @ \ {m}]

\* RemoveMail, of a mail that is in the box.
Removed(c, m) ==
    [c EXCEPT !.box = @ \ {m},
              !.next = IF endOf[m] <= @ THEN Earliest(c.box \ {m}, endOf) ELSE @]

\* RemoveMail returns MailNotFound of one that is not.
RemovedIfThere(c, m) == IF m \in c.box THEN Removed(c, m) ELSE c

CanPay(c, price) == price <= c.gold

\* Mutant of Fails: HandleMailBuy does not look at what DecCurrency returns.
NeverFails(c, price) == FALSE
Fails(c, price) == ~CanPay(c, price)

\* SetTracked adds no task when nothing changes.
GoldTasks(new, prev) == IF new = prev THEN <<>> ELSE <<GoldTask(new, prev)>>

\* RollbackUoW, one task: the opposite of what was done.
Undo(task, c) ==
    CASE task.kind = "add" -> RemovedIfThere(c, task.mail)
      [] task.kind = "del" -> Added(c, task.mail, endOf[task.mail])
      [] task.kind = "gold" -> [c EXCEPT !.gold = task.prev]

\* Mutant of RollbackUoW: nothing is taken back.
KeepTasks(c, tasks) == c

\* Last change first.
RollbackUoW(c, tasks) == FoldRight(Undo, tasks, c)

(***************************************************************************)
(* The zone: BASIC lane.                                                   *)
(***************************************************************************)

Connected == PM!Has(table, Session)

\* The next request of the client, in an order of its own.
MayStart == basic.step = "idle" /\ Connected /\ requests < MaxRequests

Open(step, tasks, price, error) ==
    /\ basic' = [step |-> step, tasks |-> tasks, price |-> price, error |-> error]
    /\ requests' = requests + 1

AddMail(d, price, step) ==
    LET m == Len(endOf) + 1 IN
    /\ ~IsFull(content) /\ m \in MailIds
    /\ content' = Added(content, m, now + d)
    /\ endOf' = Append(endOf, now + d)
    /\ Open(step, <<AddTask(m)>>, price, FALSE)
    /\ priceOf' = [priceOf EXCEPT ![m] = price]

\* The text is too long, the box is full or the mail is not found.
Refuse ==
    /\ Open("close", <<>>, 0, TRUE)
    /\ UNCHANGED <<content, endOf, priceOf>>

HandleMailAdd ==
    /\ MayStart
    /\ Refuse \/ \E d \in Durations : AddMail(d, 0, "close")
    /\ UNCHANGED <<now, tick, up, worldVars, client, bought, refused, overtaken>>

HandleMailDel ==
    /\ MayStart
    /\ \/ Refuse
       \/ \E m \in content.box :
            /\ content' = Removed(content, m)
            /\ Open("close", <<DelTask(m)>>, 0, FALSE)
            /\ UNCHANGED <<endOf, priceOf>>
    /\ UNCHANGED <<now, tick, up, worldVars, client, bought, refused, overtaken>>

\* HandleMailBuy: the mail first, and then the gold.
HandleMailBuy ==
    /\ MayStart
    /\ Refuse \/ \E d \in Durations, price \in Prices : AddMail(d, price, "pay")
    /\ UNCHANGED <<now, tick, up, worldVars, client, bought, refused, overtaken>>

DecCurrency ==
    LET left == IF CanPay(content, basic.price) THEN content.gold - basic.price
                ELSE content.gold IN
    /\ basic.step = "pay"
    /\ content' = [content EXCEPT !.gold = left]
    /\ basic' = [basic EXCEPT !.step = "close", !.tasks = @ \o GoldTasks(left, content.gold),
                              !.error = Fails(content, basic.price)]
    /\ UNCHANGED <<now, requests, endOf, tick, up, worldVars, client, history, overtaken>>

\* ~ZoneUnitOfWork: take everything back, or send; then the result, with no
\* tasks after an error.
Stream(tasks) == [type |-> "stream", tasks |-> tasks, error |-> FALSE]
Result(tasks, error) == [type |-> "result", tasks |-> tasks, error |-> error]

AddedIn(tasks) == {m \in MailIds : AddTask(m) \in ToSet(tasks)}

TakeBack ==
    /\ basic.step = "close" /\ basic.error
    /\ content' = RollbackUoW(content, basic.tasks)
    /\ basic' = [basic EXCEPT !.step = "answer", !.tasks = <<>>]
    /\ refused' = refused \cup AddedIn(basic.tasks)
    /\ UNCHANGED <<now, requests, endOf, tick, up, worldVars, client, priceOf, bought, overtaken>>

SendToWorld ==
    /\ basic.step = "close" /\ ~basic.error
    /\ up' = Append(up, Stream(basic.tasks))
    /\ basic' = [basic EXCEPT !.step = "answer"]
    /\ UNCHANGED <<now, requests, content, endOf, tick, worldVars, client, history, overtaken>>

SendTaskResult ==
    /\ basic.step = "answer"
    /\ up' = Append(up, Result(basic.tasks, basic.error))
    /\ basic' = Idle
    /\ bought' = bought \cup AddedIn(basic.tasks)
    /\ UNCHANGED <<now, requests, content, endOf, tick, worldVars, client, priceOf, refused, overtaken>>

(***************************************************************************)
(* The zone: TICK lane.                                                    *)
(***************************************************************************)

\* Player::Tick opens a unit of work only if HasExpired.
HasExpired(nowUt) == nowUt >= content.next

Tick ==
    /\ tick.step = "idle" /\ HasExpired(now)
    /\ tick' = [step |-> "mail", tasks |-> <<>>, nowUt |-> now]
    /\ UNCHANGED <<now, requests, content, endOf, basic, up, worldVars, client, history, overtaken>>

ExpiredMailIds(nowUt) == {m \in content.box : endOf[m] <= nowUt}

\* The lock is held from the search to the last removal, so none of these is
\* missing and TickMail never sets an error.
TickMail ==
    LET expired == SetToSeq(ExpiredMailIds(tick.nowUt)) IN
    /\ tick.step = "mail"
    /\ content' = FoldLeft(Removed, content, expired)
    /\ tick' = IF expired = <<>> THEN IdleTick
               ELSE [tick EXCEPT !.step = "close",
                        !.tasks = [i \in DOMAIN expired |-> DelTask(expired[i])]]
    /\ overtaken' = overtaken \cup (ToSet(expired) \cap AddedIn(basic.tasks))
    /\ UNCHANGED <<now, requests, endOf, basic, up, worldVars, client, history>>

TickSends ==
    /\ tick.step = "close"
    /\ up' = Append(up, Stream(tick.tasks))
    /\ tick' = [tick EXCEPT !.step = "answer"]
    /\ UNCHANGED <<now, requests, content, endOf, basic, worldVars, client, history, overtaken>>

TickAnswers ==
    /\ tick.step = "answer"
    /\ up' = Append(up, Result(tick.tasks, FALSE))
    /\ tick' = IdleTick
    /\ UNCHANGED <<now, requests, content, endOf, basic, worldVars, client, history, overtaken>>

(***************************************************************************)
(* World.  Streams and results of one player are handled in order, on the  *)
(* player's BASIC lane.                                                    *)
(***************************************************************************)

\* ApplyMailTask and ApplyCurrencyTask: the cache.
ApplyTask(t, task) ==
    CASE task.kind = "add" -> PM!AddMail(t, Session, task.mail)
      [] task.kind = "del" -> PM!RemoveMail(t, Session, task.mail)
      [] task.kind = "gold" -> PM!SetCurrency(t, Session, task.new)

\* Mutant of ApplyTask: a removal is written to the DB and not to the cache.
ApplyAddsOnly(t, task) == IF task.kind = "del" THEN t ELSE ApplyTask(t, task)
CacheTask(t, task) == ApplyTask(t, task)

HandleUnitOfWorkStream ==
    /\ up # <<>> /\ Head(up).type = "stream"
    /\ up' = Tail(up)
    /\ \/ /\ PM!HasPlayer(table, Player)
          /\ table' = FoldLeft(CacheTask, table, Head(up).tasks)
          /\ dbLane' = Append(dbLane, Head(up).tasks)
       \/ /\ ~PM!HasPlayer(table, Player)
          /\ UNCHANGED <<table, dbLane>>
    /\ UNCHANGED <<now, requests, zoneVars, db, failures, unsaved, client, history, overtaken>>

\* HandleForwardToWorld relays it, the gateway passes it on, and the client
\* applies the mail tasks (GameState.ApplyTaskResult).
ClientTask(mails, task) ==
    CASE task.kind = "add" -> mails \cup {task.mail}
      [] task.kind = "del" -> mails \ {task.mail}
      [] task.kind = "gold" -> mails

\* Mutant of Answered: the client keeps what it has.
Ignored(mails, result) == mails
Answered(mails, result) == FoldLeft(ClientTask, mails, result.tasks)

ApplyTaskResult ==
    /\ up # <<>> /\ Head(up).type = "result"
    /\ up' = Tail(up)
    /\ client' = IF Connected THEN Answered(client, Head(up)) ELSE client
    /\ UNCHANGED <<now, requests, zoneVars, worldVars, history, overtaken>>

\* One step: whatever else touches the table here is on the lane of the player.
Disconnect ==
    /\ Connected
    /\ table' = PM!Remove(table, Session)
    /\ UNCHANGED <<now, requests, zoneVars, up, dbLane, db, failures, unsaved, client, history, overtaken>>

(***************************************************************************)
(* The database: one transaction for each unit of work.                    *)
(***************************************************************************)

\* usp_mails_upsert leaves delete_ut alone; usp_mails_delete sets it once.
ExecuteOne(d, task) ==
    CASE task.kind = "add" ->
            [d EXCEPT !.mail[task.mail] = IF @ = "none" THEN "alive" ELSE @]
      [] task.kind = "del" ->
            [d EXCEPT !.mail[task.mail] = IF @ = "alive" THEN "deleted" ELSE @]
      [] task.kind = "gold" -> [d EXCEPT !.gold = task.new]

Execute(d, tasks) == FoldLeft(ExecuteOne, d, tasks)

\* Mutant of AfterFailure: no transaction around the commands.
FirstOnly(d, tasks) == ExecuteOne(d, Head(tasks))
AfterFailure(d, tasks) == d

Written(tasks) ==
    {t.mail : t \in {u \in ToSet(tasks) : u.kind # "gold"}}
    \cup {0 : t \in {u \in ToSet(tasks) : u.kind = "gold"}}

OnExecute ==
    /\ dbLane # <<>>
    /\ dbLane' = Tail(dbLane)
    /\ \/ /\ db' = Execute(db, Head(dbLane))
          /\ unsaved' = unsaved \ Written(Head(dbLane))
          /\ UNCHANGED failures
       \/ /\ failures < MaxFailures
          /\ db' = AfterFailure(db, Head(dbLane))
          /\ failures' = failures + 1
          /\ unsaved' = unsaved \cup Written(Head(dbLane))
    /\ UNCHANGED <<now, requests, zoneVars, up, table, client, history, overtaken>>

Clock ==
    /\ now < MaxTime
    /\ now' = now + 1
    /\ UNCHANGED <<requests, zoneVars, up, worldVars, client, history, overtaken>>

BasicStep == DecCurrency \/ TakeBack \/ SendToWorld \/ SendTaskResult
TickStep == Tick \/ TickMail \/ TickSends \/ TickAnswers
Request == HandleMailAdd \/ HandleMailDel \/ HandleMailBuy
World == HandleUnitOfWorkStream \/ ApplyTaskResult

Next == Request \/ BasicStep \/ TickStep \/ World \/ OnExecute \/ Disconnect \/ Clock

Spec == Init /\ [][Next]_vars

\* Lanes run, the link delivers, and the tick timer fires again and again.
FairSpec ==
    /\ Spec
    /\ WF_vars(BasicStep) /\ WF_vars(TickStep) /\ WF_vars(World) /\ WF_vars(OnExecute)

(***************************************************************************)
(* Properties.                                                             *)
(***************************************************************************)

Cache == PM!Find(table, Session)
Quiet == basic.step = "idle" /\ tick.step = "idle" /\ up = <<>>

\* MailModel::HasExpired looks at one number: it is the earliest end in the
\* box, through additions, removals, expiries and rollbacks.
NextIsEarliest == content.next = Earliest(content.box, endOf)

\* A request that ended in an error leaves no trace of its mail, in the zone,
\* World, the DB or the client's list (ZoneUnitOfWork, RollbackUoW).
RefusedLeavesNothing ==
    \A m \in refused :
        /\ m \notin content.box /\ m \notin client
        /\ db.mail[m] # "alive"
        /\ Connected => m \notin Cache.mails

\* Every mail is paid for: between requests the wallet is what was there at
\* first less the price of every mail bought (HandleMailBuy), and the DB
\* never keeps a mail whose price it has not taken, whatever transaction
\* fails (AutoSpCommands: one unit of work, one transaction).
GoldPaysForMails ==
    /\ basic.step = "idle" =>
           content.gold + MapThenSumSet(LAMBDA m : priceOf[m], bought) = InitialGold
    /\ db.gold + MapThenSumSet(LAMBDA m : priceOf[m], {m \in MailIds : db.mail[m] # "none"})
           <= InitialGold

\* When nothing is under way World's cache is what the zone has, the mails
\* aside that did not fit into the entry and those that expired too early.
CacheFollowsZone ==
    Quiet /\ Connected =>
        /\ Cache.gold = content.gold
        /\ content.box \subseteq Cache.mails
        /\ \A m \in Cache.mails \ content.box : m \in overtaken \/ m <= Len(InitialEnds) - EnterBudget

\* When nothing is under way the client lists the mails it was sent that the
\* zone has, those aside that expired too early.
ClientFollowsZone ==
    Quiet /\ Connected =>
        \A m \in MailIds \ (DOMAIN InitialEnds \cup overtaken) : m \in client <=> m \in content.box

\* With its lane empty the DB is what World has, except for what the last
\* transaction that wrote it failed to write (DbProcessor::OnExecute).
DbFollowsCache ==
    dbLane = <<>> /\ Connected =>
        /\ \A m \in MailIds \ unsaved : db.mail[m] = "alive" <=> m \in Cache.mails
        /\ 0 \notin unsaved => db.gold = Cache.gold

\* A mail in the zone whose time is over goes from the DB too, unless the
\* player goes, the removal is refused or it overtook the addition.
ExpiryReachesDb ==
    \A m \in MailIds :
        m \in content.box /\ endOf[m] <= now
            ~> \/ db.mail[m] # "alive" /\ m \notin content.box
               \/ ~Connected \/ m \in unsaved \cup overtaken
=============================================================================
