-------------------------- MODULE CouponRedeemProofs --------------------------
(***************************************************************************)
(* Proofs about CouponRedeem, for every number of requests, callers,       *)
(* clients and connections.  The argument: a request gets as far as        *)
(* sending its reward only after its own conditional update, so those that *)
(* have an id on the link are among those that used the coupon.  Of the    *)
(* link: a request is in one place at World at a time, and what is         *)
(* reported of it is so when it has left World, and stays so.              *)
(***************************************************************************)
EXTENDS CouponRedeem, FiniteSetTheorems, TLAPS

\* Requests whose update went through.
Users == {r \in Redeemers : redeem[r] \in {"used", "rewarding"} \/ told[r] \in {"Ok", "OkRewardDelayed"}}

Types ==
    /\ redeem \in [Redeemers -> {"start", "used", "rewarding", "told"}]
    /\ told \in [Redeemers -> {"none", "refused", "exception", "Ok", "OkRewardDelayed"}]
    /\ caller = [c \in Callers |-> caller[c]]
    /\ idOf = [c \in Callers |-> idOf[c]]
    /\ useCount \in Nat

\* A request is on the link only if it has used the coupon and is owed a mail,
\* and is told something only at its end.
OnLinkIsUser ==
    \A r \in Redeemers :
        /\ idOf[r] # 0 => caller[r] # "idle"
        /\ caller[r] # "idle" => redeem[r] = "rewarding" \/ told[r] \in {"Ok", "OkRewardDelayed"}
        /\ redeem[r] # "told" => told[r] = "none"
        /\ ~OwesMail(r) => caller[r] = "idle"

WithinLimit == MaxUseCount > 0 => useCount <= MaxUseCount

EachUserCounted == Cardinality(Users) <= useCount

IInv == Types /\ OnLinkIsUser /\ WithinLimit /\ EachUserCounted

LEMMA UsersFinite == IsFiniteSet(Users) /\ Cardinality(Users) \in Nat
<1>1. IsFiniteSet(Users)
  BY CouponAssumption, FS_Subset DEF Users
<1>2. QED
  BY <1>1, FS_CardinalityType

LEMMA IInvInit == Init => IInv
<1> SUFFICES ASSUME Init PROVE IInv
  OBVIOUS
<1>1. Redeemers \subseteq Callers
  BY CouponAssumption
<1>2. Types
  BY DEF Init, LinkInit, Types
<1>3. OnLinkIsUser
  BY <1>1 DEF Init, LinkInit, OnLinkIsUser
<1>4. WithinLimit
  BY CouponAssumption DEF Init, WithinLimit
<1>5. EachUserCounted
  <2>1. Users = {}
    BY DEF Init, Users
  <2>2. QED
    BY <2>1, FS_EmptySet DEF Init, EachUserCounted
<1>6. QED
  BY <1>2, <1>3, <1>4, <1>5 DEF IInv

\* On the link a request never becomes idle again, and only one that is not
\* idle gets an id.
LEMMA LinkStep ==
  ASSUME IInv, LinkNext, UNCHANGED couponVars
  PROVE  IInv'
<1>1. IInv /\ Redeemers \subseteq Callers
  BY CouponAssumption DEF IInv
<1>2. ASSUME UNCHANGED <<caller, idOf>> PROVE IInv'
  BY <1>1, <1>2 DEF IInv, Types, OnLinkIsUser, WithinLimit, EachUserCounted, Users, couponVars, OwesMail
<1>3. ASSUME NEW c \in Callers, caller[c] # "idle", NEW to, to # "idle",
             caller' = [caller EXCEPT ![c] = to],
             idOf' = idOf \/ \E i : idOf' = [idOf EXCEPT ![c] = i]
      PROVE  IInv'
  <2>1. caller' = [d \in Callers |-> caller'[d]] /\ idOf' = [d \in Callers |-> idOf'[d]]
    BY <1>1, <1>3 DEF IInv, Types
  <2>2. \A d \in Callers : (caller'[d] # "idle" <=> caller[d] # "idle")
                           /\ (idOf'[d] # idOf[d] => caller[d] # "idle")
    BY <1>1, <1>3 DEF IInv, Types
  <2>3. Types'
    BY <1>1, <2>1 DEF IInv, Types, couponVars
  <2>4. OnLinkIsUser'
    BY <1>1, <2>2 DEF IInv, OnLinkIsUser, couponVars, OwesMail
  <2>5. WithinLimit' /\ EachUserCounted'
    BY <1>1 DEF IInv, WithinLimit, EachUserCounted, Users, couponVars
  <2>6. QED
    BY <2>3, <2>4, <2>5 DEF IInv
<1>4. ASSUME NEW c \in Callers, Send(c) PROVE IInv'
  BY <1>3, <1>4 DEF Send
<1>5. ASSUME NEW c \in Callers, SendFails(c) PROVE IInv'
  BY <1>3, <1>5 DEF SendFails, Return
<1>6. ASSUME NEW c \in Callers, Answered(c) PROVE IInv'
  BY <1>3, <1>6 DEF Answered, Return
<1>7. ASSUME NEW c \in Callers, Timeout(c) PROVE IInv'
  BY <1>3, <1>7 DEF Timeout, Return
<1>8. LoopStep \/ ReadAnswer \/ Drop => UNCHANGED <<caller, idOf>>
  BY DEF LoopStep, Connect, SendHello, HelloAnswered, HelloTimeout, ReadLoopEnds, WakeAll, Dispose,
         ReadAnswer, Drop, callVars
<1>9. ASSUME NEW k \in Connections, WorldStep(k) PROVE UNCHANGED <<caller, idOf>>
  BY <1>9 DEF WorldStep, RefuseStranger, HandleHello, HandleMail, InjectClientPacket, OnToolLinkClosed, callVars
<1>10. ASSUME NEW p \in Clients, ClientMoves(p) PROVE UNCHANGED <<caller, idOf>>
  BY <1>10 DEF ClientMoves, callVars
<1>11. QED
  BY <1>2, <1>4, <1>5, <1>6, <1>7, <1>8, <1>9, <1>10 DEF LinkNext, CallStep

\* A use is counted when a request becomes a user, and never forgotten.
LEMMA RequestStep ==
  ASSUME IInv, NEW r \in Redeemers, RedeemStep(r)
  PROVE  IInv'
<1>0. /\ Types /\ OnLinkIsUser /\ WithinLimit /\ EachUserCounted
      /\ r \in Callers /\ MaxUseCount \in Nat /\ Cardinality(Users) \in Nat /\ IsFiniteSet(Users)
  BY CouponAssumption, UsersFinite DEF IInv
<1> DEFINE Same == \A q \in Redeemers \ {r} :
               redeem'[q] = redeem[q] /\ told'[q] = told[q] /\ caller'[q] = caller[q] /\ idOf'[q] = idOf[q]
<1>1. ASSUME Types', Same,
             /\ idOf'[r] # 0 => caller'[r] # "idle"
             /\ caller'[r] # "idle" => redeem'[r] = "rewarding" \/ told'[r] \in {"Ok", "OkRewardDelayed"}
             /\ redeem'[r] # "told" => told'[r] = "none"
             /\ ~OwesMail(r) => caller'[r] = "idle"
      PROVE  OnLinkIsUser'
  BY <1>0, <1>1 DEF OnLinkIsUser, OwesMail
<1>2. ASSUME Same, r \in Users' => r \in Users, useCount <= useCount', useCount' \in Nat PROVE EachUserCounted'
  <2>1. Users' \subseteq Users
    BY <1>2 DEF Users
  <2>2. Cardinality(Users') <= Cardinality(Users) /\ Cardinality(Users') \in Nat
    BY <1>0, <2>1, FS_Subset, FS_CardinalityType
  <2>3. QED
    BY <1>0, <1>2, <2>2 DEF EachUserCounted, Types
<1>3. ASSUME Consumable, Consume PROVE WithinLimit' /\ useCount' = useCount + 1
  BY <1>0, <1>3 DEF Consumable, Consume, WithinLimit, Types
<1>4. CASE TryConsume(r) /\ redeem' = [redeem EXCEPT ![r] = "used"]
  <2>1. /\ redeem[r] = "start" /\ told' = told /\ Consumable /\ Consume
        /\ UNCHANGED <<caller, idOf>>
    BY <1>0, <1>4 DEF TryConsume, NextOfRefused, Tell, Types, linkVars, callVars
  <2>2. Types' /\ Same /\ redeem'[r] = "used" /\ told'[r] = "none"
    BY <1>0, <1>3, <1>4, <2>1 DEF Types, OnLinkIsUser
  <2>3. OnLinkIsUser'
    BY <1>0, <1>1, <2>1, <2>2 DEF OnLinkIsUser
  <2>4. r \notin Users /\ Users' = Users \cup {r}
    BY <1>0, <2>1, <2>2 DEF Users, OnLinkIsUser
  <2>5. Cardinality(Users') = Cardinality(Users) + 1
    BY <1>0, <2>4, FS_AddElement
  <2>6. EachUserCounted'
    BY <1>0, <1>3, <2>1, <2>5 DEF EachUserCounted, Types
  <2>7. QED
    BY <1>3, <2>1, <2>2, <2>3, <2>6 DEF IInv
<1>5. ASSUME NEW what \in {"refused", "exception"}, redeem[r] = "start", Tell(r, what), UNCHANGED <<caller, idOf>>,
             (Consumable /\ Consume) \/ UNCHANGED useCount
      PROVE  IInv'
  <2>1. /\ redeem' = [redeem EXCEPT ![r] = "told"] /\ told' = [told EXCEPT ![r] = what]
    BY <1>5 DEF Tell
  <2>2. useCount' \in Nat /\ useCount <= useCount' /\ WithinLimit'
    BY <1>0, <1>3, <1>5 DEF Types, WithinLimit
  <2>3. Types' /\ Same /\ redeem'[r] = "told" /\ told'[r] = what
    BY <1>0, <1>5, <2>1, <2>2 DEF Types
  <2>4. caller[r] = "idle" /\ idOf[r] = 0
    BY <1>0, <1>5 DEF OnLinkIsUser
  <2>5. OnLinkIsUser'
    BY <1>1, <1>5, <2>3, <2>4
  <2>6. r \notin Users'
    BY <2>3 DEF Users
  <2>7. EachUserCounted'
    BY <1>2, <2>2, <2>3, <2>6
  <2>8. QED
    BY <2>2, <2>3, <2>5, <2>7 DEF IInv
<1>6. CASE TryConsume(r) /\ redeem' # [redeem EXCEPT ![r] = "used"]
  BY <1>5, <1>6 DEF TryConsume, NextOfRefused, linkVars, callVars
<1>7. CASE ConsumeThrows(r)
  BY <1>5, <1>7 DEF ConsumeThrows, linkVars, callVars
<1>8. CASE Reward(r)
  <2>1. /\ redeem[r] = "used" /\ redeem' = [redeem EXCEPT ![r] = "rewarding"] /\ OwesMail(r)
        /\ UNCHANGED <<useCount, told, idOf>>
        /\ \E to : caller' = [caller EXCEPT ![r] = to] /\ to # "idle"
    BY <1>8 DEF Reward, Begin, Return
  <2>2. Types' /\ Same /\ redeem'[r] = "rewarding" /\ caller'[r] # "idle" /\ told'[r] = told[r]
    BY <1>0, <2>1 DEF Types
  <2>3. told[r] = "none" /\ r \in Users
    BY <1>0, <2>1 DEF OnLinkIsUser, Users
  <2>4. OnLinkIsUser'
    BY <1>1, <2>1, <2>2, <2>3
  <2>5. EachUserCounted'
    BY <1>0, <1>2, <2>1, <2>2, <2>3 DEF Types
  <2>6. WithinLimit'
    BY <1>0, <2>1 DEF WithinLimit
  <2>7. QED
    BY <2>2, <2>4, <2>5, <2>6 DEF IInv
<1>9. CASE Finish(r) \/ RegisterOnly(r)
  <2>1. /\ redeem[r] \in {"used", "rewarding"} /\ UNCHANGED <<useCount, caller, idOf>>
        /\ redeem' = [redeem EXCEPT ![r] = "told"]
        /\ \E what \in {"Ok", "OkRewardDelayed"} : told' = [told EXCEPT ![r] = what]
    BY <1>9 DEF Finish, RegisterOnly, Tell, linkVars, callVars
  <2>2. Types' /\ Same /\ redeem'[r] = "told" /\ told'[r] \in {"Ok", "OkRewardDelayed"}
    BY <1>0, <2>1 DEF Types
  <2>3. r \in Users
    BY <2>1 DEF Users
  <2>4. OnLinkIsUser'
    BY <1>0, <1>1, <2>1, <2>2 DEF OnLinkIsUser
  <2>5. EachUserCounted'
    BY <1>0, <1>2, <2>1, <2>2, <2>3 DEF Types
  <2>6. WithinLimit'
    BY <1>0, <2>1 DEF WithinLimit
  <2>7. QED
    BY <2>2, <2>4, <2>5, <2>6 DEF IInv
<1>10. QED
  BY <1>4, <1>6, <1>7, <1>8, <1>9 DEF RedeemStep

\* Commands of the operator are not requests for the coupon.
LEMMA OperatorStep ==
  ASSUME IInv, NEW c \in Callers \ Redeemers, Begin(c), UNCHANGED couponVars
  PROVE  IInv'
<1>1. idOf' = idOf /\ \E to : caller' = [caller EXCEPT ![c] = to]
  BY DEF Begin, Return
<1>2. Types' /\ \A r \in Redeemers : caller'[r] = caller[r] /\ idOf'[r] = idOf[r]
  BY <1>1, CouponAssumption DEF IInv, Types, couponVars
<1>3. OnLinkIsUser'
  BY <1>2 DEF IInv, OnLinkIsUser, couponVars, OwesMail
<1>4. WithinLimit' /\ EachUserCounted'
  BY DEF IInv, WithinLimit, EachUserCounted, Users, couponVars
<1>5. QED
  BY <1>2, <1>3, <1>4 DEF IInv

THEOREM InductiveInvariant == Spec => []IInv
<1>1. IInv /\ [Next]_vars => IInv'
  <2> SUFFICES ASSUME IInv, [Next]_vars PROVE IInv'
    OBVIOUS
  <2>1. CASE UNCHANGED vars
    BY <2>1 DEF vars, linkVars, callVars, couponVars, IInv, Types, OnLinkIsUser, WithinLimit,
                EachUserCounted, Users, OwesMail
  <2>2. CASE Next
    BY <2>2, LinkStep, RequestStep, OperatorStep DEF Next
  <2>3. QED
    BY <2>1, <2>2
<1>2. QED
  BY IInvInit, <1>1, PTL DEF Spec

\* However many ask for one coupon at once, it is rewarded no more often than
\* it was used and used no more often than its campaign allows
\* (CouponRepository.TryConsumeAsync decides by one conditional update).
THEOREM RewardsStayWithinUses == Spec => []RewardsWithinUses
<1>1. IInv => RewardsWithinUses
  <2> SUFFICES ASSUME IInv PROVE RewardsWithinUses
    OBVIOUS
  <2>1. {r \in Redeemers : Rewarded(r)} \subseteq Users
    BY DEF IInv, OnLinkIsUser, Rewarded, Users
  <2>2. Cardinality({r \in Redeemers : Rewarded(r)}) <= Cardinality(Users)
    BY <2>1, UsersFinite, FS_Subset
  <2>3. Cardinality({r \in Redeemers : Rewarded(r)}) \in Nat
    BY <2>1, UsersFinite, FS_Subset, FS_CardinalityType
  <2>4. QED
    BY <2>2, <2>3, UsersFinite DEF IInv, Types, EachUserCounted, WithinLimit, RewardsWithinUses
<1>2. QED
  BY InductiveInvariant, <1>1, PTL

-----------------------------------------------------------------------------
(***************************************************************************)
(* The link.  A request is in one place at World at a time, in a lane or   *)
(* with a handler, and what is reported of it is settled: it has left      *)
(* World, so that no more of it is delivered.                              *)
(***************************************************************************)

Refusals == {"NotAuthenticated", "BadRequest", "TargetNotFound", "ZoneUnavailable"}
Answers == Refusals \cup {"Ok"}
Messages == [type : Kinds \cup {"hello"}, id : RequestIds, target : Clients \cup {NoClient}]
Jobs == [type : Kinds, id : RequestIds, left : (SUBSET Clients) \ {{}}]

LinkTypes ==
    /\ loop \in {"delay", "connected", "hello", "pumping", "teardown", "dispose"}
    /\ connects \in 0 .. MaxConnects
    /\ up \in BOOLEAN /\ (up => connects # 0)
    /\ lastId \in Nat
    /\ pending \subseteq RequestIds
    /\ outcome \in [RequestIds -> Answers \cup {"none", "ToolNotConnected"}]
    /\ caller \in [Callers -> {"idle", "ready", "waiting", "done"}]
    /\ idOf \in [Callers -> {0} \cup RequestIds]
    /\ result \in [Callers -> Answers \cup {"none", "ToolNotConnected", "ToolTimeout"}]
    /\ lane \in [Connections -> Seq(Messages)]
    /\ job \in [Connections -> Jobs \cup {NoJob}]
    /\ delivered \in [RequestIds -> SUBSET Clients]
    /\ toTool \in Seq([id : RequestIds, what : Answers])
    /\ online \subseteq Clients

\* Every caller takes one id and every connection one.
WithId == {c \in Callers : idOf[c] # 0}
IdsCounted == lastId = Cardinality(WithId) + connects - (IF loop = "connected" THEN 1 ELSE 0)

CallersInOrder ==
    \A c \in Callers :
        /\ idOf[c] <= lastId
        /\ caller[c] \in {"idle", "ready"} => idOf[c] = 0
        /\ caller[c] = "waiting" => idOf[c] # 0
        /\ result[c] # "none" => caller[c] = "done"

\* An id not yet given out has left no trace.
Untouched ==
    \A i \in RequestIds :
        /\ i > lastId => outcome[i] = "none" /\ delivered[i] = {}
        /\ i \in pending => i <= lastId /\ outcome[i] = "none"

\* A message carries the command of the caller that has its id; so does a
\* handler, and what it has left.  Stated of any table of ids and deliveries,
\* so that a step can be followed from one to the next.
Carries(m, last, got, ids) ==
    /\ m.id <= last
    /\ got[m.id] = {}
    /\ \A c \in Callers : ids[c] = m.id => m.type = CommandOf[c].kind /\ m.target = CommandOf[c].target

Handles(j, last, got, ids) ==
    /\ j.id <= last
    /\ \A c \in Callers : ids[c] = j.id =>
           /\ j.type = CommandOf[c].kind
           /\ CommandOf[c].kind \in Mails => j.left = {CommandOf[c].target} /\ got[j.id] = {}

LaneIsRight == \A k \in Connections : \A n \in 1 .. Len(lane[k]) : Carries(lane[k][n], lastId, delivered, idOf)

JobIsRight == \A k \in Connections : job[k] # NoJob => Handles(job[k], lastId, delivered, idOf)

OneIn(lanes, jobs) ==
    \A k, l \in Connections :
        /\ \A m \in 1 .. Len(lanes[k]), n \in 1 .. Len(lanes[l]) :
               lanes[k][m].id = lanes[l][n].id => k = l /\ m = n
        /\ \A m \in 1 .. Len(lanes[k]) : lanes[k][m].id # jobs[l].id
        /\ jobs[k].id = jobs[l].id /\ jobs[k].id # 0 => k = l

OnePlace == OneIn(lane, job)

\* World's answers, on the way, noted and returned.
Reports ==
    {toTool[n] : n \in 1 .. Len(toTool)}
    \cup {[id |-> i, what |-> outcome[i]] : i \in {j \in RequestIds : outcome[j] \in Answers}}
    \cup {[id |-> idOf[c], what |-> result[c]] : c \in {d \in Callers : result[d] \in Answers}}

LeftWorld(i, lanes, jobs) ==
    \A k \in Connections :
        jobs[k].id # i /\ \A n \in 1 .. Len(lanes[k]) : lanes[k][n].id # i

Matches(i, what, got, ids) ==
    \A c \in Callers : ids[c] = i =>
        /\ what = "Ok" /\ CommandOf[c].kind \in Mails => got[i] = {CommandOf[c].target}
        /\ what \in Refusals => got[i] = {}

ReportsAreRight ==
    \A a \in Reports :
        a.id \in 1 .. lastId /\ LeftWorld(a.id, lane, job) /\ Matches(a.id, a.what, delivered, idOf)

LinkInv ==
    /\ LinkTypes /\ IdsCounted /\ CallersInOrder /\ Untouched
    /\ LaneIsRight /\ JobIsRight /\ OnePlace /\ ReportsAreRight /\ PendingIsWaited

TellsResult == \A r \in Redeemers : told[r] = "Ok" /\ OwesMail(r) => result[r] = "Ok"

\* An answer given is right: it is to a request that has left World.
WorldIsRight == LaneIsRight /\ JobIsRight /\ OnePlace /\ ReportsAreRight

LEMMA CallersFinite == IsFiniteSet(WithId) /\ Cardinality(WithId) \in Nat /\ Cardinality(Callers) \in Nat
                       /\ Cardinality(WithId) <= Cardinality(Callers)
BY ToolLinkAssumption, FS_Subset, FS_CardinalityType DEF WithId

\* Who is about to take an id finds one.
LEMMA IdLeft ==
  ASSUME LinkInv, (\E c \in Callers : caller[c] = "ready") \/ loop = "connected"
  PROVE  lastId + 1 \in RequestIds
<1>1. /\ Cardinality(WithId) \in Nat /\ Cardinality(Callers) \in Nat /\ Cardinality(WithId) <= Cardinality(Callers)
      /\ MaxConnects \in Nat /\ connects \in 0 .. MaxConnects /\ lastId \in Nat
      /\ lastId = Cardinality(WithId) + connects - (IF loop = "connected" THEN 1 ELSE 0)
  BY CallersFinite, ToolLinkAssumption DEF LinkInv, LinkTypes, IdsCounted
<1>2. CASE loop = "connected"
  BY <1>1, <1>2 DEF RequestIds
<1>3. ASSUME NEW c \in Callers, caller[c] = "ready" PROVE Cardinality(WithId) + 1 <= Cardinality(Callers)
  <2>1. c \notin WithId
    BY <1>3 DEF LinkInv, CallersInOrder, WithId
  <2>2. WithId \cup {c} \subseteq Callers
    BY DEF WithId
  <2>3. Cardinality(WithId \cup {c}) = Cardinality(WithId) + 1
    BY <2>1, CallersFinite, FS_AddElement
  <2>4. QED
    BY <2>2, <2>3, ToolLinkAssumption, FS_Subset
<1>4. CASE \E c \in Callers : caller[c] = "ready"
  BY <1>1, <1>3, <1>4 DEF RequestIds
<1>5. QED
  BY <1>2, <1>4

\* A request that is made is new to World, and reports are about older ones.
LEMMA NewRequest ==
  ASSUME LinkInv, lastId' = lastId + 1, lastId + 1 \in RequestIds,
         \A d \in Callers : idOf'[d] \in {idOf[d], lastId + 1},
         UNCHANGED <<job, delivered>>, Reports' \subseteq Reports,
         \/ lane' = lane
         \/ \E k \in Connections, m \in Messages :
                /\ lane' = [lane EXCEPT ![k] = Append(@, m)]
                /\ m.id = lastId + 1
                /\ \A d \in Callers : idOf'[d] = lastId + 1 =>
                       m.type = CommandOf[d].kind /\ m.target = CommandOf[d].target
  PROVE  WorldIsRight'
<1>1. /\ LaneIsRight /\ JobIsRight /\ OnePlace /\ ReportsAreRight
      /\ lastId \in Nat /\ lane \in [Connections -> Seq(Messages)] /\ job \in [Connections -> Jobs \cup {NoJob}]
      /\ \A d \in Callers : idOf[d] <= lastId /\ idOf[d] \in {0} \cup RequestIds
      /\ \A i \in RequestIds : i > lastId => delivered[i] = {}
  BY DEF LinkInv, LinkTypes, CallersInOrder, Untouched
<1>2. \A k \in Connections : job[k].id <= lastId
  BY <1>1 DEF JobIsRight, NoJob, Handles
<1>3. /\ \A m \in Messages : Carries(m, lastId, delivered, idOf) => Carries(m, lastId', delivered', idOf')
      /\ \A j \in Jobs : Handles(j, lastId, delivered, idOf) => Handles(j, lastId', delivered', idOf')
      /\ \A i, w : i \in 1 .. lastId /\ Matches(i, w, delivered, idOf) => Matches(i, w, delivered', idOf')
  <2>1. \A d \in Callers, i \in RequestIds : i <= lastId /\ idOf'[d] = i => idOf[d] = i
    BY <1>1 DEF RequestIds
  <2>2. \A m \in Messages : Carries(m, lastId, delivered, idOf) => Carries(m, lastId', delivered', idOf')
    BY <1>1, <2>1 DEF Carries, Messages, RequestIds
  <2>3. \A j \in Jobs : Handles(j, lastId, delivered, idOf) => Handles(j, lastId', delivered', idOf')
    BY <1>1, <2>1 DEF Handles, Jobs, RequestIds
  <2>4. \A i, w : i \in 1 .. lastId /\ Matches(i, w, delivered, idOf) => Matches(i, w, delivered', idOf')
    BY <1>1 DEF Matches
  <2>5. QED
    BY <2>2, <2>3, <2>4
<1>4. \A k \in Connections : \A n \in 1 .. Len(lane[k]) :
          lane[k][n] \in Messages /\ lane[k][n].id <= lastId /\ Carries(lane[k][n], lastId, delivered, idOf)
  <2>1. ASSUME NEW k \in Connections, NEW n \in 1 .. Len(lane[k])
        PROVE  lane[k][n] \in Messages /\ Carries(lane[k][n], lastId, delivered, idOf)
    BY <1>1 DEF LaneIsRight
  <2>2. \A m : Carries(m, lastId, delivered, idOf) => m.id <= lastId
    BY DEF Carries
  <2>3. QED
    BY <2>1, <2>2
<1>5. JobIsRight'
  <2>1. \A k \in Connections : job[k] # NoJob => job[k] \in Jobs /\ Handles(job[k], lastId, delivered, idOf)
    BY <1>1 DEF JobIsRight
  <2>2. QED
    BY <1>3, <2>1 DEF JobIsRight
<1>6. CASE lane' = lane
  <2>1. LaneIsRight'
    BY <1>3, <1>4, <1>6 DEF LaneIsRight
  <2>2. OnePlace'
    BY <1>1, <1>6 DEF OnePlace, OneIn
  <2>3. ReportsAreRight'
    BY <1>1, <1>3, <1>6 DEF ReportsAreRight
  <2>4. QED
    BY <1>5, <2>1, <2>2, <2>3 DEF WorldIsRight
<1>7. ASSUME NEW k \in Connections, NEW m \in Messages,
             lane' = [lane EXCEPT ![k] = Append(@, m)], m.id = lastId + 1,
             \A d \in Callers : idOf'[d] = lastId + 1 =>
                 m.type = CommandOf[d].kind /\ m.target = CommandOf[d].target
      PROVE  WorldIsRight'
  <2>1. /\ \A l \in Connections \ {k} : lane'[l] = lane[l]
        /\ Len(lane'[k]) = Len(lane[k]) + 1 /\ Len(lane[k]) \in Nat
        /\ lane'[k][Len(lane[k]) + 1] = m
        /\ \A n \in 1 .. Len(lane[k]) : lane'[k][n] = lane[k][n]
    BY <1>1, <1>7
  <2>2. \A l \in Connections : \A n \in 1 .. Len(lane'[l]) :
            \/ l = k /\ n = Len(lane[k]) + 1 /\ lane'[l][n] = m
            \/ n \in 1 .. Len(lane[l]) /\ lane'[l][n] = lane[l][n] /\ (l = k => n # Len(lane[k]) + 1)
    BY <2>1
  <2>3. Carries(m, lastId', delivered', idOf')
    <3>1. lastId + 1 \in RequestIds /\ lastId + 1 > lastId /\ delivered' = delivered
      BY <1>1
    <3>2. delivered[lastId + 1] = {}
      BY <1>1, <3>1
    <3>3. QED
      BY <1>1, <1>7, <3>1, <3>2 DEF Carries
  <2>4. LaneIsRight'
    BY <1>3, <1>4, <2>2, <2>3 DEF LaneIsRight
  <2>5. OnePlace'
    BY <1>1, <1>2, <1>4, <1>7, <2>2 DEF OnePlace, OneIn, Messages
  <2>6. \A i \in 1 .. lastId : LeftWorld(i, lane, job) => LeftWorld(i, lane', job')
    <3> SUFFICES ASSUME NEW i \in 1 .. lastId, LeftWorld(i, lane, job), NEW l \in Connections,
                        NEW n \in 1 .. Len(lane'[l])
                 PROVE  job'[l].id # i /\ lane'[l][n].id # i
      BY DEF LeftWorld
    <3>1. CASE lane'[l][n] = m
      BY <1>1, <1>7, <3>1 DEF LeftWorld
    <3>2. CASE n \in 1 .. Len(lane[l]) /\ lane'[l][n] = lane[l][n]
      BY <3>2 DEF LeftWorld
    <3>3. QED
      BY <2>2, <3>1, <3>2
  <2>7. ReportsAreRight'
    BY <1>1, <1>3, <2>6 DEF ReportsAreRight
  <2>8. QED
    BY <1>5, <2>4, <2>5, <2>7 DEF WorldIsRight
<1>8. QED
  BY <1>6, <1>7

\* What World does not take part in changes nothing there.
LEMMA WorldAside ==
  ASSUME LinkInv, UNCHANGED <<lane, job, delivered, idOf, lastId>>, Reports' \subseteq Reports
  PROVE  WorldIsRight'
BY DEF LinkInv, WorldIsRight, LaneIsRight, JobIsRight, OnePlace, ReportsAreRight

\* The tool's side of the invariant.
ToolIsRight == LinkTypes /\ IdsCounted /\ CallersInOrder /\ Untouched /\ PendingIsWaited

LEMMA NoNewReports ==
  ASSUME \A n \in 1 .. Len(toTool') : toTool'[n] \in Reports,
         \A i \in RequestIds : outcome'[i] \in Answers => [id |-> i, what |-> outcome'[i]] \in Reports,
         \A c \in Callers : result'[c] \in Answers => [id |-> idOf'[c], what |-> result'[c]] \in Reports
  PROVE  Reports' \subseteq Reports
BY DEF Reports

LEMMA ReportsNow ==
  /\ \A n \in 1 .. Len(toTool) : toTool[n] \in Reports
  /\ \A i \in RequestIds : outcome[i] \in Answers => [id |-> i, what |-> outcome[i]] \in Reports
  /\ \A c \in Callers : result[c] \in Answers => [id |-> idOf[c], what |-> result[c]] \in Reports
BY DEF Reports

\* A caller that returns something other than an answer, or none yet.
LEMMA BeginStep ==
  ASSUME LinkInv, NEW c \in Callers, Begin(c)
  PROVE  LinkInv'
<1>1. /\ caller[c] = "idle"
      /\ \/ caller' = [caller EXCEPT ![c] = "ready"] /\ result' = result
         \/ caller' = [caller EXCEPT ![c] = "done"] /\ result' = [result EXCEPT ![c] = "ToolNotConnected"]
      /\ UNCHANGED <<idOf, loopVars, netVars, idVars, worldVars, clientVars>>
  BY DEF Begin, Return
<1>2. UNCHANGED <<idOf, loop, helloId, connects, up, toTool, lastId, pending, outcome, lane, job, delivered, online>>
  BY <1>1 DEF loopVars, netVars, idVars, worldVars, handlerVars, clientVars
<1>3. LinkTypes /\ IdsCounted /\ CallersInOrder /\ Untouched /\ PendingIsWaited
  BY DEF LinkInv
<1>4. /\ caller' \in [Callers -> {"idle", "ready", "waiting", "done"}] /\ caller'[c] \in {"ready", "done"}
      /\ result' \in [Callers -> Answers \cup {"none", "ToolNotConnected", "ToolTimeout"}]
      /\ result'[c] = result[c] \/ (caller'[c] = "done" /\ result'[c] \notin Answers)
      /\ \A d \in Callers \ {c} : caller'[d] = caller[d] /\ result'[d] = result[d]
  BY <1>1, <1>3 DEF LinkTypes, Answers, Refusals
<1>5. LinkTypes'
  BY <1>2, <1>3, <1>4 DEF LinkTypes
<1>6. IdsCounted' /\ Untouched'
  BY <1>2, <1>3 DEF IdsCounted, Untouched, WithId
<1>7. CallersInOrder'
  <2>1. idOf[c] = 0 /\ idOf[c] <= lastId /\ result[c] = "none"
    BY <1>1, <1>3 DEF CallersInOrder
  <2>2. QED
    BY <1>2, <1>3, <1>4, <2>1 DEF CallersInOrder
<1>8. PendingIsWaited'
  BY <1>1, <1>2, <1>3, <1>4 DEF PendingIsWaited
<1>9. Reports' \subseteq Reports
  BY <1>2, <1>4, NoNewReports, ReportsNow
<1>10. WorldIsRight'
  BY <1>2, <1>9, WorldAside
<1>11. QED
  BY <1>5, <1>6, <1>7, <1>8, <1>10 DEF LinkInv, WorldIsRight

\* What was counted stays so when one more takes an id.
LEMMA CountOne ==
  ASSUME LinkInv, NEW c \in Callers, idOf[c] = 0, lastId + 1 \in RequestIds,
         idOf' = [idOf EXCEPT ![c] = lastId + 1], lastId' = lastId + 1, UNCHANGED <<loop, connects>>
  PROVE  IdsCounted'
<1>1. idOf \in [Callers -> {0} \cup RequestIds] /\ lastId \in Nat /\ connects \in Nat
      /\ lastId = Cardinality(WithId) + connects - (IF loop = "connected" THEN 1 ELSE 0)
  BY DEF LinkInv, LinkTypes, IdsCounted
<1>2. WithId' = WithId \cup {c} /\ c \notin WithId
  BY <1>1 DEF WithId, RequestIds
<1>3. Cardinality(WithId') = Cardinality(WithId) + 1
  BY <1>2, CallersFinite, FS_AddElement
<1>4. QED
  BY <1>1, <1>3, CallersFinite DEF IdsCounted

LEMMA WrittenMessage ==
  ASSUME LinkTypes, NEW m \in Messages, Written(m)
  PROVE  /\ lane' \in [Connections -> Seq(Messages)]
         /\ lane' = lane \/ \E k \in Connections : lane' = [lane EXCEPT ![k] = Append(@, m)]
<1>1. lane \in [Connections -> Seq(Messages)]
  BY DEF LinkTypes
<1>2. lane' = lane \/ \E k \in Connections : lane' = [lane EXCEPT ![k] = Append(@, m)]
  BY DEF LinkTypes, Written, Connections
<1>3. \A k \in Connections : Append(lane[k], m) \in Seq(Messages)
  BY <1>1
<1>4. QED
  BY <1>1, <1>2, <1>3

LEMMA SendStep ==
  ASSUME LinkInv, NEW c \in Callers, Send(c)
  PROVE  LinkInv'
<1>1. /\ caller[c] = "ready" /\ lastId' = lastId + 1 /\ pending' = pending \cup {lastId + 1}
      /\ idOf' = [idOf EXCEPT ![c] = lastId + 1] /\ caller' = [caller EXCEPT ![c] = "waiting"]
      /\ UNCHANGED <<outcome, result, loop, helloId, connects, up, toTool, job, delivered, online>>
  BY DEF Send, Register, loopVars, netVars, handlerVars, clientVars
<1>2. LinkTypes /\ CallersInOrder /\ Untouched /\ PendingIsWaited
  BY DEF LinkInv
<1>3. lastId + 1 \in RequestIds
  BY <1>1, IdLeft
<1>4. idOf[c] = 0 /\ result[c] = "none" /\ lastId \in Nat /\ lastId + 1 > lastId
  BY <1>1, <1>2 DEF CallersInOrder, LinkTypes
<1>5. /\ idOf' \in [Callers -> {0} \cup RequestIds] /\ idOf'[c] = lastId + 1
      /\ caller' \in [Callers -> {"idle", "ready", "waiting", "done"}] /\ caller'[c] = "waiting"
      /\ \A d \in Callers \ {c} : caller'[d] = caller[d] /\ idOf'[d] = idOf[d]
  BY <1>1, <1>2, <1>3 DEF LinkTypes
<1> DEFINE m == [type |-> CommandOf[c].kind, id |-> lastId + 1, target |-> CommandOf[c].target]
<1>6. m \in Messages /\ m.id = lastId + 1 /\ m.type = CommandOf[c].kind /\ m.target = CommandOf[c].target
  BY <1>3, ToolLinkAssumption DEF Messages
<1>7. Written(m)
  BY DEF Send
<1> HIDE DEF m
<1>8. /\ lane' \in [Connections -> Seq(Messages)]
      /\ lane' = lane \/ \E k \in Connections : lane' = [lane EXCEPT ![k] = Append(@, m)]
  BY <1>2, <1>6, <1>7, WrittenMessage
<1>9. LinkTypes'
  BY <1>1, <1>2, <1>3, <1>5, <1>8 DEF LinkTypes
<1>10. IdsCounted'
  BY <1>1, <1>3, <1>4, CountOne
<1>11. CallersInOrder'
  <2>1. \A d \in Callers : idOf[d] <= lastId /\ idOf[d] \in Nat
    BY <1>2 DEF CallersInOrder, LinkTypes, RequestIds
  <2>2. \A d \in Callers : idOf'[d] <= lastId'
    BY <1>1, <1>4, <1>5, <2>1
  <2>3. QED
    BY <1>1, <1>2, <1>4, <1>5, <2>2 DEF CallersInOrder
<1>12. Untouched'
  <2>1. \A i \in RequestIds : i > lastId' => i > lastId
    BY <1>1, <1>4 DEF RequestIds
  <2>2. \A i \in RequestIds : i <= lastId => i <= lastId'
    BY <1>1, <1>4 DEF RequestIds
  <2>3. \A i \in RequestIds : i > lastId' => outcome'[i] = "none" /\ delivered'[i] = {}
    BY <1>1, <1>2, <2>1 DEF Untouched
  <2>4. outcome[lastId + 1] = "none"
    BY <1>2, <1>3, <1>4 DEF Untouched
  <2>5. \A i \in RequestIds : i \in pending' => i <= lastId' /\ outcome'[i] = "none"
    BY <1>1, <1>2, <1>4, <2>2, <2>4 DEF Untouched
  <2>6. QED
    BY <2>3, <2>5 DEF Untouched
<1>13. PendingIsWaited'
  BY <1>1, <1>2, <1>5 DEF PendingIsWaited
<1>14. Reports' \subseteq Reports
  BY <1>1, <1>2, <1>4, <1>5, NoNewReports, ReportsNow DEF Answers, Refusals
<1>15. WorldIsRight'
  <2>1. \A d \in Callers : idOf'[d] = lastId + 1 => d = c
    BY <1>2, <1>4, <1>5 DEF CallersInOrder, LinkTypes, RequestIds
  <2>3. \/ lane' = lane
        \/ \E k \in Connections, q \in Messages :
               /\ lane' = [lane EXCEPT ![k] = Append(@, q)]
               /\ q.id = lastId + 1
               /\ \A d \in Callers : idOf'[d] = lastId + 1 =>
                      q.type = CommandOf[d].kind /\ q.target = CommandOf[d].target
    BY <1>6, <1>8, <2>1
  <2>4. \A d \in Callers : idOf'[d] \in {idOf[d], lastId + 1}
    BY <1>5
  <2>5. QED
    BY <1>1, <1>3, <1>14, <2>3, <2>4, NewRequest
<1>16. QED
  BY <1>9, <1>10, <1>11, <1>12, <1>13, <1>15 DEF LinkInv, WorldIsRight

\* A step that takes no id and leaves World alone.
LEMMA QuietStep ==
  ASSUME LinkInv, UNCHANGED <<lane, job, delivered, idOf, lastId>>,
         LinkTypes', IdsCounted', CallersInOrder', PendingIsWaited',
         pending' \subseteq pending,
         \A i \in RequestIds : outcome'[i] = outcome[i] \/ i \in pending \ pending',
         Reports' \subseteq Reports
  PROVE  LinkInv'
<1>1. Untouched /\ WorldIsRight'
  BY WorldAside DEF LinkInv
<1>2. Untouched'
  <2> SUFFICES ASSUME NEW i \in RequestIds
               PROVE  /\ i > lastId => outcome'[i] = "none" /\ delivered'[i] = {}
                      /\ i \in pending' => i <= lastId /\ outcome'[i] = "none"
    BY DEF Untouched
  <2>1. i > lastId => i \notin pending
    BY <1>1 DEF Untouched, LinkInv, LinkTypes, RequestIds
  <2>2. QED
    BY <1>1, <2>1 DEF Untouched
<1>3. QED
  BY <1>1, <1>2 DEF LinkInv, WorldIsRight

\* The parts that most steps leave alone.
LEMMA CountKept ==
  ASSUME IdsCounted, UNCHANGED <<idOf, lastId, connects>>, loop' = loop \/ (loop # "connected" /\ loop' # "connected")
  PROVE  IdsCounted'
BY DEF IdsCounted, WithId

LEMMA SendFailsStep ==
  ASSUME LinkInv, NEW c \in Callers, SendFails(c)
  PROVE  LinkInv'
<1>1. /\ caller[c] = "ready" /\ lastId' = lastId + 1 /\ idOf' = [idOf EXCEPT ![c] = lastId + 1]
      /\ caller' = [caller EXCEPT ![c] = "done"] /\ result' = [result EXCEPT ![c] = "ToolNotConnected"]
      /\ UNCHANGED <<pending, outcome, loop, helloId, connects, up, toTool, lane, job, delivered, online>>
  BY DEF SendFails, Return, loopVars, netVars, worldVars, handlerVars, clientVars
<1>2. LinkTypes /\ CallersInOrder /\ Untouched /\ PendingIsWaited
  BY DEF LinkInv
<1>3. lastId + 1 \in RequestIds
  BY <1>1, IdLeft
<1>4. idOf[c] = 0 /\ result[c] = "none" /\ lastId \in Nat /\ lastId + 1 > lastId
  BY <1>1, <1>2 DEF CallersInOrder, LinkTypes
<1>5. /\ idOf' \in [Callers -> {0} \cup RequestIds] /\ idOf'[c] = lastId + 1
      /\ caller' \in [Callers -> {"idle", "ready", "waiting", "done"}] /\ caller'[c] = "done"
      /\ result' \in [Callers -> Answers \cup {"none", "ToolNotConnected", "ToolTimeout"}]
      /\ result'[c] \notin Answers
      /\ \A d \in Callers \ {c} : caller'[d] = caller[d] /\ idOf'[d] = idOf[d] /\ result'[d] = result[d]
  BY <1>1, <1>2, <1>3 DEF LinkTypes, Answers, Refusals
<1>6. LinkTypes'
  BY <1>1, <1>2, <1>3, <1>5 DEF LinkTypes
<1>7. IdsCounted'
  BY <1>1, <1>3, <1>4, CountOne
<1>8. CallersInOrder'
  <2>1. \A d \in Callers : idOf[d] <= lastId /\ idOf[d] \in Nat
    BY <1>2 DEF CallersInOrder, LinkTypes, RequestIds
  <2>2. \A d \in Callers : idOf'[d] <= lastId'
    BY <1>1, <1>4, <1>5, <2>1
  <2>3. QED
    BY <1>1, <1>2, <1>4, <1>5, <2>2 DEF CallersInOrder
<1>9. Untouched'
  <2>1. \A i \in RequestIds : (i > lastId' => i > lastId) /\ (i <= lastId => i <= lastId')
    BY <1>1, <1>4 DEF RequestIds
  <2>2. QED
    BY <1>1, <1>2, <2>1 DEF Untouched
<1>10. PendingIsWaited'
  BY <1>1, <1>2, <1>5 DEF PendingIsWaited
<1>11. Reports' \subseteq Reports
  BY <1>1, <1>5, NoNewReports, ReportsNow
<1>12. WorldIsRight'
  <2>1. \A d \in Callers : idOf'[d] \in {idOf[d], lastId + 1}
    BY <1>5
  <2>2. QED
    BY <1>1, <1>3, <1>11, <2>1, NewRequest
<1>13. QED
  BY <1>6, <1>7, <1>8, <1>9, <1>10, <1>12 DEF LinkInv, WorldIsRight

LEMMA AnsweredStep ==
  ASSUME LinkInv, NEW c \in Callers, Answered(c)
  PROVE  LinkInv'
<1>1. /\ caller[c] = "waiting" /\ outcome[idOf[c]] # "none"
      /\ caller' = [caller EXCEPT ![c] = "done"] /\ result' = [result EXCEPT ![c] = outcome[idOf[c]]]
      /\ UNCHANGED <<idOf, lastId, pending, outcome, loop, helloId, connects, up, toTool, lane, job, delivered, online>>
  BY DEF Answered, Return, loopVars, netVars, idVars, worldVars, handlerVars, clientVars
<1>2. LinkTypes /\ IdsCounted /\ CallersInOrder /\ Untouched /\ PendingIsWaited
  BY DEF LinkInv
<1>3. idOf[c] \in RequestIds
  BY <1>1, <1>2 DEF LinkTypes, CallersInOrder
<1>4. idOf[c] \notin pending
  BY <1>1, <1>2, <1>3 DEF Untouched
<1>5. /\ outcome[idOf[c]] \in Answers \cup {"ToolNotConnected"}
      /\ caller' \in [Callers -> {"idle", "ready", "waiting", "done"}] /\ caller'[c] = "done"
      /\ result' \in [Callers -> Answers \cup {"none", "ToolNotConnected", "ToolTimeout"}]
      /\ result'[c] = outcome[idOf[c]]
      /\ \A d \in Callers \ {c} : caller'[d] = caller[d] /\ result'[d] = result[d]
  BY <1>1, <1>2, <1>3 DEF LinkTypes
<1>6. LinkTypes'
  BY <1>1, <1>2, <1>5 DEF LinkTypes
<1>7. IdsCounted'
  BY <1>1, <1>2, CountKept
<1>8. CallersInOrder'
  BY <1>1, <1>2, <1>5 DEF CallersInOrder
<1>9. PendingIsWaited'
  BY <1>1, <1>2, <1>4, <1>5 DEF PendingIsWaited
<1>10. Reports' \subseteq Reports
  BY <1>1, <1>3, <1>5, NoNewReports, ReportsNow
<1>11. QED
  BY <1>1, <1>6, <1>7, <1>8, <1>9, <1>10, QuietStep

LEMMA TimeoutStep ==
  ASSUME LinkInv, NEW c \in Callers, Timeout(c)
  PROVE  LinkInv'
<1>1. /\ caller[c] = "waiting" /\ pending' = pending \ {idOf[c]}
      /\ caller' = [caller EXCEPT ![c] = "done"] /\ result' = [result EXCEPT ![c] = "ToolTimeout"]
      /\ UNCHANGED <<idOf, lastId, outcome, loop, helloId, connects, up, toTool, lane, job, delivered, online>>
  BY DEF Timeout, Return, loopVars, netVars, worldVars, handlerVars, clientVars
<1>2. LinkTypes /\ IdsCounted /\ CallersInOrder /\ Untouched /\ PendingIsWaited
  BY DEF LinkInv
<1>3. /\ caller' \in [Callers -> {"idle", "ready", "waiting", "done"}] /\ caller'[c] = "done"
      /\ result' \in [Callers -> Answers \cup {"none", "ToolNotConnected", "ToolTimeout"}]
      /\ result'[c] \notin Answers
      /\ \A d \in Callers \ {c} : caller'[d] = caller[d] /\ result'[d] = result[d]
  BY <1>1, <1>2 DEF LinkTypes, Answers, Refusals
<1>4. LinkTypes'
  BY <1>1, <1>2, <1>3 DEF LinkTypes
<1>5. IdsCounted'
  BY <1>1, <1>2, CountKept
<1>6. CallersInOrder'
  BY <1>1, <1>2, <1>3 DEF CallersInOrder
<1>7. PendingIsWaited'
  BY <1>1, <1>2, <1>3 DEF PendingIsWaited
<1>8. Reports' \subseteq Reports
  BY <1>1, <1>3, NoNewReports, ReportsNow
<1>9. QED
  BY <1>1, <1>4, <1>5, <1>6, <1>7, <1>8, QuietStep

\* Steps of the loop, of its reader and of the connection, but for the hello.
LEMMA LoopSteps ==
  ASSUME LinkInv,
         \/ Connect \/ HelloAnswered \/ HelloTimeout \/ ReadLoopEnds \/ WakeAll \/ Dispose
         \/ ReadAnswer \/ Drop
  PROVE  LinkInv'
<1>1. UNCHANGED <<caller, idOf, result, lastId, lane, job, delivered, online>>
  BY DEF Connect, HelloAnswered, HelloTimeout, ReadLoopEnds, WakeAll, Dispose, ReadAnswer, Drop,
         callVars, idVars, worldVars, handlerVars, clientVars
<1>2. LinkTypes /\ IdsCounted /\ CallersInOrder /\ Untouched /\ PendingIsWaited
  BY DEF LinkInv
<1>3. CallersInOrder'
  BY <1>1, <1>2 DEF CallersInOrder
<1>4. ASSUME UNCHANGED <<pending, outcome>>, toTool' \in {toTool, <<>>}, up' \in BOOLEAN,
             up' => connects' # 0, connects' \in 0 .. MaxConnects,
             loop' \in {"connected", "pumping", "teardown", "delay", loop},
             IdsCounted', PendingIsWaited'
      PROVE  LinkInv'
  <2>1. toTool' \in Seq([id : RequestIds, what : Answers])
    <3>1. CASE toTool' = toTool
      BY <1>2, <3>1 DEF LinkTypes
    <3>2. CASE toTool' = <<>>
      BY <3>2
    <3>3. QED
      BY <1>4, <3>1, <3>2
  <2>2. LinkTypes'
    BY <1>1, <1>2, <1>4, <2>1 DEF LinkTypes
  <2>3. Reports' \subseteq Reports
    <3>1. \A n \in 1 .. Len(toTool') : toTool'[n] \in Reports
      BY <1>4, ReportsNow
    <3>2. QED
      BY <1>1, <1>4, <3>1, NoNewReports, ReportsNow
  <2>4. QED
    BY <1>1, <1>3, <1>4, <2>2, <2>3, QuietStep
<1>5. CASE Connect
  <2>1. /\ loop = "delay" /\ connects < MaxConnects /\ connects' = connects + 1 /\ up' = TRUE /\ toTool' = <<>>
        /\ loop' = "connected" /\ UNCHANGED <<pending, outcome>>
    BY <1>5 DEF Connect, idVars
  <2>2. connects' \in 0 .. MaxConnects /\ connects' # 0
    BY <1>2, <2>1, ToolLinkAssumption DEF LinkTypes
  <2>3. IdsCounted'
    BY <1>1, <1>2, <2>1, CallersFinite DEF IdsCounted, WithId, LinkTypes
  <2>4. PendingIsWaited'
    BY <1>1, <1>2, <2>1 DEF PendingIsWaited
  <2>5. QED
    BY <1>4, <2>1, <2>2, <2>3, <2>4
<1>6. CASE HelloAnswered
  <2>1. /\ loop = "hello" /\ outcome[helloId] # "none" /\ loop' = "pumping"
        /\ UNCHANGED <<helloId, connects, up, toTool, pending, outcome>>
    BY <1>6 DEF HelloAnswered, netVars, idVars
  <2>2. IdsCounted'
    BY <1>1, <1>2, <2>1, CountKept
  <2>3. helloId \notin pending
    BY <1>2, <2>1 DEF Untouched, LinkTypes
  <2>4. PendingIsWaited'
    BY <1>1, <1>2, <2>1, <2>3 DEF PendingIsWaited
  <2>5. QED
    BY <1>2, <1>4, <2>1, <2>2, <2>4 DEF LinkTypes
<1>7. CASE ReadLoopEnds \/ Drop
  <2>1. /\ UNCHANGED <<helloId, connects, pending, outcome>> /\ (up' = up \/ up' = FALSE) /\ toTool' \in {toTool, <<>>}
        /\ loop' = loop \/ (loop = "pumping" /\ loop' = "teardown")
    <3>1. CASE ReadLoopEnds
      BY <3>1 DEF ReadLoopEnds, netVars, idVars
    <3>2. CASE Drop
      BY <3>2 DEF Drop, idVars, loopVars
    <3>3. QED
      BY <1>7, <3>1, <3>2
  <2>2. IdsCounted'
    BY <1>1, <1>2, <2>1, CountKept
  <2>3. PendingIsWaited'
    BY <1>1, <1>2, <2>1 DEF PendingIsWaited
  <2>4. up' \in BOOLEAN /\ (up' => connects' # 0) /\ connects' \in 0 .. MaxConnects
    <3>1. up \in BOOLEAN /\ (up => connects # 0) /\ connects \in 0 .. MaxConnects
      BY <1>2 DEF LinkTypes
    <3>2. connects' = connects
      BY <2>1
    <3>3. CASE up' = up
      BY <3>1, <3>2, <3>3
    <3>4. CASE up' = FALSE
      BY <3>1, <3>2, <3>4
    <3>5. QED
      BY <2>1, <3>3, <3>4
  <2>5. QED
    BY <1>4, <2>1, <2>2, <2>3, <2>4
<1>8. CASE Dispose
  <2>1. /\ loop = "dispose" /\ loop' = "delay" /\ up' = FALSE /\ toTool' = <<>>
        /\ UNCHANGED <<helloId, connects, pending, outcome>>
    BY <1>8 DEF Dispose, idVars
  <2>2. IdsCounted'
    BY <1>1, <1>2, <2>1, CountKept
  <2>3. PendingIsWaited'
    BY <1>1, <1>2, <2>1 DEF PendingIsWaited
  <2>4. QED
    BY <1>2, <1>4, <2>1, <2>2, <2>3 DEF LinkTypes
<1>9. CASE HelloTimeout
  <2>1. /\ loop = "hello" /\ loop' = "teardown" /\ pending' = pending \ {helloId}
        /\ UNCHANGED <<helloId, connects, up, toTool, outcome>>
    BY <1>9 DEF HelloTimeout, netVars
  <2>2. IdsCounted'
    BY <1>1, <1>2, <2>1, CountKept
  <2>3. PendingIsWaited'
    BY <1>1, <1>2, <2>1 DEF PendingIsWaited
  <2>4. LinkTypes'
    BY <1>1, <1>2, <2>1 DEF LinkTypes
  <2>5. Reports' \subseteq Reports
    BY <1>1, <2>1, NoNewReports, ReportsNow
  <2>6. QED
    BY <1>1, <1>3, <2>1, <2>2, <2>3, <2>4, <2>5, QuietStep
<1>10. CASE WakeAll
  <2>1. /\ loop = "teardown" /\ loop' = "dispose" /\ pending' = {}
        /\ outcome' = [i \in RequestIds |-> IF i \in pending THEN "ToolNotConnected" ELSE outcome[i]]
        /\ UNCHANGED <<helloId, connects, up, toTool>>
    BY <1>10 DEF WakeAll, netVars
  <2>2. IdsCounted'
    BY <1>1, <1>2, <2>1, CountKept
  <2>3. PendingIsWaited'
    BY <2>1 DEF PendingIsWaited
  <2>4. outcome' \in [RequestIds -> Answers \cup {"none", "ToolNotConnected"}]
    BY <1>2, <2>1 DEF LinkTypes
  <2>5. LinkTypes'
    BY <1>1, <1>2, <2>1, <2>4 DEF LinkTypes
  <2>6. \A i \in RequestIds : outcome'[i] = outcome[i] \/ (i \in pending \ pending' /\ outcome'[i] \notin Answers)
    BY <2>1 DEF Answers, Refusals
  <2>7. Reports' \subseteq Reports
    BY <1>1, <2>1, <2>6, NoNewReports, ReportsNow
  <2>8. QED
    BY <1>1, <1>3, <2>1, <2>2, <2>3, <2>5, <2>6, <2>7, QuietStep
<1>11. CASE ReadAnswer
  <2> DEFINE a == Head(toTool)
  <2>1. /\ toTool # <<>> /\ toTool' = Tail(toTool)
        /\ UNCHANGED <<loop, helloId, connects, up>>
        /\ \/ UNCHANGED <<pending, outcome>>
           \/ a.id \in pending /\ pending' = pending \ {a.id} /\ outcome' = [outcome EXCEPT ![a.id] = a.what]
    BY <1>11 DEF ReadAnswer, Complete, loopVars
  <2>2. /\ toTool \in Seq([id : RequestIds, what : Answers])
        /\ a \in [id : RequestIds, what : Answers] /\ a = toTool[1] /\ Len(toTool) \in Nat /\ Len(toTool) >= 1
        /\ toTool' \in Seq([id : RequestIds, what : Answers])
        /\ \A n \in 1 .. Len(toTool') : toTool'[n] = toTool[n + 1] /\ n + 1 \in 1 .. Len(toTool)
    <3>1. toTool \in Seq([id : RequestIds, what : Answers])
      BY <1>2 DEF LinkTypes
    <3>2. \A S : toTool \in Seq(S) => /\ Head(toTool) \in S /\ Head(toTool) = toTool[1]
                                     /\ Len(toTool) \in Nat /\ Len(toTool) >= 1 /\ Tail(toTool) \in Seq(S)
      BY <2>1
    <3>3. \A n \in 1 .. Len(Tail(toTool)) : Tail(toTool)[n] = toTool[n + 1] /\ n + 1 \in 1 .. Len(toTool)
      BY <2>1, <3>1
    <3>4. QED
      BY <2>1, <3>1, <3>2, <3>3
  <2>3. a \in Reports /\ a = [id |-> a.id, what |-> a.what] /\ a.id \in RequestIds /\ a.what \in Answers
    BY <2>2, ReportsNow
  <2> HIDE DEF a
  <2>4. IdsCounted'
    BY <1>1, <1>2, <2>1, CountKept
  <2>5. PendingIsWaited'
    BY <1>1, <1>2, <2>1 DEF PendingIsWaited
  <2>6. outcome' \in [RequestIds -> Answers \cup {"none", "ToolNotConnected"}]
    BY <1>2, <2>1, <2>3 DEF LinkTypes
  <2>7. LinkTypes'
    BY <1>1, <1>2, <2>1, <2>2, <2>6 DEF LinkTypes
  <2>8. \A i \in RequestIds : outcome'[i] = outcome[i] \/ (i \in pending \ pending' /\ i = a.id /\ outcome'[i] = a.what)
    BY <1>2, <2>1, <2>3 DEF LinkTypes
  <2>9. Reports' \subseteq Reports
    <3>1. \A n \in 1 .. Len(toTool') : toTool'[n] \in Reports
      BY <2>2, ReportsNow
    <3>2. \A i \in RequestIds : outcome'[i] \in Answers => [id |-> i, what |-> outcome'[i]] \in Reports
      BY <2>3, <2>8, ReportsNow
    <3>3. QED
      BY <1>1, <3>1, <3>2, NoNewReports, ReportsNow
  <2>10. QED
    BY <1>1, <1>3, <2>1, <2>4, <2>5, <2>7, <2>8, <2>9, QuietStep
<1>12. QED
  BY <1>5, <1>6, <1>7, <1>8, <1>9, <1>10, <1>11

LEMMA SendHelloStep ==
  ASSUME LinkInv, SendHello
  PROVE  LinkInv'
<1> DEFINE m == [type |-> "hello", id |-> lastId + 1, target |-> NoClient]
<1>1. /\ loop = "connected" /\ lastId' = lastId + 1 /\ pending' = pending \cup {lastId + 1}
      /\ helloId' = lastId + 1 /\ loop' \in {"hello", "teardown"}
      /\ Written(m) \/ lane' = lane
      /\ UNCHANGED <<outcome, caller, idOf, result, connects, up, toTool, job, delivered, online>>
  BY DEF SendHello, Register, callVars, netVars, handlerVars, clientVars
<1>2. LinkTypes /\ IdsCounted /\ CallersInOrder /\ Untouched /\ PendingIsWaited
  BY DEF LinkInv
<1>3. lastId + 1 \in RequestIds /\ lastId \in Nat /\ lastId + 1 > lastId
  BY <1>1, <1>2, IdLeft DEF LinkTypes
<1>4. m \in Messages /\ m.id = lastId + 1
  BY <1>3 DEF Messages
<1> HIDE DEF m
<1>5. /\ lane' \in [Connections -> Seq(Messages)]
      /\ lane' = lane \/ \E k \in Connections : lane' = [lane EXCEPT ![k] = Append(@, m)]
  BY <1>1, <1>2, <1>4, WrittenMessage DEF LinkTypes
<1>6. LinkTypes'
  BY <1>1, <1>2, <1>3, <1>5 DEF LinkTypes
<1>7. IdsCounted'
  BY <1>1, <1>2, <1>3, CallersFinite DEF IdsCounted, WithId, LinkTypes
<1>8. CallersInOrder'
  <2>1. \A d \in Callers : idOf[d] <= lastId /\ idOf[d] \in Nat
    BY <1>2 DEF CallersInOrder, LinkTypes, RequestIds
  <2>2. \A d \in Callers : idOf[d] <= lastId'
    BY <1>1, <1>3, <2>1
  <2>3. QED
    BY <1>1, <1>2, <2>2 DEF CallersInOrder
<1>9. Untouched'
  <2>1. \A i \in RequestIds : (i > lastId' => i > lastId) /\ (i <= lastId => i <= lastId')
    BY <1>1, <1>3 DEF RequestIds
  <2>2. outcome[lastId + 1] = "none" /\ lastId + 1 <= lastId'
    BY <1>1, <1>2, <1>3 DEF Untouched
  <2>3. QED
    BY <1>1, <1>2, <2>1, <2>2 DEF Untouched
<1>10. PendingIsWaited'
  BY <1>1, <1>2 DEF PendingIsWaited
<1>11. Reports' \subseteq Reports
  BY <1>1, NoNewReports, ReportsNow
<1>12. WorldIsRight'
  <2>1. \A d \in Callers : idOf'[d] \in {idOf[d], lastId + 1} /\ idOf'[d] # lastId + 1
    BY <1>1, <1>2, <1>3 DEF CallersInOrder, LinkTypes, RequestIds
  <2>2. QED
    BY <1>1, <1>3, <1>4, <1>5, <1>11, <2>1, NewRequest
<1>13. QED
  BY <1>6, <1>7, <1>8, <1>9, <1>10, <1>12 DEF LinkInv, WorldIsRight

\* World answers one request: there is one report more, if that.
LEMMA Reply ==
  ASSUME LinkInv, NEW k \in Connections, NEW i \in RequestIds, NEW w \in Answers,
         SendCommandResult(k, i, w) \/ UNCHANGED toTool, UNCHANGED <<outcome, result, idOf>>
  PROVE  /\ toTool' \in Seq([id : RequestIds, what : Answers])
         /\ Reports' \subseteq Reports \cup {[id |-> i, what |-> w]}
<1> DEFINE a == [id |-> i, what |-> w]
<1>1. a \in [id : RequestIds, what : Answers] /\ (toTool' = toTool \/ toTool' = Append(toTool, a))
  BY DEF SendCommandResult
<1> HIDE DEF a
<1>2. toTool \in Seq([id : RequestIds, what : Answers])
  BY DEF LinkInv, LinkTypes
<1>3. toTool' \in Seq([id : RequestIds, what : Answers])
  <2>1. \A S : toTool \in Seq(S) /\ a \in S => Append(toTool, a) \in Seq(S)
    OBVIOUS
  <2>2. QED
    BY <1>1, <1>2, <2>1
<1>4. \A n \in 1 .. Len(toTool') : toTool'[n] = a \/ (n \in 1 .. Len(toTool) /\ toTool'[n] = toTool[n])
  BY <1>1, <1>2
<1>5. Reports' \subseteq Reports \cup {a}
  BY <1>4 DEF Reports
<1>6. QED
  BY <1>3, <1>5 DEF a

\* A message taken is right, and has left the lanes.
LEMMA Taken ==
  ASSUME LinkInv, NEW k \in Connections, NEW types, Take(k, types)
  PROVE  /\ Head(lane[k]) \in Messages /\ Head(lane[k]).type \in types
         /\ Carries(Head(lane[k]), lastId, delivered, idOf)
         /\ Head(lane[k]).id \in 1 .. lastId
         /\ job[k] = NoJob
         /\ lane' \in [Connections -> Seq(Messages)]
         /\ OneIn(lane', job)
         /\ LeftWorld(Head(lane[k]).id, lane', job)
         /\ \A l \in Connections : \A n \in 1 .. Len(lane'[l]) :
                lane'[l][n] \in Messages /\ Carries(lane'[l][n], lastId, delivered, idOf)
         /\ \A i : LeftWorld(i, lane, job) => LeftWorld(i, lane', job) /\ i # Head(lane[k]).id
<1>1. lane \in [Connections -> Seq(Messages)] /\ OneIn(lane, job) /\ LaneIsRight
  BY DEF LinkInv, LinkTypes, OnePlace
<1>2. /\ lane[k] # <<>> /\ lane[k] \in Seq(Messages) /\ lane' = [lane EXCEPT ![k] = Tail(lane[k])]
      /\ job[k] = NoJob /\ Head(lane[k]).type \in types
  BY <1>1 DEF Take
<1>3. /\ Head(lane[k]) = lane[k][1] /\ Head(lane[k]) \in Messages /\ 1 \in 1 .. Len(lane[k])
      /\ Tail(lane[k]) \in Seq(Messages) /\ Len(lane[k]) \in Nat
      /\ \A n \in 1 .. Len(Tail(lane[k])) : Tail(lane[k])[n] = lane[k][n + 1] /\ n + 1 \in 1 .. Len(lane[k]) /\ n + 1 # 1
  BY <1>2
<1>4. lane' \in [Connections -> Seq(Messages)]
  BY <1>1, <1>2, <1>3
<1> DEFINE at(l, n) == IF l = k THEN n + 1 ELSE n
<1>5. \A l \in Connections : \A n \in 1 .. Len(lane'[l]) :
          /\ n \in Nat /\ at(l, n) \in 1 .. Len(lane[l]) /\ lane'[l][n] = lane[l][at(l, n)]
          /\ l = k => at(l, n) # 1
  BY <1>1, <1>2, <1>3
<1>6. \A l : \A m, n \in Nat : at(l, m) = at(l, n) => m = n
  OBVIOUS
<1> HIDE DEF at
<1>7. \A l \in Connections : \A n \in 1 .. Len(lane[l]) :
          lane[l][n] \in Messages /\ Carries(lane[l][n], lastId, delivered, idOf)
  BY <1>1 DEF LaneIsRight
<1>8. Carries(Head(lane[k]), lastId, delivered, idOf)
  BY <1>3, <1>7
<1>9. Head(lane[k]).id \in 1 .. lastId
  BY <1>3, <1>8 DEF Carries, Messages, RequestIds, LinkInv, LinkTypes
<1>10. OneIn(lane', job)
  <2> SUFFICES ASSUME NEW j \in Connections, NEW l \in Connections
               PROVE  /\ \A m \in 1 .. Len(lane'[j]), n \in 1 .. Len(lane'[l]) :
                             lane'[j][m].id = lane'[l][n].id => j = l /\ m = n
                      /\ \A m \in 1 .. Len(lane'[j]) : lane'[j][m].id # job[l].id
                      /\ job[j].id = job[l].id /\ job[j].id # 0 => j = l
    BY DEF OneIn
  <2>1. /\ \A m \in 1 .. Len(lane[j]), n \in 1 .. Len(lane[l]) :
               lane[j][m].id = lane[l][n].id => j = l /\ m = n
        /\ \A m \in 1 .. Len(lane[j]) : lane[j][m].id # job[l].id
        /\ job[j].id = job[l].id /\ job[j].id # 0 => j = l
    BY <1>1 DEF OneIn
  <2>2. ASSUME NEW m \in 1 .. Len(lane'[j]), NEW n \in 1 .. Len(lane'[l]), lane'[j][m].id = lane'[l][n].id
        PROVE  j = l /\ m = n
    <3>1. /\ at(j, m) \in 1 .. Len(lane[j]) /\ lane'[j][m] = lane[j][at(j, m)] /\ m \in Nat
          /\ at(l, n) \in 1 .. Len(lane[l]) /\ lane'[l][n] = lane[l][at(l, n)] /\ n \in Nat
      BY <1>5
    <3>2. j = l /\ at(j, m) = at(l, n)
      BY <2>1, <2>2, <3>1
    <3>3. QED
      BY <1>6, <3>1, <3>2
  <2>3. ASSUME NEW m \in 1 .. Len(lane'[j]) PROVE lane'[j][m].id # job[l].id
    <3>1. at(j, m) \in 1 .. Len(lane[j]) /\ lane'[j][m] = lane[j][at(j, m)]
      BY <1>5
    <3>2. QED
      BY <2>1, <3>1
  <2>4. QED
    BY <2>1, <2>2, <2>3
<1>11. LeftWorld(Head(lane[k]).id, lane', job)
  <2> SUFFICES ASSUME NEW l \in Connections
               PROVE  job[l].id # lane[k][1].id
                      /\ \A n \in 1 .. Len(lane'[l]) : lane'[l][n].id # lane[k][1].id
    BY <1>3 DEF LeftWorld
  <2>1. /\ \A m \in 1 .. Len(lane[k]), n \in 1 .. Len(lane[l]) :
               lane[k][m].id = lane[l][n].id => k = l /\ m = n
        /\ \A m \in 1 .. Len(lane[k]) : lane[k][m].id # job[l].id
    BY <1>1 DEF OneIn
  <2>2. ASSUME NEW n \in 1 .. Len(lane'[l]) PROVE lane'[l][n].id # lane[k][1].id
    <3>1. at(l, n) \in 1 .. Len(lane[l]) /\ lane'[l][n] = lane[l][at(l, n)] /\ (l = k => at(l, n) # 1)
      BY <1>5
    <3>2. QED
      BY <1>3, <2>1, <3>1
  <2>3. QED
    BY <1>3, <2>1, <2>2
<1>12. \A i : LeftWorld(i, lane, job) => LeftWorld(i, lane', job) /\ i # Head(lane[k]).id
  BY <1>3, <1>5 DEF LeftWorld
<1>13. \A l \in Connections : \A n \in 1 .. Len(lane'[l]) :
           lane'[l][n] \in Messages /\ Carries(lane'[l][n], lastId, delivered, idOf)
  <2> SUFFICES ASSUME NEW l \in Connections, NEW n \in 1 .. Len(lane'[l])
               PROVE  lane'[l][n] \in Messages /\ Carries(lane'[l][n], lastId, delivered, idOf)
    OBVIOUS
  <2>1. at(l, n) \in 1 .. Len(lane[l]) /\ lane'[l][n] = lane[l][at(l, n)]
    BY <1>5
  <2>2. QED
    BY <1>7, <2>1
<1>14. QED
  BY <1>2, <1>3, <1>4, <1>13, <1>8, <1>9, <1>10, <1>11, <1>12

\* A step of World that changes neither the tool nor what is delivered.
LEMMA WorldActs ==
  ASSUME LinkInv, UNCHANGED <<caller, idOf, result, lastId, pending, outcome, loop, helloId, connects>>,
         up' = up \/ up' = FALSE,
         lane' \in [Connections -> Seq(Messages)],
         job' \in [Connections -> Jobs \cup {NoJob}],
         delivered' \in [RequestIds -> SUBSET Clients],
         toTool' \in Seq([id : RequestIds, what : Answers]),
         online' \subseteq online,
         \A i \in RequestIds : i > lastId => delivered'[i] = delivered[i],
         WorldIsRight'
  PROVE  LinkInv'
<1>1. LinkTypes /\ IdsCounted /\ CallersInOrder /\ Untouched /\ PendingIsWaited
  BY DEF LinkInv
<1>2. up' \in BOOLEAN /\ (up' => connects' # 0)
  <2>1. up \in BOOLEAN /\ (up => connects # 0) /\ connects' = connects
    BY <1>1 DEF LinkTypes
  <2>2. CASE up' = up
    BY <2>1, <2>2
  <2>3. CASE up' = FALSE
    BY <2>3
  <2>4. QED
    BY <2>2, <2>3
<1>3. LinkTypes'
  BY <1>1, <1>2 DEF LinkTypes
<1>4. IdsCounted' /\ CallersInOrder' /\ Untouched' /\ PendingIsWaited'
  BY <1>1 DEF IdsCounted, WithId, CallersInOrder, Untouched, PendingIsWaited
<1>5. QED
  BY <1>3, <1>4 DEF LinkInv, WorldIsRight

\* A request answered as it is taken.
LEMMA AnsweredAtOnce ==
  ASSUME LinkInv, NEW k \in Connections, NEW types, Take(k, types), NEW w \in Answers,
         SendCommandResult(k, Head(lane[k]).id, w) \/ UNCHANGED toTool,
         UNCHANGED <<job, delivered, outcome, result, idOf, lastId>>,
         Matches(Head(lane[k]).id, w, delivered, idOf)
  PROVE  WorldIsRight' /\ toTool' \in Seq([id : RequestIds, what : Answers])
<1> DEFINE i == Head(lane[k]).id
<1>1. /\ i \in RequestIds /\ i \in 1 .. lastId
      /\ OneIn(lane', job) /\ LeftWorld(i, lane', job)
      /\ \A l \in Connections : \A n \in 1 .. Len(lane'[l]) : Carries(lane'[l][n], lastId, delivered, idOf)
      /\ \A j : LeftWorld(j, lane, job) => LeftWorld(j, lane', job)
  BY Taken DEF Messages
<1>2. /\ toTool' \in Seq([id : RequestIds, what : Answers])
      /\ Reports' \subseteq Reports \cup {[id |-> i, what |-> w]}
  BY <1>1, Reply
<1>3. Matches(i, w, delivered, idOf)
  OBVIOUS
<1> HIDE DEF i
<1>4. JobIsRight' /\ LaneIsRight' /\ OnePlace'
  BY <1>1 DEF LinkInv, JobIsRight, LaneIsRight, OnePlace
<1>5. ReportsAreRight'
  <2> SUFFICES ASSUME NEW a \in Reports'
               PROVE  a.id \in 1 .. lastId' /\ LeftWorld(a.id, lane', job') /\ Matches(a.id, a.what, delivered', idOf')
    BY DEF ReportsAreRight
  <2>1. CASE a \in Reports
    BY <1>1, <2>1 DEF LinkInv, ReportsAreRight
  <2>2. CASE a = [id |-> i, what |-> w]
    BY <1>1, <1>3, <2>2
  <2>3. QED
    BY <1>2, <2>1, <2>2
<1>6. QED
  BY <1>2, <1>4, <1>5 DEF WorldIsRight

LEMMA AnswersAtOnceSteps ==
  ASSUME LinkInv, NEW k \in Connections,
         RefuseStranger(k) \/ HandleHello(k) \/ (HandleMail(k) /\ job' = job)
  PROVE  LinkInv'
<1> DEFINE m == Head(lane[k])
<1>1. /\ UNCHANGED <<caller, idOf, result, lastId, pending, outcome, loop, helloId, connects, job, delivered, online>>
      /\ up' = up \/ up' = FALSE
  BY DEF RefuseStranger, HandleHello, HandleMail, loopVars, callVars, idVars, clientVars
<1>2. LinkTypes
  BY DEF LinkInv
<1>3. ASSUME NEW types, Take(k, types), NEW w \in Answers, SendCommandResult(k, m.id, w) \/ UNCHANGED toTool,
             Matches(m.id, w, delivered, idOf)
      PROVE  LinkInv'
  <2>1. WorldIsRight' /\ toTool' \in Seq([id : RequestIds, what : Answers])
    BY <1>1, <1>3, AnsweredAtOnce
  <2>2. lane' \in [Connections -> Seq(Messages)]
    BY <1>3, Taken
  <2>3. /\ job' \in [Connections -> Jobs \cup {NoJob}] /\ delivered' \in [RequestIds -> SUBSET Clients]
        /\ \A i \in RequestIds : i > lastId => delivered'[i] = delivered[i]
    BY <1>1, <1>2 DEF LinkTypes
  <2>4. QED
    BY <1>1, <2>1, <2>2, <2>3, WorldActs
<1>4. ASSUME NEW types, Take(k, types)
      PROVE  /\ m.type \in types /\ delivered[m.id] = {}
             /\ \A c \in Callers : idOf[c] = m.id => m.type = CommandOf[c].kind /\ m.target = CommandOf[c].target
  BY <1>4, Taken DEF Carries
<1>5. CASE RefuseStranger(k)
  <2>1. Take(k, Kinds) /\ SendCommandResult(k, m.id, "NotAuthenticated")
    BY <1>5 DEF RefuseStranger
  <2>2. Matches(m.id, "NotAuthenticated", delivered, idOf)
    BY <1>4, <2>1 DEF Matches
  <2>3. QED
    BY <1>3, <2>1, <2>2 DEF Answers, Refusals
<1>6. CASE HandleHello(k)
  <2>1. /\ Take(k, {"hello"})
        /\ \E w \in {"Ok", "NotAuthenticated"} : SendCommandResult(k, m.id, w) \/ UNCHANGED toTool
    BY <1>6 DEF HandleHello
  <2>2. \A c \in Callers : idOf[c] # m.id
    BY <1>4, <2>1, ToolLinkAssumption DEF Kinds, Mails
  <2>3. \A w : Matches(m.id, w, delivered, idOf)
    BY <2>2 DEF Matches
  <2>4. QED
    BY <1>3, <2>1, <2>3 DEF Answers, Refusals
<1>7. CASE HandleMail(k) /\ job' = job
  <2> DEFINE targets == IF m.type = "mailAll" THEN online ELSE {m.target} \cap online
  <2>1. /\ Take(k, Mails \cup {"mailAll"}) /\ job[k] = NoJob
        /\ \/ SendCommandResult(k, m.id, "BadRequest")
           \/ /\ targets = {}
              /\ SendCommandResult(k, m.id, IF m.type = "mailAll" THEN "Ok" ELSE "TargetNotFound")
           \/ /\ targets # {}
              /\ job' = [job EXCEPT ![k] = [id |-> m.id, type |-> m.type, left |-> targets]]
    BY <1>7 DEF HandleMail, Take
  <2>2. ASSUME targets # {}, job' = [job EXCEPT ![k] = [id |-> m.id, type |-> m.type, left |-> targets]]
        PROVE  FALSE
    <3>1. targets # {} /\ job' = [job EXCEPT ![k] = [id |-> m.id, type |-> m.type, left |-> targets]]
      BY <2>2
    <3> HIDE DEF targets
    <3>3. job'[k] = [id |-> m.id, type |-> m.type, left |-> targets] /\ job'[k] = NoJob
      BY <1>2, <1>7, <2>1, <3>1 DEF LinkTypes
    <3>4. QED
      BY <3>1, <3>3 DEF NoJob
  <2>3. CASE m.type = "mailAll" /\ SendCommandResult(k, m.id, "Ok")
    <3>1. Matches(m.id, "Ok", delivered, idOf)
      BY <1>4, <2>1, <2>3 DEF Matches, Mails, Refusals
    <3>2. QED
      BY <1>3, <2>1, <2>3, <3>1 DEF Answers
  <2>4. ASSUME NEW w \in {"TargetNotFound", "BadRequest"}, SendCommandResult(k, m.id, w) PROVE LinkInv'
    <3>1. Matches(m.id, w, delivered, idOf)
      BY <1>4, <2>1 DEF Matches
    <3>2. QED
      BY <1>3, <2>1, <2>4, <3>1 DEF Answers, Refusals
  <2>5. QED
    BY <2>1, <2>2, <2>3, <2>4
<1>8. QED
  BY <1>5, <1>6, <1>7

\* A mail goes to the one client of its command, a mail to all to those online.
LEMMA HandleMailStep ==
  ASSUME LinkInv, NEW k \in Connections, HandleMail(k)
  PROVE  LinkInv'
<1> DEFINE m == Head(lane[k])
           targets == IF m.type = "mailAll" THEN online ELSE {m.target} \cap online
           j == [id |-> m.id, type |-> m.type, left |-> targets]
<1>1. SUFFICES ASSUME job' # job PROVE LinkInv'
  BY AnswersAtOnceSteps
<1>2. /\ Take(k, Mails \cup {"mailAll"}) /\ targets # {} /\ job' = [job EXCEPT ![k] = j]
      /\ UNCHANGED <<caller, idOf, result, lastId, pending, outcome, loop, helloId, connects, up, toTool, delivered, online>>
  BY <1>1 DEF HandleMail, loopVars, callVars, idVars, clientVars
<1>3. LinkTypes
  BY DEF LinkInv
<1>4. /\ m \in Messages /\ m.type \in Kinds /\ Carries(m, lastId, delivered, idOf) /\ m.id \in 1 .. lastId
      /\ lane' \in [Connections -> Seq(Messages)] /\ OneIn(lane', job) /\ LeftWorld(m.id, lane', job)
      /\ \A l \in Connections : \A n \in 1 .. Len(lane'[l]) : Carries(lane'[l][n], lastId, delivered, idOf)
      /\ \A i : LeftWorld(i, lane, job) => LeftWorld(i, lane', job) /\ i # m.id
  BY <1>2, Taken DEF Kinds
<1>5. j \in Jobs /\ j.id = m.id /\ j.type = m.type /\ j.left = targets
  <2>1. targets \subseteq Clients /\ targets # {} /\ m.id \in RequestIds /\ m.type \in Kinds
    BY <1>2, <1>3, <1>4 DEF Messages, LinkTypes
  <2> HIDE DEF targets, m
  <2>2. QED
    BY <2>1 DEF Jobs
<1>6. Handles(j, lastId, delivered, idOf)
  <2>1. m.type \in Mails => targets = {m.target}
    BY <1>2 DEF Mails
  <2>2. QED
    BY <1>4, <1>5, <2>1 DEF Handles, Carries
<1> HIDE DEF m, targets, j
<1>7. job' \in [Connections -> Jobs \cup {NoJob}] /\ job'[k] = j /\ \A l \in Connections \ {k} : job'[l] = job[l]
  BY <1>2, <1>3, <1>5 DEF LinkTypes
<1>8. JobIsRight'
  BY <1>2, <1>6, <1>7 DEF LinkInv, JobIsRight
<1>9. LaneIsRight'
  BY <1>2, <1>4 DEF LaneIsRight
<1>10. OnePlace'
  <2>1. \A l \in Connections : job[l].id # m.id /\ \A n \in 1 .. Len(lane'[l]) : lane'[l][n].id # m.id
    BY <1>4 DEF LeftWorld
  <2>2. \A l \in Connections : job'[l].id = IF l = k THEN m.id ELSE job[l].id
    BY <1>5, <1>7
  <2>3. OneIn(lane', job')
    BY <1>4, <2>1, <2>2 DEF OneIn
  <2>4. QED
    BY <2>3 DEF OnePlace
<1>11. ReportsAreRight'
  <2>1. Reports' \subseteq Reports
    BY <1>2, NoNewReports, ReportsNow
  <2>2. \A i : LeftWorld(i, lane, job) => LeftWorld(i, lane', job')
    <3> SUFFICES ASSUME NEW i, LeftWorld(i, lane, job) PROVE LeftWorld(i, lane', job')
      OBVIOUS
    <3>1. LeftWorld(i, lane', job) /\ i # m.id
      BY <1>4
    <3>2. QED
      BY <1>5, <1>7, <3>1 DEF LeftWorld
  <2>3. QED
    BY <1>2, <2>1, <2>2 DEF LinkInv, ReportsAreRight
<1>12. WorldIsRight'
  BY <1>8, <1>9, <1>10, <1>11 DEF WorldIsRight
<1>13. /\ delivered' \in [RequestIds -> SUBSET Clients] /\ toTool' \in Seq([id : RequestIds, what : Answers])
       /\ \A i \in RequestIds : i > lastId => delivered'[i] = delivered[i]
  BY <1>2, <1>3 DEF LinkTypes
<1>14. QED
  BY <1>2, <1>4, <1>7, <1>12, <1>13, WorldActs

\* What is delivered belongs to a request that no lane holds and no report is about.
LEMMA InjectStep ==
  ASSUME LinkInv, NEW k \in Connections, NEW p \in Clients, InjectClientPacket(k, p)
  PROVE  LinkInv'
<1> DEFINE j == job[k]
           receivers == delivered[j.id] \cup ({p} \cap inZone)
           w == MailAnswer(j.type, receivers)
<1>1. /\ p \in j.left
      /\ delivered' = [delivered EXCEPT ![j.id] = receivers]
      /\ UNCHANGED <<caller, idOf, result, lastId, pending, outcome, loop, helloId, connects, up, lane, online>>
      /\ \/ j.left = {p} /\ SendCommandResult(k, j.id, w) /\ job' = [job EXCEPT ![k] = NoJob]
         \/ j.left # {p} /\ job' = [job EXCEPT ![k].left = @ \ {p}] /\ toTool' = toTool
  BY DEF InjectClientPacket, loopVars, callVars, idVars, clientVars
<1>2. LinkTypes /\ JobIsRight /\ LaneIsRight /\ OneIn(lane, job) /\ ReportsAreRight
  BY DEF LinkInv, OnePlace
<1>3. j \in Jobs /\ j # NoJob
  BY <1>1, <1>2 DEF LinkTypes, NoJob
<1>4. Handles(j, lastId, delivered, idOf)
  BY <1>2, <1>3 DEF JobIsRight
<1>5. j.id \in RequestIds /\ j.id \in 1 .. lastId /\ j.type \in Kinds /\ j.id # 0
  BY <1>2, <1>3, <1>4 DEF Handles, Jobs, RequestIds, LinkTypes
<1>6. w \in Answers /\ (w \in Refusals => receivers = {} /\ j.type # "mailAll")
  BY DEF MailAnswer, Answers, Refusals
<1>7. \A c \in Callers : idOf[c] = j.id /\ CommandOf[c].kind \in Mails =>
          /\ CommandOf[c].target = p /\ j.left = {p} /\ delivered[j.id] = {}
          /\ w = "Ok" => receivers = {p}
  BY <1>1, <1>4 DEF Handles, MailAnswer, Mails
<1>8. \A l \in Connections : (l # k => job[l].id # j.id) /\ \A n \in 1 .. Len(lane[l]) : lane[l][n].id # j.id
  BY <1>2, <1>5 DEF OneIn
<1>9. Matches(j.id, w, delivered', idOf)
  <2>1. delivered'[j.id] = receivers
    BY <1>1, <1>2, <1>5 DEF LinkTypes
  <2>2. QED
    BY <1>6, <1>7, <2>1 DEF Matches
<1>10. w = MailAnswer(j.type, receivers) /\ j = job[k]
  OBVIOUS
<1>11. receivers \subseteq Clients
  BY <1>2, <1>5 DEF LinkTypes
<1> HIDE DEF receivers, w, j
<1>12. /\ delivered' \in [RequestIds -> SUBSET Clients]
       /\ \A i \in RequestIds : i # j.id => delivered'[i] = delivered[i]
  BY <1>1, <1>2, <1>11 DEF LinkTypes
<1>13. LaneIsRight'
  <2> SUFFICES ASSUME NEW l \in Connections, NEW n \in 1 .. Len(lane[l])
               PROVE  Carries(lane[l][n], lastId, delivered', idOf)
    BY <1>1 DEF LaneIsRight
  <2>1. lane[l][n] \in Messages /\ Carries(lane[l][n], lastId, delivered, idOf) /\ lane[l][n].id # j.id
    BY <1>2, <1>8 DEF LinkTypes, LaneIsRight
  <2>2. lane[l][n].id \in RequestIds
    BY <2>1 DEF Messages
  <2>3. QED
    BY <1>12, <2>1, <2>2 DEF Carries
<1>14. \A l \in Connections : l # k /\ job[l] # NoJob => Handles(job[l], lastId, delivered', idOf)
  <2> SUFFICES ASSUME NEW l \in Connections, l # k, job[l] # NoJob PROVE Handles(job[l], lastId, delivered', idOf)
    OBVIOUS
  <2>1. job[l] \in Jobs /\ Handles(job[l], lastId, delivered, idOf) /\ job[l].id # j.id
    BY <1>2, <1>8 DEF LinkTypes, JobIsRight
  <2>2. job[l].id \in RequestIds
    BY <2>1 DEF Jobs
  <2>3. QED
    BY <1>12, <2>1, <2>2 DEF Handles
<1>15. ASSUME NEW a \in Reports
       PROVE  a.id # j.id /\ a.id \in 1 .. lastId /\ LeftWorld(a.id, lane, job) /\ Matches(a.id, a.what, delivered', idOf)
  <2>1. a.id \in 1 .. lastId /\ LeftWorld(a.id, lane, job) /\ Matches(a.id, a.what, delivered, idOf)
    BY <1>2 DEF ReportsAreRight
  <2>2. a.id # j.id
    BY <1>10, <2>1 DEF LeftWorld
  <2>3. Matches(a.id, a.what, delivered', idOf)
    <3>1. \A c \in Callers : idOf[c] = a.id => delivered'[a.id] = delivered[a.id]
      BY <1>2, <1>12, <2>1, <2>2 DEF LinkTypes
    <3>2. QED
      BY <2>1, <3>1 DEF Matches
  <2>4. QED
    BY <2>1, <2>2, <2>3
<1>16. CASE j.left = {p} /\ SendCommandResult(k, j.id, w) /\ job' = [job EXCEPT ![k] = NoJob]
  <2>1. /\ job' \in [Connections -> Jobs \cup {NoJob}] /\ job'[k] = NoJob
        /\ \A l \in Connections \ {k} : job'[l] = job[l]
    BY <1>2, <1>16 DEF LinkTypes
  <2>2. NoJob.id = 0 /\ \A l \in Connections : \A n \in 1 .. Len(lane[l]) : lane[l][n].id \in RequestIds
    <3>1. NoJob.id = 0
      BY DEF NoJob
    <3>2. ASSUME NEW l \in Connections, NEW n \in 1 .. Len(lane[l]) PROVE lane[l][n].id \in RequestIds
      <4>1. lane[l][n] \in Messages
        BY <1>2 DEF LinkTypes
      <4>2. QED
        BY <4>1 DEF Messages
    <3>3. QED
      BY <3>1, <3>2
  <2>3. JobIsRight'
    BY <1>1, <1>14, <2>1 DEF JobIsRight
  <2>4. \A l \in Connections : \A n \in 1 .. Len(lane[l]) : lane[l][n].id # 0
    BY <2>2 DEF RequestIds
  <2>5. OneIn(lane, job')
    BY <1>2, <2>1, <2>2, <2>4 DEF OneIn
  <2>6. OnePlace'
    BY <1>1, <2>5 DEF OnePlace
  <2>7. /\ toTool' \in Seq([id : RequestIds, what : Answers])
        /\ Reports' \subseteq Reports \cup {[id |-> j.id, what |-> w]}
    BY <1>1, <1>5, <1>6, <1>16, Reply
  <2>8. \A i : i # 0 /\ LeftWorld(i, lane, job) => LeftWorld(i, lane, job')
    BY <2>1, <2>2 DEF LeftWorld
  <2>9. LeftWorld(j.id, lane, job')
    BY <1>5, <1>8, <2>1, <2>2 DEF LeftWorld
  <2>10. ReportsAreRight'
    <3> SUFFICES ASSUME NEW a \in Reports'
                 PROVE  a.id \in 1 .. lastId' /\ LeftWorld(a.id, lane', job') /\ Matches(a.id, a.what, delivered', idOf')
      BY DEF ReportsAreRight
    <3>1. CASE a \in Reports
      <4>1. a.id # 0 /\ a.id \in 1 .. lastId /\ LeftWorld(a.id, lane, job) /\ Matches(a.id, a.what, delivered', idOf)
        BY <1>15, <3>1
      <4>2. QED
        BY <1>1, <2>8, <4>1
    <3>2. CASE a = [id |-> j.id, what |-> w]
      BY <1>1, <1>5, <1>9, <2>9, <3>2
    <3>3. QED
      BY <2>7, <3>1, <3>2
  <2>11. WorldIsRight'
    BY <1>13, <2>3, <2>6, <2>10 DEF WorldIsRight
  <2>12. lane' \in [Connections -> Seq(Messages)] /\ \A i \in RequestIds : i > lastId => delivered'[i] = delivered[i]
    BY <1>1, <1>2, <1>5, <1>12 DEF LinkTypes
  <2>13. QED
    BY <1>1, <1>12, <2>1, <2>7, <2>11, <2>12, WorldActs
<1>17. CASE j.left # {p} /\ job' = [job EXCEPT ![k].left = @ \ {p}] /\ toTool' = toTool
  <2> DEFINE q == [j EXCEPT !.left = @ \ {p}]
  <2>1. q \in Jobs /\ q.id = j.id /\ q.type = j.type
    BY <1>1, <1>3, <1>17 DEF Jobs
  <2>2. job' = [job EXCEPT ![k] = q]
    BY <1>10, <1>17
  <2> HIDE DEF q
  <2>3. /\ job' \in [Connections -> Jobs \cup {NoJob}] /\ job'[k] = q
        /\ \A l \in Connections \ {k} : job'[l] = job[l]
    BY <1>2, <2>1, <2>2 DEF LinkTypes
  <2>4. Handles(q, lastId, delivered', idOf)
    BY <1>4, <1>7, <1>17, <2>1 DEF Handles
  <2>5. JobIsRight'
    BY <1>1, <1>14, <2>3, <2>4 DEF JobIsRight
  <2>6. \A l \in Connections : job'[l].id = job[l].id
    BY <1>10, <2>1, <2>3
  <2>7. OnePlace'
    BY <1>1, <1>2, <2>6 DEF OnePlace, OneIn
  <2>8. \A i : LeftWorld(i, lane, job) => LeftWorld(i, lane, job')
    BY <2>6 DEF LeftWorld
  <2>9. Reports' \subseteq Reports
    BY <1>1, <1>17, NoNewReports, ReportsNow
  <2>10. ReportsAreRight'
    BY <1>1, <1>15, <2>8, <2>9 DEF ReportsAreRight
  <2>11. WorldIsRight'
    BY <1>13, <2>5, <2>7, <2>10 DEF WorldIsRight
  <2>12. /\ lane' \in [Connections -> Seq(Messages)] /\ toTool' \in Seq([id : RequestIds, what : Answers])
         /\ \A i \in RequestIds : i > lastId => delivered'[i] = delivered[i]
    BY <1>1, <1>2, <1>5, <1>12, <1>17 DEF LinkTypes
  <2>13. QED
    BY <1>1, <1>12, <2>3, <2>11, <2>12, WorldActs
<1>18. QED
  BY <1>1, <1>10, <1>16, <1>17

LEMMA AsideSteps ==
  ASSUME LinkInv, (\E k \in Connections : OnToolLinkClosed(k)) \/ (\E p \in Clients : ClientMoves(p))
  PROVE  LinkInv'
<1>1. /\ UNCHANGED <<caller, idOf, result, lastId, pending, outcome, loop, helloId, connects, up, toTool, lane, job, delivered>>
      /\ online' \subseteq online
  <2>1. ASSUME NEW k \in Connections, OnToolLinkClosed(k)
        PROVE  /\ UNCHANGED <<caller, idOf, result, lastId, pending, outcome, loop, helloId, connects, up, toTool, lane, job, delivered>>
               /\ online' \subseteq online
    BY <2>1 DEF OnToolLinkClosed, loopVars, netVars, callVars, idVars, clientVars
  <2>2. ASSUME NEW p \in Clients, ClientMoves(p)
        PROVE  /\ UNCHANGED <<caller, idOf, result, lastId, pending, outcome, loop, helloId, connects, up, toTool, lane, job, delivered>>
               /\ online' \subseteq online
    BY <2>2 DEF ClientMoves, loopVars, netVars, callVars, idVars, worldVars, handlerVars
  <2>3. QED
    BY <2>1, <2>2
<1>2. Reports' \subseteq Reports
  BY <1>1, NoNewReports, ReportsNow
<1>3. WorldIsRight'
  BY <1>1, <1>2, WorldAside
<1>4. /\ lane' \in [Connections -> Seq(Messages)] /\ job' \in [Connections -> Jobs \cup {NoJob}]
      /\ delivered' \in [RequestIds -> SUBSET Clients] /\ toTool' \in Seq([id : RequestIds, what : Answers])
      /\ \A i \in RequestIds : i > lastId => delivered'[i] = delivered[i]
  BY <1>1 DEF LinkInv, LinkTypes
<1>5. QED
  BY <1>1, <1>3, <1>4, WorldActs

LEMMA LinkInvKept ==
  ASSUME LinkInv, LinkNext \/ (\E c \in Callers : Begin(c)) \/ UNCHANGED linkVars
  PROVE  LinkInv'
<1>1. CASE LinkNext
  BY <1>1, SendStep, SendFailsStep, AnsweredStep, TimeoutStep, LoopSteps, SendHelloStep, AnswersAtOnceSteps,
     HandleMailStep, InjectStep, AsideSteps DEF LinkNext, CallStep, LoopStep, WorldStep
<1>2. CASE UNCHANGED linkVars
  <2>1. UNCHANGED <<caller, idOf, result, lastId, pending, outcome, loop, helloId, connects, up, toTool, lane, job,
                    delivered, online>>
    BY <1>2 DEF linkVars, loopVars, netVars, callVars, idVars, worldVars, handlerVars, clientVars
  <2>2. Reports' \subseteq Reports
    BY <2>1, NoNewReports, ReportsNow
  <2>3. WorldIsRight'
    BY <2>1, <2>2, WorldAside
  <2>4. /\ lane' \in [Connections -> Seq(Messages)] /\ job' \in [Connections -> Jobs \cup {NoJob}]
        /\ delivered' \in [RequestIds -> SUBSET Clients] /\ toTool' \in Seq([id : RequestIds, what : Answers])
        /\ \A i \in RequestIds : i > lastId => delivered'[i] = delivered[i]
    BY <2>1 DEF LinkInv, LinkTypes
  <2>5. QED
    BY <2>1, <2>3, <2>4, WorldActs
<1>3. QED
  BY <1>1, <1>2, BeginStep

LEMMA LinkInvInit == Init => LinkInv
<1> SUFFICES ASSUME Init PROVE LinkInv
  OBVIOUS
<1>1. LinkInit
  BY DEF Init
<1>2. LinkTypes
  <2>1. \A S : <<>> \in Seq(S)
    OBVIOUS
  <2>2. toTool \in Seq([id : RequestIds, what : Answers]) /\ lane \in [Connections -> Seq(Messages)]
    BY <1>1, <2>1 DEF LinkInit
  <2>3. 0 \in 0 .. MaxConnects /\ 0 \in Nat
    BY ToolLinkAssumption
  <2>4. outcome \in [RequestIds -> Answers \cup {"none", "ToolNotConnected"}]
        /\ result \in [Callers -> Answers \cup {"none", "ToolNotConnected", "ToolTimeout"}]
        /\ idOf \in [Callers -> {0} \cup RequestIds]
        /\ delivered \in [RequestIds -> SUBSET Clients]
        /\ job \in [Connections -> Jobs \cup {NoJob}]
        /\ caller \in [Callers -> {"idle", "ready", "waiting", "done"}]
    BY <1>1 DEF LinkInit
  <2>5. QED
    BY <1>1, <2>2, <2>3, <2>4 DEF LinkInit, LinkTypes
<1>3. IdsCounted
  <2>1. WithId = {} /\ loop = "delay" /\ connects = 0 /\ lastId = 0
    BY <1>1 DEF LinkInit, WithId
  <2>2. QED
    BY <2>1, FS_EmptySet DEF IdsCounted
<1>4. CallersInOrder
  BY <1>1 DEF LinkInit, CallersInOrder
<1>5. Untouched /\ PendingIsWaited
  BY <1>1 DEF LinkInit, Untouched, PendingIsWaited
<1>6. \A k \in Connections : Len(lane[k]) = 0 /\ job[k] = NoJob
  BY <1>1 DEF LinkInit
<1>7. LaneIsRight /\ JobIsRight /\ OnePlace
  BY <1>6 DEF LaneIsRight, JobIsRight, OnePlace, OneIn, NoJob
<1>8. Reports = {}
  BY <1>1 DEF LinkInit, Reports, Answers, Refusals
<1>9. ReportsAreRight
  BY <1>8 DEF ReportsAreRight
<1>10. QED
  BY <1>2, <1>3, <1>4, <1>5, <1>7, <1>9 DEF LinkInv

\* The steps of a redeem request move the link by beginning a command, if at all.
LEMMA LinkInvNext == LinkInv /\ [Next]_vars => LinkInv'
<1>1. CouponAssumption
  BY CouponAssumption
<1>2. [Next]_vars => LinkNext \/ (\E c \in Callers : Begin(c)) \/ UNCHANGED linkVars
  BY <1>1 DEF Next, RedeemStep, TryConsume, ConsumeThrows, Reward, RegisterOnly, Finish, vars, CouponAssumption
<1>3. QED
  BY <1>2, LinkInvKept

THEOREM LinkInvariant == Spec => []LinkInv
BY LinkInvInit, LinkInvNext, PTL DEF Spec

\* However many callers share the connection, and whatever was given up, lost
\* or answered late, the table of pending requests holds only those somebody
\* waits for.
THEOREM NothingPendsForgotten == Spec => []PendingIsWaited
<1>1. LinkInv => PendingIsWaited
  BY DEF LinkInv
<1>2. QED
  BY LinkInvariant, <1>1, PTL

\* Every caller is told what became of its own command: Ok to a mail for one
\* client only when that client's zone got the packet, and a refusal only when
\* nothing was sent.
THEOREM AnswersAlwaysMatch == Spec => []AnswersMatch
<1>1. LinkInv => AnswersMatch
  <2> SUFFICES ASSUME LinkInv, NEW c \in Callers, result[c] \in Answers
               PROVE  Matches(idOf[c], result[c], delivered, idOf)
    BY DEF AnswersMatch, Matches, Answers, Refusals
  <2> DEFINE a == [id |-> idOf[c], what |-> result[c]]
  <2>1. a \in Reports
    BY ReportsNow
  <2>2. QED
    BY <2>1 DEF LinkInv, ReportsAreRight
<1>2. QED
  BY LinkInvariant, <1>1, PTL

\* What a request is told agrees with what its caller got.
LEMMA TellsResultKept ==
  ASSUME LinkInv, IInv, TellsResult, [Next]_vars
  PROVE  TellsResult'
<1>1. \A c \in Callers : result[c] # "none" => caller[c] = "done"
  BY DEF LinkInv, CallersInOrder
<1>2. /\ told \in [Redeemers -> {"none", "refused", "exception", "Ok", "OkRewardDelayed"}]
      /\ result \in [Callers -> Answers \cup {"none", "ToolNotConnected", "ToolTimeout"}]
      /\ Redeemers \subseteq Callers
  BY CouponAssumption DEF IInv, Types, LinkInv, LinkTypes
<1>3. ASSUME NEW c \in Callers, caller[c] # "done", NEW w,
             result' = result \/ result' = [result EXCEPT ![c] = w], UNCHANGED told
      PROVE  TellsResult'
  BY <1>1, <1>2, <1>3 DEF TellsResult, OwesMail
<1>4. ASSUME NEW c \in Callers, Begin(c), UNCHANGED told PROVE TellsResult'
  BY <1>3, <1>4 DEF Begin, Return
<1>5. ASSUME UNCHANGED <<result, told>> PROVE TellsResult'
  BY <1>5 DEF TellsResult, OwesMail
<1>6. CASE LinkNext /\ UNCHANGED couponVars
  <2>1. told' = told
    BY <1>6 DEF couponVars
  <2>2. ASSUME NEW c \in Callers, CallStep(c) PROVE TellsResult'
    <3>1. CASE Send(c)
      BY <1>5, <2>1, <3>1 DEF Send
    <3>2. CASE SendFails(c) \/ Answered(c) \/ Timeout(c)
      BY <1>3, <2>1, <3>2 DEF SendFails, Answered, Timeout, Return
    <3>3. QED
      BY <2>2, <3>1, <3>2 DEF CallStep
  <2>3. CASE ~\E c \in Callers : CallStep(c)
    <3>1. LoopStep \/ ReadAnswer \/ Drop => result' = result
      BY DEF LoopStep, Connect, SendHello, HelloAnswered, HelloTimeout, ReadLoopEnds, WakeAll, Dispose,
             ReadAnswer, Drop, callVars
    <3>2. ASSUME NEW k \in Connections, WorldStep(k) PROVE result' = result
      BY <3>2 DEF WorldStep, RefuseStranger, HandleHello, HandleMail, InjectClientPacket, OnToolLinkClosed, callVars
    <3>3. ASSUME NEW p \in Clients, ClientMoves(p) PROVE result' = result
      BY <3>3 DEF ClientMoves, callVars
    <3>4. QED
      BY <1>5, <1>6, <2>1, <2>3, <3>1, <3>2, <3>3 DEF LinkNext
  <2>4. QED
    BY <2>2, <2>3
<1>7. ASSUME NEW r \in Redeemers, RedeemStep(r) PROVE TellsResult'
  <2>1. ASSUME result' = result, NEW w, w = "Ok" /\ OwesMail(r) => result[r] = "Ok",
               told' = told \/ told' = [told EXCEPT ![r] = w]
        PROVE  TellsResult'
    BY <1>2, <1>7, <2>1 DEF TellsResult, OwesMail
  <2>2. CASE TryConsume(r) \/ ConsumeThrows(r)
    <3>1. result' = result /\ \E w : w # "Ok" /\ (told' = told \/ told' = [told EXCEPT ![r] = w])
      BY <2>2 DEF TryConsume, ConsumeThrows, NextOfRefused, Tell, linkVars, callVars
    <3>2. QED
      BY <2>1, <3>1
  <2>3. CASE Reward(r)
    BY <1>2, <1>4, <1>7, <2>3 DEF Reward
  <2>4. CASE Finish(r)
    <3>1. result' = result /\ told' = [told EXCEPT ![r] = IF Delayed(result[r]) THEN "OkRewardDelayed" ELSE "Ok"]
      BY <2>4 DEF Finish, Tell, linkVars, callVars
    <3>2. QED
      BY <2>1, <3>1 DEF Delayed
  <2>5. CASE RegisterOnly(r)
    <3>1. result' = result /\ ~OwesMail(r) /\ told' = [told EXCEPT ![r] = "Ok"]
      BY <2>5 DEF RegisterOnly, Tell, linkVars, callVars
    <3>2. QED
      BY <2>1, <3>1
  <2>6. QED
    BY <1>7, <2>2, <2>3, <2>4, <2>5 DEF RedeemStep
<1>8. CASE UNCHANGED vars
  BY <1>5, <1>8 DEF vars, linkVars, callVars, couponVars
<1>9. QED
  BY <1>4, <1>6, <1>7, <1>8 DEF Next, couponVars

\* A request that is owed a mail and told that its coupon is registered has had
\* it delivered; one that is refused, ends in an exception or is owed none has
\* had none, whatever becomes of the link in between.
THEOREM ToldIsAlwaysTrue == Spec => []ToldIsTrue
<1>1. Init => TellsResult
  BY DEF Init, TellsResult
<1>2. LinkInv /\ IInv /\ TellsResult => ToldIsTrue
  <2> SUFFICES ASSUME LinkInv, IInv, TellsResult, NEW r \in Redeemers
               PROVE  /\ told[r] = "Ok" /\ OwesMail(r) => Rewarded(r)
                      /\ told[r] \in {"refused", "exception"} \/ ~OwesMail(r) => ~Rewarded(r)
    BY DEF ToldIsTrue
  <2>1. r \in Callers /\ CommandOf[r].kind \in Mails
    BY CouponAssumption DEF Mails
  <2>2. ASSUME told[r] = "Ok", OwesMail(r) PROVE Rewarded(r)
    <3>1. result[r] = "Ok"
      BY <2>2 DEF TellsResult
    <3> DEFINE a == [id |-> idOf[r], what |-> result[r]]
    <3>2. a \in Reports
      BY <2>1, <3>1, ReportsNow DEF Answers
    <3>3. idOf[r] \in 1 .. lastId /\ Matches(idOf[r], "Ok", delivered, idOf)
      BY <3>1, <3>2 DEF LinkInv, ReportsAreRight
    <3>4. delivered[idOf[r]] = {CommandOf[r].target}
      BY <2>1, <3>3 DEF Matches
    <3>5. QED
      BY <3>3, <3>4 DEF Rewarded
  <2>3. ASSUME told[r] \in {"refused", "exception"} \/ ~OwesMail(r) PROVE idOf[r] = 0
    BY <2>3 DEF IInv, OnLinkIsUser
  <2>4. QED
    BY <2>2, <2>3 DEF Rewarded
<1>3. QED
  BY LinkInvariant, InductiveInvariant, <1>1, <1>2, TellsResultKept, PTL DEF Spec
=============================================================================
