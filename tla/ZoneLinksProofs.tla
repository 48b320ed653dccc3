--------------------------- MODULE ZoneLinksProofs ---------------------------
(***************************************************************************)
(* Proofs about ZoneLinks, for every set of links, zones and lanes and     *)
(* every assignment of owners to lanes.  The argument: a close message is  *)
(* pushed by the close itself and a link never opens again, so whoever     *)
(* handles one removes a link that is closed; it removes by session, so no *)
(* other link of the zone goes with it.                                    *)
(***************************************************************************)
EXTENDS ZoneLinks, SequenceTheorems, TLAPS

LInv == TypeOK /\ CloseMessagesTrue

\* After a push only the message is new in the lanes.
LEMMA PushAdds ==
  ASSUME NEW queues \in [Lanes -> Seq(Messages)], NEW owner \in Links \cup Zones,
         NEW m \in Messages
  PROVE  /\ PushMsg(queues, owner, m) \in [Lanes -> Seq(Messages)]
         /\ \A x : Waiting(PushMsg(queues, owner, m), x) => x = m \/ Waiting(queues, x)
  BY ZoneLinksAssumption, SMTT(30) DEF PushMsg, Waiting

\* Taking the first message of a lane adds none.
LEMMA ConsumedRemoves ==
  ASSUME TypeOK, NEW k \in Lanes, lane[k] # <<>>
  PROVE  /\ Consumed(k) \in [Lanes -> Seq(Messages)]
         /\ Head(lane[k]) \in Messages /\ Waiting(lane, Head(lane[k]))
         /\ \A x : Waiting(Consumed(k), x) => Waiting(lane, x)
<1>1. lane[k] \in Seq(Messages) /\ lane \in [Lanes -> Seq(Messages)]
  BY DEF TypeOK
<1>2. Consumed(k) \in [Lanes -> Seq(Messages)]
  BY <1>1 DEF Consumed
<1>3. Head(lane[k]) = lane[k][1] /\ 1 \in 1 .. Len(lane[k]) /\ Head(lane[k]) \in Messages
  BY <1>1
<1>4. ASSUME NEW j \in Lanes, NEW i \in 1 .. Len(Consumed(k)[j])
      PROVE  \E h \in 1 .. Len(lane[j]) : Consumed(k)[j][i] = lane[j][h]
  <2>1. CASE j = k
    <3>1. Consumed(k)[j] = Tail(lane[k])
      BY <1>1, <2>1 DEF Consumed
    <3>2. i + 1 \in 1 .. Len(lane[k]) /\ Tail(lane[k])[i] = lane[k][i + 1]
      BY <1>1, <3>1
    <3>3. QED
      BY <2>1, <3>1, <3>2
  <2>2. CASE j # k
    BY <1>1, <2>2 DEF Consumed
  <2>3. QED
    BY <2>1, <2>2
<1>5. Waiting(lane, Head(lane[k]))
  BY <1>3 DEF Waiting
<1>6. ASSUME NEW x, Waiting(Consumed(k), x)
      PROVE  Waiting(lane, x)
  <2>1. PICK j \in Lanes : \E i \in 1 .. Len(Consumed(k)[j]) : Consumed(k)[j][i] = x
    BY <1>6 DEF Waiting
  <2>2. \E h \in 1 .. Len(lane[j]) : lane[j][h] = x
    BY <1>4, <2>1
  <2>3. QED
    BY <2>2 DEF Waiting
<1>7. QED
  BY <1>2, <1>3, <1>5, <1>6

\* Nothing is in a lane at first.
LEMMA InitLInv == Init => LInv
  BY ZoneLinksAssumption DEF Init, LInv, TypeOK, CloseMessagesTrue, Waiting

\* What a socket thread does keeps the types and the truth of the close
\* messages: only Close pushes one.
LEMMA SocketStepLInv ==
  ASSUME LInv, NEW l \in Links, Open(l) \/ Close(l)
  PROVE  LInv'
<1> USE ZoneLinksAssumption
<1>1. TypeOK /\ lane \in [Lanes -> Seq(Messages)]
  BY DEF LInv, TypeOK
<1>2. CASE Open(l)
  <2> DEFINE m == Msg("OnRecvZoneStream", l)
  <2>1. m \in Messages /\ \A j \in Links : m # Msg("OnZoneLinkClosed", j)
    BY DEF Msg, Messages
  <2>2. lane' = PushMsg(lane, l, m)
    BY <1>2 DEF Open
  <2>3. lane' \in [Lanes -> Seq(Messages)] /\ \A x : Waiting(lane', x) => x = m \/ Waiting(lane, x)
    BY <1>1, <2>1, <2>2, PushAdds
  <2>4. TypeOK'
    BY <1>1, <1>2, <2>3 DEF TypeOK, Open
  <2>5. CloseMessagesTrue'
    BY <1>1, <1>2, <2>1, <2>3 DEF LInv, TypeOK, CloseMessagesTrue, Open
  <2>6. QED
    BY <2>4, <2>5 DEF LInv
<1>3. CASE Close(l)
  <2> DEFINE m == Msg("OnZoneLinkClosed", l)
  <2>1. m \in Messages /\ \A j \in Links : m = Msg("OnZoneLinkClosed", j) => j = l
    BY DEF Msg, Messages
  <2>2. lane' = PushMsg(lane, l, m)
    BY <1>3 DEF Close
  <2>3. lane' \in [Lanes -> Seq(Messages)] /\ \A x : Waiting(lane', x) => x = m \/ Waiting(lane, x)
    BY <1>1, <2>1, <2>2, PushAdds
  <2>4. TypeOK'
    BY <1>1, <1>3, <2>3 DEF TypeOK, Close
  <2>5. CloseMessagesTrue'
    BY <1>1, <1>3, <2>1, <2>3 DEF LInv, TypeOK, CloseMessagesTrue, Close
  <2>6. QED
    BY <2>4, <2>5 DEF LInv
<1>4. QED
  BY <1>2, <1>3

\* A lane only takes messages or passes on a registration.
LEMMA LaneStepLInv ==
  ASSUME LInv, NEW k \in Lanes, LaneStep(k)
  PROVE  LInv'
<1> USE ZoneLinksAssumption
<1> DEFINE l == Head(lane[k]).link
<1>1. TypeOK /\ lane[k] # <<>>
  BY DEF LInv, LaneStep, OnRecvZoneStream, HandleZoneRegister, OnZoneLinkClosed, AtHead
<1>2. l \in Links /\ ZoneOf[l] \in Zones
  BY <1>1, ConsumedRemoves DEF Messages
<1>3. /\ lane' \in [Lanes -> Seq(Messages)]
      /\ \A x : Waiting(lane', x) => x = Msg("FromZoneStream", l) \/ Waiting(lane, x)
  <2>1. CASE OnRecvZoneStream(k)
    <3>1. lane' = PushMsg(Consumed(k), ZoneOf[l], Msg("FromZoneStream", l))
      BY <2>1 DEF OnRecvZoneStream, PushToZone
    <3>2. Msg("FromZoneStream", l) \in Messages
      BY <1>2 DEF Msg, Messages
    <3>3. QED
      BY <1>1, <1>2, <3>1, <3>2, ConsumedRemoves, PushAdds
  <2>2. CASE HandleZoneRegister(k) \/ OnZoneLinkClosed(k)
    BY <1>1, <2>2, ConsumedRemoves DEF HandleZoneRegister, OnZoneLinkClosed
  <2>3. QED
    BY <2>1, <2>2 DEF LaneStep
<1>4. link' = link
  BY DEF LaneStep, OnRecvZoneStream, HandleZoneRegister, OnZoneLinkClosed
<1>5. TypeOK'
  <2>1. CASE OnRecvZoneStream(k)
    BY <1>1, <1>3, <2>1 DEF TypeOK, OnRecvZoneStream
  <2>2. CASE HandleZoneRegister(k)
    BY <1>1, <1>2, <1>3, <2>2 DEF TypeOK, HandleZoneRegister
  <2>3. CASE OnZoneLinkClosed(k)
    BY <1>1, <1>3, <2>3 DEF TypeOK, OnZoneLinkClosed, RemoveBySession
  <2>4. QED
    BY <2>1, <2>2, <2>3 DEF LaneStep
<1>6. CloseMessagesTrue'
  <2>1. \A j \in Links : Msg("OnZoneLinkClosed", j) # Msg("FromZoneStream", l)
    BY DEF Msg
  <2>2. QED
    BY <1>3, <1>4, <2>1 DEF LInv, CloseMessagesTrue
<1>7. QED
  BY <1>5, <1>6 DEF LInv

\* Every step keeps the types and the truth of the close messages.
LEMMA StepLInv == LInv /\ [Next]_vars => LInv'
<1> SUFFICES ASSUME LInv, [Next]_vars PROVE LInv'
  OBVIOUS
<1>1. CASE UNCHANGED vars
  BY <1>1 DEF LInv, TypeOK, CloseMessagesTrue, Waiting, vars
<1>2. QED
  BY <1>1, SocketStepLInv, LaneStepLInv DEF Next

\* Messages, registry and histories keep their types.
THEOREM TypeCorrect == Spec => []TypeOK
<1>1. LInv => TypeOK
  BY DEF LInv
<1>2. QED
  BY InitLInv, StepLInv, <1>1, PTL DEF Spec

\* A close message in a lane tells the truth.
THEOREM CloseMessagesAreTrue == Spec => []CloseMessagesTrue
<1>1. LInv => CloseMessagesTrue
  BY DEF LInv
<1>2. QED
  BY InitLInv, StepLInv, <1>1, PTL DEF Spec

\* Whatever the lanes do with registrations and closes of old and new links
\* of a zone, a link that is open is never unregistered.
THEOREM OpenLinksStayRegistered == Spec => OnlyClosedRemoved
<1> DEFINE Kept == \A z \in Zones :
               zones[z] # NoLink /\ zones'[z] = NoLink => link[zones[z]] = "closed"
<1>1. LInv /\ [Next]_vars => [Kept]_vars
  <2> SUFFICES ASSUME LInv, Next PROVE Kept
    OBVIOUS
  <2> SUFFICES ASSUME NEW z \in Zones, zones[z] # NoLink, zones'[z] = NoLink
               PROVE  link[zones[z]] = "closed"
    OBVIOUS
  <2> USE ZoneLinksAssumption
  <2>1. PICK k \in Lanes : HandleZoneRegister(k) \/ OnZoneLinkClosed(k)
    BY DEF Next, LaneStep, Open, Close, OnRecvZoneStream
  <2>2. TypeOK /\ lane[k] # <<>>
    BY <2>1 DEF LInv, HandleZoneRegister, OnZoneLinkClosed, AtHead
  <2>3. Head(lane[k]).link \in Links
    BY <2>2, ConsumedRemoves DEF Messages
  <2>4. ~HandleZoneRegister(k)
    BY <2>2, <2>3 DEF HandleZoneRegister, TypeOK
  <2>5. zones[z] = Head(lane[k]).link
    BY <2>1, <2>4 DEF OnZoneLinkClosed, RemoveBySession
  <2>6. link[Head(lane[k]).link] = "closed"
    <3>1. Head(lane[k]) = Msg("OnZoneLinkClosed", Head(lane[k]).link)
      BY <2>1, <2>2, <2>4, ConsumedRemoves DEF OnZoneLinkClosed, AtHead, Msg, Messages
    <3>2. QED
      BY <2>2, <2>3, <3>1, ConsumedRemoves DEF LInv, CloseMessagesTrue
  <2>7. QED
    BY <2>5, <2>6
<1>2. QED
  BY InitLInv, StepLInv, <1>1, PTL DEF Spec, OnlyClosedRemoved

(***************************************************************************)
(* The registry follows the links.  A link that is open and was not        *)
(* overtaken is registered or its registration is on its way; one that is  *)
(* registered and closed, and was not registered late, has its close on    *)
(* its way.  Once nothing is on its way, the registry is right.            *)
(***************************************************************************)

\* The registration of l is in one of the queues.
Pending(queues, l) ==
    Waiting(queues, Msg("OnRecvZoneStream", l)) \/ Waiting(queues, Msg("FromZoneStream", l))

\* Whatever is named anywhere has been opened, and by its own zone.
WasOpened ==
    /\ \A l \in Links : Pending(lane, l) => link[l] # "down"
    /\ \A z \in Zones : zones[z] # NoLink => ZoneOf[zones[z]] = z /\ link[zones[z]] # "down"
    /\ \A z \in Zones : latest[z] # NoLink => ZoneOf[latest[z]] = z /\ link[latest[z]] # "down"

OpenIsOnItsWay ==
    \A z \in Zones \ overtaken :
        latest[z] # NoLink /\ link[latest[z]] = "open" => Pending(lane, latest[z]) \/ zones[z] = latest[z]

ClosedIsOnItsWay ==
    \A z \in Zones :
        zones[z] # NoLink /\ link[zones[z]] = "closed" /\ zones[z] \notin late =>
            Waiting(lane, Msg("OnZoneLinkClosed", zones[z]))

RInv == LInv /\ WasOpened /\ OpenIsOnItsWay /\ ClosedIsOnItsWay

\* A push loses nothing of what is in the lanes.
LEMMA PushKeeps ==
  ASSUME NEW queues \in [Lanes -> Seq(Messages)], NEW owner \in Links \cup Zones,
         NEW m \in Messages
  PROVE  /\ Waiting(PushMsg(queues, owner, m), m)
         /\ \A x : Waiting(queues, x) => Waiting(PushMsg(queues, owner, m), x)
<1> DEFINE k == LaneOf[owner]
           after == PushMsg(queues, owner, m)
<1>1. k \in Lanes /\ queues[k] \in Seq(Messages)
  BY ZoneLinksAssumption
<1>2. after[k] = Append(queues[k], m) /\ \A j \in Lanes \ {k} : after[j] = queues[j]
  BY <1>1 DEF PushMsg
<1>3. /\ Len(after[k]) = Len(queues[k]) + 1 /\ after[k][Len(queues[k]) + 1] = m
      /\ \A i \in 1 .. Len(queues[k]) : i \in 1 .. Len(after[k]) /\ after[k][i] = queues[k][i]
  BY <1>1, <1>2
<1>4. Len(queues[k]) + 1 \in 1 .. Len(after[k])
  BY <1>1, <1>3
<1>5. Waiting(after, m)
  BY <1>1, <1>3, <1>4 DEF Waiting
<1>6. ASSUME NEW x, Waiting(queues, x) PROVE Waiting(after, x)
  <2>1. PICK j \in Lanes : \E i \in 1 .. Len(queues[j]) : queues[j][i] = x
    BY <1>6 DEF Waiting
  <2>2. \E i \in 1 .. Len(after[j]) : after[j][i] = x
    BY <1>2, <1>3, <2>1
  <2>3. QED
    BY <2>2 DEF Waiting
<1>7. QED
  BY <1>5, <1>6

\* Taking the first message of a lane loses no other.
LEMMA ConsumedKeeps ==
  ASSUME TypeOK, NEW k \in Lanes, lane[k] # <<>>,
         NEW x, Waiting(lane, x), x # Head(lane[k])
  PROVE  Waiting(Consumed(k), x)
<1>1. lane[k] \in Seq(Messages) /\ lane \in [Lanes -> Seq(Messages)]
  BY DEF TypeOK
<1>2. PICK j \in Lanes : \E i \in 1 .. Len(lane[j]) : lane[j][i] = x
  BY DEF Waiting
<1>3. CASE j = k
  <2>1. PICK i \in 1 .. Len(lane[k]) : lane[k][i] = x
    BY <1>2, <1>3
  <2>2. i # 1
    BY <1>1, <2>1
  <2>3. Consumed(k)[k] = Tail(lane[k])
    BY <1>1 DEF Consumed
  <2>4. i - 1 \in 1 .. Len(Tail(lane[k])) /\ Tail(lane[k])[i - 1] = lane[k][i]
    BY <1>1, <2>1, <2>2
  <2>5. QED
    BY <2>1, <2>3, <2>4 DEF Waiting
<1>4. CASE j # k
  <2>1. Consumed(k)[j] = lane[j]
    BY <1>1, <1>4 DEF Consumed
  <2>2. QED
    BY <1>2, <2>1 DEF Waiting
<1>5. QED
  BY <1>3, <1>4

LEMMA InitRInv == Init => RInv
<1> SUFFICES ASSUME Init PROVE RInv
  OBVIOUS
<1>1. LInv
  BY InitLInv
<1>2. \A x : ~Waiting(lane, x)
  BY DEF Init, Waiting
<1>3. WasOpened /\ OpenIsOnItsWay /\ ClosedIsOnItsWay
  BY <1>2 DEF Init, WasOpened, OpenIsOnItsWay, ClosedIsOnItsWay, Pending
<1>4. QED
  BY <1>1, <1>3 DEF RInv

\* A link that opens is the latest of its zone, and its registration is the
\* message that is pushed; it was down, so nobody names it yet.
LEMMA OpenRInv ==
  ASSUME RInv, NEW l \in Links, Open(l)
  PROVE  RInv'
<1> USE ZoneLinksAssumption
<1> DEFINE m == Msg("OnRecvZoneStream", l)
<1>1. /\ TypeOK /\ WasOpened /\ OpenIsOnItsWay /\ ClosedIsOnItsWay /\ LInv'
      /\ lane \in [Lanes -> Seq(Messages)] /\ m \in Messages
  BY SocketStepLInv DEF RInv, LInv, TypeOK, Msg, Messages
<1>2. /\ link[l] = "down" /\ link' = [link EXCEPT ![l] = "open"]
      /\ latest' = [latest EXCEPT ![ZoneOf[l]] = l]
      /\ zones' = zones /\ late' = late /\ overtaken' = overtaken
      /\ lane' = PushMsg(lane, l, m)
  BY DEF Open
<1>3. /\ \A x : Waiting(lane', x) <=> x = m \/ Waiting(lane, x)
      /\ \A t : \A j \in Links : Msg(t, j) = m => j = l /\ t = "OnRecvZoneStream"
  <2>1. \A x : Waiting(lane', x) <=> x = m \/ Waiting(lane, x)
    BY <1>1, <1>2, PushAdds, PushKeeps
  <2>2. QED
    BY <2>1 DEF Msg
<1>4. \A j \in Links : Pending(lane', j) <=> j = l \/ Pending(lane, j)
  BY <1>3 DEF Pending
<1>5. /\ link' \in [Links -> {"down", "open", "closed"}] /\ link'[l] = "open"
      /\ \A j \in Links : j # l => link'[j] = link[j]
      /\ latest'[ZoneOf[l]] = l /\ ZoneOf[l] \in Zones
      /\ \A z \in Zones : z # ZoneOf[l] => latest'[z] = latest[z]
  BY <1>1, <1>2 DEF TypeOK
<1>6. \A z \in Zones : zones[z] \in Links \cup {NoLink} /\ latest[z] \in Links \cup {NoLink}
  BY <1>1 DEF TypeOK
<1>7. WasOpened'
  BY <1>1, <1>2, <1>4, <1>5, <1>6 DEF WasOpened
<1>8. OpenIsOnItsWay'
  <2> SUFFICES ASSUME NEW z \in Zones \ overtaken, latest'[z] # NoLink, link'[latest'[z]] = "open"
               PROVE  Pending(lane', latest'[z]) \/ zones[z] = latest'[z]
    BY <1>2 DEF OpenIsOnItsWay
  <2>1. CASE z = ZoneOf[l]
    BY <1>4, <1>5, <2>1
  <2>2. CASE z # ZoneOf[l]
    <3>1. latest'[z] = latest[z] /\ latest[z] \in Links
      BY <1>5, <1>6, <2>2
    <3>2. latest[z] # l
      BY <1>1, <2>2, <3>1 DEF WasOpened
    <3>3. QED
      BY <1>1, <1>4, <1>5, <3>1, <3>2 DEF OpenIsOnItsWay
  <2>3. QED
    BY <2>1, <2>2
<1>9. ClosedIsOnItsWay'
  BY <1>1, <1>2, <1>3, <1>5, <1>6 DEF ClosedIsOnItsWay
<1>10. QED
  BY <1>1, <1>7, <1>8, <1>9 DEF RInv

\* A link that closes pushes its close.
LEMMA CloseRInv ==
  ASSUME RInv, NEW l \in Links, Close(l)
  PROVE  RInv'
<1> USE ZoneLinksAssumption
<1> DEFINE m == Msg("OnZoneLinkClosed", l)
<1>1. /\ TypeOK /\ WasOpened /\ OpenIsOnItsWay /\ ClosedIsOnItsWay /\ LInv'
      /\ lane \in [Lanes -> Seq(Messages)] /\ m \in Messages
  BY SocketStepLInv DEF RInv, LInv, TypeOK, Msg, Messages
<1>2. /\ link[l] = "open" /\ link' = [link EXCEPT ![l] = "closed"]
      /\ zones' = zones /\ late' = late /\ overtaken' = overtaken /\ latest' = latest
      /\ lane' = PushMsg(lane, l, m)
  BY DEF Close
<1>3. /\ \A x : Waiting(lane', x) <=> x = m \/ Waiting(lane, x)
      /\ \A t : \A j \in Links : Msg(t, j) = m => j = l /\ t = "OnZoneLinkClosed"
  <2>1. \A x : Waiting(lane', x) <=> x = m \/ Waiting(lane, x)
    BY <1>1, <1>2, PushAdds, PushKeeps
  <2>2. QED
    BY <2>1 DEF Msg
<1>4. \A j \in Links : Pending(lane', j) <=> Pending(lane, j)
  BY <1>3 DEF Pending
<1>5. link'[l] = "closed" /\ \A j \in Links : j # l => link'[j] = link[j]
  BY <1>1, <1>2 DEF TypeOK
<1>6. \A z \in Zones : zones[z] \in Links \cup {NoLink} /\ latest[z] \in Links \cup {NoLink}
  BY <1>1 DEF TypeOK
<1>7. WasOpened'
  BY <1>1, <1>2, <1>4, <1>5, <1>6 DEF WasOpened
<1>8. OpenIsOnItsWay'
  BY <1>1, <1>2, <1>4, <1>5, <1>6 DEF OpenIsOnItsWay
<1>9. ClosedIsOnItsWay'
  BY <1>1, <1>2, <1>3, <1>5, <1>6 DEF ClosedIsOnItsWay
<1>10. QED
  BY <1>1, <1>7, <1>8, <1>9 DEF RInv

\* A registration that changes its lane stays pending.
LEMMA PassOnRInv ==
  ASSUME RInv, NEW k \in Lanes, OnRecvZoneStream(k)
  PROVE  RInv'
<1> USE ZoneLinksAssumption
<1> DEFINE l == Head(lane[k]).link
           m == Msg("FromZoneStream", l)
<1>1. /\ TypeOK /\ WasOpened /\ OpenIsOnItsWay /\ ClosedIsOnItsWay /\ LInv'
      /\ lane[k] # <<>> /\ Head(lane[k]).type = "OnRecvZoneStream"
  BY LaneStepLInv DEF RInv, LInv, OnRecvZoneStream, AtHead, LaneStep
<1>2. /\ Head(lane[k]) \in Messages /\ Consumed(k) \in [Lanes -> Seq(Messages)]
      /\ Waiting(lane, Head(lane[k])) /\ \A x : Waiting(Consumed(k), x) => Waiting(lane, x)
  BY <1>1, ConsumedRemoves
<1>3. /\ l \in Links /\ m \in Messages /\ Head(lane[k]) = Msg("OnRecvZoneStream", l)
  BY <1>1, <1>2 DEF Msg, Messages
<1>4. /\ lane' = PushMsg(Consumed(k), ZoneOf[l], m) /\ ZoneOf[l] \in Zones
      /\ UNCHANGED <<link, zones, late, latest, overtaken>>
  BY <1>3 DEF OnRecvZoneStream, PushToZone
<1>5. /\ Waiting(lane', m)
      /\ \A x : Waiting(lane', x) => x = m \/ Waiting(lane, x)
      /\ \A x : Waiting(lane, x) /\ x # Head(lane[k]) => Waiting(lane', x)
  <2>1. /\ Waiting(lane', m)
        /\ \A x : Waiting(lane', x) => x = m \/ Waiting(Consumed(k), x)
        /\ \A x : Waiting(Consumed(k), x) => Waiting(lane', x)
    BY <1>2, <1>3, <1>4, PushAdds, PushKeeps
  <2>2. \A x : Waiting(lane, x) /\ x # Head(lane[k]) => Waiting(Consumed(k), x)
    BY <1>1, ConsumedKeeps
  <2>3. QED
    BY <1>2, <2>1, <2>2
<1>6. /\ \A t : \A j \in Links : Msg(t, j) = m => j = l
      /\ \A t : \A j \in Links : Msg(t, j) = Head(lane[k]) => j = l /\ t = "OnRecvZoneStream"
      /\ \A j \in Links : Msg("OnZoneLinkClosed", j) # m
  BY <1>3 DEF Msg
<1>7. \A j \in Links : Pending(lane', j) <=> Pending(lane, j)
  <2>1. ASSUME NEW j \in Links, j # l PROVE Pending(lane', j) <=> Pending(lane, j)
    BY <1>5, <1>6, <2>1 DEF Pending
  <2>2. Pending(lane, l) /\ Pending(lane', l)
    BY <1>2, <1>3, <1>5 DEF Pending
  <2>3. QED
    BY <2>1, <2>2
<1>8. \A j \in Links : Waiting(lane, Msg("OnZoneLinkClosed", j)) => Waiting(lane', Msg("OnZoneLinkClosed", j))
  BY <1>5, <1>6
<1>9. \A z \in Zones : zones[z] \in Links \cup {NoLink} /\ latest[z] \in Links \cup {NoLink}
  BY <1>1 DEF TypeOK
<1>10. WasOpened' /\ OpenIsOnItsWay' /\ ClosedIsOnItsWay'
  BY <1>1, <1>4, <1>7, <1>8, <1>9 DEF WasOpened, OpenIsOnItsWay, ClosedIsOnItsWay
<1>11. QED
  BY <1>1, <1>10 DEF RInv

\* A registration that is handled takes the place of another of its zone,
\* which is then overtaken if it was the latest.
LEMMA RegisterRInv ==
  ASSUME RInv, NEW k \in Lanes, HandleZoneRegister(k)
  PROVE  RInv'
<1> USE ZoneLinksAssumption
<1> DEFINE l == Head(lane[k]).link
<1>1. /\ TypeOK /\ WasOpened /\ OpenIsOnItsWay /\ ClosedIsOnItsWay /\ LInv'
      /\ lane[k] # <<>> /\ Head(lane[k]).type = "FromZoneStream"
  BY LaneStepLInv DEF RInv, LInv, HandleZoneRegister, AtHead, LaneStep
<1>2. /\ Head(lane[k]) \in Messages
      /\ Waiting(lane, Head(lane[k])) /\ \A x : Waiting(Consumed(k), x) => Waiting(lane, x)
  BY <1>1, ConsumedRemoves
<1>3. /\ l \in Links /\ ZoneOf[l] \in Zones /\ Head(lane[k]) = Msg("FromZoneStream", l)
  BY <1>1, <1>2 DEF Msg, Messages
<1>4. /\ lane' = Consumed(k) /\ link' = link /\ latest' = latest
      /\ zones' = [zones EXCEPT ![ZoneOf[l]] = l]
      /\ late' = IF link[l] = "closed" /\ ~Waiting(lane, Msg("OnZoneLinkClosed", l))
                 THEN late \cup {l} ELSE late
      /\ overtaken' = IF latest[ZoneOf[l]] # l /\ zones[ZoneOf[l]] = latest[ZoneOf[l]]
                      THEN overtaken \cup {ZoneOf[l]} ELSE overtaken
  BY DEF HandleZoneRegister
<1>5. \A x : Waiting(lane, x) /\ x # Head(lane[k]) => Waiting(lane', x)
  BY <1>1, <1>4, ConsumedKeeps
<1>6. \A t : \A j \in Links : Msg(t, j) = Head(lane[k]) => j = l /\ t = "FromZoneStream"
  BY <1>3 DEF Msg
<1>7. /\ \A j \in Links : Pending(lane', j) => Pending(lane, j)
      /\ \A j \in Links : j # l /\ Pending(lane, j) => Pending(lane', j)
      /\ \A j \in Links : Waiting(lane, Msg("OnZoneLinkClosed", j)) => Waiting(lane', Msg("OnZoneLinkClosed", j))
  BY <1>2, <1>4, <1>5, <1>6 DEF Pending
<1>8. /\ \A z \in Zones : zones[z] \in Links \cup {NoLink} /\ latest[z] \in Links \cup {NoLink}
      /\ zones'[ZoneOf[l]] = l /\ \A z \in Zones : z # ZoneOf[l] => zones'[z] = zones[z]
  BY <1>1, <1>3, <1>4 DEF TypeOK
<1>9. link[l] # "down"
  BY <1>1, <1>2, <1>3 DEF WasOpened, Pending
<1>10. WasOpened'
  BY <1>1, <1>3, <1>4, <1>7, <1>8, <1>9 DEF WasOpened
<1>11. OpenIsOnItsWay'
  <2> SUFFICES ASSUME NEW z \in Zones, z \notin overtaken', latest[z] # NoLink, link[latest[z]] = "open"
               PROVE  Pending(lane', latest[z]) \/ zones'[z] = latest[z]
    BY <1>4 DEF OpenIsOnItsWay
  <2>1. z \notin overtaken /\ latest[z] \in Links /\ ZoneOf[latest[z]] = z
    BY <1>1, <1>4, <1>8 DEF WasOpened
  <2>2. CASE latest[z] = l
    BY <1>8, <2>1, <2>2
  <2>3. CASE latest[z] # l
    <3>1. z = ZoneOf[l] => zones[z] # latest[z]
      BY <1>4, <2>3
    <3>2. Pending(lane, latest[z]) \/ zones[z] = latest[z]
      BY <1>1, <2>1 DEF OpenIsOnItsWay
    <3>3. QED
      BY <1>7, <1>8, <2>1, <2>3, <3>1, <3>2
  <2>4. QED
    BY <2>2, <2>3
<1>12. ClosedIsOnItsWay'
  <2> SUFFICES ASSUME NEW z \in Zones, zones'[z] # NoLink, link[zones'[z]] = "closed", zones'[z] \notin late'
               PROVE  Waiting(lane', Msg("OnZoneLinkClosed", zones'[z]))
    BY <1>4 DEF ClosedIsOnItsWay
  <2>1. CASE z = ZoneOf[l]
    BY <1>3, <1>4, <1>7, <1>8, <2>1
  <2>2. CASE z # ZoneOf[l]
    BY <1>1, <1>4, <1>7, <1>8, <2>2 DEF ClosedIsOnItsWay
  <2>3. QED
    BY <2>1, <2>2
<1>13. QED
  BY <1>1, <1>10, <1>11, <1>12 DEF RInv

\* A close that is handled takes its own link out of the registry, which is
\* closed, and no other.
LEMMA ClosedRInv ==
  ASSUME RInv, NEW k \in Lanes, OnZoneLinkClosed(k)
  PROVE  RInv'
<1> USE ZoneLinksAssumption
<1> DEFINE l == Head(lane[k]).link
<1>1. /\ TypeOK /\ WasOpened /\ OpenIsOnItsWay /\ ClosedIsOnItsWay /\ CloseMessagesTrue /\ LInv'
      /\ lane[k] # <<>> /\ Head(lane[k]).type = "OnZoneLinkClosed"
  BY LaneStepLInv DEF RInv, LInv, OnZoneLinkClosed, AtHead, LaneStep
<1>2. /\ Head(lane[k]) \in Messages
      /\ Waiting(lane, Head(lane[k])) /\ \A x : Waiting(Consumed(k), x) => Waiting(lane, x)
  BY <1>1, ConsumedRemoves
<1>3. /\ l \in Links /\ Head(lane[k]) = Msg("OnZoneLinkClosed", l)
  BY <1>1, <1>2 DEF Msg, Messages
<1>4. /\ lane' = Consumed(k) /\ UNCHANGED <<link, late, latest, overtaken>>
      /\ \A z \in Zones : zones'[z] = IF zones[z] = l THEN NoLink ELSE zones[z]
  BY DEF OnZoneLinkClosed, RemoveBySession
<1>5. \A x : Waiting(lane, x) /\ x # Head(lane[k]) => Waiting(lane', x)
  BY <1>1, <1>4, ConsumedKeeps
<1>6. \A t : \A j \in Links : Msg(t, j) = Head(lane[k]) => j = l /\ t = "OnZoneLinkClosed"
  BY <1>3 DEF Msg
<1>7. /\ \A j \in Links : Pending(lane', j) <=> Pending(lane, j)
      /\ \A j \in Links : j # l /\ Waiting(lane, Msg("OnZoneLinkClosed", j))
                              => Waiting(lane', Msg("OnZoneLinkClosed", j))
  BY <1>2, <1>4, <1>5, <1>6 DEF Pending
<1>8. \A z \in Zones : zones[z] \in Links \cup {NoLink} /\ latest[z] \in Links \cup {NoLink}
  BY <1>1 DEF TypeOK
<1>9. link[l] = "closed"
  BY <1>1, <1>2, <1>3 DEF CloseMessagesTrue
<1>10. WasOpened' /\ OpenIsOnItsWay' /\ ClosedIsOnItsWay'
  BY <1>1, <1>3, <1>4, <1>7, <1>8, <1>9 DEF WasOpened, OpenIsOnItsWay, ClosedIsOnItsWay
<1>11. QED
  BY <1>1, <1>10 DEF RInv

\* Every registration and every close is on its way until it is handled.
THEOREM NothingIsForgotten == Spec => []RInv
<1>1. RInv /\ [Next]_vars => RInv'
  <2> SUFFICES ASSUME RInv, [Next]_vars PROVE RInv'
    OBVIOUS
  <2>1. CASE UNCHANGED vars
    <3>1. LInv'
      BY <2>1, StepLInv DEF RInv
    <3>2. QED
      BY <2>1, <3>1 DEF RInv, WasOpened, OpenIsOnItsWay, ClosedIsOnItsWay, Pending, Waiting, vars
  <2>2. CASE Next
    BY <2>2, OpenRInv, CloseRInv, PassOnRInv, RegisterRInv, ClosedRInv DEF Next, LaneStep
  <2>3. QED
    BY <2>1, <2>2
<1>2. QED
  BY InitRInv, <1>1, PTL DEF Spec

\* Whatever zone servers come and go and however the lanes interleave, once
\* every message is handled World routes a zone to the link it opened last
\* if that is open and to no closed one, but for registrations that came late
\* or overtook (Z2WHandler::OnPacket and OnClosed, HandleZoneRegister).
THEOREM RegistryIsRight == Spec => []RegistryFollowsLinks
<1>1. RInv => RegistryFollowsLinks
  <2> SUFFICES ASSUME RInv, Settled, NEW z \in Zones \ overtaken,
                      latest[z] # NoLink, latest[z] \notin late
               PROVE  \/ link[latest[z]] = "open" /\ zones[z] = latest[z]
                      \/ link[latest[z]] = "closed" /\ zones[z] # latest[z]
    BY DEF RegistryFollowsLinks
  <2>1. \A x : ~Waiting(lane, x)
    BY DEF Settled, Waiting
  <2>2. link[latest[z]] \in {"open", "closed"}
    BY DEF RInv, LInv, TypeOK, WasOpened
  <2>3. QED
    BY <2>1, <2>2 DEF RInv, OpenIsOnItsWay, ClosedIsOnItsWay, Pending
<1>2. QED
  BY NothingIsForgotten, <1>1, PTL
=============================================================================
