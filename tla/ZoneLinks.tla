------------------------------ MODULE ZoneLinks ------------------------------
(***************************************************************************)
(* World's registry of zone links (ZoneLinkRegistry) and the way a link is *)
(* registered and removed.                                                 *)
(*                                                                         *)
(* The socket thread of a link pushes what it sees, packets and then the   *)
(* close, to the BASIC lane of the link's session (Z2WHandler).  There a   *)
(* packet is pushed again, a registration to the lane of its ZONE          *)
(* (zoneOwnerIds_), while a close is handled where it is.  A zone server   *)
(* that dies and comes back connects with a new session, and World may     *)
(* notice the death of the old one later.                                  *)
(***************************************************************************)
EXTENDS Naturals, Sequences, FiniteSets

CONSTANTS
    Links,      \* sessions of zone links
    Zones,
    ZoneOf,     \* the zone that connects with the link
    Lanes,      \* BASIC lanes of World
    LaneOf,     \* LaneIndexOf: the lane of an owner, a link's session or a zone
    NoLink

ASSUME ZoneLinksAssumption ==
    /\ ZoneOf \in [Links -> Zones]
    /\ LaneOf \in [Links \cup Zones -> Lanes]
    /\ NoLink \notin Links

VARIABLES
    link,       \* per link: "down", "open" or "closed"
    lane,       \* per lane: messages waiting
    zones,      \* zones_: the link registered for a zone
    late,       \* history: links registered after their close was handled
    latest,     \* history: per zone, the link opened last
    overtaken   \* history: zones for which an older link was registered last

vars == <<link, lane, zones, late, latest, overtaken>>

Msg(type, l) == [type |-> type, link |-> l]
Messages == [type : {"OnRecvZoneStream", "FromZoneStream", "OnZoneLinkClosed"}, link : Links]

Init ==
    /\ link = [l \in Links |-> "down"]
    /\ lane = [k \in Lanes |-> <<>>]
    /\ zones = [z \in Zones |-> NoLink]
    /\ late = {}
    /\ latest = [z \in Zones |-> NoLink]
    /\ overtaken = {}

PushMsg(queues, owner, m) == [queues EXCEPT ![LaneOf[owner]] = Append(@, m)]

Waiting(queues, m) == \E k \in Lanes : \E i \in 1 .. Len(queues[k]) : queues[k][i] = m

\* W2ZHandler::OnSessionOpened sends the registration at once; Z2WHandler::
\* OnPacket pushes it under the session.
Open(l) ==
    /\ link[l] = "down"
    /\ link' = [link EXCEPT ![l] = "open"]
    /\ lane' = PushMsg(lane, l, Msg("OnRecvZoneStream", l))
    /\ latest' = [latest EXCEPT ![ZoneOf[l]] = l]
    /\ UNCHANGED <<zones, late, overtaken>>

\* Z2WHandler::OnClosed, at most once per session.
Close(l) ==
    /\ link[l] = "open"
    /\ link' = [link EXCEPT ![l] = "closed"]
    /\ lane' = PushMsg(lane, l, Msg("OnZoneLinkClosed", l))
    /\ UNCHANGED <<zones, late, latest, overtaken>>

\* The lane k is about to handle a message of the type.
AtHead(k, type) == lane[k] # <<>> /\ Head(lane[k]).type = type
Consumed(k) == [lane EXCEPT ![k] = Tail(@)]

\* Mutant: a registration that is dropped here.
PushNowhere(queues, l) == queues
PushToZone(queues, l) == PushMsg(queues, ZoneOf[l], Msg("FromZoneStream", l))

OnRecvZoneStream(k) ==
    /\ AtHead(k, "OnRecvZoneStream")
    /\ lane' = PushToZone(Consumed(k), Head(lane[k]).link)
    /\ UNCHANGED <<link, zones, late, latest, overtaken>>

\* OnFromZoneStream dispatches to HandleZoneRegister: the last one wins.
HandleZoneRegister(k) ==
    /\ AtHead(k, "FromZoneStream")
    /\ lane' = Consumed(k)
    /\ LET l == Head(lane[k]).link
           closeHandled == link[l] = "closed" /\ ~Waiting(lane, Msg("OnZoneLinkClosed", l))
       IN /\ zones' = [zones EXCEPT ![ZoneOf[l]] = l]
          /\ late' = IF closeHandled THEN late \cup {l} ELSE late
          /\ overtaken' = IF latest[ZoneOf[l]] # l /\ zones[ZoneOf[l]] = latest[ZoneOf[l]]
                          THEN overtaken \cup {ZoneOf[l]} ELSE overtaken
    /\ UNCHANGED <<link, latest>>

\* Mutants: by zone instead of by session; nothing is removed.
RemoveByZone(l) == [zones EXCEPT ![ZoneOf[l]] = NoLink]
RemoveNothing(l) == zones
RemoveBySession(l) == [z \in Zones |-> IF zones[z] = l THEN NoLink ELSE zones[z]]

OnZoneLinkClosed(k) ==
    /\ AtHead(k, "OnZoneLinkClosed")
    /\ lane' = Consumed(k)
    /\ zones' = RemoveBySession(Head(lane[k]).link)
    /\ UNCHANGED <<link, late, latest, overtaken>>

LaneStep(k) == OnRecvZoneStream(k) \/ HandleZoneRegister(k) \/ OnZoneLinkClosed(k)

Next == (\E l \in Links : Open(l) \/ Close(l)) \/ (\E k \in Lanes : LaneStep(k))

Spec == Init /\ [][Next]_vars

\* The lane threads keep running; zone servers promise nothing.
FairSpec == Spec /\ \A k \in Lanes : WF_vars(LaneStep(k))

(***************************************************************************)
(* Properties.                                                             *)
(***************************************************************************)

\* Every variable has its type.
TypeOK ==
    /\ link \in [Links -> {"down", "open", "closed"}]
    /\ lane \in [Lanes -> Seq(Messages)]
    /\ zones \in [Zones -> Links \cup {NoLink}]
    /\ late \in SUBSET Links
    /\ latest \in [Zones -> Links \cup {NoLink}]
    /\ overtaken \in SUBSET Zones

Settled == \A k \in Lanes : lane[k] = <<>>

\* A close is only in a lane when its link has closed: what makes
\* OnlyClosedRemoved inductive.
CloseMessagesTrue ==
    \A l \in Links : Waiting(lane, Msg("OnZoneLinkClosed", l)) => link[l] = "closed"

\* Closing one link never unregisters another that is alive, not even when a
\* zone server came back before the close of its old link was noticed.
OnlyClosedRemoved ==
    [][\A z \in Zones :
           zones[z] # NoLink /\ zones'[z] = NoLink => link[zones[z]] = "closed"]_vars

\* When no message is waiting, World routes a zone to the link it opened
\* last, or to none if that has closed, unless a registration was handled
\* after the close of its own link or after that of a newer link.
RegistryFollowsLinks ==
    Settled =>
        \A z \in Zones \ overtaken :
            latest[z] # NoLink /\ latest[z] \notin late =>
                \/ link[latest[z]] = "open" /\ zones[z] = latest[z]
                \/ link[latest[z]] = "closed" /\ zones[z] # latest[z]

\* A zone whose link stays up is registered sooner or later, unless another
\* link of the zone came after it or overtook it.
OpenIsRegistered ==
    \A l \in Links :
        link[l] = "open" ~>
            \/ zones[ZoneOf[l]] = l
            \/ link[l] = "closed"
            \/ latest[ZoneOf[l]] # l \/ ZoneOf[l] \in overtaken
=============================================================================
