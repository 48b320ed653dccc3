---------------------------- MODULE PlayerManager ----------------------------
(***************************************************************************)
(* World's table of connected clients (WorldServer/Src/World/PlayerManager)*)
(* as operators on its value.  The C++ object sits in a Mutexed, so one    *)
(* operator is one critical section; the modules that use the table decide *)
(* which operators share a step.                                           *)
(*                                                                         *)
(* A table is [players, sessionByPlayerId], two maps represented by        *)
(* functions whose DOMAIN is the set of keys present.  Of a PlayerInfo the *)
(* name and the gateway link are left out, and of the currencies one, gold,*)
(* is kept.                                                                *)
(***************************************************************************)
EXTENDS Integers

CONSTANTS
    NoPlayer,   \* PlayerId{}, not IsValid()
    NoZone      \* ZoneId{}, no link is ever registered under it

\* A PlayerInfo before its login.
FreshInfo == [playerId |-> NoPlayer, zoneId |-> NoZone, authenticated |-> FALSE,
              mails |-> {}, gold |-> 0]

EmptyTable == [players |-> <<>>, sessionByPlayerId |-> <<>>]

With(f, x, v) == [y \in DOMAIN f \cup {x} |-> IF y = x THEN v ELSE f[y]]

Without(f, x) == [y \in DOMAIN f \ {x} |-> f[y]]

Has(t, s) == s \in DOMAIN t.players

Find(t, s) == t.players[s]

FindPlayerId(t, s) == IF Has(t, s) THEN t.players[s].playerId ELSE NoPlayer

HasPlayer(t, p) == p \in DOMAIN t.sessionByPlayerId

FindSessionByPlayerId(t, p) == t.sessionByPlayerId[p]

\* Every setter leaves the table alone when the session is gone.
Update(t, s, info) ==
    IF Has(t, s) THEN [t EXCEPT !.players[s] = info] ELSE t

Add(t, s) == [t EXCEPT !.players = With(@, s, FreshInfo)]

\* Mutant of Remove: only the session is erased.
RemoveSessionOnly(t, s) == [t EXCEPT !.players = Without(@, s)]

\* Erases the index entry of the session's player, whichever session that
\* entry points to by now.
Remove(t, s) ==
    [players |-> Without(t.players, s),
     sessionByPlayerId |-> IF FindPlayerId(t, s) # NoPlayer
                           THEN Without(t.sessionByPlayerId, FindPlayerId(t, s))
                           ELSE t.sessionByPlayerId]

SetZoneId(t, s, z) == Update(t, s, [Find(t, s) EXCEPT !.zoneId = z])

SetAuthenticated(t, s, p, mails, gold) ==
    IF ~Has(t, s) THEN t
    ELSE [players |-> [t.players EXCEPT
                        ![s] = [playerId |-> p, zoneId |-> @.zoneId, authenticated |-> TRUE,
                                mails |-> mails, gold |-> gold]],
          sessionByPlayerId |-> With(t.sessionByPlayerId, p, s)]

AddMail(t, s, m) == Update(t, s, [Find(t, s) EXCEPT !.mails = @ \cup {m}])

RemoveMail(t, s, m) == Update(t, s, [Find(t, s) EXCEPT !.mails = @ \ {m}])

SetCurrency(t, s, amount) == Update(t, s, [Find(t, s) EXCEPT !.gold = amount])
=============================================================================
