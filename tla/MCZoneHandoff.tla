---------------------------- MODULE MCZoneHandoff ----------------------------
\* One account.  Accounts share nothing but the registry of zones, which does
\* not change here, so one is enough.  It connects once: what a second login of an
\* account that is already online does is left open by the code itself.  It logs
\* in once: logins of one session that overlap, which the code confirms both, are
\* outside everything that is checked here, and followed in Login.
EXTENDS ZoneHandoff

CONSTANTS s1, player

OneSession == {s1}
OnePlayer == {player}
AccountOfOne == [s \in OneSession |-> player]
=============================================================================
