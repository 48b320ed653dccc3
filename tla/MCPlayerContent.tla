--------------------------- MODULE MCPlayerContent ---------------------------
\* One player; nothing is shared between players.
EXTENDS PlayerContent

TwoMails == <<3, 1>>
=============================================================================
