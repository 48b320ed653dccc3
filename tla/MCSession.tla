------------------------------ MODULE MCSession ------------------------------
\* One end sends from two threads and may close, the other receives; it closes
\* when it finds the frame it cannot take, or the connection lost.
EXTENDS Session, TLC

CONSTANTS a, b, t1, t2

MCEnds == {a, b}
MCPeerOf == (a :> b) @@ (b :> a)
MCSenders == {t1, t2}
MCEndOf == (t1 :> a) @@ (t2 :> a)
MCScript ==
    (t1 :> <<<<Packet(4, <<0, 0>>)>>, <<Packet(1, <<0>>)>>>>) @@
    (t2 :> <<<<Packet(2, <<0>>), Packet(3, <<0, 0>>)>>>>)

AToB == INSTANCE PacketChannel WITH
    accepted <- posted[a], delivered <- received[b], open <- ~closed[a] /\ ~closed[b] /\ ~broken

\* A connection is what PacketChannel promises: packets of all threads come
\* out once, whole and in the order they were posted, and while the
\* connection lasts all of them come out.
Delivers == AToB!Spec
=============================================================================
