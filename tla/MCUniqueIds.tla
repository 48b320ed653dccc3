----------------------------- MODULE MCUniqueIds -----------------------------
\* World with two threads that issue ids next to a zone server with one.
EXTENDS UniqueIds, TLC

CONSTANTS w, z, w1, w2, z1

MCProcesses == {w, z}
MCThreads == {w1, w2, z1}
MCServedBy == [p \in {z} |-> {1, 2}]
MCProcessOf == (w1 :> w) @@ (w2 :> w) @@ (z1 :> z)
MCMaxIds == (w :> 3) @@ (z :> 1)
MCMaxLives == (w :> 2) @@ (z :> 1)
MCSymmetry == Permutations({w1, w2})
=============================================================================
