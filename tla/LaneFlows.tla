------------------------------ MODULE LaneFlows ------------------------------
(***************************************************************************)
(* Messages, their owners, the lanes and producers they belong to, and     *)
(* what their handlers push: what both lane sets have in common.           *)
(***************************************************************************)
EXTENDS Naturals, Sequences, FiniteSets

CONSTANTS
    Msgs,       \* messages, each posted at most once
    NoMsg,
    Owners,     \* pairs of a producer and an ownerId
    OwnerOf,    \* the owner of a message
    Lanes,      \* numbers: the lanes of all producers
    LaneOf,     \* LaneIndexOf: the lane of an owner
    Producers,  \* numbers, in the order of EProducerType
    ProducerOf, \* the producer of a lane
    Pushes      \* what the handler of a message pushes, in order

External == {m \in Msgs : \A n \in Msgs : \A i \in 1 .. Len(Pushes[n]) : Pushes[n][i] # m}

ASSUME LanesAssumption ==
    /\ NoMsg \notin Msgs
    /\ OwnerOf \in [Msgs -> Owners]
    /\ Lanes \subseteq Nat
    /\ LaneOf \in [Owners -> Lanes]
    /\ Producers \subseteq Nat
    /\ ProducerOf \in [Lanes -> Producers]
    /\ Pushes \in [Msgs -> Seq(Msgs)]

\* A message has one sender, which pushes it once.
ASSUME SendersAssumption ==
    \A m, n \in Msgs : \A i \in 1 .. Len(Pushes[m]), j \in 1 .. Len(Pushes[n]) :
        Pushes[m][i] = Pushes[n][j] => m = n /\ i = j

LaneFor(m) == LaneOf[OwnerOf[m]]

\* The sender of a message that is not external.
SenderOf(m) == CHOOSE n \in Msgs : \E i \in 1 .. Len(Pushes[n]) : Pushes[n][i] = m
=============================================================================
