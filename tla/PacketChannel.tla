---------------------------- MODULE PacketChannel ----------------------------
(***************************************************************************)
(* What a connection promises about one direction: the packets handed to   *)
(* it come out in the order they were accepted, each once and unchanged,   *)
(* until the connection ends; as long as it lasts, they all come out.      *)
(***************************************************************************)
EXTENDS Naturals, Sequences

VARIABLES
    accepted,   \* packets taken for sending so far, in order
    delivered,  \* packets given to the other side so far
    open        \* the connection has not ended

vars == <<accepted, delivered, open>>

Init == accepted = <<>> /\ delivered = <<>> /\ open = TRUE

Accept ==
    /\ \E n \in 1 .. Len(accepted') : accepted' = accepted \o SubSeq(accepted', Len(accepted') - n + 1, Len(accepted'))
    /\ UNCHANGED <<delivered, open>>

Deliver ==
    /\ Len(delivered) < Len(accepted)
    /\ delivered' = Append(delivered, accepted[Len(delivered) + 1])
    /\ UNCHANGED <<accepted, open>>

End ==
    /\ open /\ ~open'
    /\ UNCHANGED <<accepted, delivered>>

Next == Accept \/ Deliver \/ End

Spec == Init /\ [][Next]_vars /\ WF_vars(open /\ Deliver)
=============================================================================
