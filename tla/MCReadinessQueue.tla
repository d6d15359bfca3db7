------------------------- MODULE MCReadinessQueue -------------------------
(* Instances of ReadinessQueue for TLC.                                   *)
EXTENDS ReadinessQueue, TLC

CONSTANTS e, l, o       \* an edge, a level and a oneshot node

Kind == (e :> "edge") @@ (l :> "level") @@ (o :> "oneshot")
KindOf == [n \in Nodes |-> Kind[n]]

TwoIoEvents == {0, 2}
NoIoEvents == {0}

(* Producers run the same code and no safety property names one of them.  *)
ProducerSymmetry == Permutations(Producers)
===========================================================================
