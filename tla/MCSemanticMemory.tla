--------------------------- MODULE MCSemanticMemory ---------------------------
(* A small instance of SemanticMemory: two packets with a message in common.   *)
EXTENDS SemanticMemory, TLC

CONSTANTS p1, p2, m1, m2

MCPacket == {p1, p2}
MCBatch == {{p1, p2}}
MCSources == p1 :> {m1} @@ p2 :> {m1, m2}

=============================================================================
