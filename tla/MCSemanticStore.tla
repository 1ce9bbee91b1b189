--------------------------- MODULE MCSemanticStore ---------------------------
(* A small instance of SemanticStore: two claims, an event on each, and a     *)
(* projection on one of the claims and the other's event; one packet and its  *)
(* review.                                                                    *)
EXTENDS SemanticStore, TLC

CONSTANTS c1, c2, e1, e2, p1, packet, review

MCClaim == {c1, c2}
MCEvent == {e1, e2}
MCProjection == {p1}
MCRefs == e1 :> {c1} @@ e2 :> {c2}
MCSupport == p1 :> {c1, e2}
MCTx == {packet, review}
MCReview == {review}
MCExtracted == packet :> {{c1, c2, e1, e2}} @@ review :> {{c1, e1}}
MCDoubtful == {c1}

=============================================================================
