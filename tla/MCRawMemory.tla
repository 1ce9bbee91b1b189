----------------------------- MODULE MCRawMemory -----------------------------
(* A small instance of RawMemory: three turns of which the second is long, so *)
(* that the soft watermark, the hard cap and the escalation are all reached.  *)
EXTENDS RawMemory

CONSTANTS t1, t2, t3

MCTurn == {t1, t2, t3}
MCWeight == t1 :> 1 @@ t2 :> 3 @@ t3 :> 1

=============================================================================
