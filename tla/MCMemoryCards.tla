---------------------------- MODULE MCMemoryCards ----------------------------
(* A small instance of MemoryCards: a week of two days, a turn on each.       *)
EXTENDS MemoryCards, TLC

CONSTANTS t1, t2

MCTurn == {t1, t2}
MCDayOf == t1 :> 1 @@ t2 :> 2

=============================================================================
