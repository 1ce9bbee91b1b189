---------------------------- MODULE SelfsameTurn ----------------------------
(***************************************************************************)
(* What a turn of the runtime promises, whatever fails in between: an      *)
(* accepted event stays accounted for until it is settled, one             *)
(* authoritative answer is given to it, memory holds the turn before the   *)
(* user sees it, the user sees it once, and only then does the event close *)
(* by itself.  SELFSAME_PROTOCOL.md 4.6 and 5 state the same in prose.     *)
(***************************************************************************)
EXTENDS Naturals

CONSTANTS
  Update,       \* the ingress events
  Silent        \* those that call for no answer

VARIABLES
  status,       \* where each event stands in the inbox
  answers,      \* committed answers
  remembered,   \* events whose turn is in memory
  shown         \* answers the user has seen

svars == <<status, answers, remembered, shown>>

Init ==
  /\ status = [u \in Update |-> "unseen"]
  /\ answers = [u \in Update |-> 0]
  /\ remembered = {}
  /\ shown = [u \in Update |-> 0]

Moves(u, from, to) ==
  /\ status[u] \in from
  /\ status' = [status EXCEPT ![u] = to]
  /\ UNCHANGED <<answers, remembered, shown>>

Accept(u) == Moves(u, {"unseen"}, "open")

Answer(u) ==
  /\ status[u] = "open" /\ answers[u] = 0
  /\ answers' = [answers EXCEPT ![u] = 1]
  /\ UNCHANGED <<status, remembered, shown>>

Remember(u) ==
  /\ status[u] = "open" /\ answers[u] = 1
  /\ remembered' = remembered \cup {u}
  /\ UNCHANGED <<status, answers, shown>>

Show(u) ==
  /\ status[u] = "open" /\ u \in remembered /\ shown[u] = 0
  /\ shown' = [shown EXCEPT ![u] = 1]
  /\ UNCHANGED <<status, answers, remembered>>

Finish(u) ==
  /\ u \in Silent \/ shown[u] = 1
  /\ Moves(u, {"open"}, "done")

GiveUp(u) == Moves(u, {"open"}, "parked") \/ Moves(u, {"open"}, "dead")

\* The operator's decisions.
Reopen(u) == Moves(u, {"parked", "dead", "done"}, "open")

Close(u) == Moves(u, {"parked", "dead"}, "done")

Next ==
  \E u \in Update :
    \/ Accept(u) \/ Answer(u) \/ Remember(u) \/ Show(u) \/ Finish(u)
    \/ GiveUp(u) \/ Reopen(u) \/ Close(u)

Spec == Init /\ [][Next]_svars

=============================================================================
