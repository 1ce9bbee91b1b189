--------------------------- MODULE MaintenanceLoop ---------------------------
(* The loop that drives memory maintenance (runtime/memory/                   *)
(* maintenance-supervisor.cjs): one timer, one cycle at a time, and triggers  *)
(* from committed turns that must not be lost while a cycle runs.             *)

VARIABLES
  timer,     \* "none", "now" for a delay of zero, or "later"
  running,   \* is a cycle under way
  runAgain,  \* must another follow it at once
  stopped,
  asked      \* history: a trigger was accepted and no cycle began since

loopVars == <<timer, running, runAgain, stopped, asked>>

LoopInit ==
  /\ timer = "none" /\ running = FALSE /\ runAgain = FALSE
  /\ stopped = TRUE /\ asked = FALSE

\* _schedule: nothing is armed once the loop is stopped.
Schedule(delay) == timer' = IF stopped THEN timer ELSE delay

Start ==
  /\ stopped
  /\ stopped' = FALSE /\ timer' = "now"
  /\ UNCHANGED <<running, runAgain, asked>>

Stop ==
  /\ ~stopped
  /\ stopped' = TRUE /\ runAgain' = FALSE /\ timer' = "none"
  /\ UNCHANGED <<running, asked>>

\* Mutant of Trigger: a cycle under way is taken to serve the trigger.
TriggerServed ==
  /\ ~stopped
  /\ IF running THEN UNCHANGED timer ELSE Schedule("now")
  /\ asked' = TRUE
  /\ UNCHANGED <<running, runAgain, stopped>>

Trigger ==
  /\ ~stopped
  /\ IF running THEN runAgain' = TRUE /\ UNCHANGED timer
     ELSE Schedule("now") /\ UNCHANGED runAgain
  /\ asked' = TRUE
  /\ UNCHANGED <<running, stopped>>

\* The timer fires.
CycleBegins ==
  /\ timer # "none" /\ ~running
  /\ timer' = "none" /\ running' = TRUE /\ asked' = FALSE
  /\ UNCHANGED <<runAgain, stopped>>

\* Whatever the cycle came to, the next is scheduled: at once if a trigger came in
\* during it, else after the delay for work done, none found, or a failure.
CycleEnds ==
  /\ running
  /\ running' = FALSE /\ runAgain' = FALSE
  /\ Schedule(IF runAgain THEN "now" ELSE "later")
  /\ UNCHANGED <<stopped, asked>>

\* The process is gone, and the loop with it.
LoopLost ==
  /\ timer' = "none" /\ running' = FALSE /\ runAgain' = FALSE
  /\ stopped' = TRUE /\ asked' = FALSE

\* A trigger is never lost, and stop wins over a cycle still under way.  While the
\* loop runs, an accepted trigger has the timer set to fire at once, or the cycle
\* under way knows that another must follow it at once; once it is stopped, no
\* cycle's end leaves a timer behind (maintenance-supervisor.cjs:78-115, 172-180).
TimerTellsWhatIsDue ==
  IF stopped THEN timer = "none"
  ELSE asked => timer = "now" \/ (running /\ runAgain)

=============================================================================
