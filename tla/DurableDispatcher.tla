-------------------------- MODULE DurableDispatcher --------------------------
(***************************************************************************)
(* The durable dispatcher for private chats                                *)
(* (runtime/durable/durable-dispatcher.js) with the ingress handler of the *)
(* Telegram poll loop and the offline operator commands around it.  What a *)
(* dispatched turn does is left open here: it succeeds or fails with one   *)
(* of the error policy's actions.  TurnRuntime replaces that choice by the *)
(* turn itself.                                                            *)
(*                                                                         *)
(* The process is one event loop and an action a stretch of code between   *)
(* two awaits.  Drained keeps what needs a timer or a network answer       *)
(* behind the promise reactions already due, as the loop does; the order   *)
(* of the poll loop's own reactions and a pass's is left open.             *)
(***************************************************************************)
EXTENDS DurableInbox, FiniteSets

CONSTANTS
  MaxCrashes,   \* bound on process deaths
  MaxFaults,    \* bound on journal appends that throw
  MaxPauses,    \* bound on dispatches that end in a timed pause
  MaxOps        \* bound on operator commands

ASSUME DispatcherAssumption ==
  /\ MaxCrashes \in Nat
  /\ MaxFaults \in Nat
  /\ MaxPauses \in Nat
  /\ MaxOps \in Nat

VARIABLES
  phase,        \* "down", "replaying" (replayAll) or "running"
  task,         \* the dispatcher's task for each update
  run,          \* what a replay or retry pass still has to process, per chat
  awaiting,     \* the task each chat's pass is waiting for ({} or one update)
  offset,       \* durable: the next update_id asked of Telegram
  handled,      \* the update at offset was handled, its offset not yet written
  budget        \* how often each bounded event has happened

dispatcherVars == <<phase, task, run, awaiting, offset, handled, budget>>
dvars == <<entry, inflight, phase, task, run, awaiting, offset, handled, budget>>

TaskState == {"idle", "dispatching", "notifying"}
Budget == [crashes : 0 .. MaxCrashes, faults : 0 .. MaxFaults,
           pauses : 0 .. MaxPauses, ops : 0 .. MaxOps]

ActiveChat(c) == \E u \in Update : ChatOf[u] = c /\ task[u] # "idle"

NoRun == \A c \in Chat : run[c] = {} /\ awaiting[c] = {}

\* No pass has a reaction pending: each one is finished or waits for a task.
Drained == \A c \in Chat : run[c] = {} \/ awaiting[c] # {}

Init ==
  /\ InboxInit
  /\ phase = "down"
  /\ task = [u \in Update |-> "idle"]
  /\ run = [c \in Chat |-> {}]
  /\ awaiting = [c \in Chat |-> {}]
  /\ offset = 1
  /\ handled = FALSE
  /\ budget = [crashes |-> 0, faults |-> 0, pauses |-> 0, ops |-> 0]

-----------------------------------------------------------------------------
(* Starting a task (processUpdate up to its first await).                  *)

\* Mutants of MayStart: the check for earlier updates, the check of the chat's
\* live task is missing.
MayStartOutOfOrder(u) == ~ActiveChat(ChatOf[u])
MayStart(u) == ~ActiveChat(ChatOf[u]) /\ ~HasEarlierBlockedEntry(u)

StartTask(u) ==
  /\ entry' = [entry EXCEPT ![u] = ProcessingEntry(@)]
  /\ inflight' = inflight \cup {u}
  /\ task' = [task EXCEPT ![u] = "dispatching"]

SpendFault == /\ budget.faults < MaxFaults
              /\ budget' = [budget EXCEPT !.faults = @ + 1]

-----------------------------------------------------------------------------
(* Ingress: the poll loop awaits the handler of one update, then writes    *)
(* the offset.                                                             *)

IngestBy(u) ==
  /\ phase = "running"
  /\ ~handled /\ u = offset
  /\ handled' = TRUE
  /\ UNCHANGED <<phase, run, awaiting, offset>>

\* A redelivery of an update the inbox already holds beyond "received".
IngestKnown(u) ==
  /\ IngestBy(u)
  /\ ~Accepts(u) \/ entry[u].state \notin {"none", "received"}
  /\ UNCHANGED <<entry, inflight, task, budget>>

IngestAndStart(u) ==
  /\ IngestBy(u)
  /\ Accepts(u) /\ entry[u].state \in {"none", "received"}
  /\ MayStart(u)
  /\ StartTask(u)
  /\ UNCHANGED budget

\* Recorded as received; a task of the chat or an earlier open update defers
\* the dispatch to the retry timer, or the "processing" append throws.
IngestAndDefer(u) ==
  /\ IngestBy(u)
  /\ Accepts(u) /\ entry[u].state \in {"none", "received"}
  /\ \/ ~MayStart(u) /\ UNCHANGED budget
     \/ MayStart(u) /\ SpendFault
  /\ entry' = [entry EXCEPT ![u] = IF @.state = "none" THEN ReceivedEntry ELSE @]
  /\ UNCHANGED <<inflight, task>>

WriteOffset ==
  /\ phase = "running"
  /\ handled
  /\ offset' = offset + 1
  /\ handled' = FALSE
  /\ UNCHANGED <<entry, inflight, phase, task, run, awaiting, budget>>

-----------------------------------------------------------------------------
(* Replay and retry passes (processEntryRun over one chat's entries).      *)

\* The timer takes a snapshot of what is due; one pass at a time.
RetryDue ==
  /\ phase = "running" /\ NoRun
  /\ \E c \in Chat : DueRun(c) # {}
  /\ run' = [c \in Chat |-> DueRun(c)]
  /\ UNCHANGED <<entry, inflight, phase, task, awaiting, offset, handled, budget>>

\* The pass reaches its next entry, which may have changed since the snapshot.
NextInRun(c, u) ==
  /\ phase # "down"
  /\ run[c] # {} /\ awaiting[c] = {}
  /\ u \in run[c] /\ \A v \in run[c] : u <= v
  /\ UNCHANGED <<phase, offset, handled>>

RunSkips(c, u) ==
  /\ NextInRun(c, u)
  /\ IsDone(u) \/ (task[u] = "idle" /\ ~MayStart(u))
  /\ run' = [run EXCEPT ![c] = @ \ {u}]
  /\ UNCHANGED <<entry, inflight, task, awaiting, budget>>

RunJoins(c, u) ==
  /\ NextInRun(c, u)
  /\ ~IsDone(u) /\ task[u] # "idle"
  /\ awaiting' = [awaiting EXCEPT ![c] = {u}]
  /\ UNCHANGED <<entry, inflight, task, run, budget>>

RunStarts(c, u) ==
  /\ NextInRun(c, u)
  /\ ~IsDone(u) /\ task[u] = "idle" /\ MayStart(u)
  /\ StartTask(u)
  /\ awaiting' = [awaiting EXCEPT ![c] = {u}]
  /\ UNCHANGED <<run, budget>>

\* The "processing" append throws: the pass stops.
RunStartFails(c, u) ==
  /\ NextInRun(c, u)
  /\ ~IsDone(u) /\ task[u] = "idle" /\ MayStart(u)
  /\ SpendFault
  /\ run' = [run EXCEPT ![c] = {}]
  /\ UNCHANGED <<entry, inflight, task, awaiting>>

-----------------------------------------------------------------------------
(* The end of a task.  A pass that waits for it goes on after a success    *)
(* and stops after a failure.                                              *)

Resolve(u, ok) ==
  /\ task' = [task EXCEPT ![u] = "idle"]
  /\ run' = [c \in Chat |-> IF u \notin awaiting[c] THEN run[c]
                            ELSE IF ok THEN run[c] \ {u} ELSE {}]
  /\ awaiting' = [c \in Chat |-> awaiting[c] \ {u}]

Dispatching(u) ==
  /\ phase # "down" /\ Drained
  /\ task[u] = "dispatching"
  /\ UNCHANGED <<phase, offset, handled>>

TaskSucceeds(u) ==
  /\ Dispatching(u)
  /\ MarkDone(u)
  /\ Resolve(u, TRUE)
  /\ UNCHANGED budget

\* A failure that leaves a dead letter tells the owner before the task ends.
EndWithFailure(u, action) ==
  /\ ApplyDurableFailure(u, action)
  /\ IF entry'[u].state = "dead-letter"
     THEN task' = [task EXCEPT ![u] = "notifying"] /\ UNCHANGED <<run, awaiting>>
     ELSE Resolve(u, FALSE)

TaskFails(u, action) ==
  /\ Dispatching(u)
  /\ EndWithFailure(u, action)
  /\ IF action = "pause"
     THEN /\ budget.pauses < MaxPauses
          /\ budget' = [budget EXCEPT !.pauses = @ + 1]
     ELSE UNCHANGED budget

\* The "done" append throws: the catch clause books a failed attempt.
DoneAppendFails(u) ==
  /\ Dispatching(u)
  /\ SpendFault
  /\ EndWithFailure(u, "fail")

\* The append of the failure throws as well.
FailureAppendFails(u) ==
  /\ Dispatching(u)
  /\ SpendFault
  /\ ReleaseWithoutRecord(u)
  /\ Resolve(u, FALSE)

NoticeSettles(u) ==
  /\ phase # "down" /\ Drained
  /\ task[u] = "notifying"
  /\ Resolve(u, FALSE)
  /\ UNCHANGED <<entry, inflight, phase, offset, handled, budget>>

-----------------------------------------------------------------------------
(* Process life cycle and the offline operator.                            *)

Crash ==
  /\ phase # "down"
  /\ budget.crashes < MaxCrashes
  /\ budget' = [budget EXCEPT !.crashes = @ + 1]
  /\ phase' = "down"
  /\ task' = [u \in Update |-> "idle"]
  /\ run' = [c \in Chat |-> {}]
  /\ awaiting' = [c \in Chat |-> {}]
  /\ handled' = FALSE
  /\ LoadInbox
  /\ UNCHANGED offset

Restart ==
  /\ phase = "down"
  /\ phase' = "replaying"
  /\ run' = [c \in Chat |-> PendingRun(c)]
  /\ UNCHANGED <<entry, inflight, task, awaiting, offset, handled, budget>>

ReplayDone ==
  /\ phase = "replaying" /\ NoRun
  /\ phase' = "running"
  /\ UNCHANGED <<entry, inflight, task, run, awaiting, offset, handled, budget>>

Waited(u) ==
  /\ phase # "down" /\ Drained
  /\ BackoffElapses(u)
  /\ UNCHANGED dispatcherVars

\* tether-ops takes the storage lock, so the runtime is down.
Operator(u) ==
  /\ phase = "down"
  /\ budget.ops < MaxOps
  /\ budget' = [budget EXCEPT !.ops = @ + 1]
  /\ \/ \E s \in {"dead-letter", "operator-paused", "failed", "done"} :
          RequeueTerminal(u, {s})
     \/ ArchiveTerminal(u)
  /\ UNCHANGED <<phase, task, run, awaiting, offset, handled>>

-----------------------------------------------------------------------------
Ingest(u) == IngestKnown(u) \/ IngestAndStart(u) \/ IngestAndDefer(u)

RunStep(c, u) ==
  RunSkips(c, u) \/ RunJoins(c, u) \/ RunStarts(c, u) \/ RunStartFails(c, u)

TaskEnds(u) ==
  \/ TaskSucceeds(u)
  \/ \E action \in ErrorAction : TaskFails(u, action)
  \/ DoneAppendFails(u)
  \/ FailureAppendFails(u)

Next ==
  \/ \E u \in Update :
       Ingest(u) \/ TaskEnds(u) \/ NoticeSettles(u) \/ Waited(u) \/ Operator(u)
  \/ \E c \in Chat, u \in Update : RunStep(c, u)
  \/ WriteOffset \/ RetryDue \/ Crash \/ Restart \/ ReplayDone

Spec == Init /\ [][Next]_dvars

\* The event loop runs every reaction, the timer fires every second, the
\* supervisor restarts a dead runtime and Telegram keeps what has not been
\* acknowledged.  Answers and timeouts arrive however often retry passes keep
\* the loop busy in between, hence strong fairness for what Drained guards.
Fairness ==
  /\ \A u \in Update :
       /\ WF_dvars(Ingest(u))
       /\ SF_dvars(TaskEnds(u))
       /\ SF_dvars(NoticeSettles(u))
       /\ SF_dvars(Waited(u))
  /\ \A c \in Chat : WF_dvars(\E u \in Update : RunStep(c, u))
  /\ WF_dvars(WriteOffset)
  /\ WF_dvars(RetryDue)
  /\ WF_dvars(Restart)
  /\ WF_dvars(ReplayDone)

FairSpec == Spec /\ Fairness

-----------------------------------------------------------------------------
(* Properties.                                                             *)

\* Every variable keeps its shape.
TypeOK ==
  /\ entry \in [Update -> Entry]
  /\ inflight \subseteq Update
  /\ phase \in {"down", "replaying", "running"}
  /\ task \in [Update -> TaskState]
  /\ run \in [Chat -> SUBSET Update]
  /\ awaiting \in [Chat -> SUBSET Update]
  /\ offset \in Nat
  /\ handled \in BOOLEAN
  /\ budget \in Budget

\* An in-flight mark is a barrier for the whole chat and a filter of both
\* recovery paths, and only its own task takes it away: whatever append
\* throws, no update stays in flight without a task that will release it
\* (the comment in markProcessing).
NoLeakedInflight == \A u \in inflight : task[u] = "dispatching"

\* While an update is being dispatched, every earlier accepted update of its
\* chat is settled or parked, and stays so: retries, restarts, redeliveries
\* and requeued updates never let a later message overtake an earlier one.
NoOvertaking ==
  \A u, v \in Update :
    task[u] = "dispatching" /\ v < u /\ SameChat(u, v) => ~IsOpen(v)

\* One chat has one task at a time, from the append of "processing" to the
\* end of the owner's dead-letter notice.
OneTaskPerChat ==
  \A u, v \in Update :
    task[u] # "idle" /\ task[v] # "idle" /\ SameChat(u, v) => u = v

\* The offset acknowledges an update to Telegram, which then forgets it: by
\* that time the inbox must hold it.
AcknowledgedIsDurable ==
  \A u \in Update : u >= 1 /\ u < offset => entry[u].state # "none"

\* An update leaves operator-paused or dead-letter only while the runtime is
\* down, by an operator command: no stale snapshot of a pass, duplicate
\* delivery or restart revives it.
OnlyOperatorRevives ==
  [][\A u \in Update :
       entry[u].state \in {"operator-paused", "dead-letter", "done"}
         /\ entry'[u] # entry[u] => phase = "down"]_dvars

\* An accepted update does not stay open for ever: it ends done, a dead
\* letter, or parked for the operator, through crashes, failed appends and
\* passes that stop half way.
EveryUpdateSettles == \A u \in Update : IsOpen(u) ~> ~IsOpen(u)

=============================================================================
