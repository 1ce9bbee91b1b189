-------------------------- MODULE TurnRuntimeProofs --------------------------
(***************************************************************************)
(* What holds of a private turn for every set of updates, chats, envelopes *)
(* and tool turns and every bound.  The first part is about the durable    *)
(* dispatcher alone: type correctness, its four safety invariants and its  *)
(* action property, all from one inductive invariant.  The second is about *)
(* the turns it starts: the safety properties of TurnRuntime, and that the *)
(* runtime implements SelfsameTurn.  The dispatcher's invariant carries    *)
(* over because every step of the turn is a step of the dispatcher or      *)
(* leaves it alone.                                                        *)
(***************************************************************************)
EXTENDS TurnRuntime, TLAPS

-----------------------------------------------------------------------------
(* The inductive invariant of the dispatcher.                              *)

DownIsEmpty ==
  phase = "down" => /\ \A u \in Update : task[u] = "idle"
                    /\ \A c \in Chat : run[c] = {} /\ awaiting[c] = {}

InflightIsDispatched ==
  \A u \in Update : u \in inflight <=> task[u] = "dispatching"

DispatchedIsProcessing ==
  \A u \in Update : task[u] = "dispatching" => entry[u].state = "processing"

WaitingIsRetryable ==
  \A u \in Update : ~entry[u].due => entry[u].state \in {"failed", "paused"}

\* Nothing beyond the offset was ever received.
ReceivedIsAsked == \A u \in Update : entry[u].state # "none" => u <= offset

HandledIsDurable ==
  handled => \A u \in Update : u = offset => entry[u].state # "none"

\* A pass holds open entries of its chat, or the dead letter whose notice it
\* waits out; it waits only for an entry it holds and whose task is live.
PassIsOpen ==
  \A c \in Chat : \A u \in run[c] :
    ChatOf[u] = c /\ (IsOpen(u) \/ task[u] = "notifying")

PassAwaitsTask ==
  \A c \in Chat : \A u \in awaiting[c] : u \in run[c] /\ task[u] # "idle"

IInv ==
  /\ TypeOK
  /\ DownIsEmpty
  /\ InflightIsDispatched
  /\ DispatchedIsProcessing
  /\ WaitingIsRetryable
  /\ ReceivedIsAsked
  /\ HandledIsDurable
  /\ AcknowledgedIsDurable
  /\ OneTaskPerChat
  /\ NoOvertaking
  /\ PassIsOpen
  /\ PassAwaitsTask

-----------------------------------------------------------------------------
(* Types.                                                                  *)

\* What the operations of the inbox append is an entry.
LEMMA EntriesAreTyped ==
  ASSUME NEW e \in Entry
  PROVE  /\ NoEntry \in Entry
         /\ ReceivedEntry \in Entry
         /\ ProcessingEntry(e) \in Entry
         /\ DoneEntry \in Entry
         /\ ArchivedEntry(e) \in Entry
         /\ \A action \in ErrorAction : AfterFailure(e, action) \in Entry
<1>1. PICK a \in 0 .. MaxAttempts : e.attempts = a
  BY DEF Entry
<1>2. NoEntry \in Entry /\ ReceivedEntry \in Entry /\ DoneEntry \in Entry
  BY InboxAssumption DEF Entry, EntryState, NoEntry, ReceivedEntry, DoneEntry
<1>3. ProcessingEntry(e) \in Entry /\ ArchivedEntry(e) \in Entry
  BY <1>1 DEF Entry, EntryState, ProcessingEntry, ArchivedEntry
<1>4. ASSUME NEW action \in ErrorAction PROVE AfterFailure(e, action) \in Entry
  <2>1. PausedEntry(e) \in Entry /\ OperatorPausedEntry(e) \in Entry
    BY <1>1 DEF Entry, EntryState, PausedEntry, OperatorPausedEntry
  <2>2. FailedEntry(e) \in Entry
    BY <1>1, InboxAssumption DEF Entry, EntryState, FailedEntry
  <2>3. QED
    BY <2>1, <2>2 DEF AfterFailure
<1>5. QED
  BY <1>2, <1>3, <1>4

\* A task that resolves keeps the tables of the chats typed.
LEMMA ResolveIsTyped ==
  ASSUME TypeOK, NEW u \in Update, NEW ok \in BOOLEAN, Resolve(u, ok)
  PROVE  /\ task' \in [Update -> TaskState]
         /\ run' \in [Chat -> SUBSET Update]
         /\ awaiting' \in [Chat -> SUBSET Update]
  BY DEF TypeOK, TaskState, Resolve

\* The bounds on faults, pauses, crashes and commands are not passed.
LEMMA BudgetIsTyped ==
  ASSUME TypeOK
  PROVE  /\ SpendFault => budget' \in Budget
         /\ budget.pauses < MaxPauses => [budget EXCEPT !.pauses = @ + 1] \in Budget
         /\ budget.crashes < MaxCrashes => [budget EXCEPT !.crashes = @ + 1] \in Budget
         /\ budget.ops < MaxOps => [budget EXCEPT !.ops = @ + 1] \in Budget
  BY DispatcherAssumption DEF TypeOK, Budget, SpendFault

\* A task that fails keeps the inbox and the tables typed.
LEMMA FailureIsTyped ==
  ASSUME TypeOK, NEW u \in Update, NEW action \in ErrorAction, EndWithFailure(u, action)
  PROVE  /\ entry' \in [Update -> Entry]
         /\ inflight' \subseteq Update
         /\ task' \in [Update -> TaskState]
         /\ run' \in [Chat -> SUBSET Update]
         /\ awaiting' \in [Chat -> SUBSET Update]
<1>1. entry' \in [Update -> Entry] /\ inflight' \subseteq Update
  BY EntriesAreTyped DEF TypeOK, EndWithFailure, ApplyDurableFailure
<1>2. CASE entry'[u].state = "dead-letter"
  BY <1>1, <1>2 DEF TypeOK, TaskState, EndWithFailure
<1>3. CASE entry'[u].state # "dead-letter"
  BY <1>1, <1>3, ResolveIsTyped DEF EndWithFailure
<1>4. QED
  BY <1>2, <1>3

\* The types hold at first.
LEMMA TypeInit == Init => TypeOK
<1> SUFFICES ASSUME Init PROVE TypeOK
  OBVIOUS
<1>1. 0 \in 0 .. MaxAttempts /\ 0 \in 0 .. MaxCrashes /\ 0 \in 0 .. MaxFaults
      /\ 0 \in 0 .. MaxPauses /\ 0 \in 0 .. MaxOps /\ 1 \in Nat
  BY DispatcherAssumption, InboxAssumption
<1>2. NoEntry \in Entry
  BY <1>1 DEF NoEntry, Entry, EntryState
<1>3. budget \in Budget
  BY <1>1 DEF Init, Budget
<1>4. QED
  BY <1>1, <1>2, <1>3 DEF Init, InboxInit, TypeOK, TaskState

\* Every step keeps the types.
LEMMA TypeStep == TypeOK /\ [Next]_dvars => TypeOK'
<1> SUFFICES ASSUME TypeOK, [Next]_dvars PROVE TypeOK'
  OBVIOUS
<1>0. offset + 1 \in Nat
  BY DEF TypeOK
<1>1. ASSUME NEW u \in Update, IngestKnown(u) PROVE TypeOK'
  BY <1>1 DEF TypeOK, IngestKnown, IngestBy
<1>2. ASSUME NEW u \in Update, IngestAndStart(u) PROVE TypeOK'
  BY <1>2, EntriesAreTyped DEF TypeOK, TaskState, IngestAndStart, IngestBy, StartTask
<1>3. ASSUME NEW u \in Update, IngestAndDefer(u) PROVE TypeOK'
  <2>1. budget' \in Budget
    BY <1>3, BudgetIsTyped DEF TypeOK, IngestAndDefer
  <2>2. entry' \in [Update -> Entry]
    BY <1>3, EntriesAreTyped DEF TypeOK, IngestAndDefer
  <2>3. QED
    BY <1>3, <2>1, <2>2 DEF TypeOK, IngestAndDefer, IngestBy
<1>4. ASSUME NEW u \in Update, TaskSucceeds(u) PROVE TypeOK'
  <2>1. entry' \in [Update -> Entry] /\ inflight' \subseteq Update
    BY <1>4, EntriesAreTyped DEF TypeOK, TaskSucceeds, MarkDone
  <2>2. QED
    BY <1>4, <2>1, ResolveIsTyped DEF TypeOK, TaskSucceeds, Dispatching
<1>5. ASSUME NEW u \in Update, NEW action \in ErrorAction, TaskFails(u, action)
      PROVE  TypeOK'
  <2>1. budget' \in Budget
    BY <1>5, BudgetIsTyped DEF TypeOK, TaskFails
  <2>2. QED
    BY <1>5, <2>1, FailureIsTyped DEF TypeOK, TaskFails, Dispatching
<1>6. ASSUME NEW u \in Update, DoneAppendFails(u) PROVE TypeOK'
  BY <1>6, BudgetIsTyped, FailureIsTyped
     DEF TypeOK, DoneAppendFails, Dispatching, ErrorAction
<1>7. ASSUME NEW u \in Update, FailureAppendFails(u) PROVE TypeOK'
  BY <1>7, BudgetIsTyped, ResolveIsTyped
     DEF TypeOK, FailureAppendFails, Dispatching, ReleaseWithoutRecord
<1>8. ASSUME NEW u \in Update, NoticeSettles(u) PROVE TypeOK'
  BY <1>8, ResolveIsTyped DEF TypeOK, NoticeSettles
<1>9. ASSUME NEW u \in Update, Waited(u) PROVE TypeOK'
  BY <1>9 DEF TypeOK, Waited, BackoffElapses, Entry, dispatcherVars
<1>10. ASSUME NEW u \in Update, Operator(u) PROVE TypeOK'
  <2>1. entry' \in [Update -> Entry] /\ inflight' \subseteq Update
    BY <1>10, EntriesAreTyped DEF TypeOK, Operator, RequeueTerminal, ArchiveTerminal
  <2>2. QED
    BY <1>10, <2>1, BudgetIsTyped DEF TypeOK, Operator
<1>11. ASSUME NEW c \in Chat, NEW u \in Update, RunSkips(c, u) \/ RunJoins(c, u)
       PROVE  TypeOK'
  BY <1>11 DEF TypeOK, RunSkips, RunJoins, NextInRun
<1>12. ASSUME NEW c \in Chat, NEW u \in Update, RunStarts(c, u) PROVE TypeOK'
  BY <1>12, EntriesAreTyped DEF TypeOK, TaskState, RunStarts, NextInRun, StartTask
<1>13. ASSUME NEW c \in Chat, NEW u \in Update, RunStartFails(c, u) PROVE TypeOK'
  BY <1>13, BudgetIsTyped DEF TypeOK, RunStartFails, NextInRun
<1>14. CASE WriteOffset \/ ReplayDone
  BY <1>0, <1>14 DEF TypeOK, WriteOffset, ReplayDone
<1>15. CASE RetryDue
  BY <1>15 DEF TypeOK, RetryDue, DueRun
<1>16. CASE Crash
  BY <1>16, BudgetIsTyped DEF TypeOK, Crash, LoadInbox, TaskState
<1>17. CASE Restart
  BY <1>17 DEF TypeOK, Restart, PendingRun
<1>18. CASE UNCHANGED dvars
  BY <1>18 DEF TypeOK, dvars
<1>19. QED
  BY <1>1, <1>2, <1>3, <1>4, <1>5, <1>6, <1>7, <1>8, <1>9, <1>10, <1>11, <1>12,
     <1>13, <1>14, <1>15, <1>16, <1>17, <1>18
     DEF Next, Ingest, TaskEnds, RunStep

\* Every variable of the dispatcher keeps its shape, whatever the updates, the
\* chats and the bounds.
THEOREM TypeCorrect == Spec => []TypeOK
  BY TypeInit, TypeStep, PTL DEF Spec

-----------------------------------------------------------------------------
(* The invariant holds initially and every action preserves it.            *)

\* The invariant holds at first.
LEMMA IInvInit == Init => IInv
<1> SUFFICES ASSUME Init PROVE IInv
  OBVIOUS
<1>1. TypeOK
  BY TypeInit
<1>2. DownIsEmpty /\ InflightIsDispatched /\ DispatchedIsProcessing
      /\ WaitingIsRetryable /\ ReceivedIsAsked /\ HandledIsDurable
  BY DEF Init, InboxInit, NoEntry, DownIsEmpty, InflightIsDispatched,
         DispatchedIsProcessing, WaitingIsRetryable, ReceivedIsAsked, HandledIsDurable
<1>3. AcknowledgedIsDurable
  BY InboxAssumption DEF Init, AcknowledgedIsDurable
<1>4. OneTaskPerChat /\ NoOvertaking /\ PassIsOpen /\ PassAwaitsTask
  BY DEF Init, OneTaskPerChat, NoOvertaking, PassIsOpen, PassAwaitsTask
<1>5. QED
  BY <1>1, <1>2, <1>3, <1>4 DEF IInv

\* A task that starts: by ingress or by a pass, from an entry that is open or
\* is being received.
LEMMA StartKeepsIInv ==
  ASSUME IInv, TypeOK', NEW u \in Update,
         phase # "down", MayStart(u), StartTask(u), phase' = phase, offset' = offset,
         entry[u].state \notin {"operator-paused", "dead-letter", "done"},
         u <= offset,
         (handled' = handled) \/ (handled' = TRUE /\ u = offset),
         run' = run,
         awaiting' = awaiting
           \/ \E c \in Chat : u \in run[c] /\ awaiting' = [awaiting EXCEPT ![c] = {u}]
  PROVE  IInv'
<1>1. /\ task' = [task EXCEPT ![u] = "dispatching"]
      /\ \A v \in Update : v # u => entry'[v] = entry[v]
      /\ entry'[u].state = "processing" /\ entry'[u].due = TRUE
  BY DEF IInv, TypeOK, StartTask, ProcessingEntry
<1>2. \A v \in Update : v # u => task'[v] = task[v]
  BY <1>1 DEF IInv, TypeOK
<1>3. task'[u] = "dispatching"
  BY <1>1 DEF IInv, TypeOK
<1>4. \A v \in Update : SameChat(v, u) => task[v] = "idle"
  BY DEF MayStart, ActiveChat, SameChat
<1>5. \A v \in Update : IsOpen(v)' <=> (IsOpen(v) \/ v = u)
  BY <1>1 DEF IsOpen
<1>6. DownIsEmpty' /\ InflightIsDispatched' /\ DispatchedIsProcessing' /\ WaitingIsRetryable'
  BY <1>1, <1>2, <1>3 DEF IInv, DownIsEmpty, InflightIsDispatched, DispatchedIsProcessing,
     WaitingIsRetryable, StartTask
<1>7. ReceivedIsAsked' /\ HandledIsDurable' /\ AcknowledgedIsDurable'
  BY <1>1 DEF IInv, ReceivedIsAsked, HandledIsDurable, AcknowledgedIsDurable
<1>8. OneTaskPerChat'
  BY <1>2, <1>4 DEF IInv, OneTaskPerChat, SameChat
<1>9. NoOvertaking'
  <2> SUFFICES ASSUME NEW w \in Update, NEW v \in Update,
                      task'[w] = "dispatching", v < w, SameChat(w, v)
               PROVE  ~IsOpen(v)'
    BY DEF NoOvertaking, SameChat
  <2>1. CASE w = u
    BY <2>1, <1>5, InboxAssumption DEF MayStart, HasEarlierBlockedEntry, SameChat
  <2>2. CASE w # u
    BY <2>2, <1>2, <1>4, <1>5 DEF IInv, NoOvertaking, SameChat
  <2>3. QED
    BY <2>1, <2>2
<1>10. PassIsOpen'
  BY <1>2, <1>4, <1>5 DEF IInv, TypeOK, PassIsOpen, SameChat
<1>11. PassAwaitsTask'
  BY <1>2, <1>3 DEF IInv, TypeOK, PassAwaitsTask
<1>12. QED
  BY <1>6, <1>7, <1>8, <1>9, <1>10, <1>11 DEF IInv

\* The entry of u changes and its task ends, or turns to its notice.
LEMMA SettlingKeepsIInv ==
  ASSUME IInv, TypeOK', NEW u \in Update,
         phase # "down", Drained, task[u] # "idle",
         UNCHANGED <<phase, offset, handled>>,
         inflight' = inflight \ {u},
         \A v \in Update : v # u => entry'[v] = entry[v] /\ task'[v] = task[v],
         entry'[u].state = "none" <=> entry[u].state = "none",
         ~entry'[u].due => entry'[u].state \in {"failed", "paused"},
         \/ \E ok \in BOOLEAN : Resolve(u, ok)
         \/ task'[u] = "notifying" /\ UNCHANGED <<run, awaiting>>
  PROVE  IInv'
<1>1. task'[u] \in {"idle", "notifying"}
  BY DEF IInv, TypeOK, Resolve
<1>2. \A c \in Chat : u \in run[c] => u \in awaiting[c]
  <2> SUFFICES ASSUME NEW c \in Chat, u \in run[c] PROVE u \in awaiting[c]
    OBVIOUS
  <2>1. PICK v \in awaiting[c] : TRUE
    BY DEF Drained
  <2>2. v \in Update /\ v \in run[c] /\ task[v] # "idle"
    BY <2>1 DEF IInv, TypeOK, PassAwaitsTask
  <2>3. SameChat(u, v)
    BY <2>2 DEF IInv, PassIsOpen, SameChat
  <2>4. QED
    BY <2>1, <2>2, <2>3 DEF IInv, OneTaskPerChat
<1>3. DownIsEmpty' /\ InflightIsDispatched' /\ DispatchedIsProcessing' /\ WaitingIsRetryable'
  BY <1>1 DEF IInv, DownIsEmpty, InflightIsDispatched, DispatchedIsProcessing,
     WaitingIsRetryable
<1>4. ReceivedIsAsked' /\ HandledIsDurable' /\ AcknowledgedIsDurable'
  BY DEF IInv, ReceivedIsAsked, HandledIsDurable, AcknowledgedIsDurable
<1>5. OneTaskPerChat'
  BY DEF IInv, OneTaskPerChat, SameChat
<1>6. NoOvertaking'
  BY <1>1 DEF IInv, NoOvertaking, OneTaskPerChat, SameChat, IsOpen
<1>7. PassIsOpen' /\ PassAwaitsTask'
  <2>1. CASE task'[u] = "notifying" /\ UNCHANGED <<run, awaiting>>
    BY <2>1 DEF IInv, TypeOK, PassIsOpen, PassAwaitsTask, IsOpen
  <2>2. ASSUME NEW ok \in BOOLEAN, Resolve(u, ok) PROVE PassIsOpen' /\ PassAwaitsTask'
    <3>1. /\ \A c \in Chat : u \notin run'[c] /\ u \notin awaiting'[c]
          /\ \A c \in Chat : \A v \in run'[c] : v \in run[c]
          /\ \A c \in Chat : \A v \in awaiting'[c] : v \in awaiting[c]
      BY <2>2, <1>2 DEF Resolve
    <3>2. PassIsOpen'
      BY <3>1 DEF IInv, TypeOK, PassIsOpen, IsOpen
    <3>3. ASSUME NEW c \in Chat, NEW v \in awaiting'[c]
          PROVE  v \in run'[c] /\ task'[v] # "idle"
      <4>1. v \in awaiting[c] /\ v # u /\ v \in Update /\ v \in run[c] /\ task[v] # "idle"
        BY <3>1, <3>3 DEF IInv, TypeOK, PassAwaitsTask
      <4>2. u \notin awaiting[c]
        BY <4>1 DEF IInv, PassAwaitsTask, PassIsOpen, OneTaskPerChat, SameChat
      <4>3. QED
        BY <2>2, <4>1, <4>2 DEF Resolve
    <3>4. QED
      BY <3>2, <3>3 DEF PassAwaitsTask
  <2>3. QED
    BY <2>1, <2>2
<1>8. QED
  BY <1>3, <1>4, <1>5, <1>6, <1>7 DEF IInv

\* What a failure leaves, as SettlingKeepsIInv needs it.
LEMMA FailureSettles ==
  ASSUME IInv, NEW u \in Update, NEW action \in ErrorAction,
         task[u] = "dispatching", EndWithFailure(u, action)
  PROVE  /\ inflight' = inflight \ {u}
         /\ \A v \in Update : v # u => entry'[v] = entry[v] /\ task'[v] = task[v]
         /\ entry'[u].state # "none" /\ entry[u].state # "none"
         /\ ~entry'[u].due => entry'[u].state \in {"failed", "paused"}
         /\ \/ \E ok \in BOOLEAN : Resolve(u, ok)
            \/ task'[u] = "notifying" /\ UNCHANGED <<run, awaiting>>
<1>1. entry' = [entry EXCEPT ![u] = AfterFailure(entry[u], action)] /\ inflight' = inflight \ {u}
  BY DEF EndWithFailure, ApplyDurableFailure
<1>2. entry'[u] = AfterFailure(entry[u], action) /\ \A v \in Update : v # u => entry'[v] = entry[v]
  BY <1>1 DEF IInv, TypeOK
<1>3. /\ AfterFailure(entry[u], action).state # "none"
      /\ ~AfterFailure(entry[u], action).due
           => AfterFailure(entry[u], action).state \in {"failed", "paused"}
  BY DEF AfterFailure, PausedEntry, OperatorPausedEntry, FailedEntry
<1>4. entry[u].state # "none"
  BY DEF IInv, DispatchedIsProcessing
<1>5. /\ \A v \in Update : v # u => task'[v] = task[v]
      /\ \/ \E ok \in BOOLEAN : Resolve(u, ok)
         \/ task'[u] = "notifying" /\ UNCHANGED <<run, awaiting>>
  BY DEF IInv, TypeOK, EndWithFailure, Resolve
<1>6. QED
  BY <1>1, <1>2, <1>3, <1>4, <1>5

\* Every step preserves the invariant.
LEMMA IInvStep == IInv /\ [Next]_dvars => IInv'
<1> SUFFICES ASSUME IInv, [Next]_dvars PROVE IInv'
  OBVIOUS
<1>0. TypeOK /\ TypeOK'
  BY TypeStep DEF IInv
<1>1. ASSUME NEW u \in Update, IngestKnown(u) PROVE IInv'
  <2>1. entry[u].state # "none"
    BY <1>1 DEF IngestKnown, Accepts, IInv, InflightIsDispatched, DispatchedIsProcessing
  <2>2. HandledIsDurable'
    BY <1>1, <2>1 DEF IngestKnown, IngestBy, HandledIsDurable
  <2>3. QED
    BY <1>0, <1>1, <2>2 DEF IngestKnown, IngestBy, IInv, DownIsEmpty,
       InflightIsDispatched, DispatchedIsProcessing, WaitingIsRetryable, ReceivedIsAsked,
       AcknowledgedIsDurable, OneTaskPerChat, NoOvertaking, PassIsOpen, PassAwaitsTask, IsOpen
<1>2. ASSUME NEW u \in Update, IngestAndStart(u) PROVE IInv'
  <2>1. u <= offset
    BY <1>2, InboxAssumption DEF IngestAndStart, IngestBy
  <2>2. QED
    BY <1>0, <1>2, <2>1, StartKeepsIInv DEF IngestAndStart, IngestBy
<1>3. ASSUME NEW u \in Update, IngestAndDefer(u) PROVE IInv'
  <2>1. /\ phase = "running" /\ u = offset /\ handled'
        /\ UNCHANGED <<phase, run, awaiting, offset, inflight, task>>
    BY <1>3 DEF IngestAndDefer, IngestBy
  <2>2. /\ \A v \in Update : v # u => entry'[v] = entry[v]
        /\ entry[u].state \in {"none", "received"} /\ entry'[u].state = "received"
        /\ entry'[u].due \/ entry'[u] = entry[u]
    <3>1. entry[u].state \in {"none", "received"}
      BY <1>3 DEF IngestAndDefer
    <3>2. /\ \A v \in Update : v # u => entry'[v] = entry[v]
          /\ entry'[u] = IF entry[u].state = "none" THEN ReceivedEntry ELSE entry[u]
      BY <1>0, <1>3 DEF IngestAndDefer, TypeOK
    <3>3. ReceivedEntry.state = "received" /\ ReceivedEntry.due = TRUE
      BY DEF ReceivedEntry
    <3>4. QED
      BY <3>1, <3>2, <3>3
  <2>4. NoOvertaking'
    <3> SUFFICES ASSUME NEW w \in Update, NEW v \in Update,
                        task[w] = "dispatching", v < w, SameChat(w, v)
                 PROVE  ~IsOpen(v)'
      BY <2>1 DEF NoOvertaking, SameChat
    <3>1. entry[w].state # "none" /\ w <= offset /\ v # u
      BY <2>1, InboxAssumption DEF IInv, DispatchedIsProcessing, ReceivedIsAsked
    <3>2. QED
      BY <2>2, <3>1 DEF IInv, NoOvertaking, IsOpen
  <2>5. PassIsOpen' /\ PassAwaitsTask'
    BY <1>0, <2>1, <2>2 DEF IInv, TypeOK, PassIsOpen, PassAwaitsTask, IsOpen
  <2>6. ReceivedIsAsked' /\ HandledIsDurable' /\ AcknowledgedIsDurable'
    BY <2>1, <2>2, InboxAssumption
       DEF IInv, ReceivedIsAsked, HandledIsDurable, AcknowledgedIsDurable
  <2>7. QED
    BY <1>0, <2>1, <2>2, <2>4, <2>5, <2>6 DEF IInv, DownIsEmpty, InflightIsDispatched,
       DispatchedIsProcessing, WaitingIsRetryable, OneTaskPerChat
<1>4. ASSUME NEW u \in Update, TaskSucceeds(u) PROVE IInv'
  <2>1. entry[u].state = "processing"
    BY <1>4 DEF TaskSucceeds, Dispatching, IInv, DispatchedIsProcessing
  <2>2. /\ \A v \in Update : v # u => entry'[v] = entry[v] /\ task'[v] = task[v]
        /\ entry'[u].state = "done" /\ entry'[u].due = TRUE
    BY <1>0, <1>4 DEF TaskSucceeds, MarkDone, Resolve, TypeOK, DoneEntry
  <2>3. QED
    BY <1>0, <1>4, <2>1, <2>2, SettlingKeepsIInv DEF TaskSucceeds, Dispatching, MarkDone
<1>5. ASSUME NEW u \in Update, NEW action \in ErrorAction, TaskFails(u, action)
      PROVE  IInv'
  BY <1>0, <1>5, FailureSettles, SettlingKeepsIInv DEF TaskFails, Dispatching
<1>6. ASSUME NEW u \in Update, DoneAppendFails(u) PROVE IInv'
  BY <1>0, <1>6, FailureSettles, SettlingKeepsIInv DEF DoneAppendFails, Dispatching, ErrorAction
<1>7. ASSUME NEW u \in Update, FailureAppendFails(u) PROVE IInv'
  <2>1. \A v \in Update : v # u => task'[v] = task[v]
    BY <1>0, <1>7 DEF FailureAppendFails, Resolve, TypeOK
  <2>2. QED
    BY <1>0, <1>7, <2>1, SettlingKeepsIInv
       DEF FailureAppendFails, Dispatching, ReleaseWithoutRecord, IInv, WaitingIsRetryable
<1>8. ASSUME NEW u \in Update, NoticeSettles(u) PROVE IInv'
  <2>1. \A v \in Update : v # u => task'[v] = task[v]
    BY <1>0, <1>8 DEF NoticeSettles, Resolve, TypeOK
  <2>2. inflight' = inflight \ {u}
    BY <1>8 DEF NoticeSettles, IInv, InflightIsDispatched
  <2>3. QED
    BY <1>0, <1>8, <2>1, <2>2, SettlingKeepsIInv
       DEF NoticeSettles, IInv, WaitingIsRetryable
<1>9. ASSUME NEW u \in Update, Waited(u) PROVE IInv'
  <2>1. /\ \A v \in Update : entry'[v].state = entry[v].state
        /\ \A v \in Update : ~entry'[v].due => ~entry[v].due
    BY <1>0, <1>9 DEF Waited, BackoffElapses, TypeOK, Entry
  <2>2. QED
    BY <1>0, <1>9, <2>1 DEF Waited, BackoffElapses, dispatcherVars, IInv, DownIsEmpty,
       InflightIsDispatched, DispatchedIsProcessing, WaitingIsRetryable, ReceivedIsAsked,
       HandledIsDurable, AcknowledgedIsDurable, OneTaskPerChat, NoOvertaking, PassIsOpen,
       PassAwaitsTask, IsOpen
<1>10. ASSUME NEW u \in Update, Operator(u) PROVE IInv'
  <2>1. /\ entry[u].state # "none" /\ entry'[u].state # "none" /\ entry'[u].due = TRUE
        /\ \A v \in Update : v # u => entry'[v] = entry[v]
    BY <1>0, <1>10 DEF Operator, RequeueTerminal, ArchiveTerminal, ReceivedEntry,
       ArchivedEntry, TypeOK
  <2>2. phase = "down" /\ inflight' = inflight /\ UNCHANGED <<phase, task, run, awaiting, offset, handled>>
    BY <1>10 DEF Operator, RequeueTerminal, ArchiveTerminal
  <2>3. QED
    BY <1>0, <2>1, <2>2 DEF IInv, DownIsEmpty, InflightIsDispatched, DispatchedIsProcessing,
       WaitingIsRetryable, ReceivedIsAsked, HandledIsDurable, AcknowledgedIsDurable,
       OneTaskPerChat, NoOvertaking, PassIsOpen, PassAwaitsTask
<1>11. ASSUME NEW c \in Chat, NEW u \in Update, RunSkips(c, u) \/ RunJoins(c, u)
       PROVE  IInv'
  <2>1. UNCHANGED <<entry, inflight, phase, task, offset, handled>>
    BY <1>11 DEF RunSkips, RunJoins, NextInRun
  <2>2. PassIsOpen' /\ PassAwaitsTask'
    BY <1>0, <1>11 DEF RunSkips, RunJoins, NextInRun, IInv, TypeOK, PassIsOpen,
       PassAwaitsTask, IsOpen
  <2>3. DownIsEmpty'
    BY <1>11 DEF RunSkips, RunJoins, NextInRun, DownIsEmpty
  <2>4. QED
    BY <1>0, <2>1, <2>2, <2>3 DEF IInv, InflightIsDispatched, DispatchedIsProcessing,
       WaitingIsRetryable, ReceivedIsAsked, HandledIsDurable, AcknowledgedIsDurable,
       OneTaskPerChat, NoOvertaking, IsOpen
<1>12. ASSUME NEW c \in Chat, NEW u \in Update, RunStarts(c, u) PROVE IInv'
  <2>1. u \in run[c] /\ IsOpen(u)
    BY <1>12 DEF RunStarts, NextInRun, IInv, PassIsOpen
  <2>2. u <= offset
    BY <2>1 DEF IsOpen, IInv, ReceivedIsAsked
  <2>3. QED
    BY <1>0, <1>12, <2>1, <2>2, StartKeepsIInv DEF RunStarts, NextInRun, IsOpen
<1>13. ASSUME NEW c \in Chat, NEW u \in Update, RunStartFails(c, u) PROVE IInv'
  <2>1. UNCHANGED <<entry, inflight, phase, task, offset, handled>> /\ phase # "down"
    BY <1>13 DEF RunStartFails, NextInRun
  <2>2. PassIsOpen' /\ PassAwaitsTask'
    BY <1>0, <1>13 DEF RunStartFails, NextInRun, IInv, TypeOK, PassIsOpen, PassAwaitsTask, IsOpen
  <2>3. QED
    BY <1>0, <2>1, <2>2 DEF IInv, DownIsEmpty, InflightIsDispatched, DispatchedIsProcessing,
       WaitingIsRetryable, ReceivedIsAsked, HandledIsDurable, AcknowledgedIsDurable,
       OneTaskPerChat, NoOvertaking, IsOpen
<1>14. CASE WriteOffset
  <2>1. \A u \in Update : u \in Nat /\ (u < offset' => u < offset \/ u = offset)
        /\ (u <= offset => u <= offset')
    BY <1>0, <1>14, InboxAssumption DEF WriteOffset, TypeOK
  <2>2. AcknowledgedIsDurable' /\ HandledIsDurable' /\ ReceivedIsAsked'
    BY <1>14, <2>1 DEF WriteOffset, IInv, AcknowledgedIsDurable, HandledIsDurable, ReceivedIsAsked
  <2>3. QED
    BY <1>0, <1>14, <2>2 DEF WriteOffset, IInv, DownIsEmpty, InflightIsDispatched,
       DispatchedIsProcessing, WaitingIsRetryable, OneTaskPerChat, NoOvertaking, PassIsOpen,
       PassAwaitsTask, IsOpen
<1>15. CASE RetryDue \/ Restart \/ ReplayDone
  <2>1. UNCHANGED <<entry, inflight, task, offset, handled>>
    BY <1>15 DEF RetryDue, Restart, ReplayDone
  <2>2. /\ phase' # "down"
        /\ \A c \in Chat : awaiting'[c] = {}
        /\ \A c \in Chat : \A u \in run'[c] : u \in Update /\ ChatOf[u] = c /\ IsOpen(u)
    BY <1>0, <1>15 DEF RetryDue, Restart, ReplayDone, DueRun, PendingRun, NoRun, IInv, DownIsEmpty
  <2>3. PassIsOpen' /\ PassAwaitsTask'
    BY <2>1, <2>2 DEF PassIsOpen, PassAwaitsTask, IsOpen
  <2>4. QED
    BY <1>0, <2>1, <2>2, <2>3 DEF IInv, DownIsEmpty, InflightIsDispatched,
       DispatchedIsProcessing, WaitingIsRetryable, ReceivedIsAsked, HandledIsDurable,
       AcknowledgedIsDurable, OneTaskPerChat, NoOvertaking, IsOpen
<1>16. CASE Crash
  BY <1>0, <1>16 DEF Crash, LoadInbox, IInv, DownIsEmpty, InflightIsDispatched,
     DispatchedIsProcessing, WaitingIsRetryable, ReceivedIsAsked, HandledIsDurable,
     AcknowledgedIsDurable, OneTaskPerChat, NoOvertaking, PassIsOpen, PassAwaitsTask
<1>17. CASE UNCHANGED dvars
  BY <1>0, <1>17 DEF dvars, IInv, DownIsEmpty, InflightIsDispatched, DispatchedIsProcessing,
     WaitingIsRetryable, ReceivedIsAsked, HandledIsDurable, AcknowledgedIsDurable,
     OneTaskPerChat, NoOvertaking, PassIsOpen, PassAwaitsTask, IsOpen
<1>18. QED
  BY <1>1, <1>2, <1>3, <1>4, <1>5, <1>6, <1>7, <1>8, <1>9, <1>10, <1>11, <1>12,
     <1>13, <1>14, <1>15, <1>16, <1>17
     DEF Next, Ingest, TaskEnds, RunStep

\* The inductive invariant holds.
LEMMA IInvHolds == Spec => []IInv
  BY IInvInit, IInvStep, PTL DEF Spec

-----------------------------------------------------------------------------
(* The properties.                                                         *)

\* No update stays in flight without a live task of its own, whatever append
\* throws and wherever the process dies.
THEOREM InflightNeverLeaks == Spec => []NoLeakedInflight
<1>1. IInv => NoLeakedInflight
  BY DEF IInv, TypeOK, InflightIsDispatched, NoLeakedInflight
<1>2. QED
  BY <1>1, IInvHolds, PTL

\* Replays, retries, redeliveries and requeued updates never dispatch a
\* message before an earlier open one of its chat.
THEOREM NothingOvertakes == Spec => []NoOvertaking
<1>1. IInv => NoOvertaking
  BY DEF IInv
<1>2. QED
  BY <1>1, IInvHolds, PTL

\* A chat never has two live tasks, not even while the notice of a dead letter
\* is on its way.
THEOREM ChatIsSerial == Spec => []OneTaskPerChat
<1>1. IInv => OneTaskPerChat
  BY DEF IInv
<1>2. QED
  BY <1>1, IInvHolds, PTL

\* An update whose offset was acknowledged to Telegram is in the journal.
THEOREM AcknowledgedIsKept == Spec => []AcknowledgedIsDurable
<1>1. IInv => AcknowledgedIsDurable
  BY DEF IInv
<1>2. QED
  BY <1>1, IInvHolds, PTL

\* A settled or parked entry changes only by a command of the operator.
THEOREM TerminalIsStable == Spec => OnlyOperatorRevives
<1>1. ASSUME IInv, [Next]_dvars, NEW u \in Update,
             entry[u].state \in {"operator-paused", "dead-letter", "done"},
             entry'[u] # entry[u], phase # "down"
      PROVE  FALSE
  <2>0. TypeOK /\ task[u] # "dispatching" /\ entry[u].due
    BY <1>1 DEF IInv, DispatchedIsProcessing, WaitingIsRetryable
  <2>1. ASSUME NEW v \in Update, TaskEnds(v) PROVE entry'[u] = entry[u]
    <3>1. v # u
      BY <2>0, <2>1 DEF TaskEnds, TaskSucceeds, TaskFails, DoneAppendFails,
         FailureAppendFails, Dispatching
    <3>2. QED
      BY <2>0, <2>1, <3>1 DEF TypeOK, TaskEnds, TaskSucceeds, TaskFails, DoneAppendFails,
         FailureAppendFails, EndWithFailure, ApplyDurableFailure, MarkDone, ReleaseWithoutRecord
  <2>2. ASSUME NEW v \in Update, Ingest(v) PROVE entry'[u] = entry[u]
    BY <1>1, <2>0, <2>2 DEF TypeOK, Ingest, IngestKnown, IngestAndStart, IngestAndDefer,
       StartTask
  <2>3. ASSUME NEW v \in Update, NoticeSettles(v) \/ Waited(v) PROVE entry'[u] = entry[u]
    BY <2>0, <2>3 DEF TypeOK, NoticeSettles, Waited, BackoffElapses
  <2>4. ASSUME NEW c \in Chat, NEW v \in Update, RunStep(c, v) PROVE entry'[u] = entry[u]
    <3>1. CASE RunStarts(c, v)
      <4>1. IsOpen(v)
        BY <1>1, <3>1 DEF RunStarts, NextInRun, IInv, PassIsOpen
      <4>2. v # u
        BY <1>1, <4>1 DEF IsOpen
      <4>3. QED
        BY <2>0, <3>1, <4>2 DEF TypeOK, RunStarts, StartTask
    <3>2. QED
      BY <2>4, <3>1 DEF RunStep, RunSkips, RunJoins, RunStartFails
  <2>5. ASSUME NEW v \in Update, Operator(v) PROVE FALSE
    BY <1>1, <2>5 DEF Operator
  <2>6. CASE WriteOffset \/ RetryDue \/ Crash \/ Restart \/ ReplayDone \/ UNCHANGED dvars
    BY <1>1, <2>6 DEF WriteOffset, RetryDue, Crash, Restart, ReplayDone, LoadInbox, dvars
  <2>7. QED
    BY <1>1, <2>1, <2>2, <2>3, <2>4, <2>5, <2>6 DEF Next
<1>2. IInv /\ [Next]_dvars =>
        [\A u \in Update :
           entry[u].state \in {"operator-paused", "dead-letter", "done"}
             /\ entry'[u] # entry[u] => phase = "down"]_dvars
  BY <1>1
<1>3. QED
  BY <1>2, IInvHolds, PTL DEF Spec, OnlyOperatorRevives

-----------------------------------------------------------------------------
(* The inductive invariant of the turn.                                    *)

\* The queue holds live turns, each once, and a turn inside handle is its head.
QueueInv ==
  /\ \A i \in 1 .. Len(queue) : step[queue[i]] \notin {"none", "preparing"}
  /\ \A i, j \in 1 .. Len(queue) : queue[i] = queue[j] => i = j
  /\ \A u \in Update : InTurn(u) => queue # <<>> /\ Head(queue) = u

\* What is known of one turn: its step, its journals and its history agree.
StepInv(u) ==
  /\ step[u] # "none" <=> task[u] = "dispatching"
  /\ step[u] \notin {"none", "preparing"} => \E e \in Envelope : input[u] = {e}
  /\ step[u] = "accepted" =>
       causal[u].state \in {"received", "inference-rejected", "inference-started"}
  /\ step[u] \in {"compiling", "asking", "answered"} =>
       causal[u].state = "inference-started"
  /\ step[u] \in {"recording", "delivering"} =>
       causal[u].state \in {"committed", "delivery-failed"}
  /\ step[u] \in {"sending", "sent"} => causal[u].state = "delivery-started"
  /\ step[u] = "redone" => causal[u].state = "delivered"

RequestInv(u) ==
  /\ u \in asking => step[u] = "asking" /\ (u \in ToolTurns => tool[u] = "request-started")
  /\ u \notin ToolTurns => tool[u] = "none"
  /\ u \in lost => ~InTurn(u) /\ causal[u].state = "inference-started" /\ ~CanResume(u)

AnswerInv(u) ==
  /\ commits[u] = IF Committed(u) THEN 1 ELSE 0
  /\ shown[u] \in {0, 1}
  /\ step[u] = "sending" => shown[u] = 0
  /\ step[u] = "sent" => shown[u] = 1
  /\ causal[u].state \notin {"delivery-started", "delivered"} => shown[u] = 0
  /\ causal[u].state = "delivered" => shown[u] = 1
  /\ step[u] = "delivering"
       \/ causal[u].state \in {"delivery-started", "delivery-failed", "delivered"}
     => u \in remembered
  /\ entry[u].state = "done" /\ EnvelopesOf[u] # {} /\ verdict[u] # "archive"
       => causal[u].state = "delivered"

TurnInv(u) == StepInv(u) /\ RequestInv(u) /\ AnswerInv(u)

TInv == IInv /\ TurnTypeOK /\ QueueInv /\ \A u \in Update : TurnInv(u)

-----------------------------------------------------------------------------
(* The steps of the turn as steps of the dispatcher.                       *)

\* What every end of a task does to the dispatcher.
LEMMA EndsEffect ==
  ASSUME IInv, NEW u \in Update, TaskEnds(u)
  PROVE  /\ task[u] = "dispatching" /\ task'[u] \in {"idle", "notifying"}
         /\ entry[u].state = "processing"
         /\ \A v \in Update : v # u => task'[v] = task[v] /\ entry'[v] = entry[v]
<1>1. task[u] = "dispatching" /\ entry[u].state = "processing"
  BY DEF IInv, DispatchedIsProcessing, TaskEnds, TaskSucceeds, TaskFails, DoneAppendFails,
         FailureAppendFails, Dispatching
<1>2. ASSUME NEW action \in ErrorAction, EndWithFailure(u, action)
      PROVE  /\ task'[u] \in {"idle", "notifying"}
             /\ \A v \in Update : v # u => task'[v] = task[v] /\ entry'[v] = entry[v]
  BY <1>2 DEF IInv, TypeOK, EndWithFailure, ApplyDurableFailure, Resolve
<1>3. CASE TaskSucceeds(u) \/ FailureAppendFails(u)
  BY <1>1, <1>3 DEF IInv, TypeOK, TaskSucceeds, FailureAppendFails, MarkDone,
     ReleaseWithoutRecord, Resolve
<1>4. CASE DoneAppendFails(u)
  BY <1>1, <1>2, <1>4 DEF DoneAppendFails, ErrorAction
<1>5. ASSUME NEW action \in ErrorAction, TaskFails(u, action)
      PROVE  /\ task'[u] \in {"idle", "notifying"}
             /\ \A v \in Update : v # u => task'[v] = task[v] /\ entry'[v] = entry[v]
  BY <1>2, <1>5 DEF TaskFails
<1>6. QED
  BY <1>1, <1>3, <1>4, <1>5 DEF TaskEnds

\* A turn that throws does not leave its entry done.
LEMMA ThrowsEffect ==
  ASSUME IInv, NEW u \in Update, NEW action \in ErrorAction, Throws(u, action)
  PROVE  TaskEnds(u) /\ LeavesTurn(u) /\ entry'[u].state # "done"
<1>1. ASSUME NEW a \in ErrorAction, EndWithFailure(u, a) PROVE entry'[u].state # "done"
  <2>1. entry'[u] = AfterFailure(entry[u], a)
    BY <1>1 DEF IInv, TypeOK, EndWithFailure, ApplyDurableFailure
  <2>2. QED
    BY <2>1 DEF AfterFailure, PausedEntry, OperatorPausedEntry, FailedEntry
<1>2. CASE TaskFails(u, action)
  BY <1>1, <1>2 DEF TaskFails, Throws, TaskEnds
<1>3. CASE FailureAppendFails(u)
  BY <1>3 DEF FailureAppendFails, ReleaseWithoutRecord, Throws, TaskEnds, IInv,
     DispatchedIsProcessing, Dispatching
<1>4. QED
  BY <1>2, <1>3 DEF Throws

\* A turn that succeeds leaves it done, or failed when that append throws.
LEMMA SucceedsEffect ==
  ASSUME IInv, NEW u \in Update, Succeeds(u)
  PROVE  TaskEnds(u) /\ LeavesTurn(u)
  BY DEF Succeeds, TaskEnds

\* Every step of the runtime is a step of the dispatcher or leaves it alone.
LEMMA DispatcherSteps ==
  ASSUME IInv, [TurnNext]_vars
  PROVE  [Next]_dvars
<1>1. CASE Receives \/ Passes \/ Background \/ OperatorActs \/ Dies
  BY <1>1 DEF Receives, Passes, Background, OperatorActs, Dies, Next
<1>2. ASSUME NEW u \in Update, TurnStep(u) PROVE TaskEnds(u) \/ UNCHANGED dvars
  <2>1. CASE \/ NothingToSay(u) \/ Acknowledges(u) \/ Reaffirms(u)
    BY <2>1, SucceedsEffect DEF NothingToSay, Acknowledges, Reaffirms
  <2>2. CASE \/ PrepareFails(u) \/ Refuses(u) \/ CompileFails(u) \/ Rejects(u)
             \/ ToolLoopStops(u) \/ SendRefused(u) \/ SendAmbiguous(u)
             \/ AppendThrows(u) \/ ToolAppendThrows(u)
    BY <2>2, ThrowsEffect DEF PrepareFails, Refuses, CompileFails, Rejects, ToolLoopStops,
       SendRefused, SendAmbiguous, AppendThrows, ToolAppendThrows, ErrorAction
  <2>3. CASE RequestVanishes(u)
    BY <2>3, ThrowsEffect DEF RequestVanishes, Goes, ErrorAction
  <2>4. CASE \/ Prepare(u) \/ TakesInput(u) \/ Replays(u) \/ StartsInference(u)
             \/ Responds(u) \/ Requests(u) \/ Answers(u) \/ AsksOn(u) \/ Commits(u)
             \/ Records(u) \/ StartsDelivery(u) \/ Shows(u)
    BY <2>4 DEF Prepare, TakesInput, Replays, StartsInference, Responds, Requests,
       Answers, AsksOn, Commits, Records, StartsDelivery, Shows, Goes
  <2>5. QED
    BY <1>2, <2>1, <2>2, <2>3, <2>4 DEF TurnStep
<1>3. CASE UNCHANGED vars
  BY <1>3 DEF vars
<1>4. QED
  BY <1>1, <1>2, <1>3 DEF TurnNext, Next

-----------------------------------------------------------------------------
(* Types.                                                                  *)

\* The types hold at first.
LEMMA TurnTypeInit == TurnInit => TurnTypeOK
<1> SUFFICES ASSUME TurnInit PROVE TurnTypeOK
  OBVIOUS
<1>1. TypeOK
  BY TypeInit DEF TurnInit
<1>2. causal \in [Update -> CausalRecord]
  BY DEF TurnInit, CausalInit, CausalRecord, NoRecord, CausalState
<1>3. spent \in [asks : 0 .. MaxAsks, tears : 0 .. MaxTears]
  BY TurnAssumption DEF TurnInit
<1>4. QED
  BY <1>1, <1>2, <1>3 DEF TurnInit, TurnTypeOK, Step, ToolEvent, Verdict

\* Transitions and the input of the causal journal.
LEMMA CausalIsTyped ==
  ASSUME TurnTypeOK, NEW u \in Update
  PROVE  /\ \A from \in SUBSET CausalState, to \in CausalState :
              Transition(u, from, to) => causal' \in [Update -> CausalRecord]
         /\ \A e \in Envelope : PrepareInput(u, e) => causal' \in [Update -> CausalRecord]
<1>1. \A to \in CausalState : [causal[u] EXCEPT !.state = to] \in CausalRecord
  BY DEF TurnTypeOK, CausalRecord
<1>2. \A e \in Envelope : [state |-> "received", input |-> {e}] \in CausalRecord
  BY DEF CausalRecord, CausalState
<1>3. QED
  BY <1>1, <1>2 DEF TurnTypeOK, Transition, PrepareInput

\* A turn that joins or leaves the queue keeps it a sequence of updates.
LEMMA QueueIsTyped ==
  ASSUME TurnTypeOK, NEW u \in Update
  PROVE  /\ Append(queue, u) \in Seq(Update)
         /\ LeavesTurn(u) => /\ queue' \in Seq(Update)
                             /\ step' \in [Update -> Step]
                             /\ input' \in [Update -> SUBSET Envelope]
<1>1. queue \in Seq(Update) /\ step \in [Update -> Step] /\ input \in [Update -> SUBSET Envelope]
  BY DEF TurnTypeOK
<1>2. Append(queue, u) \in Seq(Update)
  BY <1>1
<1>3. queue # <<>> => Tail(queue) \in Seq(Update)
  BY <1>1
<1>4. /\ [step EXCEPT ![u] = "none"] \in [Update -> Step]
      /\ [input EXCEPT ![u] = {}] \in [Update -> SUBSET Envelope]
  BY <1>1 DEF Step
<1>5. QED
  BY <1>1, <1>2, <1>3, <1>4 DEF LeavesTurn

\* The bounds on requests and torn appends are not passed.
LEMMA SpentIsTyped ==
  ASSUME TurnTypeOK
  PROVE  /\ Tears => spent' \in [asks : 0 .. MaxAsks, tears : 0 .. MaxTears]
         /\ spent.asks < MaxAsks =>
              [spent EXCEPT !.asks = @ + 1] \in [asks : 0 .. MaxAsks, tears : 0 .. MaxTears]
<1>1. PICK a \in 0 .. MaxAsks, t \in 0 .. MaxTears : spent = [asks |-> a, tears |-> t]
  BY DEF TurnTypeOK
<1>2. a < MaxAsks => a + 1 \in 0 .. MaxAsks
  BY TurnAssumption
<1>3. t < MaxTears => t + 1 \in 0 .. MaxTears
  BY TurnAssumption
<1>4. QED
  BY <1>1, <1>2, <1>3 DEF Tears

\* A turn's own step keeps the types, given those of the dispatcher.
LEMMA TurnStepIsTyped ==
  ASSUME TInv, TypeOK', NEW u \in Update, TurnStep(u)
  PROVE  TurnTypeOK'
<1>0. TurnTypeOK /\ IInv
  BY DEF TInv
<1>1. \A to \in Step : [step EXCEPT ![u] = to] \in [Update -> Step]
  BY <1>0 DEF TurnTypeOK
<1>2. \A ev \in ToolEvent : [tool EXCEPT ![u] = ev] \in [Update -> ToolEvent]
  BY <1>0 DEF TurnTypeOK
<1>3. CASE Prepare(u)
  <2>1. PICK e \in EnvelopesOf[u] : input' = [input EXCEPT ![u] = {e}]
    BY <1>3 DEF Prepare
  <2>2. e \in Envelope
    BY <2>1, TurnAssumption
  <2>3. input' \in [Update -> SUBSET Envelope]
    BY <1>0, <2>1, <2>2 DEF TurnTypeOK
  <2>4. step' \in [Update -> Step] /\ queue' \in Seq(Update)
    BY <1>0, <1>1, <1>3, QueueIsTyped DEF Prepare, Step
  <2>5. QED
    BY <1>0, <1>3, <2>3, <2>4 DEF Prepare, TurnTypeOK
<1>4. CASE NothingToSay(u)
  BY <1>0, <1>4, QueueIsTyped DEF NothingToSay, Succeeds, TurnTypeOK
<1>5. CASE PrepareFails(u) \/ Refuses(u) \/ CompileFails(u) \/ ToolLoopStops(u)
           \/ SendAmbiguous(u)
  BY <1>0, <1>5, QueueIsTyped DEF PrepareFails, Refuses, CompileFails, ToolLoopStops,
     SendAmbiguous, Throws, TurnTypeOK
<1>6. CASE AppendThrows(u) \/ ToolAppendThrows(u)
  BY <1>0, <1>6, QueueIsTyped, SpentIsTyped DEF AppendThrows, ToolAppendThrows, Throws,
     TurnTypeOK
<1>7. CASE TakesInput(u)
  <2>1. Presented(u) \in Envelope
    BY <1>7 DEF TInv, TurnInv, StepInv, TakesInput, Handled, Presented
  <2>2. QED
    BY <1>0, <1>1, <1>7, <2>1, CausalIsTyped DEF TakesInput, Goes, TurnTypeOK, Step, dvars,
       TypeOK
<1>8. CASE Replays(u)
  BY <1>0, <1>1, <1>8 DEF Replays, Goes, TurnTypeOK, Step
<1>9. CASE StartsInference(u) \/ StartsDelivery(u)
  BY <1>0, <1>1, <1>9, CausalIsTyped DEF StartsInference, StartsDelivery, Goes, TurnTypeOK,
     Step, MarkInferenceStarted, MarkDeliveryStarted, CausalState
<1>10. CASE Responds(u) \/ Answers(u) \/ AsksOn(u)
  BY <1>0, <1>1, <1>2, <1>10 DEF Responds, Answers, AsksOn, Goes, TurnTypeOK, Step, ToolEvent
<1>11. CASE Requests(u)
  BY <1>0, <1>1, <1>2, <1>11, SpentIsTyped DEF Requests, Goes, TurnTypeOK, Step, ToolEvent
<1>12. CASE RequestVanishes(u)
  <2>1. CASE u \in ToolTurns
    BY <1>0, <1>12, <2>1, QueueIsTyped DEF RequestVanishes, Throws, TurnTypeOK
  <2>2. CASE u \notin ToolTurns
    BY <1>0, <1>1, <1>12, <2>2 DEF RequestVanishes, Goes, TurnTypeOK, Step
  <2>3. QED
    BY <2>1, <2>2
<1>13. CASE Rejects(u) \/ SendRefused(u)
  BY <1>0, <1>13, QueueIsTyped, CausalIsTyped DEF Rejects, SendRefused, Throws, TurnTypeOK,
     MarkInferenceRejected, MarkDeliveryFailed, CausalState
<1>14. CASE Commits(u)
  <2>1. commits[u] + 1 \in Nat
    BY <1>0 DEF TurnTypeOK
  <2>2. commits' \in [Update -> Nat]
    BY <1>0, <1>14, <2>1 DEF Commits, TurnTypeOK
  <2>3. causal' \in [Update -> CausalRecord]
    <3>1. Transition(u, {"inference-started"}, "committed")
      BY <1>14 DEF Commits, CommitOutput
    <3>2. {"inference-started"} \in SUBSET CausalState /\ "committed" \in CausalState
      BY DEF CausalState
    <3>3. QED
      BY <1>0, <3>1, <3>2, CausalIsTyped
  <2>4. step' \in [Update -> Step]
    BY <1>1, <1>14 DEF Commits, Goes, Step
  <2>5. QED
    BY <1>0, <1>14, <2>2, <2>3, <2>4 DEF Commits, Goes, TurnTypeOK
<1>15. CASE Records(u)
  BY <1>0, <1>1, <1>15 DEF Records, Goes, TurnTypeOK, Step
<1>18. CASE Shows(u)
  <2>1. shown[u] + 1 \in Nat
    BY <1>0 DEF TurnTypeOK
  <2>2. shown' \in [Update -> Nat]
    BY <1>0, <1>18, <2>1 DEF Shows, TurnTypeOK
  <2>3. step' \in [Update -> Step]
    BY <1>1, <1>18 DEF Shows, Goes, Step
  <2>4. QED
    BY <1>0, <1>18, <2>2, <2>3 DEF Shows, Goes, TurnTypeOK
<1>16. CASE Acknowledges(u) \/ Reaffirms(u)
  BY <1>0, <1>16, QueueIsTyped, CausalIsTyped DEF Acknowledges, Reaffirms, Succeeds,
     MarkDelivered, TurnTypeOK, CausalState
<1>17. QED
  BY <1>3, <1>4, <1>5, <1>6, <1>7, <1>8, <1>9, <1>10, <1>11, <1>12, <1>13, <1>14, <1>15,
     <1>16, <1>18 DEF TurnStep

\* Every step keeps the types.
LEMMA TurnTypeStep == TInv /\ [TurnNext]_vars => TurnTypeOK'
<1> SUFFICES ASSUME TInv, [TurnNext]_vars PROVE TurnTypeOK'
  OBVIOUS
<1>1. IInv /\ TurnTypeOK /\ TypeOK'
  BY DispatcherSteps, TypeStep DEF TInv, IInv
<1>2. CASE Receives \/ Passes
  BY <1>1, <1>2 DEF Receives, Passes, StartsPreparing, TurnTypeOK, Step
<1>3. CASE Background
  BY <1>1, <1>3 DEF Background, turnVars, TurnTypeOK
<1>4. CASE OperatorActs
  BY <1>1, <1>4 DEF OperatorActs, TurnTypeOK, Verdict
<1>5. CASE Dies
  BY <1>1, <1>5 DEF Dies, TurnTypeOK, Step
<1>6. CASE UNCHANGED vars
  BY <1>1, <1>6 DEF vars, turnVars, TurnTypeOK
<1>7. QED
  BY <1>1, <1>2, <1>3, <1>4, <1>5, <1>6, TurnStepIsTyped DEF TurnNext

-----------------------------------------------------------------------------
(* The queue.                                                              *)

\* A turn that joins the queue is in it once.
LEMMA AppendKeepsQueue ==
  ASSUME TInv, NEW u \in Update, Prepare(u)
  PROVE  QueueInv'
<1>1. /\ queue \in Seq(Update) /\ step \in [Update -> Step] /\ step[u] = "preparing"
      /\ queue' = Append(queue, u) /\ step' = [step EXCEPT ![u] = "queued"]
  BY DEF TInv, TurnTypeOK, Prepare
<1>2. \A i \in 1 .. Len(queue) : queue[i] \in Update /\ queue[i] # u
  BY <1>1 DEF TInv, QueueInv
<1>3. /\ Len(queue') = Len(queue) + 1
      /\ \A i \in 1 .. Len(queue) : queue'[i] = queue[i]
      /\ queue'[Len(queue) + 1] = u
  BY <1>1
<1>4. \A i \in 1 .. Len(queue') : i \in 1 .. Len(queue) \/ i = Len(queue) + 1
  BY <1>1, <1>3
<1>5. \A i \in 1 .. Len(queue') : step'[queue'[i]] \notin {"none", "preparing"}
  BY <1>1, <1>2, <1>3, <1>4 DEF TInv, QueueInv
<1>6. \A i, j \in 1 .. Len(queue') : queue'[i] = queue'[j] => i = j
  BY <1>2, <1>3, <1>4 DEF TInv, QueueInv
<1>7. \A v \in Update : InTurn(v)' => queue' # <<>> /\ Head(queue') = v
  <2> SUFFICES ASSUME NEW v \in Update, InTurn(v)' PROVE queue' # <<>> /\ Head(queue') = v
    OBVIOUS
  <2>1. InTurn(v)
    BY <1>1 DEF InTurn
  <2>2. queue # <<>> /\ Head(queue) = v
    BY <2>1 DEF TInv, QueueInv
  <2>3. QED
    BY <1>1, <2>2
<1>8. QED
  BY <1>5, <1>6, <1>7 DEF QueueInv

\* A turn that leaves was not queued, or was the head.
LEMMA LeavingKeepsQueue ==
  ASSUME TInv, NEW u \in Update, LeavesTurn(u),
         step[u] = "preparing" \/ (queue # <<>> /\ Head(queue) = u)
  PROVE  QueueInv'
<1>1. /\ queue \in Seq(Update) /\ step \in [Update -> Step]
      /\ step' = [step EXCEPT ![u] = "none"]
  BY DEF TInv, TurnTypeOK, LeavesTurn
<1>2. CASE queue # <<>> /\ Head(queue) = u
  <2>1. /\ queue' = Tail(queue) /\ queue[1] = u /\ Len(queue) \in Nat \ {0}
        /\ Len(queue') = Len(queue) - 1
        /\ \A i \in 1 .. Len(queue') : queue'[i] = queue[i + 1] /\ i + 1 \in 1 .. Len(queue)
    BY <1>1, <1>2 DEF LeavesTurn
  <2>2. \A i \in 1 .. Len(queue') : queue'[i] # u /\ queue'[i] \in Update
    BY <1>1, <2>1 DEF TInv, QueueInv
  <2>3. \A v \in Update : ~InTurn(v)'
    BY <1>1, <1>2 DEF TInv, QueueInv, InTurn
  <2>4. QED
    BY <1>1, <2>1, <2>2, <2>3 DEF TInv, QueueInv
<1>3. CASE ~(queue # <<>> /\ Head(queue) = u)
  <2>1. queue' = queue /\ step[u] = "preparing"
    BY <1>3 DEF LeavesTurn
  <2>2. \A i \in 1 .. Len(queue) : queue[i] # u /\ queue[i] \in Update
    BY <1>1, <2>1 DEF TInv, QueueInv
  <2>3. QED
    BY <1>1, <2>1, <2>2 DEF TInv, QueueInv, InTurn
<1>4. QED
  BY <1>2, <1>3

\* A live step of a turn leaves the queue as it is.
LEMMA GoingKeepsQueue ==
  ASSUME TInv, NEW u \in Update, NEW from, NEW to \in Step \ {"none", "preparing"},
         Goes(u, from, to), Handled(u) \/ InTurn(u)
  PROVE  QueueInv'
<1>1. /\ queue \in Seq(Update) /\ step \in [Update -> Step]
      /\ step' = [step EXCEPT ![u] = to] /\ queue' = queue
  BY DEF TInv, TurnTypeOK, Goes
<1>2. queue # <<>> /\ Head(queue) = u
  BY DEF TInv, QueueInv, Handled
<1>3. \A i \in 1 .. Len(queue) : queue[i] \in Update
  BY <1>1
<1>4. QED
  BY <1>1, <1>2, <1>3 DEF TInv, QueueInv, InTurn

-----------------------------------------------------------------------------
(* One turn's step and the other turns.                                    *)

\* All TurnInv(v) reads is as it was.
Undisturbed(v) ==
  /\ step'[v] = step[v] /\ input'[v] = input[v]
  /\ task'[v] = "dispatching" <=> task[v] = "dispatching"
  /\ causal'[v] = causal[v] /\ tool'[v] = tool[v]
  /\ v \in asking' <=> v \in asking
  /\ v \in lost' <=> v \in lost
  /\ v \in remembered' <=> v \in remembered
  /\ commits'[v] = commits[v] /\ shown'[v] = shown[v]
  /\ verdict'[v] = verdict[v]
  /\ entry'[v].state = "done" => entry[v].state = "done"

\* A turn that a step leaves alone keeps its invariant.
LEMMA UndisturbedKeepsInv ==
  ASSUME NEW v \in Update, TurnInv(v), Undisturbed(v)
  PROVE  TurnInv(v)'
<1>1. StepInv(v)'
  BY DEF TurnInv, StepInv, Undisturbed
<1>2. RequestInv(v)'
  BY DEF TurnInv, RequestInv, Undisturbed, InTurn, CanResume
<1>3. AnswerInv(v)'
  BY DEF TurnInv, AnswerInv, Undisturbed, Committed
<1>4. QED
  BY <1>1, <1>2, <1>3 DEF TurnInv

\* What a live step and an end of a turn leave alone in the others, as far as
\* the dispatcher, the step and the input go.
LEMMA GoingLeavesOthers ==
  ASSUME TInv, NEW u \in Update, NEW from, NEW to, Goes(u, from, to)
  PROVE  /\ \A v \in Update : v # u => step'[v] = step[v]
         /\ step[u] = from /\ step'[u] = to
         /\ task' = task /\ entry' = entry /\ input' = input
         /\ lost' = lost /\ verdict' = verdict
  BY DEF TInv, TurnTypeOK, Goes, dvars

\* A turn that ends clears its own step and input only.
LEMMA LeavingLeavesOthers ==
  ASSUME TInv, NEW u \in Update, LeavesTurn(u)
  PROVE  /\ \A v \in Update : v # u => step'[v] = step[v] /\ input'[v] = input[v]
         /\ step'[u] = "none" /\ input'[u] = {}
  BY DEF TInv, TurnTypeOK, LeavesTurn

\* A causal transition moves one record, from a state it allows.
LEMMA TransitionLeavesOthers ==
  ASSUME TInv, NEW u \in Update, NEW from, NEW to, Transition(u, from, to)
  PROVE  /\ causal[u].state \in from /\ causal'[u].state = to
         /\ \A v \in Update : v # u => causal'[v] = causal[v]
<1>1. causal \in [Update -> CausalRecord] /\ causal[u] \in CausalRecord
  BY DEF TInv, TurnTypeOK
<1>2. [causal[u] EXCEPT !.state = to].state = to
  BY <1>1 DEF CausalRecord
<1>3. QED
  BY <1>1, <1>2 DEF Transition

\* The input of the causal journal touches one record.
LEMMA PreparingLeavesOthers ==
  ASSUME TInv, NEW u \in Update, NEW e, PrepareInput(u, e)
  PROVE  /\ causal'[u].state = IF causal[u].state = "none" THEN "received"
                               ELSE causal[u].state
         /\ \A v \in Update : v # u => causal'[v] = causal[v]
  BY DEF TInv, TurnTypeOK, PrepareInput

\* A step that moves one turn keeps the invariant if it keeps that turn's.
LEMMA OneTurnMoves ==
  ASSUME TInv, IInv', TurnTypeOK', QueueInv', NEW u \in Update, TurnInv(u)',
         \A v \in Update : v # u => Undisturbed(v)
  PROVE  TInv'
  BY UndisturbedKeepsInv DEF TInv

\* A turn that throws, wherever it stands: its record stays, or its inference
\* is rejected, or a send that showed nothing is marked failed.
LEMMA ThrowingKeepsTInv ==
  ASSUME TInv, IInv', TurnTypeOK', NEW u \in Update, NEW action \in ErrorAction,
         Throws(u, action),
         step[u] = "preparing" \/ Handled(u) \/ InTurn(u),
         UNCHANGED <<tool, remembered, commits, shown, verdict>>,
         u \notin asking',
         \A v \in Update : v # u => /\ causal'[v] = causal[v]
                                    /\ v \in asking' <=> v \in asking
                                    /\ v \in lost' <=> v \in lost,
         u \in lost' => \/ u \in lost
                        \/ causal[u].state = "inference-started" /\ ~CanResume(u),
         \/ causal'[u].state = causal[u].state
         \/ /\ causal[u].state = "inference-started" /\ u \notin lost'
            /\ causal'[u].state = "inference-rejected"
         \/ step[u] = "sending" /\ causal'[u].state = "delivery-failed"
  PROVE  TInv'
<1>1. /\ task[u] = "dispatching" /\ task'[u] # "dispatching" /\ entry'[u].state # "done"
      /\ \A v \in Update : v # u => task'[v] = task[v] /\ entry'[v] = entry[v]
      /\ LeavesTurn(u)
  BY ThrowsEffect, EndsEffect DEF TInv
<1>2. /\ \A v \in Update : v # u => step'[v] = step[v] /\ input'[v] = input[v]
      /\ step'[u] = "none"
  BY <1>1, LeavingLeavesOthers
<1>3. QueueInv'
  BY <1>1, LeavingKeepsQueue DEF TInv, QueueInv, Handled
<1>4. ASSUME NEW v \in Update, v # u PROVE Undisturbed(v)
  <2>1. /\ step'[v] = step[v] /\ input'[v] = input[v] /\ task'[v] = task[v]
        /\ entry'[v] = entry[v] /\ causal'[v] = causal[v]
    BY <1>1, <1>2, <1>4
  <2>2. /\ v \in asking' <=> v \in asking
        /\ v \in lost' <=> v \in lost
        /\ v \in remembered' <=> v \in remembered
    BY <1>4
  <2>3. QED
    BY <2>1, <2>2 DEF Undisturbed
<1>5. TurnInv(u)
  BY DEF TInv
<1>6. StepInv(u)'
  BY <1>1, <1>2 DEF StepInv
<1>7. RequestInv(u)'
  <2>1. ASSUME u \in lost' PROVE causal'[u].state = "inference-started" /\ ~CanResume(u)
    BY <1>5, <2>1 DEF TurnInv, RequestInv, StepInv
  <2>2. QED
    BY <1>2, <1>5, <2>1 DEF TurnInv, RequestInv, InTurn, CanResume
<1>8. AnswerInv(u)'
  <2>1. StepInv(u) /\ AnswerInv(u)
    BY <1>5 DEF TurnInv
  <2>2. /\ Committed(u)' <=> Committed(u)
        /\ causal'[u].state \in {"delivery-started", "delivered"} => causal'[u].state = causal[u].state
        /\ causal'[u].state = "delivery-failed" =>
             causal[u].state = "delivery-failed" \/ step[u] = "sending"
    BY <2>1 DEF StepInv, Committed
  <2>3. QED
    BY <1>1, <1>2, <2>1, <2>2 DEF StepInv, AnswerInv
<1>9. QED
  BY <1>3, <1>4, <1>6, <1>7, <1>8, OneTurnMoves DEF TurnInv

\* A turn that ends in success is delivered, or had nothing to say.
LEMMA SucceedingKeepsTInv ==
  ASSUME TInv, IInv', TurnTypeOK', NEW u \in Update, Succeeds(u),
         step[u] = "preparing" \/ InTurn(u),
         step[u] # "asking",
         UNCHANGED <<asking, tool, commits, shown, lost, verdict>>,
         \A v \in Update : v # u => /\ causal'[v] = causal[v]
                                    /\ v \in remembered' <=> v \in remembered,
         u \in remembered => u \in remembered',
         \/ EnvelopesOf[u] = {} /\ causal'[u] = causal[u]
         \/ causal[u].state = "delivered" /\ causal'[u] = causal[u]
         \/ step[u] = "sent" /\ causal'[u].state = "delivered"
  PROVE  TInv'
<1>1. /\ task[u] = "dispatching" /\ task'[u] # "dispatching"
      /\ \A v \in Update : v # u => task'[v] = task[v] /\ entry'[v] = entry[v]
      /\ LeavesTurn(u)
  BY SucceedsEffect, EndsEffect DEF TInv
<1>2. /\ \A v \in Update : v # u => step'[v] = step[v] /\ input'[v] = input[v]
      /\ step'[u] = "none"
  BY <1>1, LeavingLeavesOthers
<1>3. QueueInv'
  BY <1>1, LeavingKeepsQueue DEF TInv, QueueInv
<1>4. ASSUME NEW v \in Update, v # u PROVE Undisturbed(v)
  <2>1. /\ step'[v] = step[v] /\ input'[v] = input[v] /\ task'[v] = task[v]
        /\ entry'[v] = entry[v] /\ causal'[v] = causal[v]
    BY <1>1, <1>2, <1>4
  <2>2. /\ v \in asking' <=> v \in asking
        /\ v \in lost' <=> v \in lost
        /\ v \in remembered' <=> v \in remembered
    BY <1>4
  <2>3. QED
    BY <2>1, <2>2 DEF Undisturbed
<1>5. TurnInv(u)
  BY DEF TInv
<1>6. StepInv(u)'
  BY <1>1, <1>2 DEF StepInv
<1>7. RequestInv(u)'
  BY <1>2, <1>5 DEF TurnInv, RequestInv, StepInv, InTurn, CanResume
<1>8. AnswerInv(u)'
  <2>1. StepInv(u) /\ AnswerInv(u)
    BY <1>5 DEF TurnInv
  <2>2. /\ Committed(u)' <=> Committed(u)
        /\ causal'[u] = causal[u] \/ (step[u] = "sent" /\ causal'[u].state = "delivered")
        /\ step[u] = "sent" => causal[u].state = "delivery-started"
    BY <2>1 DEF StepInv, Committed
  <2>3. QED
    BY <1>1, <1>2, <2>1, <2>2 DEF AnswerInv
<1>9. QED
  BY <1>3, <1>4, <1>6, <1>7, <1>8, OneTurnMoves DEF TurnInv

\* The dispatcher starts tasks, and a task that starts begins a turn.
LEMMA StartingKeepsTInv ==
  ASSUME TInv, IInv', TurnTypeOK', StartsPreparing,
         UNCHANGED <<causal, input, queue, asking, tool, remembered, spent, commits,
                     shown, lost, verdict>>,
         \A v \in Update : \/ task'[v] = task[v]
                           \/ task[v] = "idle" /\ task'[v] = "dispatching",
         \A v \in Update : entry'[v].state = "done" => entry[v].state = "done"
  PROVE  TInv'
<1>1. \A v \in Update : step'[v] = IF task[v] = "idle" /\ task'[v] = "dispatching"
                                   THEN "preparing" ELSE step[v]
  BY DEF StartsPreparing
<1>2. \A v \in Update : InTurn(v)' <=> InTurn(v)
  BY <1>1 DEF TInv, TurnInv, StepInv, InTurn
<1>3. QueueInv'
  <2>1. \A i \in 1 .. Len(queue) : queue[i] \in Update
    BY DEF TInv, TurnTypeOK
  <2>2. QED
    BY <1>1, <1>2, <2>1 DEF TInv, QueueInv, TurnInv, StepInv
<1>4. ASSUME NEW v \in Update PROVE TurnInv(v)'
  <2>1. TurnInv(v)
    BY DEF TInv
  <2>2. StepInv(v)'
    BY <1>1, <2>1 DEF TurnInv, StepInv
  <2>3. RequestInv(v)'
    BY <1>1, <1>2, <2>1 DEF TurnInv, StepInv, RequestInv, CanResume
  <2>4. AnswerInv(v)'
    BY <1>1, <2>1 DEF TurnInv, StepInv, AnswerInv, Committed
  <2>5. QED
    BY <2>2, <2>3, <2>4 DEF TurnInv
<1>5. QED
  BY <1>3, <1>4 DEF TInv

-----------------------------------------------------------------------------
(* The steps of a live turn.                                               *)

\* A live step: given what it did to the turn itself, it kept the invariant.
LEMMA GoingKeepsTInv ==
  ASSUME TInv, IInv', TurnTypeOK', NEW u \in Update, NEW from,
         NEW to \in Step \ {"none", "preparing"}, Goes(u, from, to),
         Handled(u) \/ InTurn(u), TurnInv(u)',
         \A v \in Update : v # u => /\ causal'[v] = causal[v] /\ tool'[v] = tool[v]
                                    /\ v \in asking' <=> v \in asking
                                    /\ v \in remembered' <=> v \in remembered
                                    /\ commits'[v] = commits[v] /\ shown'[v] = shown[v]
  PROVE  TInv'
<1>1. QueueInv'
  BY GoingKeepsQueue
<1>2. ASSUME NEW v \in Update, v # u PROVE Undisturbed(v)
  BY <1>2, GoingLeavesOthers DEF Undisturbed
<1>3. QED
  BY <1>1, <1>2, OneTurnMoves

\* prepareInput and the place in the queue.
LEMMA PreparingKeepsTInv ==
  ASSUME TInv, IInv', TurnTypeOK', NEW u \in Update, Prepare(u)
  PROVE  TInv'
<1>1. PICK e \in EnvelopesOf[u] : input' = [input EXCEPT ![u] = {e}]
  BY DEF Prepare
<1>2. e \in Envelope
  BY TurnAssumption
<1>3. /\ \A v \in Update : v # u => step'[v] = step[v] /\ input'[v] = input[v]
      /\ step[u] = "preparing" /\ step'[u] = "queued" /\ input'[u] = {e}
      /\ UNCHANGED <<task, entry, causal, asking, tool, remembered, commits, shown, lost, verdict>>
  BY <1>1 DEF TInv, TurnTypeOK, Prepare, dvars
<1>4. QueueInv'
  BY AppendKeepsQueue
<1>5. ASSUME NEW v \in Update, v # u PROVE Undisturbed(v)
  BY <1>3, <1>5 DEF Undisturbed
<1>6. TurnInv(u)
  BY DEF TInv
<1>7. StepInv(u)'
  BY <1>2, <1>3, <1>6 DEF TurnInv, StepInv
<1>8. RequestInv(u)'
  BY <1>3, <1>6 DEF TurnInv, RequestInv, InTurn, CanResume
<1>9. AnswerInv(u)'
  BY <1>3, <1>6 DEF TurnInv, AnswerInv, Committed
<1>10. QED
  BY <1>4, <1>5, <1>7, <1>8, <1>9, OneTurnMoves DEF TurnInv

\* From the queue to inference.
LEMMA AcceptingKeepsTInv ==
  ASSUME TInv, IInv', TurnTypeOK', NEW u \in Update,
         TakesInput(u) \/ Replays(u) \/ StartsInference(u)
  PROVE  TInv'
<1>1. TurnInv(u)
  BY DEF TInv
<1>2. CASE TakesInput(u)
  <2>1. /\ Goes(u, "queued", "accepted") /\ Handled(u) /\ PrepareInput(u, Presented(u))
        /\ \/ causal[u].state \in {"none", "received", "inference-rejected"}
           \/ causal[u].state = "inference-started" /\ CanResume(u)
        /\ UNCHANGED <<asking, tool, remembered, commits, shown>>
    BY <1>2 DEF TakesInput
  <2>2. /\ causal'[u].state = IF causal[u].state = "none" THEN "received" ELSE causal[u].state
        /\ \A v \in Update : v # u => causal'[v] = causal[v]
    BY <2>1, PreparingLeavesOthers
  <2>3. /\ step[u] = "queued" /\ step'[u] = "accepted" /\ task' = task /\ entry' = entry
        /\ input' = input /\ lost' = lost /\ verdict' = verdict
    BY <2>1, GoingLeavesOthers
  <2>4. StepInv(u)'
    BY <1>1, <2>1, <2>2, <2>3 DEF TurnInv, StepInv
  <2>5. RequestInv(u)'
    <3>1. u \notin lost
      BY <1>1, <2>1 DEF TurnInv, RequestInv
    <3>2. QED
      BY <1>1, <2>1, <2>3, <3>1 DEF TurnInv, RequestInv
  <2>6. AnswerInv(u)'
    BY <1>1, <2>1, <2>2, <2>3 DEF TurnInv, AnswerInv, Committed
  <2>7. QED
    BY <2>1, <2>2, <2>4, <2>5, <2>6, GoingKeepsTInv DEF TurnInv, Step
<1>3. ASSUME NEW to \in {"recording", "redone"}, Goes(u, "queued", to), Replays(u),
             to = "recording" => causal[u].state \in {"committed", "delivery-failed"},
             to = "redone" => causal[u].state = "delivered"
      PROVE  TInv'
  <2>1. Handled(u) /\ UNCHANGED <<causal, asking, tool, remembered, commits, shown>>
    BY <1>3 DEF Replays
  <2>2. /\ step[u] = "queued" /\ step'[u] = to /\ task' = task /\ entry' = entry
        /\ input' = input /\ lost' = lost /\ verdict' = verdict
    BY <1>3, GoingLeavesOthers
  <2>3. StepInv(u)'
    BY <1>1, <1>3, <2>1, <2>2 DEF TurnInv, StepInv
  <2>4. RequestInv(u)'
    BY <1>1, <1>3, <2>1, <2>2 DEF TurnInv, RequestInv
  <2>5. AnswerInv(u)'
    BY <1>1, <1>3, <2>1, <2>2 DEF TurnInv, AnswerInv, Committed
  <2>6. QED
    BY <1>3, <2>1, <2>3, <2>4, <2>5, GoingKeepsTInv DEF TurnInv, Step
<1>4. CASE StartsInference(u)
  <2>1. /\ Goes(u, "accepted", "compiling") /\ InTurn(u)
        /\ causal' = causal \/ Transition(u, {"received", "inference-rejected"}, "inference-started")
        /\ UNCHANGED <<asking, tool, remembered, commits, shown>>
    BY <1>4 DEF StartsInference, MarkInferenceStarted, Goes, InTurn
  <2>2. /\ causal'[u].state = "inference-started"
        /\ causal[u].state \in {"received", "inference-rejected", "inference-started"}
        /\ \A v \in Update : v # u => causal'[v] = causal[v]
    <3>1. causal[u].state \in {"received", "inference-rejected", "inference-started"}
      BY <1>1, <2>1 DEF TurnInv, StepInv, Goes
    <3>2. CASE causal[u].state = "inference-started"
      BY <1>4, <3>2 DEF StartsInference
    <3>3. CASE causal[u].state # "inference-started"
      BY <1>4, <3>1, <3>3, TransitionLeavesOthers DEF StartsInference, MarkInferenceStarted
    <3>4. QED
      BY <3>1, <3>2, <3>3
  <2>3. /\ step[u] = "accepted" /\ step'[u] = "compiling" /\ task' = task /\ entry' = entry
        /\ input' = input /\ lost' = lost /\ verdict' = verdict
    BY <2>1, GoingLeavesOthers
  <2>4. StepInv(u)'
    BY <1>1, <2>1, <2>2, <2>3 DEF TurnInv, StepInv
  <2>5. RequestInv(u)'
    BY <1>1, <2>1, <2>2, <2>3 DEF TurnInv, RequestInv, InTurn
  <2>6. AnswerInv(u)'
    BY <1>1, <2>1, <2>2, <2>3 DEF TurnInv, AnswerInv, Committed
  <2>7. QED
    BY <2>1, <2>2, <2>4, <2>5, <2>6, GoingKeepsTInv DEF TurnInv, Step
<1>5. QED
  BY <1>2, <1>3, <1>4 DEF Replays

\* The provider's requests and replies.
LEMMA AskingKeepsTInv ==
  ASSUME TInv, IInv', TurnTypeOK', NEW u \in Update, NEW to \in {"asking", "answered"},
         NEW from \in {"compiling", "asking"}, Goes(u, from, to),
         UNCHANGED <<causal, remembered, commits, shown>>,
         \A v \in Update : v # u => /\ tool'[v] = tool[v]
                                    /\ v \in asking' <=> v \in asking,
         u \in asking' => to = "asking" /\ (u \in ToolTurns => tool'[u] = "request-started"),
         u \notin ToolTurns => tool'[u] = tool[u]
  PROVE  TInv'
<1>1. TurnInv(u)
  BY DEF TInv
<1>2. /\ step[u] = from /\ step'[u] = to /\ task' = task /\ entry' = entry
      /\ input' = input /\ lost' = lost /\ verdict' = verdict
  BY GoingLeavesOthers
<1>3. InTurn(u)
  BY <1>2 DEF InTurn
<1>4. StepInv(u)'
  BY <1>1, <1>2 DEF TurnInv, StepInv
<1>5. RequestInv(u)'
  BY <1>1, <1>2, <1>3 DEF TurnInv, RequestInv
<1>6. AnswerInv(u)'
  BY <1>1, <1>2 DEF TurnInv, AnswerInv, Committed
<1>7. QED
  BY <1>3, <1>4, <1>5, <1>6, GoingKeepsTInv DEF TurnInv, Step

\* From the answer to the chat.
LEMMA AnsweringKeepsTInv ==
  ASSUME TInv, IInv', TurnTypeOK', NEW u \in Update,
         Commits(u) \/ Records(u) \/ StartsDelivery(u) \/ Shows(u)
  PROVE  TInv'
<1>1. TurnInv(u)
  BY DEF TInv
<1>2. TurnTypeOK
  BY DEF TInv
<1>3. CASE Commits(u)
  <2>1. /\ Goes(u, "answered", "recording") /\ InTurn(u)
        /\ Transition(u, {"inference-started"}, "committed")
        /\ commits' = [commits EXCEPT ![u] = @ + 1]
        /\ UNCHANGED <<asking, tool, remembered, shown>>
    BY <1>3 DEF Commits, CommitOutput, Goes, InTurn
  <2>2. /\ causal[u].state = "inference-started" /\ causal'[u].state = "committed"
        /\ \A v \in Update : v # u => causal'[v] = causal[v] /\ commits'[v] = commits[v]
        /\ commits'[u] = commits[u] + 1
    BY <1>2, <2>1, TransitionLeavesOthers DEF TurnTypeOK
  <2>3. /\ step[u] = "answered" /\ step'[u] = "recording" /\ task' = task /\ entry' = entry
        /\ input' = input /\ lost' = lost /\ verdict' = verdict
    BY <2>1, GoingLeavesOthers
  <2>4. StepInv(u)'
    BY <1>1, <2>1, <2>2, <2>3 DEF TurnInv, StepInv
  <2>5. RequestInv(u)'
    BY <1>1, <2>1, <2>2, <2>3 DEF TurnInv, RequestInv, InTurn
  <2>6. AnswerInv(u)'
    <3>1. commits'[u] = 1
      BY <1>1, <2>2 DEF TurnInv, AnswerInv, Committed
    <3>2. QED
      BY <1>1, <2>1, <2>2, <2>3, <3>1 DEF TurnInv, AnswerInv, Committed
  <2>7. QED
    BY <2>1, <2>2, <2>4, <2>5, <2>6, GoingKeepsTInv DEF TurnInv, Step
<1>4. CASE Records(u)
  <2>1. /\ Goes(u, "recording", "delivering") /\ InTurn(u)
        /\ remembered' = remembered \cup {u}
        /\ UNCHANGED <<causal, asking, tool, commits, shown>>
    BY <1>4 DEF Records, Goes, InTurn
  <2>3. /\ step[u] = "recording" /\ step'[u] = "delivering" /\ task' = task /\ entry' = entry
        /\ input' = input /\ lost' = lost /\ verdict' = verdict
    BY <2>1, GoingLeavesOthers
  <2>4. StepInv(u)'
    BY <1>1, <2>1, <2>3 DEF TurnInv, StepInv
  <2>5. RequestInv(u)'
    BY <1>1, <2>1, <2>3 DEF TurnInv, RequestInv, InTurn
  <2>6. AnswerInv(u)'
    BY <1>1, <2>1, <2>3 DEF TurnInv, AnswerInv, Committed
  <2>7. QED
    BY <2>1, <2>4, <2>5, <2>6, GoingKeepsTInv DEF TurnInv, Step
<1>5. CASE StartsDelivery(u)
  <2>1. /\ Goes(u, "delivering", "sending") /\ InTurn(u)
        /\ Transition(u, {"committed", "delivery-failed"}, "delivery-started")
        /\ UNCHANGED <<asking, tool, remembered, commits, shown>>
    BY <1>5 DEF StartsDelivery, MarkDeliveryStarted, Goes, InTurn
  <2>2. /\ causal[u].state \in {"committed", "delivery-failed"}
        /\ causal'[u].state = "delivery-started"
        /\ \A v \in Update : v # u => causal'[v] = causal[v]
    BY <2>1, TransitionLeavesOthers
  <2>3. /\ step[u] = "delivering" /\ step'[u] = "sending" /\ task' = task /\ entry' = entry
        /\ input' = input /\ lost' = lost /\ verdict' = verdict
    BY <2>1, GoingLeavesOthers
  <2>4. StepInv(u)'
    BY <1>1, <2>1, <2>2, <2>3 DEF TurnInv, StepInv
  <2>5. RequestInv(u)'
    BY <1>1, <2>1, <2>2, <2>3 DEF TurnInv, RequestInv, InTurn
  <2>6. AnswerInv(u)'
    BY <1>1, <2>1, <2>2, <2>3 DEF TurnInv, AnswerInv, Committed
  <2>7. QED
    BY <2>1, <2>2, <2>4, <2>5, <2>6, GoingKeepsTInv DEF TurnInv, Step
<1>6. CASE Shows(u)
  <2>1. /\ Goes(u, "sending", "sent") /\ InTurn(u)
        /\ shown' = [shown EXCEPT ![u] = @ + 1]
        /\ UNCHANGED <<causal, asking, tool, remembered, commits>>
    BY <1>6 DEF Shows, Goes, InTurn
  <2>3. /\ step[u] = "sending" /\ step'[u] = "sent" /\ task' = task /\ entry' = entry
        /\ input' = input /\ lost' = lost /\ verdict' = verdict
    BY <2>1, GoingLeavesOthers
  <2>2. /\ shown'[u] = 1 /\ causal[u].state = "delivery-started"
        /\ \A v \in Update : v # u => shown'[v] = shown[v]
    BY <1>1, <1>2, <2>1, <2>3 DEF TurnTypeOK, TurnInv, StepInv, AnswerInv
  <2>4. StepInv(u)'
    BY <1>1, <2>1, <2>2, <2>3 DEF TurnInv, StepInv
  <2>5. RequestInv(u)'
    BY <1>1, <2>1, <2>2, <2>3 DEF TurnInv, RequestInv, InTurn
  <2>6. AnswerInv(u)'
    BY <1>1, <2>1, <2>2, <2>3 DEF TurnInv, AnswerInv, Committed
  <2>7. QED
    BY <2>1, <2>2, <2>4, <2>5, <2>6, GoingKeepsTInv DEF TurnInv, Step
<1>7. QED
  BY <1>3, <1>4, <1>5, <1>6

-----------------------------------------------------------------------------
(* The invariant holds initially and every step preserves it.              *)

\* The invariant holds at first.
LEMMA TInvInit == TurnInit => TInv
<1> SUFFICES ASSUME TurnInit PROVE TInv
  OBVIOUS
<1>1. IInv /\ TurnTypeOK
  BY IInvInit, TurnTypeInit DEF TurnInit
<1>2. QueueInv
  BY DEF TurnInit, QueueInv, InTurn
<1>3. ASSUME NEW u \in Update PROVE TurnInv(u)
  <2>1. step[u] = "none" /\ task[u] = "idle" /\ causal[u].state = "none" /\ tool[u] = "none"
        /\ entry[u].state = "none" /\ commits[u] = 0 /\ shown[u] = 0
    BY DEF TurnInit, CausalInit, NoRecord, Init, InboxInit, NoEntry
  <2>2. StepInv(u)
    BY <2>1 DEF StepInv
  <2>3. RequestInv(u) /\ AnswerInv(u)
    BY <2>1 DEF TurnInit, RequestInv, AnswerInv, Committed
  <2>4. QED
    BY <2>2, <2>3 DEF TurnInv
<1>4. QED
  BY <1>1, <1>2, <1>3 DEF TInv

\* The dispatcher's steps around the turns.
LEMMA SurroundingsKeepTInv ==
  ASSUME TInv, IInv', TurnTypeOK',
         Receives \/ Passes \/ Background \/ OperatorActs \/ Dies \/ UNCHANGED vars
  PROVE  TInv'
<1>0. TypeOK /\ TurnTypeOK
  BY DEF TInv, TurnTypeOK
<1>1. CASE Receives
  <2>1. PICK u \in Update : Ingest(u)
    BY <1>1 DEF Receives
  <2>2. /\ \A v \in Update : \/ task'[v] = task[v]
                             \/ task[v] = "idle" /\ task'[v] = "dispatching"
        /\ \A v \in Update : entry'[v].state = "done" => entry[v].state = "done"
    <3>1. CASE IngestKnown(u)
      BY <3>1 DEF IngestKnown
    <3>2. CASE IngestAndStart(u)
      <4>1. task[u] = "idle"
        BY <3>2 DEF IngestAndStart, MayStart, ActiveChat
      <4>2. QED
        BY <1>0, <3>2, <4>1 DEF IngestAndStart, StartTask, ProcessingEntry, TypeOK
    <3>3. CASE IngestAndDefer(u)
      BY <1>0, <3>3 DEF IngestAndDefer, ReceivedEntry, TypeOK
    <3>4. QED
      BY <2>1, <3>1, <3>2, <3>3 DEF Ingest
  <2>3. QED
    BY <1>1, <2>2, StartingKeepsTInv DEF Receives
<1>2. CASE Passes
  <2>1. PICK c \in Chat, u \in Update : RunStep(c, u)
    BY <1>2 DEF Passes
  <2>2. /\ \A v \in Update : \/ task'[v] = task[v]
                             \/ task[v] = "idle" /\ task'[v] = "dispatching"
        /\ \A v \in Update : entry'[v].state = "done" => entry[v].state = "done"
    <3>1. CASE RunStarts(c, u)
      BY <1>0, <3>1 DEF RunStarts, StartTask, ProcessingEntry, TypeOK
    <3>2. CASE RunSkips(c, u) \/ RunJoins(c, u) \/ RunStartFails(c, u)
      BY <3>2 DEF RunSkips, RunJoins, RunStartFails
    <3>3. QED
      BY <2>1, <3>1, <3>2 DEF RunStep
  <2>3. QED
    BY <1>2, <2>2, StartingKeepsTInv DEF Passes
<1>3. CASE Background \/ UNCHANGED vars
  <2>1. /\ \A v \in Update : task'[v] = "dispatching" <=> task[v] = "dispatching"
        /\ \A v \in Update : entry'[v].state = "done" => entry[v].state = "done"
    <3>1. CASE WriteOffset \/ RetryDue \/ Restart \/ ReplayDone \/ UNCHANGED vars
      BY <3>1 DEF WriteOffset, RetryDue, Restart, ReplayDone, vars, dvars
    <3>2. ASSUME NEW u \in Update, NoticeSettles(u)
          PROVE  /\ \A v \in Update : task'[v] = "dispatching" <=> task[v] = "dispatching"
                 /\ entry' = entry
      <4>1. task[u] = "notifying" /\ task' = [task EXCEPT ![u] = "idle"] /\ entry' = entry
        BY <3>2 DEF NoticeSettles, Resolve
      <4>2. QED
        BY <1>0, <4>1 DEF TypeOK
    <3>3. ASSUME NEW u \in Update, Waited(u)
          PROVE  /\ \A v \in Update : task'[v] = task[v]
                 /\ \A v \in Update : entry'[v].state = "done" => entry[v].state = "done"
      BY <1>0, <3>3 DEF Waited, BackoffElapses, dispatcherVars, TypeOK, Entry
    <3>4. QED
      BY <1>3, <3>1, <3>2, <3>3 DEF Background
  <2>2. UNCHANGED <<causal, turnVars>>
    BY <1>3 DEF Background, vars
  <2>3. \A v \in Update : Undisturbed(v)
    BY <2>1, <2>2 DEF Undisturbed, turnVars
  <2>4. QueueInv'
    BY <2>2 DEF TInv, QueueInv, InTurn, turnVars
  <2>5. QED
    BY <2>3, <2>4, UndisturbedKeepsInv DEF TInv
<1>4. CASE OperatorActs
  <2>1. PICK u \in Update :
          /\ Operator(u)
          /\ verdict' = [verdict EXCEPT ![u] =
               IF entry'[u].state = "done" THEN "archive"
               ELSE IF entry[u].state = "operator-paused" THEN "resume"
               ELSE "requeue"]
    BY <1>4 DEF OperatorActs
  <2>2. /\ UNCHANGED <<task, causal, step, input, queue, asking, tool, remembered, commits,
                       shown, lost>>
        /\ \A v \in Update : v # u => entry'[v] = entry[v] /\ verdict'[v] = verdict[v]
        /\ entry'[u].state = "done" => verdict'[u] = "archive"
    BY <1>0, <1>4, <2>1 DEF OperatorActs, Operator, RequeueTerminal, ArchiveTerminal, TypeOK,
       TurnTypeOK
  <2>3. QueueInv'
    BY <2>2 DEF TInv, QueueInv, InTurn
  <2>4. ASSUME NEW v \in Update, v # u PROVE Undisturbed(v)
    BY <2>2, <2>4 DEF Undisturbed
  <2>5. TurnInv(u)'
    <3>1. TurnInv(u)
      BY DEF TInv
    <3>2. StepInv(u)' /\ RequestInv(u)'
      BY <2>2, <3>1 DEF TurnInv, StepInv, RequestInv, InTurn, CanResume
    <3>3. AnswerInv(u)'
      BY <2>2, <3>1 DEF TurnInv, AnswerInv, Committed
    <3>4. QED
      BY <3>2, <3>3 DEF TurnInv
  <2>6. QED
    BY <2>3, <2>4, <2>5, OneTurnMoves
<1>5. CASE Dies
  <2>1. /\ \A v \in Update : step'[v] = "none" /\ task'[v] = "idle"
        /\ queue' = <<>> /\ lost' = lost \cup asking /\ asking' = {}
        /\ UNCHANGED <<entry, causal, tool, remembered, commits, shown, verdict>>
    BY <1>5 DEF Dies, Crash, LoadInbox
  <2>2. QueueInv'
    BY <2>1 DEF QueueInv, InTurn
  <2>3. ASSUME NEW v \in Update PROVE TurnInv(v)'
    <3>1. TurnInv(v)
      BY DEF TInv
    <3>2. StepInv(v)' /\ AnswerInv(v)'
      BY <2>1, <3>1 DEF TurnInv, StepInv, AnswerInv, Committed
    <3>3. RequestInv(v)'
      BY <2>1, <3>1 DEF TurnInv, StepInv, RequestInv, InTurn, CanResume
    <3>4. QED
      BY <3>2, <3>3 DEF TurnInv
  <2>4. QED
    BY <2>2, <2>3 DEF TInv
<1>6. QED
  BY <1>1, <1>2, <1>3, <1>4, <1>5

\* Every step of a turn preserves the invariant.
LEMMA TurnStepKeepsTInv ==
  ASSUME TInv, IInv', TurnTypeOK', NEW u \in Update, TurnStep(u)
  PROVE  TInv'
<1>1. TurnInv(u)
  BY DEF TInv
<1>2. \A action \in {"fail", "pause", "operator-pause"} : action \in ErrorAction
  BY DEF ErrorAction
<1>3. CASE PrepareFails(u) \/ Refuses(u) \/ CompileFails(u) \/ ToolLoopStops(u)
           \/ SendAmbiguous(u) \/ AppendThrows(u)
  <2>1. /\ step[u] = "preparing" \/ Handled(u) \/ InTurn(u)
        /\ UNCHANGED <<causal, asking, tool, remembered, commits, shown, lost, verdict>>
        /\ \E action \in ErrorAction : Throws(u, action)
    BY <1>2, <1>3 DEF PrepareFails, Refuses, CompileFails, ToolLoopStops, SendAmbiguous,
       AppendThrows, InTurn
  <2>2. u \notin asking
    BY <1>1, <1>3 DEF TurnInv, RequestInv, PrepareFails, Refuses, CompileFails, ToolLoopStops,
       SendAmbiguous, AppendThrows, Handled
  <2>3. QED
    BY <2>1, <2>2, ThrowingKeepsTInv
<1>4. CASE Rejects(u)
  <2>1. /\ InTurn(u) /\ u \notin asking
        /\ UNCHANGED <<asking, tool, remembered, commits, shown, lost, verdict>>
        /\ \E action \in ErrorAction : Throws(u, action)
        /\ Transition(u, {"inference-started"}, "inference-rejected")
    BY <1>2, <1>4 DEF Rejects, InTurn, MarkInferenceRejected
  <2>2. /\ causal[u].state = "inference-started" /\ causal'[u].state = "inference-rejected"
        /\ \A v \in Update : v # u => causal'[v] = causal[v]
    BY <2>1, TransitionLeavesOthers
  <2>3. u \notin lost'
    BY <1>1, <2>1 DEF TurnInv, RequestInv
  <2>4. QED
    BY <2>1, <2>2, <2>3, ThrowingKeepsTInv
<1>5. CASE SendRefused(u)
  <2>1. /\ InTurn(u) /\ step[u] = "sending"
        /\ UNCHANGED <<asking, tool, remembered, commits, shown, lost, verdict>>
        /\ Throws(u, "fail")
        /\ Transition(u, {"delivery-started"}, "delivery-failed")
    BY <1>5 DEF SendRefused, InTurn, MarkDeliveryFailed
  <2>2. /\ causal'[u].state = "delivery-failed"
        /\ \A v \in Update : v # u => causal'[v] = causal[v]
    BY <2>1, TransitionLeavesOthers
  <2>3. u \notin lost /\ u \notin asking
    BY <1>1, <2>1 DEF TurnInv, RequestInv
  <2>4. QED
    BY <1>2, <2>1, <2>2, <2>3, ThrowingKeepsTInv
<1>6. CASE ToolAppendThrows(u) \/ (RequestVanishes(u) /\ u \in ToolTurns)
  <2>1. /\ InTurn(u) /\ step[u] = "asking" /\ asking' = asking \ {u}
        /\ UNCHANGED <<causal, tool, remembered, commits, shown, verdict>>
        /\ \E action \in ErrorAction : Throws(u, action)
        /\ \A v \in Update : v # u => (v \in lost' <=> v \in lost)
        /\ u \in lost' => u \in lost \/ u \in asking
        /\ u \in ToolTurns
    <3>1. CASE ToolAppendThrows(u)
      BY <1>2, <3>1 DEF ToolAppendThrows, InTurn
    <3>2. CASE RequestVanishes(u) /\ u \in ToolTurns
      BY <1>1, <1>2, <3>2 DEF RequestVanishes, InTurn, TurnInv, RequestInv
    <3>3. QED
      BY <1>6, <3>1, <3>2
  <2>2. u \in lost' => u \in lost \/ (causal[u].state = "inference-started" /\ ~CanResume(u))
    BY <1>1, <2>1 DEF TurnInv, StepInv, RequestInv, CanResume
  <2>3. QED
    BY <2>1, <2>2, ThrowingKeepsTInv
<1>7. CASE NothingToSay(u)
  BY <1>7, SucceedingKeepsTInv DEF NothingToSay
<1>8. CASE Acknowledges(u)
  <2>1. causal'[u].state = "delivered" /\ \A v \in Update : v # u => causal'[v] = causal[v]
    BY <1>8, TransitionLeavesOthers DEF Acknowledges, MarkDelivered
  <2>2. QED
    BY <1>8, <2>1, SucceedingKeepsTInv DEF Acknowledges, InTurn
<1>9. CASE Reaffirms(u)
  <2>1. causal[u].state = "delivered"
    BY <1>1, <1>9 DEF Reaffirms, TurnInv, StepInv
  <2>2. QED
    BY <1>9, <2>1, SucceedingKeepsTInv DEF Reaffirms, InTurn
<1>10. CASE Responds(u) \/ Requests(u) \/ Answers(u) \/ AsksOn(u)
            \/ (RequestVanishes(u) /\ u \notin ToolTurns)
  <2>1. CASE Responds(u)
    <3>1. /\ UNCHANGED <<causal, asking, remembered, commits, shown>>
          /\ \E to \in {"asking", "answered"} : Goes(u, "compiling", to)
          /\ tool' = tool \/ (u \in ToolTurns /\ tool' = [tool EXCEPT ![u] = "open"])
      BY <2>1 DEF Responds
    <3>2. step[u] = "compiling"
      BY <3>1 DEF Goes
    <3>3. u \notin asking
      BY <1>1, <3>2 DEF TurnInv, RequestInv
    <3>4. QED
      BY <3>1, <3>3, AskingKeepsTInv DEF TInv, TurnTypeOK
  <2>2. CASE Requests(u)
    BY <2>2, AskingKeepsTInv DEF Requests, TInv, TurnTypeOK
  <2>3. CASE Answers(u)
    BY <2>3, AskingKeepsTInv DEF Answers, TInv, TurnTypeOK
  <2>4. CASE AsksOn(u)
    BY <2>4, AskingKeepsTInv DEF AsksOn, TInv, TurnTypeOK
  <2>5. CASE RequestVanishes(u) /\ u \notin ToolTurns
    BY <2>5, AskingKeepsTInv DEF RequestVanishes
  <2>6. QED
    BY <1>10, <2>1, <2>2, <2>3, <2>4, <2>5
<1>11. QED
  BY <1>3, <1>4, <1>5, <1>6, <1>7, <1>8, <1>9, <1>10, PreparingKeepsTInv,
     AcceptingKeepsTInv, AnsweringKeepsTInv DEF TurnStep

\* Every step preserves the invariant.
LEMMA TInvStep == TInv /\ [TurnNext]_vars => TInv'
<1> SUFFICES ASSUME TInv, [TurnNext]_vars PROVE TInv'
  OBVIOUS
<1>1. IInv'
  BY DispatcherSteps, IInvStep DEF TInv
<1>2. TurnTypeOK'
  BY TurnTypeStep
<1>3. QED
  BY <1>1, <1>2, SurroundingsKeepTInv, TurnStepKeepsTInv DEF TurnNext

\* The inductive invariant holds.
LEMMA TInvHolds == TurnSpec => []TInv
  BY TInvInit, TInvStep, PTL DEF TurnSpec

\* Every variable of the runtime keeps its shape, whatever the constants.
THEOREM TurnTypeCorrect == TurnSpec => []TurnTypeOK
<1>1. TInv => TurnTypeOK
  BY DEF TInv
<1>2. QED
  BY <1>1, TInvHolds, PTL

\* At most one committed output and at most one answer shown per update,
\* through every crash, failed append, retry and operator command.
THEOREM AnswersAtMostOnce == TurnSpec => []AtMostOnce
<1>1. TInv => AtMostOnce
  <2> SUFFICES ASSUME TInv, NEW u \in Update PROVE commits[u] <= 1 /\ shown[u] <= 1
    BY DEF AtMostOnce
  <2>1. commits[u] \in {0, 1} /\ shown[u] \in {0, 1}
    BY DEF TInv, TurnInv, AnswerInv
  <2>2. QED
    BY <2>1
<1>2. QED
  BY <1>1, TInvHolds, PTL

\* A request whose reply was lost is never followed by another.
THEOREM LossIsFinal == TurnSpec => []NoReinferenceAfterLoss
<1>1. TInv => NoReinferenceAfterLoss
  BY DEF TInv, TurnTypeOK, TurnInv, RequestInv, InTurn, NoReinferenceAfterLoss
<1>2. QED
  BY <1>1, TInvHolds, PTL

\* What the runtime closes as done was delivered, shown and remembered.
THEOREM DoneIsDelivered == TurnSpec => []DoneMeansDelivered
<1>1. TInv => DoneMeansDelivered
  BY DEF TInv, TurnInv, AnswerInv, DoneMeansDelivered
<1>2. QED
  BY <1>1, TInvHolds, PTL

\* What the user has read is in memory.
THEOREM MemoryPrecedesTheUser == TurnSpec => []ShownIsRemembered
<1>1. TInv => ShownIsRemembered
  BY DEF TInv, TurnInv, AnswerInv, ShownIsRemembered
<1>2. QED
  BY <1>1, TInvHolds, PTL

\* The promise queue lets one turn of the session run at a time.
THEOREM TurnsAreSerial == TurnSpec => []OneTurnAtATime
<1>1. TInv => OneTurnAtATime
  BY DEF TInv, QueueInv, OneTurnAtATime
<1>2. QED
  BY <1>1, TInvHolds, PTL

\* A live turn never meets a causal state that its next transition refuses.
THEOREM TurnAgreesWithJournal == TurnSpec => []TurnMatchesJournal
<1>1. TInv => TurnMatchesJournal
  BY DEF TInv, TurnInv, StepInv, TurnMatchesJournal
<1>2. QED
  BY <1>1, TInvHolds, PTL

-----------------------------------------------------------------------------
(* The runtime implements the promise.                                     *)

\* A step that leaves every status, answer, memory and chat alone is a stutter
\* of the promise.
LEMMA InvisibleSteps ==
  ASSUME \A v \in Update : StatusOf(entry'[v]) = StatusOf(entry[v]),
         UNCHANGED <<commits, remembered, shown>>
  PROVE  UNCHANGED Promise!svars
<1>1. [v \in Update |-> StatusOf(entry'[v])] = [v \in Update |-> StatusOf(entry[v])]
  OBVIOUS
<1>2. QED
  BY <1>1 DEF Promise!svars

\* A step that moves the status of one update.
LEMMA StatusMoves ==
  ASSUME NEW u \in Update, NEW to, NEW from,
         StatusOf(entry[u]) \in from, StatusOf(entry'[u]) = to,
         \A v \in Update : v # u => entry'[v] = entry[v],
         UNCHANGED <<commits, remembered, shown>>
  PROVE  Promise!Moves(u, from, to)
<1>1. [v \in Update |-> StatusOf(entry'[v])]
        = [[v \in Update |-> StatusOf(entry[v])] EXCEPT ![u] = to]
  OBVIOUS
<1>2. QED
  BY <1>1 DEF Promise!Moves

\* A step of a live turn that leaves the inbox alone.
LEMMA InboxStays ==
  ASSUME NEW u \in Update, NEW from, NEW to, Goes(u, from, to)
  PROVE  [v \in Update |-> StatusOf(entry'[v])] = [v \in Update |-> StatusOf(entry[v])]
  BY DEF Goes, dvars

\* The end of a task moves an open update to done, parked or dead, or leaves
\* it open.
LEMMA EndsKeepPromise ==
  ASSUME TInv, NEW u \in Update, TaskEnds(u), UNCHANGED <<commits, remembered, shown>>,
         entry'[u].state = "done" => EnvelopesOf[u] = {} \/ shown[u] = 1
  PROVE  Promise!Next \/ UNCHANGED Promise!svars
<1>1. /\ StatusOf(entry[u]) = "open"
      /\ \A v \in Update : v # u => entry'[v] = entry[v]
  BY EndsEffect DEF TInv, StatusOf
<1>2. CASE entry'[u].state = "done"
  <2>1. Promise!Moves(u, {"open"}, "done")
    BY <1>1, <1>2, StatusMoves DEF StatusOf
  <2>2. Promise!Finish(u)
    BY <1>2, <2>1 DEF Promise!Finish
  <2>3. QED
    BY <2>2 DEF Promise!Next
<1>3. CASE entry'[u].state \in {"dead-letter", "operator-paused"}
  <2>1. Promise!Moves(u, {"open"}, "dead") \/ Promise!Moves(u, {"open"}, "parked")
    BY <1>1, <1>3, StatusMoves DEF StatusOf
  <2>2. QED
    BY <2>1 DEF Promise!Next, Promise!GiveUp
<1>4. CASE entry'[u].state \notin {"done", "dead-letter", "operator-paused"}
  <2>1. entry'[u].state # "none"
    <3>1. TypeOK /\ entry[u].state = "processing"
      BY EndsEffect DEF TInv, TurnTypeOK
    <3>2. ASSUME NEW a \in ErrorAction, EndWithFailure(u, a) PROVE entry'[u].state # "none"
      <4>1. entry'[u] = AfterFailure(entry[u], a)
        BY <3>1, <3>2 DEF TypeOK, EndWithFailure, ApplyDurableFailure
      <4>2. QED
        BY <4>1 DEF AfterFailure, PausedEntry, OperatorPausedEntry, FailedEntry
    <3>3. CASE TaskSucceeds(u) \/ FailureAppendFails(u)
      <4>1. entry'[u] = DoneEntry \/ entry'[u] = entry[u]
        BY <3>1, <3>3 DEF TaskSucceeds, FailureAppendFails, MarkDone, ReleaseWithoutRecord,
           TypeOK
      <4>2. DoneEntry.state = "done"
        BY DEF DoneEntry
      <4>3. QED
        BY <3>1, <4>1, <4>2
    <3>4. CASE DoneAppendFails(u)
      BY <3>2, <3>4 DEF DoneAppendFails, ErrorAction
    <3>5. ASSUME NEW a \in ErrorAction, TaskFails(u, a) PROVE entry'[u].state # "none"
      BY <3>2, <3>5 DEF TaskFails
    <3>6. QED
      BY <3>3, <3>4, <3>5 DEF TaskEnds
  <2>2. StatusOf(entry'[u]) = "open"
    BY <1>4, <2>1 DEF StatusOf
  <2>3. QED
    BY <1>1, <2>2, InvisibleSteps
<1>5. QED
  BY <1>2, <1>3, <1>4

\* A step of a turn is a step of the promise, or a stutter.
LEMMA TurnStepKeepsPromise ==
  ASSUME TInv, NEW u \in Update, TurnStep(u)
  PROVE  Promise!Next \/ UNCHANGED Promise!svars
<1>1. TurnInv(u) /\ TurnTypeOK /\ IInv
  BY DEF TInv
<1>2. CASE \/ PrepareFails(u) \/ Refuses(u) \/ CompileFails(u) \/ Rejects(u)
           \/ ToolLoopStops(u) \/ SendRefused(u) \/ SendAmbiguous(u)
           \/ AppendThrows(u) \/ ToolAppendThrows(u)
           \/ (RequestVanishes(u) /\ u \in ToolTurns)
  <2>1. /\ \E action \in ErrorAction : Throws(u, action)
        /\ UNCHANGED <<commits, remembered, shown>>
    BY <1>2 DEF PrepareFails, Refuses, CompileFails, Rejects, ToolLoopStops, SendRefused,
       SendAmbiguous, AppendThrows, ToolAppendThrows, RequestVanishes, ErrorAction
  <2>2. TaskEnds(u) /\ entry'[u].state # "done"
    BY <1>1, <2>1, ThrowsEffect
  <2>3. QED
    BY <2>1, <2>2, EndsKeepPromise
<1>3. CASE NothingToSay(u) \/ Acknowledges(u)
  BY <1>1, <1>3, SucceedsEffect, EndsKeepPromise
     DEF NothingToSay, Acknowledges, TurnInv, AnswerInv
<1>4. CASE Reaffirms(u)
  <2>1. u \in remembered /\ shown[u] = 1
    BY <1>1, <1>4 DEF Reaffirms, TurnInv, StepInv, AnswerInv
  <2>2. remembered' = remembered
    BY <1>4, <2>1 DEF Reaffirms
  <2>3. QED
    BY <1>1, <1>4, <2>1, <2>2, SucceedsEffect, EndsKeepPromise DEF Reaffirms
<1>5. CASE \/ Prepare(u) \/ TakesInput(u) \/ Replays(u) \/ StartsInference(u)
           \/ Responds(u) \/ Requests(u) \/ Answers(u) \/ AsksOn(u) \/ StartsDelivery(u)
           \/ (RequestVanishes(u) /\ u \notin ToolTurns)
  <2>1. UNCHANGED <<entry, commits, remembered, shown>>
    BY <1>5 DEF Prepare, TakesInput, Replays, StartsInference, Responds, Requests, Answers,
       AsksOn, StartsDelivery, RequestVanishes, Goes, dvars
  <2>2. QED
    BY <2>1, InvisibleSteps
<1>6. CASE Commits(u) \/ Records(u) \/ Shows(u)
  <2>1. /\ [v \in Update |-> StatusOf(entry'[v])] = [v \in Update |-> StatusOf(entry[v])]
        /\ step[u] # "none"
    BY <1>6, InboxStays DEF Commits, Records, Shows, Goes
  <2>2. StatusOf(entry[u]) = "open"
    BY <1>1, <2>1 DEF TurnInv, StepInv, IInv, DispatchedIsProcessing, StatusOf
  <2>3. CASE Commits(u)
    <3>1. commits[u] = 0
      BY <1>1, <2>3 DEF Commits, CommitOutput, Transition, TurnInv, AnswerInv, Committed
    <3>2. /\ commits' = [commits EXCEPT ![u] = commits[u] + 1]
          /\ UNCHANGED <<remembered, shown>>
      BY <2>3 DEF Commits
    <3>3. Promise!Answer(u)
      BY <2>1, <2>2, <3>1, <3>2 DEF Promise!Answer
    <3>4. QED
      BY <3>3 DEF Promise!Next
  <2>4. CASE Records(u)
    <3>1. commits[u] = 1
      BY <1>1, <2>4 DEF Records, Goes, TurnInv, StepInv, AnswerInv, Committed
    <3>2. Promise!Remember(u)
      BY <2>1, <2>2, <2>4, <3>1 DEF Records, Promise!Remember
    <3>3. QED
      BY <3>2 DEF Promise!Next
  <2>5. CASE Shows(u)
    <3>1. shown[u] = 0 /\ u \in remembered
      BY <1>1, <2>5 DEF Shows, Goes, TurnInv, StepInv, AnswerInv
    <3>2. /\ shown' = [shown EXCEPT ![u] = shown[u] + 1]
          /\ UNCHANGED <<commits, remembered>>
      BY <2>5 DEF Shows
    <3>3. Promise!Show(u)
      BY <2>1, <2>2, <3>1, <3>2 DEF Promise!Show
    <3>4. QED
      BY <3>3 DEF Promise!Next
  <2>6. QED
    BY <1>6, <2>3, <2>4, <2>5
<1>7. QED
  BY <1>2, <1>3, <1>4, <1>5, <1>6 DEF TurnStep

\* What the dispatcher, the operator and a crash do is a stutter of the promise.
LEMMA SurroundingsKeepPromise ==
  ASSUME TInv, Receives \/ Passes \/ Background \/ OperatorActs \/ Dies \/ UNCHANGED vars
  PROVE  Promise!Next \/ UNCHANGED Promise!svars
<1>0. TypeOK /\ IInv
  BY DEF TInv, TurnTypeOK
<1>1. UNCHANGED <<commits, remembered, shown>>
  BY DEF Receives, Passes, Background, OperatorActs, Dies, vars, turnVars
<1>2. CASE Receives
  <2>1. PICK u \in Update : Ingest(u)
    BY <1>2 DEF Receives
  <2>2. CASE IngestKnown(u)
    BY <1>1, <2>2, InvisibleSteps DEF IngestKnown
  <2>3. CASE IngestAndStart(u) \/ IngestAndDefer(u)
    <3>1. /\ \A v \in Update : v # u => entry'[v] = entry[v]
          /\ entry[u].state \in {"none", "received"}
          /\ entry'[u].state \in {"received", "processing"}
      BY <1>0, <2>3 DEF IngestAndStart, IngestAndDefer, StartTask, ProcessingEntry,
         ReceivedEntry, TypeOK
    <3>2. CASE entry[u].state = "none"
      <4>1. Promise!Moves(u, {"unseen"}, "open")
        BY <1>1, <3>1, <3>2, StatusMoves DEF StatusOf
      <4>2. QED
        BY <4>1 DEF Promise!Next, Promise!Accept
    <3>3. CASE entry[u].state = "received"
      <4>1. StatusOf(entry'[u]) = StatusOf(entry[u])
        BY <3>1, <3>3 DEF StatusOf
      <4>2. QED
        BY <1>1, <3>1, <4>1, InvisibleSteps
    <3>4. QED
      BY <3>1, <3>2, <3>3
  <2>4. QED
    BY <2>1, <2>2, <2>3 DEF Ingest
<1>3. CASE Passes
  <2>1. PICK c \in Chat, u \in Update : RunStep(c, u)
    BY <1>3 DEF Passes
  <2>2. CASE RunStarts(c, u)
    <3>1. IsOpen(u) \/ task[u] = "notifying"
      BY <1>0, <2>2 DEF IInv, PassIsOpen, RunStarts, NextInRun
    <3>2. IsOpen(u)
      BY <2>2, <3>1 DEF RunStarts
    <3>3. /\ \A v \in Update : v # u => entry'[v] = entry[v]
          /\ entry'[u].state = "processing"
      BY <1>0, <2>2 DEF RunStarts, StartTask, ProcessingEntry, TypeOK
    <3>4. StatusOf(entry'[u]) = StatusOf(entry[u])
      BY <3>2, <3>3 DEF StatusOf, IsOpen
    <3>5. QED
      BY <1>1, <3>3, <3>4, InvisibleSteps
  <2>3. CASE RunSkips(c, u) \/ RunJoins(c, u) \/ RunStartFails(c, u)
    BY <1>1, <2>3, InvisibleSteps DEF RunSkips, RunJoins, RunStartFails
  <2>4. QED
    BY <2>1, <2>2, <2>3 DEF RunStep
<1>4. CASE Background \/ Dies \/ UNCHANGED vars
  <2>1. \A v \in Update : entry'[v].state = entry[v].state
    <3>1. CASE Dies \/ UNCHANGED vars
      BY <3>1 DEF Dies, Crash, LoadInbox, vars, dvars
    <3>2. CASE WriteOffset \/ RetryDue \/ Restart \/ ReplayDone
      BY <3>2 DEF WriteOffset, RetryDue, Restart, ReplayDone
    <3>3. ASSUME NEW u \in Update, NoticeSettles(u) \/ Waited(u)
          PROVE  \A v \in Update : entry'[v].state = entry[v].state
      <4>1. CASE NoticeSettles(u)
        BY <4>1 DEF NoticeSettles
      <4>2. CASE Waited(u)
        BY <1>0, <4>2 DEF Waited, BackoffElapses, TypeOK, Entry
      <4>3. QED
        BY <3>3, <4>1, <4>2
    <3>4. QED
      BY <1>4, <3>1, <3>2, <3>3 DEF Background
  <2>2. QED
    BY <1>1, <2>1, InvisibleSteps DEF StatusOf
<1>5. CASE OperatorActs
  <2>1. PICK u \in Update : Operator(u)
    BY <1>5 DEF OperatorActs
  <2>2. \A v \in Update : v # u => entry'[v] = entry[v]
    BY <1>0, <2>1 DEF Operator, RequeueTerminal, ArchiveTerminal, TypeOK
  <2>3. CASE ArchiveTerminal(u)
    <3>1. entry[u].state \in {"dead-letter", "operator-paused"} /\ entry'[u].state = "done"
      BY <1>0, <2>3 DEF ArchiveTerminal, ArchivedEntry, TypeOK
    <3>2. Promise!Moves(u, {"parked", "dead"}, "done")
      BY <1>1, <2>2, <3>1, StatusMoves DEF StatusOf
    <3>3. QED
      BY <3>2 DEF Promise!Next, Promise!Close
  <2>4. ASSUME NEW s \in {"dead-letter", "operator-paused", "failed", "done"},
               RequeueTerminal(u, {s})
        PROVE  Promise!Next \/ UNCHANGED Promise!svars
    <3>1. entry[u].state = s /\ entry'[u].state = "received"
      BY <1>0, <2>4 DEF RequeueTerminal, ReceivedEntry, TypeOK
    <3>2. CASE s = "failed"
      <4>1. StatusOf(entry'[u]) = StatusOf(entry[u])
        BY <3>1, <3>2 DEF StatusOf
      <4>2. QED
        BY <1>1, <2>2, <4>1, InvisibleSteps
    <3>3. CASE s # "failed"
      <4>1. Promise!Moves(u, {"parked", "dead", "done"}, "open")
        BY <1>1, <2>2, <2>4, <3>1, <3>3, StatusMoves DEF StatusOf
      <4>2. QED
        BY <4>1 DEF Promise!Next, Promise!Reopen
    <3>4. QED
      BY <3>2, <3>3
  <2>5. QED
    BY <2>1, <2>3, <2>4 DEF Operator
<1>6. QED
  BY <1>2, <1>3, <1>4, <1>5

\* The runtime implements the promise of the Selfsame Protocol: every step of
\* a turn, of the dispatcher, of a crash and of the operator is a step of
\* SelfsameTurn or invisible to it.
THEOREM RuntimeKeepsPromise == TurnSpec => KeepsPromise
<1>1. TurnInit => Promise!Init
  <2> SUFFICES ASSUME TurnInit PROVE Promise!Init
    OBVIOUS
  <2>1. [v \in Update |-> StatusOf(entry[v])] = [v \in Update |-> "unseen"]
    BY DEF TurnInit, Init, InboxInit, NoEntry, StatusOf
  <2>2. QED
    BY <2>1 DEF TurnInit, Promise!Init
<1>2. TInv /\ [TurnNext]_vars => [Promise!Next]_(Promise!svars)
  BY TurnStepKeepsPromise, SurroundingsKeepPromise DEF TurnNext
<1>3. QED
  BY <1>1, <1>2, TInvHolds, PTL DEF TurnSpec, KeepsPromise, Promise!Spec

=============================================================================
