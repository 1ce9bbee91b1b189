---------------------------- MODULE DurableInbox ----------------------------
(***************************************************************************)
(* The durable Telegram inbox (runtime/durable/durable-inbox.js): one      *)
(* append-only journal whose last record of an update is that update's     *)
(* entry, and the volatile set of the updates a live task works on.        *)
(*                                                                         *)
(* The journal is fsynced before the in-memory map changes, so the map and *)
(* the file hold the same entries and a restart reloads them unchanged;    *)
(* "inflight" is lost.  Retry times are abstracted to one bit: an entry is *)
(* due, or its backoff is still running.                                   *)
(***************************************************************************)
EXTENDS Naturals

CONSTANTS
  Update,       \* the update_ids Telegram may deliver; their order is receipt order
  Chat,         \* the chats they belong to
  ChatOf,       \* the chat of each update
  MaxAttempts   \* failures after which an update is a dead letter

ASSUME InboxAssumption ==
  /\ Update \subseteq Nat
  /\ ChatOf \in [Update -> Chat]
  /\ MaxAttempts \in Nat \ {0}

VARIABLES
  entry,        \* durable: the last record of each update
  inflight      \* volatile: updates marked processing and not yet settled

inboxVars == <<entry, inflight>>

-----------------------------------------------------------------------------
(* Entries.  "none" is an update the journal has never seen.               *)

EntryState == {"none", "received", "processing", "group-queued", "failed",
               "paused", "operator-paused", "done", "dead-letter"}

Entry == [state : EntryState, attempts : 0 .. MaxAttempts, due : BOOLEAN]

NoEntry == [state |-> "none", attempts |-> 0, due |-> TRUE]

ReceivedEntry == [state |-> "received", attempts |-> 0, due |-> TRUE]

ProcessingEntry(e) == [state |-> "processing", attempts |-> e.attempts, due |-> TRUE]

QueuedEntry(e) == [state |-> "group-queued", attempts |-> e.attempts, due |-> TRUE]

DoneEntry == [state |-> "done", attempts |-> 0, due |-> TRUE]

\* One more failed attempt: the last one allowed makes a dead letter, an
\* earlier one waits for its backoff.
FailedEntry(e) ==
  IF e.attempts + 1 >= MaxAttempts
  THEN [state |-> "dead-letter", attempts |-> MaxAttempts, due |-> TRUE]
  ELSE [state |-> "failed", attempts |-> e.attempts + 1, due |-> FALSE]

PausedEntry(e) == [state |-> "paused", attempts |-> e.attempts, due |-> FALSE]

OperatorPausedEntry(e) ==
  [state |-> "operator-paused", attempts |-> e.attempts, due |-> TRUE]

ArchivedEntry(e) == [state |-> "done", attempts |-> e.attempts, due |-> TRUE]

\* What a failed dispatch makes of an entry (the durable error policy): the
\* class of the error decides, not the entry.
ErrorAction == {"fail", "pause", "operator-pause"}

AfterFailure(e, action) ==
  CASE action = "operator-pause" -> OperatorPausedEntry(e)
    [] action = "pause"          -> PausedEntry(e)
    [] OTHER                     -> FailedEntry(e)

-----------------------------------------------------------------------------
(* Queries.                                                                *)

IsDone(u) == entry[u].state \in {"done", "dead-letter"}

\* Mutant of IsOpen: a parked update counts as open.
IsOpenParkedToo(u) == entry[u].state \notin {"none", "done", "dead-letter"}

\* Still to be processed without an operator.
IsOpen(u) == entry[u].state \notin {"none", "done", "dead-letter", "operator-paused"}

SameChat(u, v) == ChatOf[u] = ChatOf[v]

HasEarlierBlockedEntry(u) ==
  \E v \in Update : v < u /\ SameChat(u, v) /\ IsOpen(v)

\* receive() refuses what is finished, parked, or being worked on.
Accepts(u) ==
  /\ entry[u].state \notin {"done", "dead-letter", "operator-paused"}
  /\ u \notin inflight

\* The entries a restart replays for a chat, due or not.
PendingRun(c) == {u \in Update : ChatOf[u] = c /\ IsOpen(u) /\ u \notin inflight}

\* The prefix of a chat's open entries that the retry timer takes: the first
\* entry that is in flight or not yet due is a barrier for those behind it.
DueRun(c) ==
  {u \in Update :
     /\ ChatOf[u] = c
     /\ IsOpen(u)
     /\ \A v \in Update :
          ChatOf[v] = c /\ IsOpen(v) /\ v <= u => v \notin inflight /\ entry[v].due}

-----------------------------------------------------------------------------
(* Operations.                                                             *)

InboxInit ==
  /\ entry = [u \in Update |-> NoEntry]
  /\ inflight = {}

\* markDone and the mark*Failure family release the update before they append.
MarkDone(u) ==
  /\ entry' = [entry EXCEPT ![u] = DoneEntry]
  /\ inflight' = inflight \ {u}

ApplyDurableFailure(u, action) ==
  /\ entry' = [entry EXCEPT ![u] = AfterFailure(@, action)]
  /\ inflight' = inflight \ {u}

\* The same calls when the append throws: the update is released, the entry
\* keeps its last record.
ReleaseWithoutRecord(u) ==
  /\ inflight' = inflight \ {u}
  /\ UNCHANGED entry

\* The clock passes nextRetryAt of a waiting entry.
BackoffElapses(u) ==
  /\ ~entry[u].due
  /\ entry' = [entry EXCEPT ![u].due = TRUE]
  /\ UNCHANGED inflight

\* The operator's commands; each refuses an entry in any other state.
RequeueTerminal(u, allowed) ==
  /\ entry[u].state \in allowed
  /\ entry' = [entry EXCEPT ![u] = ReceivedEntry]
  /\ UNCHANGED inflight

ArchiveTerminal(u) ==
  /\ entry[u].state \in {"dead-letter", "operator-paused"}
  /\ entry' = [entry EXCEPT ![u] = ArchivedEntry(@)]
  /\ UNCHANGED inflight

\* A restart reads the journal back and forgets what was in flight.
LoadInbox ==
  /\ inflight' = {}
  /\ UNCHANGED entry

=============================================================================
