---------------------------- MODULE GroupPipeline ----------------------------
(***************************************************************************)
(* One Telegram group: the poll loop with its offset and albums            *)
(* (channels/telegram.cjs), the coordinator and the batcher                *)
(* (channels/telegram-group.cjs, lib/telegram/group-batcher.cjs), the      *)
(* dispatcher's passes over what is left to do, the durable inbox with its *)
(* batch records, the images waiting for a batch, and the runtime's queue  *)
(* of turns.                                                               *)
(*                                                                         *)
(* The bot answers batches.  A batch is recorded before its turn, and is   *)
(* retried as recorded; the images shown with it are gathered anew.  What  *)
(* it need not answer it only observes, and the images of that wait.       *)
(*                                                                         *)
(* The process is one event loop: Calm keeps timers, the clock and network *)
(* answers behind the promise reactions already due.                       *)
(***************************************************************************)
EXTENDS DurableInbox, Sequences, FiniteSets, SequencesExt

CONSTANTS
  AlbumOf,     \* the album of each update, or None
  Photo,       \* the updates with images
  Answers,     \* updates that are always answered, and
  Limited,     \*   those whose answer depends on rate limits kept in memory; the
               \*   others are only observed
  Bot,         \* updates sent by other bots
  MaxPending,  \* how many messages may wait for a batch
  MaxWaiting,  \* how many updates' images may wait
  MaxImages,   \* how many updates' images a batch may have, its own included
  None,
  MaxTroubles  \* bound on failures, crashes and the operator's requeues

ASSUME GroupAssumption ==
  /\ 0 \notin Update
  /\ Answers \cup Limited \cup Bot \subseteq Update
  /\ MaxPending \in Nat \ {0}
  /\ {MaxWaiting, MaxImages, MaxTroubles} \subseteq Nat

VARIABLES
  arrived,   \* what Telegram has: the updates 1 .. arrived
  offset,    \* durable: the next update to ask for
  siblings,  \* durable: the album members an update's entry carries
  prepared,  \* durable: updates whose entry holds the message to be answered
  batchOf,   \* durable: the batch recorded for an update, or {}
  turn,      \* durable: state and shown images of each batch's turn
  saved,     \* durable: updates whose images wait for a batch, as last written
  images,    \* the same in memory
  asks,      \* what the next poll asks for: the offset, unless its write failed
  phase,     \* "down", "replaying" or "running"
  page,      \* what a poll brought and is not done with: updates with their siblings
  handled,   \* the page's first is handled, the offset not yet written
  job,       \* what the coordinator does with each update
  staged,    \* the per-chat sequencer
  queue,     \* the batcher's pending messages
  batch,     \* the batch it is generating for, or {}
  paused,    \* a batch failed within the last minutes: bots are not answered
  exact,     \* the recorded batch being retried, its members, those still to be marked,
             \*   how far it is, and (history) whether its own bookkeeping failed
  calls,     \* the runtime's queue of turns
  pass,      \* what a replay or retry pass still has to take
  awaited,   \* the updates it is waiting for
  broken,    \* history: updates of a page broken off, with the offset past them
  slipped,   \* history: updates whose work failed by a write of its own bookkeeping
  refused,   \* history: batches that could not be shown again as they were
  requeued,  \* history: updates the operator requeued
  forgotten, \* history: updates requeued after a turn with them was shown and its batch
             \*   record compacted away
  troubles

records == <<siblings, prepared, batchOf>>
durable == <<offset, records, turn, saved>>
polling == <<asks, page, handled>>
batcher == <<queue, batch, paused>>
dispatcher == <<exact, pass, awaited>>
volatile == <<images, polling, job, staged, batcher, calls, dispatcher>>
history == <<broken, slipped, refused, requeued, forgotten>>
vars == <<inboxVars, arrived, durable, phase, volatile, history, troubles>>

NoRetry == [of |-> {}, members |-> {}, open |-> {}, at |-> "none", slip |-> FALSE]

Init ==
  /\ InboxInit
  /\ arrived = 0 /\ offset = 1
  /\ siblings = [u \in Update |-> {}] /\ prepared = {}
  /\ batchOf = [u \in Update |-> {}] /\ turn = << >>
  /\ saved = {} /\ images = {}
  /\ phase = "down"
  /\ asks = 1 /\ page = {} /\ handled = FALSE
  /\ job = [u \in Update |-> "idle"]
  /\ staged = << >> /\ queue = << >> /\ batch = {} /\ paused = FALSE /\ exact = NoRetry
  /\ calls = << >> /\ pass = {} /\ awaited = {}
  /\ broken = {} /\ slipped = {} /\ refused = {} /\ requeued = {} /\ forgotten = {}
  /\ troubles = 0

Trouble == troubles < MaxTroubles /\ troubles' = troubles + 1

Least(S) == CHOOSE u \in S : \A v \in S : u <= v
Oldest(S, n) == {u \in S : Cardinality({v \in S : v < u}) < n}
Newest(S, n) == {u \in S : Cardinality({v \in S : u < v}) < n}
InOrder(S) == SetToSortSeq(S, <)

\* What becomes of an update's work: reactions that run before anything else does.
Ending == {"done", "fail", "pause", "operator-pause"}
Staging == staged # << >> /\ job[Head(staged)] = "staged"
Passing == pass # {} /\ awaited = {} /\ exact = NoRetry
Calm ==
  /\ ~handled /\ ~Staging /\ ~Passing
  /\ exact.at \notin Ending /\ \A u \in Update : job[u] \notin Ending

----------------------------------------------------------------------------
(* The poll loop.                                                          *)

Arrive ==
  /\ Calm /\ arrived + 1 \in Update /\ arrived' = arrived + 1
  /\ UNCHANGED <<inboxVars, durable, phase, volatile, history, troubles>>

\* Members of an album that come together are one update: its first.
Merged(S) ==
  LET Same(u) == {v \in S : v = u \/ (AlbumOf[u] # None /\ AlbumOf[v] = AlbumOf[u])}
  IN {[head |-> u, with |-> Same(u) \ {u}] : u \in {v \in S : v = Least(Same(v))}}

\* The page is taken in the order of the updates.
First == CHOOSE p \in page : \A q \in page : p.head <= q.head

Poll ==
  /\ phase = "running" /\ Calm /\ page = {} /\ asks <= arrived
  /\ page' = Merged(asks .. arrived)
  /\ UNCHANGED <<inboxVars, arrived, durable, phase, images, asks, handled, job, staged, batcher,
                 calls, dispatcher, history, troubles>>

\* The coordinator takes an update unless it is at work on it already.
Ingested(S) ==
  LET new == {u \in S : ~IsDone(u) /\ job[u] = "idle" /\ u \notin inflight} IN
  /\ staged' = staged \o InOrder(new)
  /\ job' = [u \in Update |-> IF u \in new THEN "staged" ELSE job[u]]

\* The update is received, and taken up unless it waits for its retry.
Handle ==
  /\ page # {} /\ Calm /\ handled' = TRUE
  /\ LET u == First.head IN
     /\ IF entry[u].state = "none"
        THEN /\ entry' = [entry EXCEPT ![u] = ReceivedEntry]
             /\ siblings' = [siblings EXCEPT ![u] = First.with]
        ELSE UNCHANGED <<entry, siblings>>
     /\ IF Accepts(u) /\ entry[u].state \in {"none", "received"}
        THEN Ingested({u}) ELSE UNCHANGED <<job, staged>>
  /\ UNCHANGED <<inflight, arrived, offset, prepared, batchOf, turn, saved, phase, images, asks,
                 page, batcher, calls, dispatcher, history, troubles>>

\* The offset passes an album's last member together with its first.
Members(p) == {p.head} \cup p.with
Reach(p) == CHOOSE u \in Members(p) : \A v \in Members(p) : v <= u
Asked == IF Reach(First) >= asks THEN Reach(First) + 1 ELSE asks

\* What is left of the page is not taken up, though the offset may be past it.
BrokenOff ==
  {u \in UNION {Members(p) : p \in page} : u < IF handled THEN Asked ELSE asks}
BreaksOff == page' = {} /\ broken' = broken \cup BrokenOff

\* Mutant of HandleFails: the error is logged and the loop goes on with the page.
HandleSkips ==
  /\ page # {} /\ Calm /\ Trouble
  /\ handled' = TRUE
  /\ UNCHANGED <<inboxVars, arrived, durable, phase, images, asks, page, job, staged, batcher,
                 calls, dispatcher, history>>

\* The record cannot be written: the loop polls again, from the offset it has.
HandleFails ==
  /\ page # {} /\ Calm /\ Trouble
  /\ BreaksOff
  /\ UNCHANGED <<inboxVars, arrived, durable, phase, images, asks, handled, job, staged, batcher,
                 calls, dispatcher, slipped, refused, requeued, forgotten>>

Advance ==
  /\ handled /\ handled' = FALSE
  /\ asks' = Asked /\ offset' = Asked
  /\ page' = page \ {First}
  /\ UNCHANGED <<inboxVars, arrived, records, turn, saved, phase, images, job, staged, batcher,
                 calls, dispatcher, history, troubles>>

\* The offset cannot be written: the loop polls on with what it knows.
AdvanceFails ==
  /\ handled /\ handled' = FALSE /\ Trouble
  /\ asks' = Asked /\ BreaksOff
  /\ UNCHANGED <<inboxVars, arrived, durable, phase, images, job, staged, batcher, calls,
                 dispatcher, slipped, refused, requeued, forgotten>>

----------------------------------------------------------------------------
(* The coordinator: messages are prepared one after the other, and wait    *)
(* together.                                                               *)

\* An earlier update that nobody works on.
BlockedAhead(u) ==
  \E v \in Update : v < u /\ SameChat(u, v) /\ IsOpen(v) /\ v \notin inflight

StageBegins(u) ==
  /\ Staging /\ u = Head(staged)
  /\ IF BlockedAhead(u)
     THEN /\ job' = [job EXCEPT ![u] = "idle"]
          /\ staged' = Tail(staged) /\ awaited' = awaited \ {u}
          /\ UNCHANGED <<entry, inflight>>
     ELSE /\ job' = [job EXCEPT ![u] = "preparing"]
          /\ entry' = [entry EXCEPT ![u] = ProcessingEntry(@)]
          /\ inflight' = inflight \cup {u}
          /\ UNCHANGED <<staged, awaited>>
  /\ UNCHANGED <<arrived, durable, phase, images, polling, batcher, calls, exact, pass, history,
                 troubles>>

\* It cannot be marked as processing.
StageFails(u) ==
  /\ Staging /\ u = Head(staged) /\ ~BlockedAhead(u) /\ Trouble
  /\ job' = [job EXCEPT ![u] = "fail"] /\ staged' = Tail(staged)
  /\ UNCHANGED <<inboxVars, arrived, durable, phase, images, polling, batcher, calls, dispatcher,
                 history>>

\* What a message comes to: who it is from and what it says decide, then limits that
\* count in memory; a message prepared before stays one to answer.
MayAnswer(u) == u \in Answers \cup Limited \cup prepared
MayObserve(u) == u \notin Answers \cup prepared

Preparing(u) == Calm /\ job[u] = "preparing" /\ staged' = Tail(staged)

SeeCall(kind, u) == [kind |-> kind, of |-> {u}, env |-> {}, begun |-> FALSE]
Sees(kind, u) ==
  /\ calls' = Append(calls, SeeCall(kind, u))
  /\ job' = [job EXCEPT ![u] = "seeing"]

\* The message is to be answered: its entry keeps it, and it waits for a batch if
\* there is room; a bot's is observed after all while the batcher is paused.
Answered(u) ==
  /\ Preparing(u)
  /\ MayAnswer(u)
  /\ entry' = [entry EXCEPT ![u] = QueuedEntry(@)]
  /\ prepared' = prepared \cup {u}
  /\ IF u \in Bot /\ paused
     THEN Sees("quiet", u) /\ UNCHANGED queue
     ELSE /\ UNCHANGED calls
          /\ IF Len(queue) < MaxPending
             THEN queue' = Append(queue, u) /\ job' = [job EXCEPT ![u] = "queued"]
             ELSE job' = [job EXCEPT ![u] = "fail"] /\ UNCHANGED queue
  /\ UNCHANGED <<inflight, arrived, offset, siblings, batchOf, turn, saved, phase, images, polling,
                 batch, paused, dispatcher, history, troubles>>

\* It is only to be observed.
Observe(u) ==
  /\ Preparing(u)
  /\ MayObserve(u)
  /\ Sees("see", u)
  /\ UNCHANGED <<inboxVars, arrived, durable, phase, images, polling, batcher, dispatcher, history,
                 troubles>>

\* The message cannot be fetched or recorded, or its group is no longer served.
PrepareEnds(u, end) ==
  /\ Preparing(u) /\ Trouble
  /\ job' = [job EXCEPT ![u] = end]
  /\ UNCHANGED <<inboxVars, arrived, durable, phase, images, polling, batcher, calls, dispatcher,
                 history>>

\* An update's work is over: done, or a failure for the durable error policy, which
\* also ends the pass that waited for it.
Settle(u) ==
  /\ job[u] = "done"
  /\ MarkDone(u)
  /\ job' = [job EXCEPT ![u] = "idle"]
  /\ awaited' = awaited \ {u}
  /\ UNCHANGED <<arrived, durable, phase, images, polling, staged, batcher, calls, exact, pass,
                 history, troubles>>

\* The done record cannot be written: that is a failure like any other.
DoneThrows(u) ==
  /\ job[u] = "done" /\ Trouble
  /\ ReleaseWithoutRecord(u)
  /\ job' = [job EXCEPT ![u] = "fail"]
  /\ slipped' = slipped \cup {u}
  /\ UNCHANGED <<arrived, durable, phase, images, polling, staged, batcher, calls, dispatcher,
                 broken, refused, requeued, forgotten>>

Failed(u) ==
  /\ job[u] \in Ending \ {"done"} /\ ~Staging
  /\ job' = [job EXCEPT ![u] = "idle"]
  /\ IF u \in awaited THEN awaited' = {} /\ pass' = {} ELSE UNCHANGED <<awaited, pass>>
  /\ slipped' = slipped \ {u}
  /\ UNCHANGED <<arrived, durable, phase, images, polling, staged, batcher, calls, exact, broken,
                 refused, requeued, forgotten>>

\* Mutant of Fail: the failed update is not released.
FailHeld(u) ==
  /\ Failed(u) /\ UNCHANGED troubles
  /\ entry' = [entry EXCEPT ![u] = AfterFailure(@, job[u])] /\ UNCHANGED inflight

Fail(u) == Failed(u) /\ ApplyDurableFailure(u, job[u]) /\ UNCHANGED troubles

\* The failure cannot be recorded.
FailThrows(u) == Failed(u) /\ ReleaseWithoutRecord(u) /\ Trouble

----------------------------------------------------------------------------
(* Batches.                                                                *)

\* The oldest images that wait are shown with the batch, up to its last message and as
\* many as it has room for.
Waiting(S) ==
  Oldest({u \in images : \E v \in S : u <= v}, MaxImages - Cardinality(S \cap Photo))

BatchCall(kind, S) == [kind |-> kind, of |-> S, env |-> Waiting(S), begun |-> FALSE]
DispatchBatch(kind, S) == calls' = Append(calls, BatchCall(kind, S))

\* Mutant of RecordBatch: the batch is not recorded before its turn.
RecordNothing(S) == UNCHANGED batchOf

RecordBatch(S) == batchOf' = [u \in Update |-> IF u \in S THEN S ELSE batchOf[u]]

\* The batcher's timer fires, or its last batch is over: all that wait are a batch.
Gathers == Calm /\ batch = {} /\ queue # << >> /\ queue' = << >>
Formed(S, end) == job' = [u \in Update |-> IF u \in S THEN end ELSE job[u]]

FormBatch ==
  /\ Gathers
  /\ LET S == ToSet(queue) IN
     /\ \A u \in S : batchOf[u] \in {{}, S}
     /\ RecordBatch(S)
     /\ batch' = S /\ DispatchBatch("batch", S)
     /\ Formed(S, "batched")
  /\ UNCHANGED <<inboxVars, arrived, offset, siblings, prepared, turn, saved, phase, images,
                 polling, staged, paused, dispatcher, history, troubles>>

\* The batch is not recorded, because one of its messages belongs to another or the
\* write fails.
FormFails ==
  /\ Gathers /\ Formed(ToSet(queue), "fail") /\ paused' = TRUE
  /\ \/ /\ \E u \in ToSet(queue) : batchOf[u] \notin {{}, ToSet(queue)}
        /\ refused' = refused \cup {batchOf[u] : u \in ToSet(queue)} /\ UNCHANGED troubles
     \/ (\A u \in ToSet(queue) : batchOf[u] = {}) /\ Trouble /\ UNCHANGED refused
  /\ UNCHANGED <<inboxVars, arrived, durable, phase, images, polling, staged, batch, calls,
                 dispatcher, broken, slipped, requeued, forgotten>>

\* The minutes of a pause are over.
PauseOver ==
  /\ Calm /\ paused /\ paused' = FALSE
  /\ UNCHANGED <<inboxVars, arrived, durable, phase, images, polling, job, staged, queue, batch,
                 calls, dispatcher, history, troubles>>

----------------------------------------------------------------------------
(* The runtime's turns, one at a time.                                     *)

Call == Head(calls)
State(S) == IF S \in DOMAIN turn THEN turn[S].state ELSE "none"
TurnIs(S, state, env) ==
  turn' = [T \in DOMAIN turn \cup {S} |->
             IF T = S THEN [state |-> state, env |-> env] ELSE turn[T]]

\* The call is over, and with it the work that made it; a batch that fails pauses the
\* batcher for bots.
Ends(end, slip) ==
  /\ calls' = Tail(calls)
  /\ job' = [u \in Update |-> IF Call.kind # "exact" /\ u \in Call.of THEN end ELSE job[u]]
  /\ exact' = IF Call.kind = "exact" THEN [exact EXCEPT !.at = end, !.slip = slip] ELSE exact
  /\ slipped' = IF slip /\ Call.kind # "exact" THEN slipped \cup Call.of ELSE slipped
  /\ batch' = IF Call.kind = "batch" THEN {} ELSE batch
  /\ paused' = (paused \/ (Call.kind = "batch" /\ end # "done"))
  /\ UNCHANGED <<inboxVars, arrived, offset, records, phase, polling, staged, queue, pass, awaited,
                 broken, requeued, forgotten>>

Over(end) == Ends(end, FALSE)

Stays ==
  UNCHANGED <<inboxVars, arrived, offset, records, saved, phase, images, polling, job, staged,
              batcher, dispatcher, history, troubles>>

Begun == calls' = <<[Call EXCEPT !.begun = TRUE]>> \o Tail(calls)

Busy(begun) == calls # << >> /\ Calm /\ Call.begun = begun
Observes == Busy(FALSE) /\ Call.kind \in {"see", "quiet"}

\* An observed message's images wait, the newest of them if there are too many, unless
\* its batch was to answer it.
Novel == IF Call.kind = "see" THEN (Call.of \cap Photo) \ images ELSE {}
Recorded == Newest(images \cup Novel, MaxWaiting)

See ==
  /\ Observes
  /\ IF Novel = {} THEN UNCHANGED <<images, saved>> ELSE images' = Recorded /\ saved' = Recorded
  /\ Over("done") /\ UNCHANGED <<turn, refused, troubles>>

\* The observation fails, or what waits cannot be written.
SeeFails ==
  /\ Observes /\ Trouble
  /\ images' \in {images, IF Novel = {} THEN images ELSE Recorded}
  /\ Over("fail") /\ UNCHANGED <<turn, saved, refused>>

IsBatch(begun) == Busy(begun) /\ Call.kind \in {"batch", "exact"}
Fresh == Call.of \in DOMAIN turn => turn[Call.of].env = Call.env

\* A batch must be what it was when its turn began.
TurnRefuses ==
  /\ IsBatch(FALSE) /\ ~Fresh
  /\ refused' = refused \cup {Call.of}
  /\ Over("fail") /\ UNCHANGED <<turn, images, saved, troubles>>

TurnBegins ==
  /\ IsBatch(FALSE) /\ Fresh /\ State(Call.of) \in {"none", "rejected", "committed"}
  /\ TurnIs(Call.of, IF State(Call.of) = "committed" THEN "sending" ELSE "open", Call.env)
  /\ Begun /\ Stays

\* An inference or a delivery that was begun and never ended is not repeated.
TurnIsAmbiguous ==
  /\ IsBatch(FALSE) /\ Fresh /\ State(Call.of) \in {"open", "sending"}
  /\ Over("operator-pause") /\ UNCHANGED <<turn, images, saved, refused, troubles>>

\* Mutant of TurnWasDelivered: only an undelivered turn is replayed.
DeliveredThrows ==
  /\ IsBatch(FALSE) /\ Fresh /\ State(Call.of) = "delivered"
  /\ Over("fail") /\ UNCHANGED <<turn, images, saved, refused, troubles>>

TurnWasDelivered ==
  /\ IsBatch(FALSE) /\ Fresh /\ State(Call.of) = "delivered"
  /\ Begun /\ Stays /\ UNCHANGED turn

TurnSteps(from, to) ==
  /\ IsBatch(TRUE) /\ State(Call.of) = from /\ TurnIs(Call.of, to, Call.env)
  /\ UNCHANGED calls /\ Stays

Commit == TurnSteps("open", "committed")
Send == TurnSteps("committed", "sending")
Sent == TurnSteps("sending", "delivered")

\* The turn fails: the provider rejects it or breaks off, the message is not sent or only
\* a part of it, or one of the records between cannot be written.
TurnFails(state, after, end) ==
  /\ IsBatch(TRUE) /\ Trouble /\ State(Call.of) = state
  /\ TurnIs(Call.of, after, Call.env)
  /\ Over(end) /\ UNCHANGED <<images, saved, refused>>

TurnEnds ==
  \/ TurnFails("open", "rejected", "fail") \/ TurnFails("open", "rejected", "pause")
  \/ TurnFails("open", "open", "fail")
  \/ TurnFails("committed", "committed", "fail") \/ TurnFails("sending", "committed", "fail")
  \/ TurnFails("sending", "sending", "fail") \/ TurnFails("sending", "sending", "operator-pause")

\* After a delivered turn the images shown with it wait no more.
Shows == IsBatch(TRUE) /\ State(Call.of) = "delivered" /\ images' = images \ Call.env

Consumes ==
  /\ Shows
  /\ saved' = IF images' = images THEN saved ELSE images'
  /\ Over("done") /\ UNCHANGED <<turn, refused, troubles>>

\* That cannot be written, and the delivered batch fails.
ConsumeFails ==
  /\ Shows /\ images' # images /\ Trouble
  /\ Ends("fail", TRUE) /\ UNCHANGED <<turn, saved, refused>>

----------------------------------------------------------------------------
(* The dispatcher's passes.                                                *)

Working == pass # {} \/ awaited # {} \/ exact # NoRetry

\* The images that wait are read; a file that cannot be read counts as empty.
Boot ==
  /\ phase = "down" /\ phase' = "replaying"
  /\ pass' = {u \in Update : IsOpen(u)}
  /\ \/ images' = saved /\ UNCHANGED troubles
     \/ saved # {} /\ Trouble /\ images' = {}
  /\ UNCHANGED <<inboxVars, arrived, durable, polling, job, staged, batcher, calls, exact, awaited,
                 history>>

ReplayEnds ==
  /\ phase = "replaying" /\ ~Working /\ phase' = "running"
  /\ UNCHANGED <<inboxVars, arrived, durable, volatile, history, troubles>>

RetryDue ==
  /\ phase = "running" /\ Calm /\ ~Working
  /\ \E c \in Chat : DueRun(c) # {} /\ pass' = DueRun(c)
  /\ UNCHANGED <<inboxVars, arrived, durable, phase, images, polling, job, staged, batcher, calls,
                 exact, awaited, history, troubles>>

Undone(S) == {u \in S : ~IsDone(u)}
Marks(S) ==
  /\ entry' = [u \in Update |-> IF u \in S THEN ProcessingEntry(entry[u]) ELSE entry[u]]
  /\ inflight' = inflight \cup S
Retry(S, at, slip) ==
  [of |-> S, members |-> Undone(S), open |-> Undone(S), at |-> at, slip |-> slip]

\* A recorded batch is retried as it is; those of its members that are not done are
\* marked with it.
ReplayBatch(S) ==
  /\ pass' = pass \ S
  /\ IF Undone(S) = {} \/ HasEarlierBlockedEntry(Least(Undone(S)))
     THEN UNCHANGED <<inboxVars, exact>>
     ELSE Marks(Undone(S)) /\ exact' = Retry(S, "restoring", FALSE)
  /\ UNCHANGED <<job, staged, awaited>>

\* Updates without a record go through the coordinator again, together.
ReplayRun(S) ==
  /\ pass' = pass \ S
  /\ Ingested(S)
  /\ awaited' = {u \in S : ~IsDone(u) /\ job'[u] # "idle"}
  /\ UNCHANGED <<inboxVars, exact>>

Unrecorded == {u \in pass : \A v \in pass : v <= u => batchOf[v] = {}}

PassStep ==
  /\ Passing
  /\ IF Unrecorded # {} THEN ReplayRun(Unrecorded) ELSE ReplayBatch(batchOf[Least(pass)])
  /\ UNCHANGED <<arrived, durable, phase, images, polling, batcher, calls, history, troubles>>

\* One of the members cannot be marked: all of them fail.
MarkThrows ==
  /\ Passing /\ Unrecorded = {} /\ Trouble
  /\ LET S == batchOf[Least(pass)] IN
     /\ Undone(S) # {} /\ ~HasEarlierBlockedEntry(Least(Undone(S)))
     /\ \E u \in Undone(S) : Marks({v \in Undone(S) : v < u})
     /\ pass' = pass \ S /\ exact' = Retry(S, "fail", TRUE)
  /\ UNCHANGED <<arrived, durable, phase, images, polling, job, staged, batcher, calls, awaited,
                 history>>

\* The batch's messages are restored as they were recorded.
Restored ==
  /\ Calm /\ exact.at = "restoring"
  /\ exact' = [exact EXCEPT !.at = "running"] /\ DispatchBatch("exact", exact.of)
  /\ UNCHANGED <<inboxVars, arrived, durable, phase, images, polling, job, staged, batcher, pass,
                 awaited, history, troubles>>

\* An image of the batch is gone, and its message cannot be fetched.
NotRestored ==
  /\ Calm /\ exact.at = "restoring" /\ Trouble
  /\ exact' = [exact EXCEPT !.at = "fail"] /\ refused' = refused \cup {exact.of}
  /\ UNCHANGED <<inboxVars, arrived, durable, phase, images, polling, job, staged, batcher, calls,
                 pass, awaited, broken, slipped, requeued, forgotten>>

NextMember(u) == exact.at \in Ending /\ u \in exact.open /\ \A v \in exact.open : u <= v
RetryFrame ==
  UNCHANGED <<arrived, durable, phase, images, polling, job, staged, batcher, calls, awaited,
              history>>

\* The retry is over for one member after the other; if it failed, so does the pass.
RetryEnds(u) ==
  /\ NextMember(u)
  /\ IF exact.at = "done" THEN MarkDone(u) /\ UNCHANGED pass
     ELSE ApplyDurableFailure(u, exact.at) /\ pass' = {}
  /\ exact' = IF exact.open = {u} THEN NoRetry ELSE [exact EXCEPT !.open = @ \ {u}]
  /\ RetryFrame /\ UNCHANGED troubles

\* A member's done record cannot be written: all members fail, those that are done too.
RetryDoneThrows(u) ==
  /\ NextMember(u) /\ exact.at = "done" /\ Trouble
  /\ ReleaseWithoutRecord(u)
  /\ exact' = [exact EXCEPT !.at = "fail", !.open = exact.members, !.slip = TRUE]
  /\ RetryFrame /\ UNCHANGED pass

\* A member's failure cannot be recorded: those after it stay in flight.
RetryFailThrows(u) ==
  /\ NextMember(u) /\ exact.at # "done" /\ Trouble
  /\ ReleaseWithoutRecord(u)
  /\ exact' = NoRetry /\ pass' = {}
  /\ RetryFrame

----------------------------------------------------------------------------
(* Time, crashes, the operator.                                            *)

RetryTime(u) ==
  /\ Calm /\ BackoffElapses(u)
  /\ UNCHANGED <<arrived, durable, phase, volatile, history, troubles>>

Die ==
  /\ phase # "down" /\ Trouble
  /\ phase' = "down" /\ LoadInbox
  /\ asks' = offset /\ BreaksOff /\ handled' = FALSE
  /\ job' = [u \in Update |-> "idle"]
  /\ staged' = << >> /\ queue' = << >> /\ batch' = {} /\ paused' = FALSE /\ exact' = NoRetry
  /\ images' = {} /\ calls' = << >> /\ pass' = {} /\ awaited' = {}
  /\ slipped' = {}
  /\ UNCHANGED <<arrived, durable, refused, requeued, forgotten>>

\* The turns in which the conversation has a message.
Shown(u) == {S \in DOMAIN turn : u \in S /\ State(S) \in {"committed", "sending", "delivered"}}

Requeue(u) ==
  /\ phase = "down" /\ Trouble
  /\ RequeueTerminal(u, {"dead-letter", "operator-paused", "failed", "done"})
  /\ prepared' = prepared \ {u} /\ requeued' = requeued \cup {u}
  /\ forgotten' = IF batchOf[u] = {} /\ Shown(u) # {} THEN forgotten \cup {u} ELSE forgotten
  /\ UNCHANGED <<arrived, offset, siblings, batchOf, turn, saved, phase, volatile, broken, slipped,
                 refused>>

\* The journal had grown: the record of a batch whose members are all done is gone when
\* it is read again.
Compact(S) ==
  /\ phase = "down"
  /\ S # {} /\ \A u \in S : batchOf[u] = S /\ IsDone(u)
  /\ batchOf' = [u \in Update |-> IF u \in S THEN {} ELSE batchOf[u]]
  /\ UNCHANGED <<inboxVars, arrived, offset, siblings, prepared, turn, saved, phase, volatile,
                 history, troubles>>

Next ==
  \/ Arrive \/ Poll \/ Handle \/ HandleFails \/ Advance \/ AdvanceFails
  \/ FormBatch \/ FormFails \/ PauseOver
  \/ \E u \in Update :
       \/ StageBegins(u) \/ StageFails(u) \/ Answered(u) \/ Observe(u)
       \/ PrepareEnds(u, "fail") \/ PrepareEnds(u, "done")
       \/ Settle(u) \/ DoneThrows(u) \/ Fail(u) \/ FailThrows(u)
       \/ RetryEnds(u) \/ RetryDoneThrows(u) \/ RetryFailThrows(u) \/ RetryTime(u)
       \/ Requeue(u) \/ Compact(batchOf[u])
  \/ See \/ SeeFails \/ TurnRefuses \/ TurnBegins \/ TurnIsAmbiguous \/ TurnWasDelivered
  \/ Commit \/ Send \/ Sent \/ TurnEnds \/ Consumes \/ ConsumeFails
  \/ Boot \/ ReplayEnds \/ RetryDue \/ PassStep \/ MarkThrows \/ Restored \/ NotRestored
  \/ Die

\* Whatever the event loop has to do is done, timers fire, network calls end: as long
\* as there is work, some of it is done.
Reaction ==
  \/ Advance \/ PassStep
  \/ \E u \in Update : StageBegins(u) \/ Settle(u) \/ Fail(u) \/ RetryEnds(u)

CallStep ==
  \/ See \/ TurnRefuses \/ TurnBegins \/ TurnIsAmbiguous \/ TurnWasDelivered
  \/ Commit \/ Send \/ Sent \/ Consumes

TimerStep ==
  \/ Boot \/ ReplayEnds \/ Poll \/ Handle \/ Restored \/ RetryDue
  \/ FormBatch \/ (FormFails /\ UNCHANGED troubles)
  \/ \E u \in Update : Answered(u) \/ Observe(u) \/ RetryTime(u)

Fairness == WF_vars(Reaction \/ CallStep \/ TimerStep)

Spec == Init /\ [][Next]_vars /\ Fairness

----------------------------------------------------------------------------
(* Properties.                                                             *)

\* An update Telegram will not send again is in the inbox or on the page being handled,
\* or its album took it away: as a member of an update that the inbox has, or between an
\* album's first and last when the work on the page broke off - by a crash, a record or an
\* offset that could not be written - with it or the first still to be finished.
OnlyAlbumsLose ==
  \A u \in Update : u < offset /\ entry[u].state = "none" =>
    \/ \E p \in page : u \in Members(p)
    \/ \E v \in Update : u \in siblings[v]
    \/ \E v, w \in Update :
         /\ v < u /\ u <= w /\ AlbumOf[v] # None /\ AlbumOf[w] = AlbumOf[v]
         /\ {u, v} \cap broken # {}

\* No message is in two turns of the conversation, unless the operator had it done again
\* after the record of its batch was compacted away.
ShownOnce == \A u \in Update : u \notin forgotten => Cardinality(Shown(u)) <= 1

\* A write after the work, or for it, failed, and that is what its failure comes from.
Slipped(u) == u \in slipped \/ (exact.slip /\ u \in exact.open)

\* A message whose batch was delivered does not fail afterwards, unless the operator had
\* it done again, or the batch could not be retried as it was (another image was gathered
\* for it, or one of its own is gone), or a write after the delivery failed: its done
\* record or another member's, that of the images that wait no more, or a retry's mark.
AnsweredNeverFails ==
  [][\A u \in Update :
       /\ entry'[u].state \in {"failed", "dead-letter"} /\ entry'[u].attempts > entry[u].attempts
       /\ State(batchOf[u]) = "delivered"
       => batchOf[u] \in refused \/ u \in requeued \/ Slipped(u)]_vars

\* Every update the inbox has comes to an end - answered, observed, given up or parked -
\* and since updates and troubles end too, there is again and again nothing left to do.
EveryGroupUpdateSettles ==
  []<>(\A u \in Update :
         entry[u].state \in {"none", "done", "dead-letter", "operator-paused"})

=============================================================================
