# Tether agent runtime: TLA+ models and proofs

Specifications of the Tether agent runtime, the TLC configurations that check
them on small instances, and theorems about them checked by TLAPS.
`PROJECT.json` lists the components, runs, hazards and theorems and maps every
definition to the source lines it models.

    tlc -workers 4 -config MCTurnDepth.cfg MCTurnRuntime
    tlapm TurnRuntimeProofs.tla        # dispatcher, private turn, promise
    tlapm ProcessProofs.tla            # instance lock, supervisor
    tlapm ToolLoopProofs.tla
    tlapm RawMemoryProofs.tla
    tlapm SemanticProofs.tla           # semantic store, queue and folds
    tlapm MemoryCardsProofs.tla        # cards and the maintenance loop
    tlapm GroupPipelineProofs.tla
    tlapm BackupRestoreProofs.tla

## 1. The system

Tether connects one long-lived agent session to Telegram and a terminal. It is
a single Node.js process per storage root (plus a supervisor process and
offline operator tools), so all concurrency inside it is the interleaving of
promise reactions, timers and network answers; and every piece of authority is
an append-only JSON-lines file that is fsynced before memory changes, so all
crash behaviour is "which prefix of the appends survived".

| Component | State it keeps | Operations | Correct when |
|---|---|---|---|
| Durable inbox `runtime/durable/durable-inbox.js` | last record per update, group batches (durable); in-flight set (volatile) | receive, markProcessing, markDone, markFailed/Paused/OperatorPaused, requeue, archive, due and pending selection, compaction | nothing acknowledged is missing, nothing stays in flight, terminal stays terminal |
| Durable dispatcher `durable-dispatcher.js`, `durable-error-policy.js` | active updates, chats and batches, retry flag (volatile) | processUpdate, processExactGroupBatch, replayAll, retryDue | per-chat order, one task per chat, every update settles |
| Telegram channel `channels/telegram.cjs` | offset file, stall timer, pending images | poll loop, normalisation, preparation, send | no update skipped, no message shown twice |
| Turn runtime `tether-runtime.cjs` | one promise queue | enqueue, handle, record, deliver | one answer per event, memory before display |
| Causal journal `causal-journal.cjs` | last record per causal id (durable) | prepareInput and six transitions | exact replay, no ambiguous re-inference |
| Provider client, tool journal, workspace tools, circuit breaker | tool transactions, operations, approvals, circuit state (durable) | respond, resume, execute, approve, open/clear | a request in doubt is never repeated, a write is applied once |
| Group pipeline `telegram-group.cjs`, `group-batcher.cjs`, `group-rate-limit.cjs` | queues, batches, steers (volatile), batch records and rate files (durable) | ingest, flush, exact replay, rate limiting | each message in one batch, a batch replayed with its members |
| Selfsame session `selfsame-session.cjs` | anchor and proof | open, checkpoint | no silent replacement of the session |
| Instance lock `instance-lock.cjs` | lock files of runtime and supervisor (durable) | acquire, take over, release | one owner per storage root, a dead owner's lock never blocks for ever |
| Supervisor and health `operations/` | restart budget, heartbeat | start, stall detection, restart | a dead runtime comes back, a looping one is stopped |
| Raw memory `memory/conversation-history.js`, `layered-memory.cjs` | transcript (authority), its index, active rounds, summaries, fold state (durable) | ensureTurn, fold by model or by digest, reload | every turn is there once, nothing leaves the prompt but into a summary |
| Memory cards `memory-card-*.js`, `memory-sources.js` | card records, markdown files, retry records (durable) | gather, generate, complete, read edited files | a source counted as covered is told, a change makes a card stale |
| Semantic memory `semantic-memory-*.js` | packet queue, claims, events, projections, patches, manifests (durable), a cache (volatile) | enqueue, extract, verify, commit, review, rebuild, resolve | completed means resolved, nothing stands on a fallen claim |
| Maintenance loop `maintenance-supervisor.cjs` | one timer | start, trigger, cycle, stop | no trigger lost, no cycle after a stop |
| Backup and schema `operations/backup.cjs`, `storage-schema.cjs` | snapshots, schema marker | backup, verify, restore | a restore is complete or refused |

How they meet: the poll loop hands each update to the ingress handler, which
records it in the inbox and starts a dispatcher task without waiting for it,
then writes the offset. The task prepares the message, enqueues it in the
runtime's promise queue, and `handle` walks the causal record through
inference, commit, memory and delivery. The task's promise settles the inbox
entry. A timer retries what is due each second; a restart replays what is open
before polling begins; the operator's tools change the inbox only while the
runtime is down, because both take the same lock. A group's updates go to its
coordinator instead, which gathers them into batches; a batch is recorded in
the inbox before its turn and retried as recorded.

A committed turn triggers the maintenance loop and may start a fold. The fold
takes rounds from the active conversation; in full mode it first drives their
packets through the semantic queue, which the maintenance loop works through as
well, with no lock between them. Backup and restore take both instance locks
and see a root no process is working on, in whatever state the last one left
it.

The hard behaviours are a crash between any two appends, an append that throws,
an answer or acknowledgement that never comes, redelivery by Telegram, the
snapshots a pass works through while entries change, the workers of memory that
keep what they read over an await, people who edit files meanwhile, and the
operator's commands applied to any of the resulting states.

## 2. Modules

### DurableInbox
The inbox entries and operations. `entry[u]` is the last record of update `u`;
the journal is written before the in-memory map, so one variable stands for
both and a restart (`LoadInbox`) only empties `inflight`. A retry time is one
bit, `due`. Update ids are naturals because their order is the order of
receipt. `AfterFailure` is the error policy: the class of the error selects
fail, pause or operator-pause.

### DurableDispatcher
Private chats. An action is a stretch of code between two awaits.

| Action | Code |
|---|---|
| `IngestKnown`, `IngestAndStart`, `IngestAndDefer`, `WriteOffset` | createDurableUpdateHandler and the loop that awaits it |
| `RetryDue`, `Restart`, `ReplayDone` | retryDue, replayAll and the start of polling |
| `RunSkips`, `RunJoins`, `RunStarts`, `RunStartFails` | processEntryRun reaching its next entry; processUpdate returning, joining a live task, starting one, or failing in markProcessing |
| `TaskSucceeds`, `TaskFails`, `DoneAppendFails`, `FailureAppendFails`, `NoticeSettles` | the task's ends, including appends that throw and the awaited dead-letter notice |
| `Crash`, `Operator`, `Waited` | death of the process, tether-ops, the clock |

`Drained` orders what the event loop orders: a pass whose reaction is pending
runs before a network answer or a timer. The order between the poll loop's own
reactions and a pass's is left open.

### CausalJournal, TurnRuntime, SelfsameTurn
`CausalJournal` holds the durable record of each turn; each transition has the
states it may leave as its guard. An envelope (text and metadata) is a value of
which only equality matters, since the journal compares hashes.

`TurnRuntime` composes dispatcher and journal with the promise queue and
`handle`: it conjoins the dispatcher's actions with the turn's own steps, so
the success or failure the dispatcher left open is now produced by the turn.
Each durable append is one step, so a crash falls before or after each. Image
updates have several possible envelopes, because every attempt transcribes the
image anew. `tool` is the last event of the tool transaction, as far as
`canResume` reads it. History variables (`commits`, `shown`, `lost`, `verdict`)
record what reached providers, users and the operator.

`SelfsameTurn` is the promise without the mechanism: accept, answer once,
remember, show once, finish; or give up; the operator may reopen or close.
`KeepsPromise` states that `TurnRuntime` implements it under the refinement
mapping `Promise`.

### InstanceLock
Process incarnations and the files they create, judge, take aside and unlink;
an action is one system call, so processes act between any two. `Wants` gives
each process its locks in order: one for a runtime or a supervisor, both for
the offline tools, which release the first when the second is refused. A file
is its creator and whether its content is complete; identity (pid, start time,
command) is what makes an incarnation, and one that cannot be observed leaves
the reader in doubt, so `Reads` may always refuse. `mislaid` records that a
live process's file was taken from its path.

### Supervisor
The supervisor, the runtimes it starts and the health file between them. Time
is discrete and timers are urgent: `Tick` waits until everything due has
happened, unless the process it belongs to hangs. Ages are taken from the wall
clock, which goes on in a `Sleep`; the timers then stand still or are overdue.
`watch` is what `_monitor` remembers, and the four `Monitor...` actions after
the rebasing are its returns. A runtime without its supervisor stays in its
slot as an orphan that still holds the instance lock, until its next heartbeat
finds the supervisor gone. The length of a restart delay is left open between
one tick and its maximum, and the health file is never invalid, because it is
written atomically. After a sleep the machine stays awake until the monitor
found its child in health (`awake`): naps in quick succession can outlast any
confirmation. `stalled` records whose event loop did hang.

### ToolLoop
A turn that may use tools, from the provider loop down to the workspace file.
`run` is where the turn inside `respond` stands; the promise queue lets one be
there at a time, so one variable is enough. A step appends at most one record
or changes the file once. `tx[t]` is what `respondWithTools` reads of the
transaction's events: the last one, its iteration and provider, the calls of
the latest step and how many of them have results (`done`; results are recorded
in the order of the calls). `Records` is the only way an event is appended and
has the journal's rules as its guard.

| Action | Code |
|---|---|
| `Refuses`, `Starts` | handle, as far as it decides whether a turn reaches respond |
| `CircuitRefuses`, `AllFailed`, `Succeeds`, `ClearCircuit` | the circuit around respond |
| `Begins`, `Mismatches`, `Resumes` | beginTransaction and the resumption |
| `Skips` ... `ToolLimit` | the loop over the providers and what their answers lead to |
| `ExecuteAnswers` ... `AsksAgain` | execute, call by call |
| `OperationFails`, `AppendThrows`, `Crash` | failures inside execute become results for the model, others fail the attempt |
| `Resolve`, `Revives` | tether-tools, tether-ops |
| `Edits`, `Folds` | others write the file; memory or the provider chain changes |

The hash that binds a transaction to its request is abstracted to `context`, a
version that every commit and every fold advances: it changes whenever the
messages may. The workspace is one file, a content is what the digest of it
tells apart, and a call is an identifier with what it asks: a content to write,
a read, or something that is refused. The history variables `asked`, `doubt`,
`writes`, `held` and `revived` record requests, requests without a recorded
outcome, writes since the file was last changed by others, calls whose content
the file has had since they were prepared, and resumed turns.

### RawMemory
`ensureTurn` puts a turn into the transcript, the active rounds and the
transcript again, in three durable steps (`step`), and the checkpoint writes
the session anchor with the proof of the transcript. The background worker
plans a fold, asks the model, and installs the answer, with turns going on in
between; when the model keeps failing, or the rounds outgrow the hard limits,
it archives the rounds and installs a mechanical digest. A transcript line may
be cut by a crash (`ended`), and `TheIndex` is what the next use makes of
transcript and index. `overflow` is the archive of mechanically folded rounds;
`dropped` is history: summaries whose archive could not be written.

### SemanticStore
The store is synchronous, so what can go wrong lies between its records. A
record is whether it is in force and when it was written; `ResolvedState`
recomputes what `resolvedState` reads from the journals and patches, and the operations
say whether they extend the cache or drop it. `CommitBreaks` writes any prefix
of a commit.

### SemanticMemory
Two workers, the maintenance loop and a fold, go through the same steps: take
the next packet, extract and verify, commit, project, finish. Of the store it
knows what the queue asks of it: manifests, reviews, whether a packet's claims
are all there, and the cursor (`lastCommit`). A review is a second pass over a
packet stored as partial. A worker keeps the queue record it
took (`work`), so a later record of the other worker is overwritten as in the
code. `Rebuild` is the operator's. `whole` holds the packets whose claims are
all stored; `again` is history: packets extracted a second time after their
manifest was stored.

### MaintenanceLoop, MemoryCards
`MaintenanceLoop` is the timer, `running`, `runAgain` and `stopped` of the
supervisor; `MemoryCards` extends it and hangs the card work on its cycles. A
period is a day or the week. A generation carries the sources as they were when
it began; completing it writes the record, then the file. A card's file is what
the card says once it is there, so an edited or an old file speaks for it. A
file counts as changed when it is more than a second younger than the card, so
a change may go `unseen` (`Changed`). Cycles look at the days of the last 42
days and at the recent weeks only; `Passes` takes a period out of their view
for good, the older days first, and before or after the week they belong to.
`unwritten` and `overlooked` are history: cards whose file could not be
replaced, and days edited while the week was generated or within a second of
it.

### GroupPipeline
One group from Telegram to the answer, over the entries of `DurableInbox`:

| Action | Code |
|---|---|
| `Poll`, `Handle`, `Advance`; `HandleFails`, `AdvanceFails` | poll loop, albums, ingress, offset; a record or an offset that cannot be written breaks the page off |
| `StageBegins`, `Answered`, `Observe`, `PrepareEnds`; `StageFails` | coordinator: what is answered, what only observed |
| `FormBatch`, `FormFails`, `PauseOver` | batcher's flush, which records the batch, or cannot because of a failed write or because a message belongs to another batch; after a failed batch bots are only observed for a while |
| `See`, `SeeFails` | the observation of a message; its images wait for a batch |
| `TurnRefuses` ... `TurnEnds` | the turn of a batch |
| `Consumes`, `ConsumeFails` | after the delivery: the images shown wait no more, and that is written |
| `Settle`, `Fail`; `DoneThrows`, `FailThrows` | the end of a message; records that cannot be written |
| `Boot`, `ReplayEnds`, `RetryDue`, `PassStep` | replayAll, retryDue: runs without a record go to the coordinator, a recorded batch is retried |
| `Restored`, `NotRestored`, `RetryEnds`; `MarkThrows`, `RetryDoneThrows`, `RetryFailThrows` | that retry: its members are marked, its messages restored, its turn runs, and its members are settled one after the other |
| `Requeue`, `Compact`, `Die` | operator, compaction, crash |

`Calm` keeps timers and network answers behind promise reactions that are due.
A turn is identified by the set of its updates; the images gathered for it are
part of its fingerprint (`turn`), as in the causal journal. The images that
wait are a store in memory (`images`) and its file (`saved`): the newest
`MaxWaiting` wait, a batch takes the oldest it has room for (`MaxImages`), a
file that cannot be read counts as empty. Both limits count updates, which
bring one image each. As in the code, an observation that is retried after the
file could not be written finds its images in memory and does not write them.
Update ids are positive, as Telegram's are, because a fresh root asks from 1 on.

History: `broken`, updates of a page that was broken off with the offset past
them; `slipped`, updates whose work failed by a write of its own bookkeeping;
`refused`, batches that could not be retried as they were; `requeued`, messages
the operator had done again; `forgotten`, those of them that had been shown and
whose batch record was compacted away.

### BackupRestore
The root's files are an array of four: the transcript, the version marker, the
inbox (standing for every journal copied between), and the session anchor,
which a restore writes last. `CreateBackup` is one step, because both locks are
held and a snapshot that is not complete is never published. A restore goes
file by file, each copy with a work file that a crash may leave torn; `receipt`
is what lets it resume. Between the steps, once the restore has died, a runtime
may start on the root (`Loads`, `Opens`), serve turns and checkpoint, the
operator may migrate, or the root may be lost.

## 3. Runs

Every run passes and has a liveness property where its question is whether the
work ends.

| Run | Question | Bounds | States |
|---|---|---|---|
| dispatcher_safety | order in a chat; are terminal entries left alone | 3 updates in 2 chats, 1 attempt, 2 crashes, 2 failed appends, 2 timed pauses, 1 operator command | 157k |
| turn_depth | one turn through everything; is the promise kept | 1 image update with tools, 2 envelopes, 2 attempts, 3 requests, 2 crashes, 2 operator commands, failed appends in both journals | 451k |
| turn_breadth | does every turn settle, two chats against each other | 3 updates in 2 chats, one of them silent, 1 request, 1 crash | 47k |
| lock | is a lock exclusive, does every attempt end | 2 runtimes, supervisor, offline tool, 2 locks, deaths anywhere | 41k |
| supervisor | do runtimes come back, stops and orphans end | 3 slots, 2 faults, sleeps of 3 and 6 ticks | 265k |
| tool_loop | is a request or a write repeated, a write committed that was not made, an unapproved one made; does every turn settle | 2 turns, 2 contents, 2 call identifiers, 2 providers of which one is refused, 1 tool iteration, 2 attempts, circuit threshold 2, 2 events | 445k |
| raw_memory | is a turn forgotten or doubled, does a session resume | 3 turns, the second above the watermark, hard cap 2, 3 rounds, 1 trouble | 152k |
| semantic_store | does the cache agree, does anything stand on a fallen claim | 2 claims, 2 events, 1 projection, 2 transactions, 2 patches, 1 trouble | 568k |
| semantic_memory | is the queue's verdict the store's, is a broken commit taken up again, does every packet settle | 2 packets, full mode, one rebuild class, 1 trouble | 598k |
| memory_cards | are covered sources told, is everything told that is not too old, is a trigger lost | 2 days and their week, 2 turns, 1 edit, 2 troubles | 845k |
| group | is an update lost, shown twice, failed after its answer; does everything settle | 3 updates, an album of photos, one sent by a bot, 2 attempts, 2 waiting messages, 1 waiting image, 1 image a batch, 2 troubles (failures, crashes and requeues together) | 855k |
| backup_restore | is a completed restore the backup, does a runtime serve a whole history | 2 updates, 2 backups, 2 sessions, 3 stamps, 2 troubles, 1 loss | 314k |

The bounds suffice because the interesting cases are pairs: two updates of a
chat for order, a third in another chat for concurrency, two attempts
(turn_depth, group, tool_loop) to tell a retry from a dead letter, two crashes
to crash again during recovery, a third turn that arrives while the first two
are folded, two packets and two workers, a day that is edited while another is
written, two backups to mix up. Without their liveness properties larger
instances were checked and hold: raw_memory with 2 troubles (2.6M states),
semantic_store with more patches (1.1M). `EveryGroupUpdateSettles` says that
all received updates are settled at once, again and again, which implies that
each one settles: updates and troubles are finitely many. A crash
after a finished batch, its compaction and a requeue fit into the two troubles,
so a message is shown twice after `forgotten` in that run. A message that
belongs to another batch when its batch is formed takes more troubles than that
(it was requeued, delivered again, and the replay broke off before it): that
branch of `FormFails` is covered by the proofs only. Requests, crashes, failed appends, pauses and operator commands are bounded by
constants named Max*; once they are used up the system comes to rest, so
deadlock is not checked.

Fairness: the event loop runs every pending reaction, the retry timer fires
each second, the supervisor restarts a dead runtime, Telegram keeps updates
that were not acknowledged (weak fairness); requests have timeouts and backoffs
are finite, and neither is lost because retry passes keep the loop busy, so
what `Drained` guards has strong fairness. A process that runs gets through its
system calls. In `Supervisor` time passes, due timers and exit events are
handled, a boot that is not slow gets on, and the host starts the supervisor
again. In `ToolLoop` the turn inside `respond` goes on, because a request ends
by its timeout at the latest, and a turn that is due again and again is taken
in the end, because the queue serves every due turn of a pass (strong fairness
per turn). In the memory modules a worker goes on, because model calls have
timeouts, the loop's timer fires, days pass, and a process that is gone is
started again; in `RawMemory` the dispatcher hands an unfinished turn over
again. In `GroupPipeline` one condition is enough: while the event loop has a
reaction, a timer or a call to go on with, it goes on with some of them; that a
failure may always come instead is limited by the troubles. In `BackupRestore` a process gets on and the operator runs an
interrupted restore again; nobody else is assumed to do anything. No fairness
is assumed of crashes, failures or the operator's other commands, so a turn may
wait for an approval for ever.

### What the properties have to except

Several properties name an exception, because without it they are false of the
code. The exceptions are history variables, set where the code does it.

* **RawMemory.** A turn stopped between its round and its commit line may be
  folded and is then put back by its retry: its round is told twice
  (`OnlyBrokenTurnsRepeat`). A summary whose archive cannot be written is only
  logged (`conversation-history.js:1108-1115`) and then leaves the window,
  whereas the comment at `:1074-1075` says that what leaves the window is
  archived: its turns are in the transcript and nowhere else. That is the
  exception of `OnlyTheArchiveForgets` (`Lost`).
* **ToolLoop.** `writeFile` compares the file with what the call was prepared
  on and then renames: an edit between the two is lost. The comparison is by
  content only, so an edit that brings back the prepared content goes unnoticed
  too. No property forbids either; `CommittedWasWritten` is about the other
  direction, a commit without its write.
* **SemanticMemory.** Whether a packet was committed is asked of the cursor,
  which knows the last transaction only. A packet taken by the loop and a fold
  at once, or extracted again after another commit, may be completed in the
  queue while it is stored as partial and never reviewed; `ensurePackets`
  throws from then on (`again` in `CompletedIsResolved`). The manifest is
  written before the claims, and `ensurePackets` asks only for the manifest: a
  fold may rest on a packet of which nothing but the manifest is stored.
  `HalfStoredIsRetried` says what holds then, that the queue still has that
  packet to do.
* **MemoryCards.** A card whose file could not be replaced is told by its older
  file for good (`unwritten`). An edit made while the week is generated, or
  within a second of the week's card (`memory-card-files.js:13, 264`), is never
  noticed (`overlooked`). The code gives up on a day that could not be told for
  42 days (`memory-card-manager.js:579`), whether its generation kept failing or
  no process ran, on a week before the recent ones (`:660`), and on a week that
  waits for such a day (`GivenUp` in `EverythingIsTold`). A fold is two sources
  of a card, because the window's times have milliseconds and the fold log's
  have minutes (`memory-sources.js:91` means them to be one).
* **GroupPipeline.** An album is handled at the place of its first member, and
  the offset then moves past its last. When the page is broken off before an
  update between them is handled, that update is lost: by a crash, but also by
  a record or an offset that cannot be written, after which the loop polls on
  from what it knows. A member that comes late, after the album was received,
  is merged into it in memory only. `telegram.cjs:315` says of the albums that a
  photo is never lost. `OnlyAlbumsLose` excepts the updates between two members
  where the page of the update or of the first member was broken off
  (`broken`), and no other.

  A delivered batch fails afterwards (`AnsweredNeverFails`), and may end in a
  dead letter, in three ways. A write after the delivery throws: the done
  record of the message, or of another member of a retried batch, which fails
  all its members (`durable-dispatcher.js:64-66`), or the store of waiting
  images (`telegram-group.cjs:201`, `telegram.cjs:493`); so does a retry that
  cannot mark its members (`slipped`). Or the batch cannot be retried as it was
  (`refused`): the images gathered for it are part of the causal fingerprint,
  and others wait now, because an unwritten or unreadable image store changed
  them or the limit pushed one out, or its own image is gone and cannot be
  fetched; `ARCHITECTURE.md:73` lets an exact replay reuse the result. Or the
  operator had it done again (`requeued`).

  A message requeued after the record of its batch was compacted away may be
  shown in a second turn (`forgotten` in `ShownOnce`). Of images nothing is
  promised: beyond the limit they are dropped unshown (`telegram.cjs:445`), an
  unreadable file counts as empty (`:402`), and an image is shown again in a
  later batch when the file could not be written after its delivery and the
  process restarted. Rejections by a full queue count as attempts, and a later
  batch may overtake an earlier one that failed.
* **InstanceLock.** After a runtime was killed two starters may both judge its
  lock stale; the one that renames last takes away the lock the other has
  created meanwhile, although `ARCHITECTURE.md:54` says that two runtimes
  cannot own a root. `ExclusiveUnlessMislaid` excepts it;
  `OnlyOutdatedTakeover` proves that it is the only way.

### Other disagreements met while modelling

* The repository's `README.md:118` has a retry send the committed response. The
  retry of an image turn transcribes the image again; with another wording the
  causal journal refuses the turn, and the committed answer ends in a dead
  letter.
* `ARCHITECTURE.md:128`: the supervisor stops after a bounded budget. The
  budget counts a window; with the defaults a runtime that beats and never gets
  ready is killed too seldom to exhaust it.
* The gap that counts as a sleep is the age that counts as stale and the two
  timers are out of phase: without `heartbeatStaleConfirmMs` a sleep just below
  that gap can have a healthy runtime killed.
* `docs/OPERATIONS.md` recovers an opened circuit by clearing it and resuming
  the turns worth a reply. The transaction of such a turn says that the last
  provider failed, and the resumption goes on with the one after it: there is
  none, so the turn fails again, unasked (`openai-compatible.cjs:509`).
* `docs/OPERATIONS.md:216`: the retry observes the operator's decision. It is
  refused before it looks when another turn was committed, or memory was
  folded, while it waited.
* `docs/OPERATIONS.md:143`: a matching target is resumable. A crash inside the
  write of the receipt leaves a temporary file that every later restore refuses
  (`litter`).
* A transcript line torn by a crash stays, closed by the next append; every
  later backup then refuses the root.
* A runtime started on a partly restored root may create a new session when
  nothing it takes for authority has been restored yet, or the backup has no
  turns; the Telegram inbox and the tool journal are not asked. A started root
  can no longer be restored into, which keeps two histories apart, and refuses
  the rerun of a completed restore.

## 4. Proofs

The first part of `TurnRuntimeProofs` proves, for every set of updates and
chats and every bound, type correctness, the four safety invariants and the
action property of `DurableDispatcher`. The assumptions are `InboxAssumption`
and `DispatcherAssumption`.

None of the invariants is inductive alone. `IInv` adds: a process that is down
has no task and no pass; in flight means dispatched, and dispatched means the
record says "processing"; only failed and paused entries wait; nothing beyond
the offset was received (so that a late arrival is never earlier than a live
task); a handled update is durable; a pass holds open entries of its own chat,
or the dead letter whose notice it waits out, and waits only for a live task.
Two lemmas carry the step: `StartKeepsIInv` for the two ways a task starts and
`SettlingKeepsIInv` for the five ways it ends; the second needs that an update
held by a pass is the one the pass waits for when its task ends, which follows
from `Drained` and one task per chat.

Its second part proves the same of a private turn: type correctness, the
six safety invariants of `TurnRuntime`, and that it implements `SelfsameTurn`.
`DispatcherSteps` shows that every step of the runtime is a step of the
dispatcher or leaves it alone, which carries `IInv` over. `TInv` adds

* `QueueInv`: the queue holds live turns, each once, and a turn inside `handle`
  is its head;
* `StepInv(u)`: where a live turn stands agrees with its causal record;
* `RequestInv(u)`: a request on the wire is its turn's, and a turn whose
  request was lost is in `inference-started` with nothing to resume, so that
  only the operator can let it past `Refuses`, and it is refused again there;
* `AnswerInv(u)`: the counts of commits and of shown answers are those its
  causal record stands for, and memory holds the turn from the first delivery
  attempt on.

`Undisturbed` is the frame: what a step of one turn leaves of the others.
`ThrowingKeepsTInv`, `SucceedingKeepsTInv` and `GoingKeepsTInv` are the three
ways a turn moves, one step per action under them. In the refinement a crash,
a retry pass and most of a turn are invisible; a commit, the write to memory,
the send and the entry's settling are one action of the promise each.

`ProcessProofs` proves, for any number of processes and locks, that a lock
is exclusive unless a live owner's file was taken away, and that only a
takeover acting on an outdated judgement does so first. `LockInv` adds that
while nothing was mislaid the path of every lock a live process holds or is
creating has its own file (`FilesInPlace`), and that the creator of a file has
begun (`OwnersBegan`), from which a process judged stale is gone for good. The
assumption is that a process wants each of its locks once.

It also proves, for any settings, slots and faults, that the
supervisor's only live runtime is the one it watches. `OwnedInv` adds that no
other slot holds a process of its own, that there is no child while a restart
is pending or the supervisor is down or has ended, and that there is one while
a kill is pending.

`ToolLoopProofs` proves the seven safety properties of `ToolLoop` for any
turns, answers, chain, contents and limits. Its `TInv` orders what was asked:
iterations first, then providers. `TxInv(t)` says that everything asked lies
before the position the transaction's last event leads to, and that a turn in
doubt ends with request-started; `CausalInv` keeps such a turn out of `Starts`.
`AtAsk`, `AtWire` and `AtTools` tie the running turn to its transaction;
`AtFile` says that between preparation and commit the operation is this call's
and that a rename is only made where the call wrote nothing yet; `WriteInv`
that a write nobody overwrote is the content of the file, which is why `Check`
cannot lead to a second one; `HeldInv` that a prepared content which is in the
file now is known to have been there, which carries `CommittedWasWritten`
through a crash between rename and commit. `Leaving`, `Moving` and `Recording` are the three
shapes of a step; under each an action has only its own turn left to look at.

`RawMemoryProofs` proves the four safety invariants of `RawMemory` for any
turns, weights and limits. None is inductive alone. `IInv` adds

* `StepInv`: where the turn being remembered stands agrees with its index and
  its round; before its round it is not remembered, unless it was stopped there
  once (`broken`);
* `CommitsFollow`, `MemoryInv`: a commit line follows a line of its turn, what
  is committed or answered is remembered, and what is remembered and not
  committed was stopped or is about to be committed;
* `FoldInv`: no two of rounds and summaries share a turn, but one that was
  stopped, and what was folded mechanically is archived;
* `PlanInv`: a running fold was planned with the oldest rounds as they still
  are, which is why the answer may replace them although turns went on;
* `AnchorInv`: the proof was taken of a prefix of the transcript.

`IndexIsTranscript` rests on `ScannedIsScan`: scanning on from an index that
agrees gives the scan of the whole. `BatchIsOldest` bounds how many rounds a
fold takes, a least natural number if there is one.

The first part of `SemanticProofs` proves the three invariants of
`SemanticStore`, for any records, references, transactions and patches. `Overlays` is a recursive
function over the number of patches, so what is said of its result is an
induction over that number (`AllNaturals`, from the well-foundedness of the
naturals): `OverlayTyped`; `OverlayElsewhere`, what no patch is about is as
written and never changed; `OverlayAgrees`, journals that differ in some
records only differ there when no patch is about those. `FallenFacts` states
the fall of events and projections as equations over the result itself.
`ExtensionIsResolution` is the heart: under the conditions of `MayExtend` the
extended cache is the resolution of the longer journal, record by record, for
old ones because they do not stand on the new and for new ones because nothing
they stand on was patched. `StoreIInv` adds only that a revision's record
is there (`KeysAreThere`); a commit that broke off needs the case that the kinds it did
not finish are exactly those the cache no longer counts as fresh.

Its second part proves `CompletedIsResolved` and `HalfStoredIsRetried` for any
packets and both workers. `IInv` adds that the transaction named by the cursor
left its manifest and its claims (`CursorInv`), that a worker's record is one
it may have taken, and that a worker past its commit has all the claims stored
and a result that is the store's, unless the packet was extracted again
(`WorkInv`), that a packet waits for review only after its manifest and leaves
"pending" only with all its claims (`QueueInv`), and that only packets of the
queue have manifests (`StoreInv`). `Grows` is the frame: manifests, reviews and
claims are never unwritten, so what is resolved stays so under every step of
the other worker.

`MemoryCardsProofs` proves, for any days, turns, edits and failures, the two
card invariants and the loop's `TimerTellsWhatIsDue`. `IInv` adds that a timer
is set only between cycles and a generation is part of one (`LoopInv`), that a
day with a card has sources (`CardedAreTold`), that the week's card names
versions its days have reached (`VersionInv`), and, while a week is generated,
that its sources stay the cards of its days and that it says of each what it
still reads, unless somebody edited it (`WeekInv`).

`GroupPipelineProofs` proves, for any updates, albums, limits and bounds, the
two safety invariants and the action property of `GroupPipeline`. `GroupIInv`
consists of types and

* `BatchesAreWhole`, `RecordsHold`: a batch is recorded for each of its
  members, and the batch generated for or retried is on record;
* `ShownAsRecorded`: a message is shown in the turn of its recorded batch only,
  and one without a record that was shown is done and not worked on, unless it
  is one of the forgotten;
* `QueueIsWork`: the calls in the runtime's queue are those of the work under
  way, and no two of them share a message unless one is an exact retry;
* `WorkIsReceived`, `RecordedLast`: what is worked on was received, nothing is
  worked on while the process is down, and a message goes through the
  coordinator before its batch is recorded and not again, unless the operator
  requeued it;
* `FailsUndelivered`: what is about to fail was not delivered, could not be
  retried as it was, or failed by a write;
* `OffsetPassesKept`: what the next poll no longer asks for is kept or taken
  along by an album, and what is neither kept nor on the page had its page, or
  its album's first member's, broken off.

Every step of the runtime is one of three shapes of the queue of calls (a call
is added, begun or ended: `RuntimeSteps`), and the parts of the invariant are
proved over these shapes, and over those of a retry and of an entry, rather
than action by action. A call that ends as a failure carries its `Reason`.

`BackupRestoreProofs` proves, for any backups and bounds, type correctness,
that a completed restore left exactly the files of its backup, and that a
runtime that serves a session serves all of its history. `IInv` adds

* `Whole(file)`: a root with an anchor has every file, and its turns are those
  of the anchor's session; `BackupsInv` says the same of every backup;
* `JobInv`: the files up to the one a restore stands at equal the backup's, and
  the root has none that the backup lacks; the work file belongs to that one;
* `RestoredInv`: an anchor nobody has started from was restored, and since the
  anchor comes last so was everything else;
* `LinkedInv`: a session that came with a backup has all of that backup with
  it, whatever it has appended since;
* `RuntimeInv`: a runtime never runs beside a restore, and the files it opened
  are there.

A restore step touches one file, so `JobInv` is kept file by file; the start of
a runtime is the case where `RestoredInv` and `Whole` are needed together. The
assumption `BackupAssumption` says that the value for an absent file is none of
the files.

The memory modules assume likewise that the values for "nothing" are no data,
that claims, events and projections are different kinds, and that an event
stands on claims and a projection on claims and events, as the store's fields
for them have it. `MCRawMemory`, `MCSemanticStore`, `MCSemanticMemory` and
`MCMemoryCards` evaluate these assumptions.

Checked by TLC only: liveness, which the prover cannot reach. Theorems
without a run of their own (one task per chat, done means delivered, a stale
lock stays stale, the supervisor's only runtime, the circuit) are proved for
every value of the constants.

## 5. Plan

1. Done: inbox, dispatcher, causal journal, turn, promise, instance lock,
   supervisor, tool loop and circuit, with proofs.
2. Done: raw memory and folds, semantic store and queue, maintenance loop and
   cards, the group pipeline with the poll loop's albums, backup and restore;
   with proofs of every
   safety property the runs check.
3. Next, models: the rate limiter's lock file (its takeover as in
   `InstanceLock`), the backlog drop and watchdog of the poll loop, the vectors
   beside the cards.

Not modelled, and why: the configuration loader and the formatting helpers have
no state; the console only reads; the scripts are run once by hand. Operations
that nothing in the repository calls (rewindLastTurn, replaceLastTurn, reset,
correctTurn and appendSummary of the history; queuePartialReview and
invalidatePacket of semantic memory; invalidateCards, appendHumanOverride and
recordArchivedSourceEvidence of the cards) are left out, as are the migrations
of older file formats. The Telegram client's own transport retries lie below
the turn: a send that was repeated there may show twice. External recall and
observations (respond: false) add no state of their own to a turn. Of a backup,
damaged snapshots, symbolic links, another agent's files and overlapping paths
are refused before anything is written and are left out.
