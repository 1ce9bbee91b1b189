--------------------------- MODULE SemanticMemory ---------------------------
(***************************************************************************)
(* Verified memory at work: the durable queue of packets                   *)
(* (semantic-memory-manager.js), the pipeline that has a model extract and *)
(* verify a packet's claims and commits them                               *)
(* (semantic-memory-pipeline.js).  The maintenance loop drives it; in full *)
(* mode the fold of the conversation drives packets through the same       *)
(* queue, with no lock against the loop.                                   *)
(*                                                                         *)
(* A worker holds the queue record as it was when it took it, over every   *)
(* await.  Whether a packet was committed is asked of the store's cursor,  *)
(* which remembers one transaction only.                                   *)
(***************************************************************************)
EXTENDS Naturals, Sequences, FiniteSets, SequencesExt

CONSTANTS
  Packet,
  Sources,      \* the messages of a packet
  FullMode,     \* semanticMemoryMode is full: folds are made of verified memory
  Rebuilt,      \* the queue classes rebuilds are made with
  Batch,        \* the sets of packets whose rounds a fold may take
  None,
  MaxTroubles   \* bound on failures, crashes and stops

Live == 0       \* queue classes, in the order of their rank
Priority == 1
Historical == 2

\* A packet's record in the queue.
Record == [status : {"pending", "partial_review_pending", "completed", "needs_human_review"},
           class : {Live, Priority, Historical},
           due : BOOLEAN]

\* A claim is verified, found supported or not, or it is rejected: by what it says of
\* its sources, or because its verifier failed.
Verdict == {"verified", "rejected"}

\* A packet is partial if any claim or event was rejected, or if its review answers
\* that there is nothing to extract.
Status == {IF "rejected" \in verdicts THEN "partial" ELSE "committed" :
             verdicts \in SUBSET Verdict}

ASSUME MemoryAssumption ==
  /\ DOMAIN Sources = Packet
  /\ FullMode \in BOOLEAN
  /\ Rebuilt \subseteq {Live, Priority, Historical}
  /\ Batch \subseteq SUBSET Packet /\ {} \notin Batch
  /\ None \notin Record \cup Status \cup (Packet \X BOOLEAN)
  /\ MaxTroubles \in Nat

VARIABLES
  queue,     \* durable: the latest record of each packet, or None
  age,       \* durable: the packets in the order of their latest records
  stored,    \* durable: the status of a packet's manifest, or None
  reviewed,  \* durable: the review of a packet, or None
  whole,     \* durable: the packets all of whose claims and events are stored
  lastCommit, \* durable: the store's cursor, the transaction committed last, or None
  work,      \* what each worker is at
  fold,      \* the packets of the fold under way
  folded,    \* the packets whose rounds were replaced by a fold
  up,        \* is there a process
  again,     \* history: packets extracted again after that extraction's manifest,
             \*   or review, was stored
  troubles

durable == <<queue, age, stored, reviewed, whole, lastCommit>>
vars == <<durable, work, fold, folded, up, again, troubles>>

Loop == "loop"
Fold == "fold"
Worker == IF FullMode THEN {Loop, Fold} ELSE {Loop}

Idle == [pc |-> "idle"]

Init ==
  /\ queue = [p \in Packet |-> None] /\ age = << >>
  /\ stored = [p \in Packet |-> None] /\ reviewed = [p \in Packet |-> None]
  /\ whole = {} /\ lastCommit = None
  /\ work = [w \in Worker |-> Idle]
  /\ fold = {} /\ folded = {}
  /\ up = FALSE
  /\ again = {}
  /\ troubles = 0

Trouble == troubles < MaxTroubles /\ troubles' = troubles + 1

----------------------------------------------------------------------------
(* The queue.                                                              *)

\* Mutant of Actionable: packets that wait for their review are not taken.
ActionableUnreviewed == {"pending"}

\* A record that waits for a retry is a pending one that is not due.
Actionable == {"pending", "partial_review_pending"}
Settled == {"completed", "needs_human_review"}

Queued(p) == queue[p] # None
Reviewing(r) == r.status = "partial_review_pending"

Pending(class) == [status |-> "pending", class |-> class, due |-> TRUE]

Put(p, record) ==
  /\ queue' = [queue EXCEPT ![p] = record]
  /\ age' = Append(SelectSeq(age, LAMBDA q : q # p), p)

Due(p) == Queued(p) /\ queue[p].status \in Actionable /\ queue[p].due

Older(p, q) == \E i, j \in DOMAIN age : i < j /\ age[i] = p /\ age[j] = q

\* Reviews of partial packets first, then by class, then the oldest record.
Sooner(p, q) ==
  LET Rank(r) == <<IF r.status = "partial_review_pending" THEN 0 ELSE 1, r.class>>
      a == Rank(queue[p])
      b == Rank(queue[q]) IN
  \/ a[1] < b[1]
  \/ a[1] = b[1] /\ a[2] < b[2]
  \/ a = b /\ Older(p, q)

NextPending(ps) == {p \in ps : Due(p) /\ \A q \in ps \ {p} : Due(q) => ~Sooner(q, p)}

\* A committed turn is queued, once.
EnsureTurn(p) ==
  /\ up
  /\ ~Queued(p) /\ Put(p, Pending(Live))
  /\ UNCHANGED <<stored, reviewed, whole, lastCommit, work, fold, folded, up, again, troubles>>

\* How many of a packet's messages are in packets already queued.
Covered(p) ==
  LET there == UNION {Sources[q] : q \in {q \in Packet : Queued(q)}} IN
  CASE Sources[p] \subseteq there      -> "full"
    [] Sources[p] \cap there = {}      -> "none"
    [] OTHER                           -> "partial"

\* Of a batch, what is queued may be promoted, what other packets cover is skipped,
\* and the rest is queued; one packet covered in part and the whole batch is refused.
EnqueueMany(batch, class) ==
  LET new == {p \in batch : ~Queued(p) /\ Covered(p) = "none"}
      promoted == {p \in batch : Queued(p) /\ queue[p].status # "completed"
                                            /\ class < queue[p].class}
      changed == new \cup promoted IN
  /\ \A p \in batch : Queued(p) \/ Covered(p) # "partial"
  /\ changed # {}
  /\ queue' = [p \in Packet |-> IF p \in new THEN Pending(class)
                               ELSE IF p \in promoted THEN [queue[p] EXCEPT !.class = class]
                               ELSE queue[p]]
  /\ age' = SelectSeq(age, LAMBDA q : q \notin changed) \o SetToSeq(changed)
  /\ UNCHANGED <<stored, reviewed, whole, lastCommit, work, fold, folded, up, again, troubles>>

\* tether-memory rebuild-semantic, while no process runs: the transcript batch by batch.
Rebuild(batch, class) == ~up /\ EnqueueMany(batch, class)

BackoffElapses(p) ==
  /\ Queued(p) /\ ~queue[p].due
  /\ queue' = [queue EXCEPT ![p].due = TRUE]
  /\ UNCHANGED <<age, stored, reviewed, whole, lastCommit, work, fold, folded, up, again,
                 troubles>>

----------------------------------------------------------------------------
(* A worker and a packet: _processQueueRecord and processPacket.           *)

Transaction(p, reviewing) == <<p, reviewing>>

\* The status of a packet as its latest review leaves it.
Resolved(p) ==
  \/ stored[p] = "committed"
  \/ stored[p] # None /\ reviewed[p] = "committed"

\* A worker takes a record; if its transaction is the last one committed, the
\* packet is not extracted again.
Taken(p) ==
  LET reviewing == Reviewing(queue[p])
      At(pc, result) == [pc |-> pc, packet |-> p, record |-> queue[p],
                         reviewing |-> reviewing, result |-> result] IN
  IF lastCommit # Transaction(p, reviewing) THEN At("ask", None)
  ELSE At("project", IF reviewing THEN reviewed[p] ELSE stored[p])

\* Where a worker goes with the packet behind it.
Leaves(w, failed) ==
  /\ work' = [work EXCEPT ![w] = Idle]
  /\ fold' = IF w = Fold /\ failed THEN {} ELSE fold

\* The catch of _processQueueRecord: the record as it was taken goes back.
PutBack(w) ==
  LET o == work[w] IN
  /\ Put(o.packet, [o.record EXCEPT !.due = FALSE])
  /\ Leaves(w, TRUE)

\* The extractor or a projection fails.  A verifier that fails rejects its claim.
Fails(w) ==
  /\ work[w].pc \in {"ask", "project"}
  /\ Trouble /\ PutBack(w)
  /\ UNCHANGED <<stored, reviewed, whole, lastCommit, folded, up, again>>

\* The packet's record, or its review's: appended if there is none of that id.
Manifest(w, status) ==
  LET o == work[w] IN
  /\ stored' = IF o.reviewing \/ stored[o.packet] # None THEN stored
               ELSE [stored EXCEPT ![o.packet] = status]
  /\ reviewed' = IF ~o.reviewing \/ reviewed[o.packet] # None THEN reviewed
                 ELSE [reviewed EXCEPT ![o.packet] = status]
  /\ again' = IF (IF o.reviewing THEN reviewed ELSE stored)[o.packet] # None
              THEN again \cup {o.packet} ELSE again

\* What follows is the packet's fold, day and week projections.
Projecting(w, result) ==
  work' = [work EXCEPT ![w] = [@ EXCEPT !.pc = "project", !.result = result]]

\* The models have answered: claims and events are verified, or rejected one by one,
\* and the packet is committed, unless its transaction was in the meantime.
Commits(w) ==
  LET o == work[w]
      tx == Transaction(o.packet, o.reviewing) IN
  /\ o.pc = "ask"
  /\ \E status \in Status :
       IF lastCommit = tx
       THEN /\ Projecting(w, "replayed")
            /\ again' = again \cup {o.packet}
            /\ UNCHANGED <<stored, reviewed, whole, lastCommit>>
       ELSE /\ Manifest(w, status)
            /\ whole' = whole \cup {o.packet}
            /\ lastCommit' = tx
            /\ Projecting(w, status)
  /\ UNCHANGED <<queue, age, fold, folded, up, troubles>>

\* The commit breaks off between the manifest, the claims and events, and the
\* cursor.
StopsAt(w, cursor) ==
  LET o == work[w] IN
  /\ o.pc = "ask" /\ lastCommit # Transaction(o.packet, o.reviewing)
  /\ Trouble
  /\ \E status \in Status, claims \in BOOLEAN :
       /\ Manifest(w, status)
       /\ whole' = IF claims THEN whole \cup {o.packet} ELSE whole
  /\ lastCommit' = cursor
  /\ PutBack(w)
  /\ UNCHANGED <<folded, up>>

\* Mutant: the cursor is written with the manifest, before the claims.
CommitStopsAhead(w) == StopsAt(w, Transaction(work[w].packet, work[w].reviewing))

CommitStops(w) == StopsAt(w, lastCommit)

\* Mutant of Outcome: a partial result completes the packet.
OutcomeUnreviewed(w) ==
  LET o == work[w] IN
  IF o.reviewing /\ o.result # "committed" THEN "needs_human_review"
  ELSE "completed"

Outcome(w) ==
  LET o == work[w] IN
  IF ~o.reviewing /\ o.result = "partial" THEN "partial_review_pending"
  ELSE IF o.reviewing /\ o.result # "committed" THEN "needs_human_review"
  ELSE "completed"

\* The projections are rendered, and the record as it was taken gets its outcome.
Finishes(w) ==
  /\ work[w].pc = "project"
  /\ Put(work[w].packet, [work[w].record EXCEPT !.status = Outcome(w), !.due = TRUE])
  /\ Leaves(w, FALSE)
  /\ UNCHANGED <<stored, reviewed, whole, lastCommit, folded, up, again, troubles>>

Step(w) == Fails(w) \/ Commits(w) \/ CommitStops(w) \/ Finishes(w)

----------------------------------------------------------------------------
(* The fold, in full mode.                                                 *)

FoldBegins(batch) ==
  /\ FullMode /\ up /\ fold = {}
  /\ \A p \in batch : Queued(p) /\ p \notin folded
  /\ fold' = batch
  /\ UNCHANGED <<durable, work, folded, up, again, troubles>>

\* ensurePackets: what the store does not hold resolved is processed, or the fold
\* is given up for now.
EnsurePackets ==
  /\ fold # {} /\ work[Fold] = Idle
  /\ \E p \in fold :
       /\ ~Resolved(p)
       /\ IF Due(p) THEN work' = [work EXCEPT ![Fold] = Taken(p)] /\ fold' = fold
          ELSE work' = work /\ fold' = {}
  /\ UNCHANGED <<durable, folded, up, again, troubles>>

FoldBuilt ==
  /\ fold # {} /\ work[Fold] = Idle
  /\ \A p \in fold : Resolved(p)
  /\ folded' = folded \cup fold /\ fold' = {}
  /\ UNCHANGED <<durable, work, up, again, troubles>>

----------------------------------------------------------------------------
(* The loop's turn at it (maintainOne): its worker has one record at a time. *)

CycleBegins ==
  /\ up /\ work[Loop] = Idle
  /\ \E p \in NextPending(Packet) : work' = [work EXCEPT ![Loop] = Taken(p)]
  /\ UNCHANGED <<durable, fold, folded, up, again, troubles>>

----------------------------------------------------------------------------
(* The process.                                                            *)

Gone ==
  /\ up' = FALSE
  /\ work' = [w \in Worker |-> Idle] /\ fold' = {}

Die == up /\ Trouble /\ Gone /\ UNCHANGED <<durable, folded, again>>

\* The process dies within a commit.
DieCommitting(w) ==
  LET o == work[w] IN
  /\ o.pc = "ask" /\ lastCommit # Transaction(o.packet, o.reviewing)
  /\ Trouble
  /\ \E status \in Status, claims \in BOOLEAN :
       /\ Manifest(w, status)
       /\ whole' = IF claims THEN whole \cup {o.packet} ELSE whole
  /\ Gone
  /\ UNCHANGED <<queue, age, lastCommit, folded>>

Boot ==
  /\ ~up /\ up' = TRUE
  /\ UNCHANGED <<durable, work, fold, folded, again, troubles>>

Next ==
  \/ \E p \in Packet : EnsureTurn(p) \/ BackoffElapses(p)
  \/ \E batch \in SUBSET Packet, class \in Rebuilt :
       Rebuild(batch, class)
  \/ \E w \in Worker : Step(w) \/ DieCommitting(w)
  \/ \E batch \in Batch : FoldBegins(batch)
  \/ FullMode /\ (EnsurePackets \/ FoldBuilt)
  \/ CycleBegins \/ Die \/ Boot

\* Model calls end by their timeouts, the loop comes round, and a process that died
\* is started again.
Fairness ==
  /\ \A w \in Worker : WF_vars(Step(w))
  /\ \A p \in Packet : WF_vars(BackoffElapses(p))
  /\ WF_vars(CycleBegins) /\ WF_vars(Boot)
  /\ FullMode => WF_vars(EnsurePackets) /\ WF_vars(FoldBuilt)

Spec == Init /\ [][Next]_vars /\ Fairness

----------------------------------------------------------------------------
(* Properties.                                                             *)

\* What the queue calls completed is stored with nothing unresolved, unless the
\* packet was extracted a second time after its manifest was stored: then the
\* second extraction decides about the queue and the first about the store, and a
\* partial packet may never be reviewed (semantic-memory-manager.js:899-955).
CompletedIsResolved ==
  \A p \in Packet : Queued(p) /\ queue[p].status = "completed" => Resolved(p) \/ p \in again

\* A packet whose commit broke off between its manifest and its claims is never left
\* so: until all of it is stored it is pending in the queue, whatever another worker,
\* a fold, a rebuild or a restart makes of its manifest meanwhile.  Else the store
\* would answer for it with a part of its claims for good: the manifest is what the
\* store goes by (semantic-memory-store.js:1150), the cursor what the queue goes by.
HalfStoredIsRetried ==
  \A p \in Packet : stored[p] # None /\ p \notin whole =>
    Queued(p) /\ queue[p].status = "pending"

\* Every packet that is queued is completed or ends with a human, whatever fails,
\* stops or dies in between.
EveryPacketSettles ==
  \A p \in Packet : Queued(p) ~> Queued(p) /\ queue[p].status \in Settled

=============================================================================
