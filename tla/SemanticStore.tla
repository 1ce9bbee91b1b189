---------------------------- MODULE SemanticStore ----------------------------
(***************************************************************************)
(* The store of verified memory (runtime/memory/semantic-memory-store.js): *)
(* append-only journals of claims, events and projections, human patches   *)
(* that are never applied to them but on reading, and a cache of the       *)
(* resolved state that an append either extends or discards.               *)
(*                                                                         *)
(* Every operation is synchronous, so nothing interleaves with one; but an *)
(* append may throw and the process may die between any two records.  The  *)
(* model keeps of a record whether it is in force, and when it was         *)
(* committed: what stands on it is stale if it was changed later.          *)
(***************************************************************************)
EXTENDS Integers, FiniteSets, Sequences, SequencesExt

CONSTANTS
  Claim, Event, Projection,  \* record ids
  Refs,         \* the claims an event stands on
  Support,      \* the claims and events a projection stands on
  Tx, NoTx,     \* transactions: one per packet, and one for its review
  Review,       \* the transactions that are reviews
  Extracted,    \* what an extraction for each transaction may yield
  Doubtful,     \* the claims that verification may find unsupported
  NoRecord, NoCache,
  MaxTime,      \* bound on the clock
  MaxPatches,   \* bound on human patches
  MaxBreaks     \* bound on throwing appends and crashes

Id == Claim \cup Event \cup Projection

\* Is it in force, did a human write it, and when was it committed.
StoredRecord == [ok : BOOLEAN, human : BOOLEAN, at : Nat]

ASSUME StoreAssumption ==
  /\ Claim \cap Event = {} /\ Projection \cap (Claim \cup Event) = {}
  /\ NoRecord \notin StoredRecord
  /\ Refs \in [Event -> SUBSET Claim]
  /\ Support \in [Projection -> SUBSET (Claim \cup Event)]
  /\ Review \subseteq Tx /\ NoTx \notin Tx
  /\ Extracted \in [Tx -> SUBSET SUBSET (Claim \cup Event)]
  /\ Doubtful \subseteq Claim
  /\ {MaxTime, MaxPatches, MaxBreaks} \subseteq Nat

VARIABLES
  journal,   \* durable: the latest record of each id
  keys,      \* durable: the revisions by reviews, as id and transaction
  patches,   \* durable: human patches, in their order
  cursor,    \* durable: the transaction committed last
  cache,     \* the resolved state in memory, or none
  fresh,     \* the kinds whose journal is as the cache knows it
  now,       \* the clock
  promised,  \* history: what each transaction was committed with
  breaks

disk == <<journal, keys, patches, cursor>>
storeVars == <<disk, cache, fresh, now, promised, breaks>>

Kinds == {Claim, Event, Projection}
KindOf(id) == CHOOSE kind \in Kinds : id \in kind
Named(p) == {p.target} \cup p.from \cup p.into
Patched == UNION {Named(p) : p \in Range(patches)}

StoreInit ==
  /\ journal = [id \in Id |-> NoRecord] /\ keys = {}
  /\ patches = << >> /\ cursor = NoTx
  /\ cache = NoCache /\ fresh = {}
  /\ now = 1
  /\ promised = [t \in Tx |-> {}] /\ breaks = 0

----------------------------------------------------------------------------
(* Resolving: the latest records, under the patches, and what falls with   *)
(* them.                                                                   *)

Later(a, b) == IF a < b THEN b ELSE a

Changed(st, ids, at) ==
  [id \in Id |-> IF id \in ids THEN Later(st.changed[id], at) ELSE st.changed[id]]

Corrected(st, ids, at) ==
  [records |-> [id \in Id |-> IF id \in ids
                              THEN [st.records[id] EXCEPT !.ok = TRUE, !.human = TRUE]
                              ELSE st.records[id]],
   changed |-> Changed(st, ids, at)]

Invalidated(st, ids, at) ==
  [records |-> [id \in Id |-> IF id \in ids THEN [st.records[id] EXCEPT !.ok = FALSE]
                              ELSE st.records[id]],
   changed |-> Changed(st, ids, at)]

\* The records a split or a merge brings along, in place of any of that id.
Replaced(st, ids, at) ==
  [records |-> [id \in Id |-> IF id \in ids THEN [ok |-> TRUE, human |-> TRUE, at |-> at]
                              ELSE st.records[id]],
   changed |-> Changed(st, ids, at)]

Present(st, ids) == {id \in ids : st.records[id] # NoRecord}

\* A patch of a projection may be for its period: for all projections from its
\* target's on.  A patch whose target is not there does nothing.
Targets(st, p) ==
  IF p.period
  THEN {id \in Present(st, Projection) : id = p.target \/ st.records[id].at >= p.since}
  ELSE Present(st, {p.target})

ApplyPatch(st, p) ==
  IF p.op = "correct" THEN Corrected(st, Targets(st, p), p.at)
  ELSE IF p.op = "invalidate" THEN Invalidated(st, Targets(st, p), p.at)
  ELSE IF Targets(st, p) = {} THEN st
  ELSE Replaced(Invalidated(st, Present(st, p.from), p.at), p.into, p.at)

\* The records of j under the patches ps, after each of them.
Overlays(j, ps) ==
  LET state[n \in 0 .. Len(ps)] ==
        IF n = 0 THEN [records |-> j, changed |-> [id \in Id |-> 0]]
        ELSE ApplyPatch(state[n - 1], ps[n])
  IN state

\* A support is of no use if it is missing, not in force, or changed since.
Unsound(st, id, at) ==
  \/ st.records[id] = NoRecord
  \/ ~st.records[id].ok
  \/ st.changed[id] > 0 /\ at <= st.changed[id]

\* Mutant of Fallen: projections are judged by the events as they were before.
FallenAtOnce(st) ==
  [id \in Id |->
     IF st.records[id] = NoRecord \/ id \in Claim THEN st.records[id]
     ELSE LET r == st.records[id]
              falls == IF id \in Event THEN \E c \in Refs[id] : Unsound(st, c, r.at)
                       ELSE ~r.human /\ \E s \in Support[id] : Unsound(st, s, r.at)
          IN [r EXCEPT !.ok = @ /\ ~falls]]

\* Events fall with their claims, and projections with both, unless a human wrote
\* them.
Fallen(st) ==
  LET events == [id \in Id |->
        IF id \in Event /\ st.records[id] # NoRecord
           /\ \E c \in Refs[id] : Unsound(st, c, st.records[id].at)
        THEN [st.records[id] EXCEPT !.ok = FALSE] ELSE st.records[id]]
      known == [records |-> events, changed |-> st.changed] IN
  [id \in Id |->
     IF id \in Projection /\ events[id] # NoRecord /\ ~events[id].human
        /\ \E s \in Support[id] : Unsound(known, s, events[id].at)
     THEN [events[id] EXCEPT !.ok = FALSE] ELSE events[id]]

Resolution(j, ps) == Fallen(Overlays(j, ps)[Len(ps)])
ResolvedState == Resolution(journal, patches)

----------------------------------------------------------------------------
(* The cache.                                                              *)

CacheIsCurrent == cache # NoCache /\ fresh = Kinds

\* Mutant of MayExtend: a new record is not looked for among what the others
\* stand on.
MayExtendUnasked(state, ids) ==
  \A id \in ids : state[id] = NoRecord /\ id \notin Patched

PatchedPeriod == \E p \in Range(patches) : p.period

\* New records extend the resolved state only if nothing in it waits for them and
\* no patch is about them or about what they stand on.
MayExtend(state, ids) ==
  \A id \in ids :
    /\ state[id] = NoRecord /\ id \notin Patched
    /\ \A e \in Event : state[e] # NoRecord => id \notin Refs[e]
    /\ \A p \in Projection : state[p] # NoRecord => id \notin Support[p]
    /\ id \in Event => Refs[id] \cap Patched = {}
    /\ id \in Projection => Support[id] \cap Patched = {} /\ ~PatchedPeriod

Extended(state, ids, records) ==
  LET Holds(s) == state[s] # NoRecord /\ state[s].ok IN
  [id \in Id |->
     IF id \notin ids THEN state[id]
     ELSE [records[id] EXCEPT !.ok =
             /\ @
             /\ id \in Event => \A c \in Refs[id] : Holds(c)
             /\ id \in Projection => \A s \in Support[id] : Holds(s)]]

\* What the cache becomes when these records were appended, all of one kind.
CacheAfter(state, ids, records) ==
  IF ids = {} THEN state
  ELSE IF state # NoCache /\ MayExtend(state, ids) THEN Extended(state, ids, records)
  ELSE NoCache

\* resolvedState: the cache if it is current, else all anew.
Resolve ==
  /\ ~CacheIsCurrent
  /\ cache' = ResolvedState /\ fresh' = Kinds
  /\ UNCHANGED <<disk, now, promised, breaks>>

----------------------------------------------------------------------------
(* Writing.                                                                *)

\* The ids of which a transaction appends a record: an ordinary one those that
\* are not there, a review those it has not appended already.
Missing(t, ids) ==
  IF t \in Review THEN {id \in ids : <<id, t>> \notin keys}
  ELSE {id \in ids : journal[id] = NoRecord}

Written(ids, supported) ==
  [id \in Id |-> IF id \in ids
                 THEN [ok |-> id \notin Claim \/ id \in supported, human |-> FALSE,
                       at |-> now]
                 ELSE journal[id]]

\* Claims go before events: no event without them.
Prefix(done, claims, events) ==
  /\ done \subseteq claims \cup events
  /\ done \cap events # {} => claims \subseteq done

\* Both kinds appended in turn to a current cache; a review discards it.
CommitCache(t, claims, events, records) ==
  IF t \in Review THEN (IF claims \cup events = {} THEN cache ELSE NoCache)
  ELSE IF ~CacheIsCurrent THEN (IF claims \cup events = {} THEN cache ELSE NoCache)
  ELSE CacheAfter(CacheAfter(cache, claims, records), events, records)

\* Mutant of CommitPacket: the cursor is written before the journals.
CommitCursorFirst(t, ids, supported) ==
  /\ cursor # t
  /\ cursor' = t /\ promised' = [promised EXCEPT ![t] = ids]
  /\ \E done \in SUBSET Missing(t, ids) :
       /\ journal' = Written(done, supported)
       /\ keys' = keys \cup (done \X ({t} \cap Review))
       /\ done # Missing(t, ids) => breaks < MaxBreaks
       /\ breaks' = IF done = Missing(t, ids) THEN breaks ELSE breaks + 1
  /\ cache' = NoCache /\ fresh' = {}
  /\ UNCHANGED <<patches, now>>

\* A packet's claims and events, as the extraction gave them this time: appended,
\* then the manifest, then the cursor.
CommitPacket(t, ids, supported) ==
  LET claims == Missing(t, ids \cap Claim)
      events == Missing(t, ids \cap Event)
      records == Written(claims \cup events, supported) IN
  /\ cursor # t
  /\ journal' = records
  /\ keys' = keys \cup ((claims \cup events) \X ({t} \cap Review))
  /\ cache' = CommitCache(t, claims, events, records)
  /\ fresh' = IF cache' = NoCache THEN {} ELSE fresh
  /\ cursor' = t
  /\ promised' = [promised EXCEPT ![t] = ids]
  /\ UNCHANGED <<patches, now, breaks>>

\* The commit ends after some of its records: an append threw, and the process
\* goes on with a cache that knows the files as they were, or it died.
CommitBreaks(t, ids, supported, died) ==
  LET claims == Missing(t, ids \cap Claim)
      events == Missing(t, ids \cap Event) IN
  /\ cursor # t /\ breaks < MaxBreaks
  /\ \E done \in SUBSET (claims \cup events) :
       LET records == Written(done, supported)
           whole == IF claims \subseteq done THEN claims ELSE {} IN
       /\ Prefix(done, claims, events)
       /\ journal' = records
       /\ keys' = keys \cup (done \X ({t} \cap Review))
       /\ cache' = IF died THEN NoCache
                   ELSE IF whole = {} THEN cache
                   ELSE CommitCache(t, whole, {}, records)
       /\ fresh' = IF cache' = NoCache THEN {}
                   ELSE fresh \ {KindOf(id) : id \in done \ whole}
  /\ breaks' = breaks + 1
  /\ UNCHANGED <<patches, cursor, now, promised>>

AppendProjection(p) ==
  /\ journal[p] = NoRecord
  /\ journal' = Written({p}, {})
  /\ cache' = IF CacheIsCurrent THEN CacheAfter(cache, {p}, journal') ELSE NoCache
  /\ fresh' = IF cache' = NoCache THEN {} ELSE fresh
  /\ UNCHANGED <<keys, patches, cursor, now, promised, breaks>>

\* A human decides about what the resolved state shows.
AppendPatch(p) ==
  /\ Len(patches) < MaxPatches
  /\ patches' = Append(patches, p)
  /\ cache' = NoCache /\ fresh' = {}
  /\ UNCHANGED <<journal, keys, cursor, now, promised, breaks>>

Shown == {id \in Id : ResolvedState[id] # NoRecord}

\* Corrections and invalidations, of one record or a period; splits, and merges
\* of the target with another record.
PatchesOf(id) ==
  LET Patch(op, from, into, period) ==
        [op |-> op, target |-> id, from |-> from, into |-> into, at |-> now,
         period |-> period, since |-> ResolvedState[id].at]
      Peers == KindOf(id) \ {id} IN
  {Patch(op, {}, {}, FALSE) : op \in {"correct", "invalidate"}}
  \cup {Patch("correct", {}, {}, TRUE) : p \in {id} \cap Projection}
  \cup {Patch("split", {id}, Peers, FALSE) : p \in {id} \ Projection}
  \cup {Patch("merge", {id} \cup Peers, {id}, FALSE) : p \in {id} \ Projection}

Tick == now < MaxTime /\ now' = now + 1 /\ UNCHANGED <<disk, cache, fresh, promised, breaks>>

StoreNext ==
  \/ Resolve
  \/ \E t \in Tx : \E ids \in Extracted[t], doubted \in SUBSET Doubtful :
         \/ CommitPacket(t, ids, Claim \ doubted)
         \/ \E died \in BOOLEAN : CommitBreaks(t, ids, Claim \ doubted, died)
  \/ \E p \in Projection : AppendProjection(p)
  \/ \E id \in Shown : \E p \in PatchesOf(id) : AppendPatch(p)
  \/ Tick

StoreSpec == StoreInit /\ [][StoreNext]_storeVars

----------------------------------------------------------------------------
(* Properties.                                                             *)

\* The state resolvedState answers from its cache is the one a resolution of the
\* journals and patches from nothing would give, after any appends, revisions,
\* patches and failed commits in any order (_incrementResolvedUnique).
CacheIsResolution == CacheIsCurrent => cache = ResolvedState

Answer == IF CacheIsCurrent THEN cache ELSE ResolvedState

\* No event in force stands on a claim that is missing or not in force, and no
\* projection in force that a human did not write stands on such a claim or event,
\* whatever was patched, reviewed or lost in a crash.
NothingRestsOnUnsupported ==
  LET Holds(s) == Answer[s] # NoRecord /\ Answer[s].ok IN
  /\ \A e \in Event : Holds(e) => \A c \in Refs[e] : Holds(c)
  /\ \A p \in Projection :
       Holds(p) /\ ~Answer[p].human => \A s \in Support[p] : Holds(s)

\* The cursor never points beyond durable data: what the transaction it names was
\* committed with is in the journals, and nothing that was is lost again.
CursorNeverLeads ==
  \A t \in Tx : \A id \in promised[t] :
    /\ journal[id] # NoRecord
    /\ t \in Review => <<id, t>> \in keys

=============================================================================
