------------------------- MODULE GroupPipelineProofs -------------------------
(***************************************************************************)
(* GroupPipeline for every number of updates, every album and every bound: *)
(* which updates an offset may pass without a record, that no message is   *)
(* in two turns, and that what was answered does not fail afterwards but   *)
(* by a write of its own bookkeeping.                                      *)
(***************************************************************************)
EXTENDS GroupPipeline, WellFoundedInduction, FiniteSetTheorems, TLAPS

-----------------------------------------------------------------------------
(* The inductive invariant.                                                *)

Jobs == {"idle", "staged", "preparing", "queued", "seeing", "batched"} \cup Ending

CallType ==
  [kind : {"see", "quiet", "batch", "exact"}, of : SUBSET Update, env : SUBSET Update,
   begun : BOOLEAN]

TurnType ==
  [state : {"open", "rejected", "committed", "sending", "delivered"}, env : SUBSET Update]

RetryType ==
  [of : SUBSET Update, members : SUBSET Update, open : SUBSET Update,
   at : {"none", "restoring", "running"} \cup Ending, slip : BOOLEAN]

PageType == [head : Update, with : SUBSET Update]

GroupTypeOK ==
  /\ entry \in [Update -> Entry]
  /\ arrived \in Nat /\ 1 .. arrived \subseteq Update
  /\ offset \in Nat /\ asks \in Nat /\ 1 <= offset /\ offset <= asks
  /\ siblings \in [Update -> SUBSET Update]
  /\ prepared \subseteq Update
  /\ batchOf \in [Update -> SUBSET Update]
  /\ turn \in [DOMAIN turn -> TurnType]
  /\ saved \subseteq Update /\ images \subseteq Update
  /\ phase \in {"down", "replaying", "running"}
  /\ page \subseteq PageType
  /\ handled \in BOOLEAN /\ paused \in BOOLEAN
  /\ job \in [Update -> Jobs]
  /\ queue \in Seq(Update)
  /\ batch \subseteq Update
  /\ exact \in RetryType
  /\ calls \in Seq(CallType)
  /\ pass \subseteq Update

\* A batch is recorded for each of its members.
BatchesAreWhole ==
  \A u \in Update : batchOf[u] # {} =>
    u \in batchOf[u] /\ \A v \in batchOf[u] : batchOf[v] = batchOf[u]

\* What is a batch at the moment is recorded as one.
OnRecord(S) == S # {} /\ S \subseteq Update /\ \A v \in S : batchOf[v] = S

RecordsHold ==
  /\ batch # {} => OnRecord(batch)
  /\ exact.at = "none" => exact = NoRetry
  /\ exact.at # "none" => OnRecord(exact.of)
  /\ exact.open \subseteq exact.members /\ exact.members \subseteq exact.of
  /\ \A S \in DOMAIN turn : S # {}

\* A message is in the turn of its recorded batch only; without a record it is done.
ShownAsRecorded ==
  \A u \in Update \ forgotten :
    /\ \A S, T \in Shown(u) : S = T
    /\ batchOf[u] # {} => \A S \in Shown(u) : S = batchOf[u]
    /\ batchOf[u] = {} /\ Shown(u) # {} => IsDone(u) /\ job[u] = "idle"

\* The queue of turns and what the process is doing agree.
QueueIsWork ==
  /\ \A i \in DOMAIN queue : job[queue[i]] = "queued"
  /\ \A i \in DOMAIN calls :
       /\ calls[i].kind \in {"see", "quiet"} => \A u \in calls[i].of : job[u] = "seeing"
       /\ calls[i].kind = "batch" =>
            calls[i].of = batch /\ batch # {} /\ \A u \in batch : job[u] = "batched"
       /\ calls[i].kind = "exact" => exact.at = "running" /\ exact.of = calls[i].of
       /\ \A j \in DOMAIN calls \ {i} :
            /\ calls[i].kind = "exact" => calls[j].kind # "exact"
            /\ calls[i].kind # "exact" /\ calls[j].kind # "exact" =>
                 calls[i].of \cap calls[j].of = {}

\* What is worked on was received before, and nothing is while the process is down.
WorkIsReceived ==
  /\ \A u \in Update : entry[u].state = "none" =>
       job[u] = "idle" /\ batchOf[u] = {} /\ u \notin pass
  /\ \A u \in Update : job[u] \in {"preparing", "queued"} => entry[u].state # "received"
  /\ phase = "down" =>
       /\ \A u \in Update : job[u] = "idle"
       /\ exact = NoRetry /\ page = {} /\ ~handled /\ pass = {} /\ queue = << >>
       /\ calls = << >> /\ batch = {}

\* A message goes through the coordinator before its batch is recorded and not after,
\* unless the operator requeued it.
RecordedLast ==
  \A u \in Update \ requeued :
    /\ entry[u].state = "received" => batchOf[u] = {}
    /\ job[u] \in {"staged", "preparing", "queued", "seeing"} => batchOf[u] = {}

Delivered(S) == S \in DOMAIN turn /\ turn[S].state = "delivered"

\* What fails was not delivered, or could not be retried as it was, or a write failed.
FailsUndelivered ==
  /\ \A u \in Update \ requeued : job[u] = "fail" =>
       ~Delivered(batchOf[u]) \/ batchOf[u] \in refused \/ u \in slipped
  /\ exact.at = "fail" => ~Delivered(exact.of) \/ exact.of \in refused \/ exact.slip

\* An update that needs no record of its own: it has one, or an album took it away.
Kept(u) == entry[u].state # "none" \/ \E v \in Update : u \in siblings[v]
Between(v, u) ==
  v < u /\ \E w \in Update : u <= w /\ AlbumOf[v] # None /\ AlbumOf[w] = AlbumOf[v]

\* What the offset passed is kept, or an album took it along; what is neither kept nor on
\* the page was on one that broke off, or the album's first was.
PassesKept(u) ==
  /\ Kept(u) \/ \E v \in Update : Between(v, u)
  /\ \/ Kept(u) \/ \E p \in page : u \in Members(p)
     \/ \E v \in Update : Between(v, u) /\ {u, v} \cap broken # {}

PageHolds(p) ==
  /\ p.head <= arrived
  /\ \A w \in p.with :
       p.head < w /\ w <= arrived /\ AlbumOf[p.head] # None /\ AlbumOf[w] = AlbumOf[p.head]
  /\ entry[p.head].state # "none" => p.head \in broken \/ p.with \subseteq siblings[p.head]
  /\ \A u \in Update : asks <= u /\ (\E w \in Members(p) : u <= w) =>
       \E q \in page : u \in Members(q)

OffsetPassesKept ==
  /\ \A u \in Update : u < asks => PassesKept(u)
  /\ \A u \in Update : entry[u].state = "none" => siblings[u] = {}
  /\ \A u \in Update : offset <= u /\ entry[u].state # "none" =>
       u \in broken \/ (handled /\ u = First.head)
  /\ \A p, q \in page : p.head = q.head => p = q
  /\ \A p \in page : PageHolds(p)
  /\ handled => page # {} /\ entry[First.head].state # "none"

GroupIInv ==
  /\ GroupTypeOK /\ BatchesAreWhole /\ RecordsHold /\ ShownAsRecorded
  /\ QueueIsWork /\ WorkIsReceived /\ RecordedLast /\ FailsUndelivered /\ OffsetPassesKept

-----------------------------------------------------------------------------
(* Operators.                                                              *)

LEMMA LeastNatural ==
  ASSUME NEW S \in SUBSET Nat, S # {}
  PROVE  Least(S) \in S /\ \A v \in S : Least(S) <= v
<1> DEFINE R == OpToRel(<, Nat)
<1>1. IsWellFoundedOn(R, Nat) BY NatLessThanWellFounded
<1>2. \A i, n \in Nat : <<i, n>> \in R <=> i < n BY DEF OpToRel
<1> HIDE DEF R
<1>3. PICK n \in S : \A i \in S : ~(<<i, n>> \in R) BY <1>1, WFMin
<1>4. \A v \in S : n <= v
  <2> TAKE v \in S
  <2>1. v \in Nat /\ n \in Nat OBVIOUS
  <2>2. ~(v < n) BY <1>2, <1>3, <2>1
  <2> QED BY <2>1, <2>2
<1> QED BY <1>3, <1>4 DEF Least

LEMMA GreatestNatural ==
  ASSUME NEW S \in SUBSET Nat, S # {}, NEW n \in Nat, \A v \in S : v <= n
  PROVE  \E u \in S : \A v \in S : v <= u
<1> DEFINE T == {m \in Nat : \E v \in S : m = n - v}
<1>1. \A v \in S : n - v \in T OBVIOUS
<1>2. T \in SUBSET Nat /\ T # {} BY <1>1
<1>3. \A t \in T : \E v \in S : t = n - v OBVIOUS
<1> HIDE DEF T
<1>4. Least(T) \in T /\ \A t \in T : Least(T) <= t BY <1>2, LeastNatural
<1>5. PICK u \in S : Least(T) = n - u BY <1>3, <1>4
<1>6. \A v \in S : n - u <= n - v BY <1>1, <1>4, <1>5
<1> QED BY <1>6

LEMMA FirstIsLeast ==
  ASSUME page \subseteq PageType, page # {}
  PROVE  First \in page /\ \A q \in page : First.head <= q.head
<1> DEFINE S == {p.head : p \in page}
<1>1. S \in SUBSET Nat /\ S # {} BY InboxAssumption DEF PageType
<1> HIDE DEF S
<1>2. Least(S) \in S /\ \A v \in S : Least(S) <= v BY <1>1, LeastNatural
<1>3. PICK p \in page : Least(S) = p.head BY <1>2 DEF S
<1>4. \A q \in page : p.head <= q.head BY <1>2, <1>3 DEF S
<1> QED BY <1>4 DEF First

LEMMA ReachIsGreatest ==
  ASSUME NEW p \in PageType, NEW n \in Nat, \A w \in p.with : w <= n
  PROVE  Reach(p) \in Members(p) /\ \A v \in Members(p) : v <= Reach(p)
<1> DEFINE S == {p.head} \cup p.with
<1>1. p.head \in Nat /\ p.with \subseteq Nat BY InboxAssumption DEF PageType
<1>2. S \in SUBSET Nat /\ S # {} BY <1>1
<1>3. n + p.head \in Nat BY <1>1
<1>4. \A w \in p.with : w \in Nat /\ w <= n + p.head BY <1>1
<1>5. \A w \in S : w <= n + p.head BY <1>1, <1>4
<1> HIDE DEF S
<1>6. \E u \in S : \A v \in S : v <= u BY <1>2, <1>3, <1>5, GreatestNatural
<1> QED BY <1>6 DEF Reach, Members, S

\* Entries keep their type; a failure counts only as a failure.
LEMMA EntryFacts ==
  ASSUME NEW e \in Entry
  PROVE  /\ ReceivedEntry \in Entry /\ DoneEntry \in Entry /\ NoEntry \in Entry
         /\ NoEntry.state = "none" /\ ReceivedEntry.state = "received"
         /\ DoneEntry.state = "done" /\ DoneEntry.attempts = 0
         /\ ProcessingEntry(e) \in Entry /\ ProcessingEntry(e).state = "processing"
         /\ ProcessingEntry(e).attempts = e.attempts
         /\ QueuedEntry(e) \in Entry /\ QueuedEntry(e).state = "group-queued"
         /\ QueuedEntry(e).attempts = e.attempts
<1>1. 0 \in 0 .. MaxAttempts BY InboxAssumption
<1>2. ReceivedEntry \in Entry /\ DoneEntry \in Entry /\ NoEntry \in Entry
  BY <1>1 DEF Entry, EntryState, ReceivedEntry, DoneEntry, NoEntry
<1>3. ProcessingEntry(e) \in Entry /\ QueuedEntry(e) \in Entry
  BY DEF Entry, EntryState, ProcessingEntry, QueuedEntry
<1> QED BY <1>2, <1>3 DEF ReceivedEntry, DoneEntry, NoEntry, ProcessingEntry, QueuedEntry

LEMMA FailureFacts ==
  ASSUME NEW e \in Entry, NEW end \in Ending \ {"done"}
  PROVE  /\ AfterFailure(e, end) \in Entry
         /\ AfterFailure(e, end).state \notin {"none", "received", "done"}
         /\ AfterFailure(e, end).attempts > e.attempts => end = "fail"
<1>1. CASE end = "operator-pause"
  BY <1>1 DEF AfterFailure, OperatorPausedEntry, Entry, EntryState
<1>2. CASE end = "pause"
  BY <1>2 DEF AfterFailure, PausedEntry, Entry, EntryState
<1>3. CASE end = "fail"
  <2>1. AfterFailure(e, end) = FailedEntry(e) BY <1>3 DEF AfterFailure
  <2>2. FailedEntry(e) \in Entry /\ FailedEntry(e).state \in {"failed", "dead-letter"}
    BY InboxAssumption DEF FailedEntry, Entry, EntryState
  <2> QED BY <1>3, <2>1, <2>2
<1> QED BY <1>1, <1>2, <1>3 DEF Ending

\* The queue of turns after a call is added, begun or over.
LEMMA AddedCall ==
  ASSUME calls \in Seq(CallType), NEW c \in CallType, calls' = Append(calls, c)
  PROVE  /\ calls' \in Seq(CallType)
         /\ DOMAIN calls' = DOMAIN calls \cup {Len(calls) + 1}
         /\ Len(calls) + 1 \notin DOMAIN calls
         /\ \A i \in DOMAIN calls : calls'[i] = calls[i]
         /\ calls'[Len(calls) + 1] = c
OBVIOUS

LEMMA BegunCall ==
  ASSUME calls \in Seq(CallType), calls # << >>, Begun
  PROVE  /\ calls' \in Seq(CallType) /\ DOMAIN calls' = DOMAIN calls
         /\ \A i \in DOMAIN calls : /\ calls'[i].kind = calls[i].kind
                                    /\ calls'[i].of = calls[i].of
<1> DEFINE c == [Call EXCEPT !.begun = TRUE]
<1>1. Call \in CallType /\ Call = calls[1] BY DEF Call
<1>2. c \in CallType /\ c.kind = Call.kind /\ c.of = Call.of BY <1>1 DEF CallType
<1> HIDE DEF c
<1>3. calls' = <<c>> \o Tail(calls) BY DEF Begun, c
<1>4. Tail(calls) \in Seq(CallType) /\ <<c>> \in Seq(CallType) BY <1>2
<1>5. calls' \in Seq(CallType) /\ Len(calls') = Len(calls) BY <1>3, <1>4
<1>6. calls'[1] = c BY <1>3, <1>4
<1>7. \A i \in DOMAIN calls : i # 1 => calls'[i] = calls[i]
  <2> SUFFICES ASSUME NEW i \in DOMAIN calls, i # 1 PROVE calls'[i] = calls[i] OBVIOUS
  <2>1. calls'[i] = Tail(calls)[i - 1] BY <1>3, <1>4
  <2> QED BY <2>1
<1> QED BY <1>1, <1>2, <1>5, <1>6, <1>7

LEMMA EndedCall ==
  ASSUME calls \in Seq(CallType), calls # << >>, calls' = Tail(calls)
  PROVE  /\ calls' \in Seq(CallType)
         /\ \A i \in DOMAIN calls' : i + 1 \in DOMAIN calls /\ i + 1 # 1
                                     /\ calls'[i] = calls[i + 1]
         /\ 1 \in DOMAIN calls /\ Call = calls[1] /\ Call \in CallType
BY DEF Call

-----------------------------------------------------------------------------
(* What the steps of a turn have in common.                                *)

RuntimeStep ==
  \/ See \/ SeeFails \/ TurnRefuses \/ TurnBegins \/ TurnIsAmbiguous \/ TurnWasDelivered
  \/ Commit \/ Send \/ Sent \/ TurnEnds \/ Consumes \/ ConsumeFails

\* A call that ends as a failure has its reason.
Reason(S, slip) ==
  \/ Call.kind \in {"see", "quiet"}
  \/ ~Delivered(S)' \/ S \in refused'
  \/ slip /\ (Call.kind # "exact" => S \subseteq slipped')

CallEnds(end) ==
  /\ calls' = Tail(calls)
  /\ job' = [u \in Update |-> IF Call.kind # "exact" /\ u \in Call.of THEN end ELSE job[u]]
  /\ batch' = IF Call.kind = "batch" THEN {} ELSE batch
  /\ \E slip \in BOOLEAN :
       /\ exact' = IF Call.kind = "exact" THEN [exact EXCEPT !.at = end, !.slip = slip] ELSE exact
       /\ end = "fail" => \A S : S = Call.of => Reason(S, slip)

TurnMoves ==
  /\ Call.kind \in {"batch", "exact"}
  /\ \E s \in {"open", "rejected", "committed", "sending", "delivered"} :
       TurnIs(Call.of, s, Call.env)

RuntimeMoves ==
  /\ Calm /\ calls # << >>
  /\ UNCHANGED <<entry, inflight, arrived, offset, records, phase, polling, queue, pass, broken,
                 requeued, forgotten>>
  /\ refused \subseteq refused' /\ slipped \subseteq slipped'
  /\ images' \cup saved' \subseteq images \cup saved \cup Call.of
  /\ paused \in BOOLEAN => paused' \in BOOLEAN
  /\ turn' = turn \/ TurnMoves
  /\ \/ \E end \in Ending : CallEnds(end)
     \/ UNCHANGED <<job, batch, exact>> /\ (calls' = calls \/ Begun)

LEMMA EndsMoves ==
  ASSUME NEW end \in Ending, NEW slip \in BOOLEAN, Ends(end, slip),
         end = "fail" => \A S : S = Call.of => Reason(S, slip)
  PROVE  /\ CallEnds(end) /\ slipped \subseteq slipped' /\ paused' \in BOOLEAN
         /\ UNCHANGED <<entry, inflight, arrived, offset, records, phase, polling, queue, pass,
                        broken, requeued, forgotten>>
<1>1. CallEnds(end) BY DEF Ends, CallEnds
<1>2. slipped \subseteq slipped' /\ paused' \in BOOLEAN BY DEF Ends
<1>3. UNCHANGED <<entry, inflight, arrived, offset, records, phase, polling, queue, pass,
                  broken, requeued, forgotten>>
  BY DEF Ends, inboxVars
<1> QED BY <1>1, <1>2, <1>3

LEMMA StaysMoves ==
  ASSUME Stays
  PROVE  /\ UNCHANGED <<entry, inflight, arrived, offset, records, phase, polling, queue, pass,
                        broken, requeued, forgotten, refused, slipped, images, saved, paused,
                        job, batch, exact>>
BY DEF Stays, inboxVars, batcher, dispatcher, history

LEMMA NovelWait ==
  (images \cup Novel) \subseteq images \cup Call.of /\ Recorded \subseteq images \cup Call.of
BY DEF Recorded, Novel, Newest

LEMMA RuntimeSteps ==
  ASSUME RuntimeStep
  PROVE  RuntimeMoves
<1>e. ASSUME Busy(FALSE) \/ Busy(TRUE), NEW end \in Ending, NEW slip \in BOOLEAN, Ends(end, slip),
             end = "fail" => \A S : S = Call.of => Reason(S, slip),
             refused \subseteq refused', turn' = turn \/ TurnMoves,
             images' \cup saved' \subseteq images \cup saved \cup Call.of
      PROVE  RuntimeMoves
  <2>1. Calm /\ calls # << >> BY <1>e DEF Busy
  <2> QED BY <1>e, <2>1, EndsMoves DEF RuntimeMoves
<1>s. ASSUME Busy(FALSE) \/ Busy(TRUE), Stays, calls' = calls \/ Begun, turn' = turn \/ TurnMoves
      PROVE  RuntimeMoves
  <2>1. Calm /\ calls # << >> BY <1>s DEF Busy
  <2> QED BY <1>s, <2>1, StaysMoves DEF RuntimeMoves
<1>n. /\ {"done", "fail", "pause", "operator-pause"} = Ending /\ {TRUE, FALSE} = BOOLEAN
      /\ IsBatch(TRUE) => Busy(TRUE) /\ Call.kind \in {"batch", "exact"}
      /\ IsBatch(FALSE) => Busy(FALSE) /\ Call.kind \in {"batch", "exact"}
  BY DEF Ending, IsBatch
<1>1. CASE See
  <2>1. Busy(FALSE) /\ Ends("done", FALSE) BY <1>1 DEF See, Observes, Over
  <2>2. images' \cup saved' \subseteq images \cup saved \cup Call.of
    BY <1>1, NovelWait DEF See
  <2> QED BY <1>1, <1>e, <1>n, <2>1, <2>2 DEF See
<1>2. CASE SeeFails
  <2>1. Busy(FALSE) /\ Ends("fail", FALSE) /\ \A S : Reason(S, FALSE)
    BY <1>2 DEF SeeFails, Observes, Over, Reason
  <2>2. images' \cup saved' \subseteq images \cup saved \cup Call.of
    BY <1>2, NovelWait DEF SeeFails
  <2> QED BY <1>2, <1>e, <1>n, <2>1, <2>2 DEF SeeFails
<1>3. CASE TurnRefuses
  <2>1. Busy(FALSE) /\ Ends("fail", FALSE) /\ \A S : S = Call.of => Reason(S, FALSE)
    BY <1>3, <1>n DEF TurnRefuses, Over, Reason
  <2> QED BY <1>3, <1>e, <1>n, <2>1 DEF TurnRefuses
<1>4. CASE TurnBegins
  BY <1>4, <1>n, <1>s DEF TurnBegins, TurnMoves
<1>5. CASE TurnIsAmbiguous
  <2>1. Busy(FALSE) /\ Ends("operator-pause", FALSE) BY <1>5, <1>n DEF TurnIsAmbiguous, Over
  <2> QED BY <1>5, <1>e, <1>n, <2>1 DEF TurnIsAmbiguous
<1>6. CASE TurnWasDelivered
  BY <1>6, <1>n, <1>s DEF TurnWasDelivered
<1>7. CASE Commit \/ Send \/ Sent
  BY <1>7, <1>n, <1>s DEF Commit, Send, Sent, TurnSteps, TurnMoves
<1>8. CASE TurnEnds
  <2>1. PICK state, after, end :
          /\ TurnFails(state, after, end)
          /\ end \in Ending
          /\ after \in {"open", "rejected", "committed", "sending"}
    BY <1>8, <1>n DEF TurnEnds
  <2>2. TurnMoves BY <1>n, <2>1 DEF TurnFails, TurnMoves
  <2>3. \A S : S = Call.of => Reason(S, FALSE)
    <3>1. \A S : S = Call.of => ~Delivered(S)' BY <2>1 DEF TurnFails, TurnIs, Delivered
    <3> QED BY <3>1 DEF Reason
  <2>4. Busy(TRUE) /\ Ends(end, FALSE) BY <1>n, <2>1 DEF TurnFails, Over
  <2> QED BY <1>e, <1>n, <2>1, <2>2, <2>3, <2>4 DEF TurnFails
<1>9. CASE Consumes
  <2>1. Busy(TRUE) /\ Ends("done", FALSE) BY <1>9, <1>n DEF Consumes, Shows, Over
  <2> QED BY <1>9, <1>e, <1>n, <2>1 DEF Consumes, Shows
<1>10. CASE ConsumeFails
  <2>1. Busy(TRUE) /\ Ends("fail", TRUE) BY <1>10, <1>n DEF ConsumeFails, Shows
  <2>2. \A S : S = Call.of => Reason(S, TRUE) BY <2>1 DEF Ends, Reason
  <2> QED BY <1>10, <1>e, <1>n, <2>1, <2>2 DEF ConsumeFails, Shows
<1> QED BY <1>1, <1>2, <1>3, <1>4, <1>5, <1>6, <1>7, <1>8, <1>9, <1>10 DEF RuntimeStep

-----------------------------------------------------------------------------
(* Which steps touch what.                                                 *)

Frames ==
  /\ \/ Handle \/ PassStep \/ MarkThrows \/ UNCHANGED entry
     \/ \E v \in Update :
          \/ StageBegins(v) \/ Answered(v) \/ Settle(v) \/ Fail(v)
          \/ RetryEnds(v) \/ RetryTime(v) \/ Requeue(v)
  /\ Arrive \/ UNCHANGED arrived
  /\ \/ Poll \/ Handle \/ HandleFails \/ Advance \/ AdvanceFails \/ Die
     \/ UNCHANGED <<offset, siblings, asks, page, handled, broken>>
  /\ (\E v \in Update : Answered(v) \/ Requeue(v)) \/ UNCHANGED prepared
  /\ FormBatch \/ (\E v \in Update : Compact(batchOf[v])) \/ UNCHANGED batchOf
  /\ RuntimeStep \/ UNCHANGED turn
  /\ RuntimeStep \/ Boot \/ Die \/ UNCHANGED <<saved, images>>
  /\ Boot \/ ReplayEnds \/ Die \/ UNCHANGED phase
  /\ RuntimeStep \/ FormFails \/ PauseOver \/ Die \/ UNCHANGED paused
  /\ \/ Handle \/ PassStep \/ FormBatch \/ FormFails \/ RuntimeStep \/ Die
     \/ UNCHANGED job
     \/ \E v \in Update :
          \/ StageBegins(v) \/ StageFails(v) \/ Answered(v) \/ Observe(v)
          \/ Settle(v) \/ DoneThrows(v) \/ Fail(v) \/ FailThrows(v)
          \/ \E end \in Ending : PrepareEnds(v, end)
  /\ \/ FormBatch \/ FormFails \/ Die \/ UNCHANGED queue
     \/ \E v \in Update : Answered(v)
  /\ FormBatch \/ RuntimeStep \/ Die \/ UNCHANGED batch
  /\ \/ PassStep \/ MarkThrows \/ Restored \/ NotRestored \/ RuntimeStep \/ Die \/ UNCHANGED exact
     \/ \E v \in Update : RetryEnds(v) \/ RetryDoneThrows(v) \/ RetryFailThrows(v)
  /\ \/ FormBatch \/ RuntimeStep \/ Restored \/ Die \/ UNCHANGED calls
     \/ \E v \in Update : Observe(v) \/ Answered(v)
  /\ \/ PassStep \/ MarkThrows \/ Boot \/ RetryDue \/ Die \/ UNCHANGED pass \/ pass' = {}
  /\ \/ RuntimeStep \/ Die \/ UNCHANGED slipped
     \/ \E v \in Update : DoneThrows(v) \/ Fail(v) \/ FailThrows(v)
  /\ FormFails \/ RuntimeStep \/ NotRestored \/ UNCHANGED refused
  /\ (\E v \in Update : Requeue(v)) \/ UNCHANGED <<requeued, forgotten>>

LEMMA FrameSteps ==
  ASSUME Next
  PROVE  Frames
<1> USE DEF inboxVars, records, durable, polling, batcher, dispatcher, volatile, history
<1>1. CASE Arrive BY <1>1 DEF Arrive, Frames
<1>2. CASE Poll BY <1>2 DEF Poll, Frames
<1>3. CASE Handle BY <1>3 DEF Handle, Ingested, Frames
<1>4. CASE HandleFails BY <1>4 DEF HandleFails, BreaksOff, Frames
<1>5. CASE Advance BY <1>5 DEF Advance, Frames
<1>6. CASE AdvanceFails BY <1>6 DEF AdvanceFails, BreaksOff, Frames
<1>7. CASE FormBatch BY <1>7 DEF FormBatch, DispatchBatch, Frames
<1>8. CASE FormFails BY <1>8 DEF FormFails, Frames
<1>10. CASE PauseOver BY <1>10 DEF PauseOver, Frames
<1>11. CASE Boot BY <1>11 DEF Boot, Frames
<1>12. CASE ReplayEnds BY <1>12 DEF ReplayEnds, Frames
<1>13. CASE RetryDue BY <1>13 DEF RetryDue, Frames
<1>14. CASE PassStep BY <1>14 DEF PassStep, ReplayRun, ReplayBatch, Frames
<1>15. CASE MarkThrows BY <1>15 DEF MarkThrows, Frames
<1>16. CASE Restored BY <1>16 DEF Restored, DispatchBatch, Frames
<1>17. CASE NotRestored BY <1>17 DEF NotRestored, Frames
<1>18. CASE Die BY <1>18 DEF Die, BreaksOff, LoadInbox, Frames
<1>19. ASSUME NEW v \in Update, StageBegins(v) PROVE Frames BY <1>19 DEF StageBegins, Frames
<1>20. ASSUME NEW v \in Update, StageFails(v) PROVE Frames BY <1>20 DEF StageFails, Frames
<1>21. ASSUME NEW v \in Update, Answered(v) PROVE Frames BY <1>21 DEF Answered, Preparing, Sees, Frames
<1>22. ASSUME NEW v \in Update, Observe(v) PROVE Frames BY <1>22 DEF Observe, Preparing, Sees, Frames
<1>23. ASSUME NEW v \in Update, Settle(v) PROVE Frames BY <1>23 DEF Settle, Frames
<1>24. ASSUME NEW v \in Update, DoneThrows(v) PROVE Frames BY <1>24 DEF DoneThrows, ReleaseWithoutRecord, Frames
<1>25. ASSUME NEW v \in Update, Fail(v) PROVE Frames BY <1>25 DEF Fail, Failed, Frames
<1>26. ASSUME NEW v \in Update, FailThrows(v) PROVE Frames BY <1>26 DEF FailThrows, Failed, ReleaseWithoutRecord, Frames
<1>27. ASSUME NEW v \in Update, RetryEnds(v) PROVE Frames BY <1>27 DEF RetryEnds, RetryFrame, Frames
<1>28. ASSUME NEW v \in Update, RetryDoneThrows(v) PROVE Frames BY <1>28 DEF RetryDoneThrows, RetryFrame, ReleaseWithoutRecord, Frames
<1>29. ASSUME NEW v \in Update, RetryFailThrows(v) PROVE Frames BY <1>29 DEF RetryFailThrows, RetryFrame, ReleaseWithoutRecord, Frames
<1>30. ASSUME NEW v \in Update, RetryTime(v) PROVE Frames BY <1>30 DEF RetryTime, Frames
<1>31. ASSUME NEW v \in Update, Requeue(v) PROVE Frames BY <1>31 DEF Requeue, Frames
<1>32. ASSUME NEW v \in Update, NEW end \in Ending, PrepareEnds(v, end) PROVE Frames
  BY <1>32 DEF PrepareEnds, Preparing, Frames
<1>33. ASSUME NEW v \in Update, Compact(batchOf[v]) PROVE Frames BY <1>33 DEF Compact, Frames
<1>34. CASE RuntimeStep BY <1>34, RuntimeSteps DEF RuntimeMoves, Frames
<1> QED
  BY <1>1, <1>2, <1>3, <1>4, <1>5, <1>6, <1>7, <1>8, <1>10, <1>11, <1>12, <1>13, <1>14,
     <1>15, <1>16, <1>17, <1>18, <1>19, <1>20, <1>21, <1>22, <1>23, <1>24, <1>25, <1>26,
     <1>27, <1>28, <1>29, <1>30, <1>31, <1>32, <1>33, <1>34
     DEF Next, RuntimeStep, Ending

-----------------------------------------------------------------------------
(* What a step may make of an entry.                                       *)

AtWork(u) == job[u] # "idle" \/ u \in exact.open

EntryMoves(u) ==
  /\ entry'[u] \in Entry
  /\ entry'[u].state = "none" => entry[u].state = "none"
  /\ entry[u].state = "none" => entry'[u].state = "none" \/ (Handle /\ u = First.head)
  /\ entry'[u].state = "received" => entry[u].state \in {"none", "received"} \/ Requeue(u)
  /\ entry[u].state \in {"done", "dead-letter"} =>
       entry'[u].state \in {"done", "dead-letter"} \/ AtWork(u) \/ Requeue(u)
  /\ entry'[u].attempts > entry[u].attempts =>
       job[u] = "fail" \/ (exact.at = "fail" /\ u \in exact.open)

LEMMA SameEntry ==
  ASSUME GroupTypeOK, NEW u \in Update, entry'[u] = entry[u]
  PROVE  EntryMoves(u)
<1>1. entry[u] \in Entry BY DEF GroupTypeOK
<1>2. ~(entry[u].attempts > entry[u].attempts) BY <1>1 DEF Entry
<1> QED BY <1>1, <1>2 DEF EntryMoves

\* An entry at work, or one not done yet, that is neither new nor failed.
LEMMA MarkedEntry ==
  ASSUME GroupTypeOK, NEW u \in Update, entry'[u] \in Entry, entry[u].state # "none",
         entry'[u].state \notin {"none", "received"}, AtWork(u) \/ ~IsDone(u),
         entry'[u].attempts = entry[u].attempts \/ entry'[u].attempts = 0
  PROVE  EntryMoves(u)
<1>1. entry[u] \in Entry BY DEF GroupTypeOK
<1>2. ~(entry'[u].attempts > entry[u].attempts) BY <1>1 DEF Entry
<1> QED BY <1>1, <1>2 DEF EntryMoves, IsDone

\* What is at work has been received.
LEMMA WorkHasEntry ==
  ASSUME GroupTypeOK, RecordsHold, WorkIsReceived, NEW u \in Update
  PROVE  AtWork(u) \/ batchOf[u] # {} => entry[u].state # "none"
<1>1. CASE job[u] # "idle" \/ batchOf[u] # {} BY <1>1 DEF WorkIsReceived
<1>2. CASE u \in exact.open
  <2>1. u \in exact.of BY <1>2 DEF RecordsHold
  <2>2. exact.at # "none" BY <1>2 DEF RecordsHold, NoRetry
  <2>3. batchOf[u] = exact.of BY <2>1, <2>2 DEF RecordsHold, OnRecord
  <2> QED BY <2>1, <2>3 DEF WorkIsReceived
<1> QED BY <1>1, <1>2 DEF AtWork

\* What a pass takes as a batch was recorded.
LEMMA PassTakesBatch ==
  ASSUME GroupTypeOK, BatchesAreWhole, Passing, Unrecorded = {}
  PROVE  Least(pass) \in Update /\ OnRecord(batchOf[Least(pass)])
<1>1. pass # {} /\ pass \in SUBSET Nat /\ pass \subseteq Update
  BY InboxAssumption DEF Passing, GroupTypeOK
<1>2. Least(pass) \in pass /\ \A v \in pass : Least(pass) <= v BY <1>1, LeastNatural
<1>3. batchOf[Least(pass)] # {}
  <2>1. SUFFICES ASSUME batchOf[Least(pass)] = {} PROVE FALSE OBVIOUS
  <2>2. \A v \in pass : v <= Least(pass) => v = Least(pass)
    <3> TAKE v \in pass
    <3>1. v \in Nat /\ Least(pass) \in Nat /\ Least(pass) <= v BY <1>1, <1>2
    <3> QED BY <3>1
  <2>3. Least(pass) \in Unrecorded BY <1>2, <2>1, <2>2 DEF Unrecorded
  <2> QED BY <2>3
<1> QED BY <1>1, <1>2, <1>3 DEF BatchesAreWhole, OnRecord, GroupTypeOK

\* Members of a recorded batch are marked.
LEMMA MarkedMembers ==
  ASSUME GroupTypeOK, RecordsHold, WorkIsReceived, NEW S, OnRecord(S),
         NEW T \in SUBSET Undone(S), Marks(T)
  PROVE  /\ entry' \in [Update -> Entry] /\ \A u \in Update : EntryMoves(u)
         /\ \A u \in T : entry'[u].state = "processing"
<1>1. \A u \in T : u \in Update /\ ~IsDone(u) /\ batchOf[u] = S /\ S # {}
  BY DEF Undone, OnRecord
<1>2. entry' = [u \in Update |-> IF u \in T THEN ProcessingEntry(entry[u]) ELSE entry[u]]
  BY DEF Marks
<1>t. \A u \in Update : entry[u] \in Entry BY DEF GroupTypeOK
<1>3. ASSUME NEW u \in T
      PROVE  /\ entry'[u] \in Entry /\ entry'[u].state = "processing" /\ EntryMoves(u)
  <2>1. entry'[u] = ProcessingEntry(entry[u]) /\ entry[u] \in Entry BY <1>1, <1>2, <1>t
  <2>2. /\ entry'[u] \in Entry /\ entry'[u].state = "processing"
        /\ entry'[u].attempts = entry[u].attempts
    BY <2>1, EntryFacts
  <2>3. entry[u].state # "none" BY <1>1, WorkHasEntry
  <2> QED BY <1>1, <2>2, <2>3, MarkedEntry
<1>4. ASSUME NEW u \in Update \ T PROVE entry'[u] \in Entry /\ EntryMoves(u)
  <2>1. entry'[u] = entry[u] BY <1>2
  <2> QED BY <1>t, <2>1, SameEntry
<1>5. entry' = [u \in Update |-> entry'[u]] BY <1>2
<1> QED BY <1>3, <1>4, <1>5

LEMMA EntrySteps ==
  ASSUME GroupTypeOK, BatchesAreWhole, RecordsHold, WorkIsReceived, Next
  PROVE  entry' \in [Update -> Entry] /\ \A u \in Update : EntryMoves(u)
<1> DEFINE Goal == entry' \in [Update -> Entry] /\ \A u \in Update : EntryMoves(u)
<1>t. entry \in [Update -> Entry] /\ \A u \in Update : entry[u] \in Entry BY DEF GroupTypeOK
<1>w. \A u \in Update : AtWork(u) \/ batchOf[u] # {} => entry[u].state # "none"
  BY WorkHasEntry
<1>s. ASSUME entry' = entry PROVE Goal
  BY <1>s, <1>t, SameEntry
<1>o. ASSUME NEW v \in Update, NEW e \in Entry, entry' = [entry EXCEPT ![v] = e], EntryMoves(v)
      PROVE  Goal
  <2>1. \A u \in Update \ {v} : entry'[u] = entry[u] BY <1>o, <1>t
  <2>2. \A u \in Update \ {v} : EntryMoves(u) BY <2>1, SameEntry
  <2> QED BY <1>o, <1>t, <2>2
<1>m. ASSUME NEW v \in Update, AtWork(v), NEW e \in Entry, entry' = [entry EXCEPT ![v] = e],
             e.state \notin {"none", "received"}, e.attempts = entry[v].attempts \/ e.attempts = 0
      PROVE  Goal
  <2>1. entry'[v] = e BY <1>m, <1>t
  <2>2. EntryMoves(v) BY <1>m, <1>w, <2>1, MarkedEntry
  <2> QED BY <1>m, <1>o, <2>2
<1>f. ASSUME NEW v \in Update, NEW end \in Ending \ {"done"}, ApplyDurableFailure(v, end),
             AtWork(v), end = "fail" => job[v] = "fail" \/ (exact.at = "fail" /\ v \in exact.open)
      PROVE  Goal
  <2>1. entry' = [entry EXCEPT ![v] = AfterFailure(entry[v], end)]
    BY <1>f, <1>t DEF ApplyDurableFailure
  <2>2. /\ AfterFailure(entry[v], end) \in Entry
        /\ AfterFailure(entry[v], end).state \notin {"none", "received", "done"}
        /\ AfterFailure(entry[v], end).attempts > entry[v].attempts => end = "fail"
    BY <1>f, <1>t, FailureFacts
  <2>3. entry'[v] = AfterFailure(entry[v], end) BY <1>t, <2>1
  <2>4. EntryMoves(v) BY <1>f, <1>w, <2>2, <2>3 DEF EntryMoves
  <2> QED BY <1>o, <2>1, <2>2, <2>4
<1>d. ASSUME NEW v \in Update, AtWork(v), MarkDone(v) PROVE Goal
  <2>1. entry' = [entry EXCEPT ![v] = DoneEntry] BY <1>d DEF MarkDone
  <2>2. DoneEntry \in Entry /\ DoneEntry.state = "done" /\ DoneEntry.attempts = 0
    BY <1>t, EntryFacts
  <2> QED BY <1>d, <1>m, <2>1, <2>2
<1>1. CASE Handle
  <2>1. CASE UNCHANGED entry BY <1>s, <2>1
  <2>2. CASE ~UNCHANGED entry
    <3> DEFINE v == First.head
    <3>1. page # {} BY <1>1 DEF Handle
    <3>2. v \in Update BY <3>1, FirstIsLeast DEF GroupTypeOK, PageType
    <3>3. entry[v].state = "none" /\ entry' = [entry EXCEPT ![v] = ReceivedEntry]
      BY <1>1, <2>2 DEF Handle
    <3>4. v = First.head OBVIOUS
    <3> HIDE DEF v
    <3>5. /\ ReceivedEntry \in Entry /\ ReceivedEntry.state = "received"
          /\ ReceivedEntry.attempts = 0
      BY <1>t, <3>2, EntryFacts DEF ReceivedEntry
    <3>6. entry'[v] = ReceivedEntry BY <1>t, <3>2, <3>3
    <3>7. entry[v].attempts \in Nat BY <1>t, <3>2 DEF Entry
    <3>8. ~(entry'[v].attempts > entry[v].attempts) BY <3>5, <3>6, <3>7
    <3>9. EntryMoves(v) BY <1>1, <3>3, <3>4, <3>5, <3>6, <3>8 DEF EntryMoves
    <3> QED BY <1>o, <3>2, <3>3, <3>5, <3>9
  <2> QED BY <2>1, <2>2
<1>2. ASSUME NEW v \in Update, StageBegins(v) PROVE Goal
  <2>1. CASE UNCHANGED entry BY <1>s, <2>1
  <2>2. CASE ~UNCHANGED entry
    <3>1. entry' = [entry EXCEPT ![v] = ProcessingEntry(entry[v])]
      BY <1>2, <1>t, <2>2 DEF StageBegins
    <3>2. AtWork(v) BY <1>2 DEF StageBegins, Staging, AtWork
    <3> QED BY <1>m, <1>t, <3>1, <3>2, EntryFacts
  <2> QED BY <2>1, <2>2
<1>3. ASSUME NEW v \in Update, Answered(v) PROVE Goal
  <2>1. entry' = [entry EXCEPT ![v] = QueuedEntry(entry[v])] BY <1>3, <1>t DEF Answered
  <2>2. AtWork(v) BY <1>3 DEF Answered, Preparing, AtWork
  <2> QED BY <1>m, <1>t, <2>1, <2>2, EntryFacts
<1>4. ASSUME NEW v \in Update, Settle(v) PROVE Goal
  BY <1>4, <1>d DEF Settle, AtWork
<1>5. ASSUME NEW v \in Update, Fail(v) PROVE Goal
  <2>1. job[v] \in Ending \ {"done"} /\ ApplyDurableFailure(v, job[v]) /\ AtWork(v)
    BY <1>5 DEF Fail, Failed, AtWork, Ending
  <2> QED BY <1>f, <2>1
<1>6. ASSUME NEW v \in Update, RetryEnds(v) PROVE Goal
  <2>0. exact.at \in Ending /\ v \in exact.open /\ AtWork(v)
    BY <1>6 DEF RetryEnds, NextMember, AtWork
  <2>1. CASE exact.at = "done" BY <1>6, <1>d, <2>0, <2>1 DEF RetryEnds
  <2>2. CASE exact.at # "done"
    <3>1. exact.at \in Ending \ {"done"} /\ ApplyDurableFailure(v, exact.at)
      BY <1>6, <2>0, <2>2 DEF RetryEnds
    <3> QED BY <1>f, <2>0, <3>1
  <2> QED BY <2>1, <2>2
<1>7. ASSUME NEW v \in Update, RetryTime(v) PROVE Goal
  <2>1. entry' = [entry EXCEPT ![v].due = TRUE] BY <1>7 DEF RetryTime, BackoffElapses
  <2> DEFINE e == [entry[v] EXCEPT !.due = TRUE]
  <2>2. e \in Entry /\ e.state = entry[v].state /\ e.attempts = entry[v].attempts
    BY <1>t DEF Entry
  <2>3. entry' = [entry EXCEPT ![v] = e] BY <2>1
  <2> HIDE DEF e
  <2>4. entry'[v] = e BY <1>t, <2>3
  <2>5. entry[v].attempts \in Nat BY <1>t DEF Entry
  <2>6. EntryMoves(v) BY <2>2, <2>4, <2>5 DEF EntryMoves
  <2> QED BY <1>o, <2>2, <2>3, <2>6
<1>8. ASSUME NEW v \in Update, Requeue(v) PROVE Goal
  <2>1. entry' = [entry EXCEPT ![v] = ReceivedEntry] /\ entry[v].state # "none"
    BY <1>8 DEF Requeue, RequeueTerminal
  <2>2. ReceivedEntry \in Entry /\ ReceivedEntry.attempts = 0 /\ ReceivedEntry.state = "received"
    BY <1>t, EntryFacts DEF ReceivedEntry
  <2>3. entry'[v] = ReceivedEntry /\ entry[v].attempts \in Nat BY <1>t, <2>1 DEF Entry
  <2>4. EntryMoves(v) BY <1>8, <2>1, <2>2, <2>3 DEF EntryMoves
  <2> QED BY <1>o, <2>1, <2>2, <2>4
<1>9. CASE PassStep
  <2>1. CASE UNCHANGED entry BY <1>s, <2>1
  <2>2. CASE ~UNCHANGED entry
    <3> DEFINE S == batchOf[Least(pass)]
    <3>1. Unrecorded = {} /\ Passing /\ Marks(Undone(S))
      BY <1>9, <2>2 DEF PassStep, ReplayRun, ReplayBatch, inboxVars
    <3>2. OnRecord(S) BY <3>1, PassTakesBatch
    <3> HIDE DEF S
    <3> QED BY <3>1, <3>2, MarkedMembers
  <2> QED BY <2>1, <2>2
<1>10. CASE MarkThrows
  <2> DEFINE S == batchOf[Least(pass)]
  <2>1. PICK u \in Undone(S) : Marks({v \in Undone(S) : v < u}) BY <1>10 DEF MarkThrows
  <2>2. OnRecord(S) BY <1>10, PassTakesBatch DEF MarkThrows
  <2>3. {v \in Undone(S) : v < u} \in SUBSET Undone(S) OBVIOUS
  <2> HIDE DEF S
  <2> QED BY <2>1, <2>2, <2>3, MarkedMembers
<1> QED
  BY <1>s, <1>1, <1>2, <1>3, <1>4, <1>5, <1>6, <1>7, <1>8, <1>9, <1>10, FrameSteps DEF Frames

-----------------------------------------------------------------------------
(* Types.                                                                  *)

LEMMA GroupTypeInit == Init => GroupTypeOK
<1> SUFFICES ASSUME Init PROVE GroupTypeOK OBVIOUS
<1>1. NoEntry \in Entry BY InboxAssumption DEF NoEntry, Entry, EntryState
<1>2. entry \in [Update -> Entry] BY <1>1 DEF Init, InboxInit
<1>3. 1 .. 0 \subseteq Update OBVIOUS
<1>4. << >> \in Seq(Update) /\ << >> \in Seq(CallType) OBVIOUS
<1>5. turn \in [DOMAIN turn -> TurnType] BY DEF Init
<1>6. NoRetry \in RetryType BY DEF NoRetry, RetryType
<1>7. job \in [Update -> Jobs] /\ exact = NoRetry BY DEF Init, Jobs
<1>8. arrived = 0 /\ offset = 1 /\ asks = 1 BY DEF Init
<1>9. /\ siblings \in [Update -> SUBSET Update] /\ prepared \subseteq Update
      /\ batchOf \in [Update -> SUBSET Update] /\ saved \subseteq Update
      /\ images \subseteq Update /\ phase \in {"down", "replaying", "running"}
      /\ page \subseteq PageType /\ handled \in BOOLEAN /\ paused \in BOOLEAN
      /\ batch \subseteq Update /\ pass \subseteq Update
      /\ queue = << >> /\ calls = << >>
  BY DEF Init
<1> QED BY <1>2, <1>3, <1>4, <1>5, <1>6, <1>7, <1>8, <1>9 DEF GroupTypeOK

LEMMA CallTypes ==
  ASSUME GroupTypeOK
  PROVE  /\ \A S \in SUBSET Update : BatchCall("batch", S) \in CallType
                                     /\ BatchCall("exact", S) \in CallType
         /\ \A v \in Update : SeeCall("see", v) \in CallType /\ SeeCall("quiet", v) \in CallType
         /\ ToSet(queue) \in SUBSET Update
         /\ calls # << >> => Call \in CallType
<1>1. ASSUME NEW S \in SUBSET Update PROVE Waiting(S) \subseteq Update
  BY DEF Waiting, Oldest, GroupTypeOK
<1>2. \A S \in SUBSET Update : BatchCall("batch", S) \in CallType
                               /\ BatchCall("exact", S) \in CallType
  BY <1>1 DEF BatchCall, CallType
<1>3. \A v \in Update : SeeCall("see", v) \in CallType /\ SeeCall("quiet", v) \in CallType
  BY DEF SeeCall, CallType
<1>4. ToSet(queue) \in SUBSET Update BY DEF ToSet, GroupTypeOK
<1>5. calls # << >> => Call \in CallType BY DEF GroupTypeOK, Call
<1> QED BY <1>2, <1>3, <1>4, <1>5

LEMMA TurnTypeStep ==
  ASSUME GroupTypeOK, Next
  PROVE  turn' \in [DOMAIN turn' -> TurnType]
<1>1. CASE turn' = turn BY <1>1 DEF GroupTypeOK
<1>2. CASE RuntimeStep /\ TurnMoves
  <2>1. Call.env \in SUBSET Update
    BY <1>2, CallTypes, RuntimeSteps DEF RuntimeMoves, CallType
  <2>2. PICK s \in {"open", "rejected", "committed", "sending", "delivered"} :
          TurnIs(Call.of, s, Call.env)
    BY <1>2 DEF TurnMoves
  <2>3. [state |-> s, env |-> Call.env] \in TurnType BY <2>1 DEF TurnType
  <2> QED BY <2>2, <2>3 DEF TurnIs, GroupTypeOK
<1> QED BY <1>1, <1>2, FrameSteps, RuntimeSteps DEF Frames, RuntimeMoves

LEMMA JobTypeStep ==
  ASSUME GroupTypeOK, Next
  PROVE  job' \in [Update -> Jobs]
<1> USE DEF Jobs, Ending
<1>t. job \in [Update -> Jobs] BY DEF GroupTypeOK
<1>1. CASE Handle BY <1>1, <1>t DEF Handle, Ingested
<1>2. CASE PassStep BY <1>2, <1>t DEF PassStep, ReplayRun, ReplayBatch, Ingested
<1>3. CASE FormBatch \/ FormFails
  BY <1>3, <1>t DEF FormBatch, FormFails, Formed
<1>4. CASE RuntimeStep
  BY <1>4, <1>t, RuntimeSteps DEF RuntimeMoves, CallEnds
<1>5. CASE Die
  <2>1. [u \in Update |-> "idle"] \in [Update -> Jobs] OBVIOUS
  <2> QED BY <1>5, <2>1 DEF Die
<1>6. ASSUME NEW v \in Update,
             \/ StageBegins(v) \/ StageFails(v) \/ Answered(v) \/ Observe(v)
             \/ \E end \in Ending : PrepareEnds(v, end)
      PROVE  job' \in [Update -> Jobs]
  BY <1>6, <1>t DEF StageBegins, StageFails, Answered, Observe, Sees, PrepareEnds
<1>7. ASSUME NEW v \in Update, Settle(v) \/ DoneThrows(v) \/ Fail(v) \/ FailThrows(v)
      PROVE  job' \in [Update -> Jobs]
  BY <1>7, <1>t DEF Settle, DoneThrows, Fail, FailThrows, Failed
<1> QED BY <1>t, <1>1, <1>2, <1>3, <1>4, <1>5, <1>6, <1>7, FrameSteps DEF Frames

LEMMA CallsTypeStep ==
  ASSUME GroupTypeOK, Next
  PROVE  calls' \in Seq(CallType) /\ queue' \in Seq(Update)
<1>t. calls \in Seq(CallType) /\ queue \in Seq(Update) BY DEF GroupTypeOK
<1>z. << >> \in Seq(Update) /\ << >> \in Seq(CallType) OBVIOUS
<1>1. CASE FormBatch
  <2>1. calls' = Append(calls, BatchCall("batch", ToSet(queue))) /\ queue' = << >>
    BY <1>1 DEF FormBatch, Gathers, DispatchBatch
  <2> QED BY <1>t, <1>z, <2>1, CallTypes, AddedCall
<1>2. CASE Restored
  <2>1. calls' = Append(calls, BatchCall("exact", exact.of)) /\ exact.of \in SUBSET Update
    BY <1>2 DEF Restored, DispatchBatch, GroupTypeOK, RetryType
  <2>2. queue' = queue BY <1>2 DEF Restored, batcher
  <2> QED BY <1>t, <2>1, <2>2, CallTypes, AddedCall
<1>3. CASE Die BY <1>3, <1>z DEF Die
<1>4. CASE RuntimeStep
  <2>1. RuntimeMoves BY <1>4, RuntimeSteps
  <2>2. queue' = queue /\ calls # << >> BY <2>1 DEF RuntimeMoves
  <2>3. calls' = calls \/ Begun \/ calls' = Tail(calls) BY <2>1 DEF RuntimeMoves, CallEnds
  <2> QED BY <1>t, <2>2, <2>3, BegunCall, EndedCall
<1>5. ASSUME NEW v \in Update, Observe(v) \/ Answered(v)
      PROVE  calls' \in Seq(CallType) /\ queue' \in Seq(Update)
  <2>1. calls' = calls \/ \E k \in {"see", "quiet"} : calls' = Append(calls, SeeCall(k, v))
    BY <1>5 DEF Observe, Answered, Sees
  <2>2. queue' = queue \/ queue' = Append(queue, v) BY <1>5 DEF Observe, Answered, batcher
  <2>3. queue' \in Seq(Update) BY <1>t, <2>2
  <2> QED BY <1>t, <2>1, <2>3, CallTypes, AddedCall
<1>6. CASE FormFails
  BY <1>6, <1>t, <1>z DEF FormFails, Gathers
<1> QED BY <1>t, <1>1, <1>2, <1>3, <1>4, <1>5, <1>6, FrameSteps DEF Frames

\* A retry whose end or whose open members change.
LEMMA RetryEnded ==
  ASSUME NEW r \in RetryType, NEW at \in {"none", "restoring", "running"} \cup Ending,
         NEW slip \in BOOLEAN, NEW e, e = [r EXCEPT !.at = at, !.slip = slip]
  PROVE  /\ e \in RetryType /\ e.at = at /\ e.slip = slip
         /\ e.of = r.of /\ e.members = r.members /\ e.open = r.open
BY DEF RetryType

LEMMA RetryFailed ==
  ASSUME NEW r \in RetryType, NEW e,
         e = [r EXCEPT !.at = "fail", !.open = r.members, !.slip = TRUE]
  PROVE  /\ e \in RetryType /\ e.at = "fail" /\ e.slip = TRUE
         /\ e.of = r.of /\ e.members = r.members /\ e.open = r.members
BY DEF RetryType, Ending

LEMMA RetryShrinks ==
  ASSUME NEW r \in RetryType, NEW u, NEW e, e = [r EXCEPT !.open = r.open \ {u}]
  PROVE  /\ e \in RetryType /\ e.at = r.at /\ e.slip = r.slip
         /\ e.of = r.of /\ e.members = r.members /\ e.open = r.open \ {u}
BY DEF RetryType

LEMMA RetryTypeStep ==
  ASSUME GroupTypeOK, BatchesAreWhole, Next
  PROVE  exact' \in RetryType
<1>t. exact \in RetryType /\ NoRetry \in RetryType BY DEF GroupTypeOK, NoRetry, RetryType
<1>r. ASSUME NEW S \in SUBSET Update, NEW at \in {"restoring", "fail"}, NEW slip \in BOOLEAN
      PROVE  Retry(S, at, slip) \in RetryType
  BY DEF Retry, Undone, RetryType, Ending
<1>1. CASE PassStep \/ MarkThrows
  <2>1. CASE exact' = exact BY <1>t, <2>1
  <2>2. CASE exact' # exact
    <3> DEFINE S == batchOf[Least(pass)]
    <3>1. Passing /\ Unrecorded = {}
      BY <1>1, <2>2 DEF PassStep, MarkThrows, ReplayRun
    <3>2. S \in SUBSET Update BY <3>1, PassTakesBatch DEF OnRecord
    <3>3. exact' = Retry(S, "restoring", FALSE) \/ exact' = Retry(S, "fail", TRUE)
      BY <1>1, <2>2, <3>1 DEF PassStep, MarkThrows, ReplayBatch
    <3> HIDE DEF S
    <3> QED BY <1>r, <3>2, <3>3
  <2> QED BY <2>1, <2>2
<1>2. CASE Restored \/ NotRestored
  BY <1>2, <1>t DEF Restored, NotRestored, RetryType, Ending
<1>3. CASE RuntimeStep
  <2>1. CASE exact' = exact BY <1>t, <2>1
  <2>2. CASE exact' # exact
    <3>1. PICK end \in Ending : CallEnds(end) BY <1>3, <2>2, RuntimeSteps DEF RuntimeMoves
    <3>2. PICK slip \in BOOLEAN : exact' = [exact EXCEPT !.at = end, !.slip = slip]
      BY <2>2, <3>1 DEF CallEnds
    <3> QED BY <1>t, <3>2, RetryEnded
  <2> QED BY <2>1, <2>2
<1>4. CASE Die BY <1>4, <1>t DEF Die
<1>5. ASSUME NEW v \in Update, RetryEnds(v) \/ RetryDoneThrows(v) \/ RetryFailThrows(v)
      PROVE  exact' \in RetryType
  <2>1. CASE RetryEnds(v)
    <3>1. exact' = NoRetry \/ exact' = [exact EXCEPT !.open = exact.open \ {v}]
      BY <2>1 DEF RetryEnds
    <3> QED BY <1>t, <3>1, RetryShrinks
  <2>2. CASE RetryDoneThrows(v)
    <3>1. exact' = [exact EXCEPT !.at = "fail", !.open = exact.members, !.slip = TRUE]
      BY <2>2 DEF RetryDoneThrows
    <3> QED BY <1>t, <3>1, RetryFailed
  <2>3. CASE RetryFailThrows(v) BY <1>t, <2>3 DEF RetryFailThrows
  <2> QED BY <1>5, <2>1, <2>2, <2>3
<1> QED BY <1>t, <1>1, <1>2, <1>3, <1>4, <1>5, FrameSteps DEF Frames

\* The first of the page reaches at most what has arrived, and the offset grows over it.
LEMMA AskedGrows ==
  ASSUME GroupTypeOK, OffsetPassesKept, page # {}
  PROVE  /\ First \in page /\ First \in PageType /\ First.head \in Nat
         /\ Reach(First) \in Members(First) /\ \A v \in Members(First) : v <= Reach(First)
         /\ Reach(First) \in Nat
         /\ Asked \in Nat /\ asks <= Asked /\ Reach(First) < Asked
         /\ Asked = asks \/ Asked = Reach(First) + 1
<1>1. First \in page /\ First \in PageType BY FirstIsLeast DEF GroupTypeOK
<1>2. arrived \in Nat /\ asks \in Nat BY DEF GroupTypeOK
<1>3. \A w \in First.with : w <= arrived BY <1>1 DEF OffsetPassesKept, PageHolds
<1>4. Reach(First) \in Members(First) /\ \A v \in Members(First) : v <= Reach(First)
  BY <1>1, <1>2, <1>3, ReachIsGreatest
<1>5. Reach(First) \in Nat /\ First.head \in Nat
  BY <1>1, <1>4, InboxAssumption DEF Members, PageType
<1>6. Asked = IF Reach(First) >= asks THEN Reach(First) + 1 ELSE asks BY DEF Asked
<1>7. Asked \in Nat /\ asks <= Asked /\ Reach(First) < Asked
      /\ (Asked = asks \/ Asked = Reach(First) + 1)
  <2> DEFINE r == Reach(First)
             a == Asked
  <2>1. r \in Nat /\ a = IF r >= asks THEN r + 1 ELSE asks BY <1>5, <1>6
  <2> HIDE DEF r, a
  <2>2. a \in Nat /\ asks <= a /\ r < a /\ (a = asks \/ a = r + 1) BY <1>2, <2>1
  <2> QED BY <2>2 DEF r, a
<1> QED BY <1>1, <1>4, <1>5, <1>7

LEMMA PollTypeStep ==
  ASSUME GroupTypeOK, OffsetPassesKept, Next
  PROVE  /\ offset' \in Nat /\ asks' \in Nat /\ 1 <= offset' /\ offset' <= asks'
         /\ siblings' \in [Update -> SUBSET Update] /\ page' \subseteq PageType
         /\ handled' \in BOOLEAN
<1> USE DEF durable, polling, records
<1>t. /\ offset \in Nat /\ asks \in Nat /\ 1 <= offset /\ offset <= asks
      /\ siblings \in [Update -> SUBSET Update] /\ page \subseteq PageType /\ handled \in BOOLEAN
  BY DEF GroupTypeOK
<1>1. CASE Poll
  <2>1. asks .. arrived \subseteq Update BY DEF GroupTypeOK
  <2>2. page' \subseteq PageType
    <3> SUFFICES ASSUME NEW p \in page' PROVE p \in PageType OBVIOUS
    <3>1. page' = Merged(asks .. arrived) BY <1>1 DEF Poll
    <3>2. PICK u \in asks .. arrived, S \in SUBSET (asks .. arrived) : p = [head |-> u, with |-> S]
      BY <3>1 DEF Merged
    <3> QED BY <2>1, <3>2 DEF PageType
  <2> QED BY <1>1, <1>t, <2>2 DEF Poll
<1>2. CASE Handle
  <2>1. First.head \in Update /\ First.with \in SUBSET Update
    BY <1>2, AskedGrows DEF Handle, PageType
  <2>2. siblings' \in [Update -> SUBSET Update] BY <1>2, <1>t, <2>1 DEF Handle
  <2> QED BY <1>2, <1>t, <2>2 DEF Handle
<1>3. CASE HandleFails BY <1>3, <1>t DEF HandleFails, BreaksOff
<1>4. CASE Advance \/ AdvanceFails
  <2>1. Asked \in Nat /\ asks <= Asked
    BY <1>4, AskedGrows DEF Advance, AdvanceFails, OffsetPassesKept
  <2>2. asks' = Asked /\ (offset' = Asked \/ offset' = offset) /\ handled' = FALSE
        /\ page' \subseteq page /\ siblings' = siblings
    BY <1>4 DEF Advance, AdvanceFails, BreaksOff
  <2>3. offset' \in Nat /\ asks' \in Nat /\ 1 <= offset' /\ offset' <= asks'
    BY <1>t, <2>1, <2>2
  <2> QED BY <1>t, <2>2, <2>3
<1>5. CASE Die
  <2>1. /\ asks' = offset /\ offset' = offset /\ siblings' = siblings
        /\ page' = {} /\ handled' = FALSE
    BY <1>5 DEF Die, BreaksOff
  <2>2. offset \in Nat /\ 1 <= offset /\ offset <= offset BY <1>t
  <2> QED BY <1>t, <2>1, <2>2
<1> QED BY <1>t, <1>1, <1>2, <1>3, <1>4, <1>5, FrameSteps DEF Frames

LEMMA GroupTypeStep ==
  ASSUME GroupTypeOK, BatchesAreWhole, RecordsHold, WorkIsReceived, OffsetPassesKept, Next
  PROVE  GroupTypeOK'
<1>1. entry' \in [Update -> Entry] BY EntrySteps
<1>2. arrived' \in Nat /\ 1 .. arrived' \subseteq Update
  <2>1. CASE Arrive
    <3>1. arrived' = arrived + 1 /\ arrived + 1 \in Update BY <2>1 DEF Arrive
    <3>2. arrived \in Nat /\ 1 .. arrived \subseteq Update BY DEF GroupTypeOK
    <3> QED BY <3>1, <3>2
  <2> QED BY <2>1, FrameSteps DEF Frames, GroupTypeOK
<1>3. prepared' \subseteq Update
  <2>1. prepared \subseteq Update BY DEF GroupTypeOK
  <2>2. ASSUME NEW v \in Update, Answered(v) \/ Requeue(v) PROVE prepared' \subseteq Update
    BY <2>1, <2>2 DEF Answered, Requeue
  <2> QED BY <2>1, <2>2, FrameSteps DEF Frames
<1>4. batchOf' \in [Update -> SUBSET Update]
  <2>1. CASE FormBatch BY <2>1, CallTypes DEF FormBatch, RecordBatch, GroupTypeOK
  <2>2. ASSUME NEW v \in Update, Compact(batchOf[v]) PROVE batchOf' \in [Update -> SUBSET Update]
    BY <2>2 DEF Compact, GroupTypeOK
  <2> QED BY <2>1, <2>2, FrameSteps DEF Frames, GroupTypeOK
<1>5. saved' \subseteq Update /\ images' \subseteq Update
  <2>1. CASE RuntimeStep
    <3>1. Call.of \subseteq Update BY <2>1, CallTypes, RuntimeSteps DEF RuntimeMoves, CallType
    <3> QED BY <2>1, <3>1, RuntimeSteps DEF RuntimeMoves, GroupTypeOK
  <2>2. CASE Boot \/ Die BY <2>2 DEF Boot, Die, durable, GroupTypeOK
  <2> QED BY <2>1, <2>2, FrameSteps DEF Frames, GroupTypeOK
<1>6. phase' \in {"down", "replaying", "running"}
  BY FrameSteps DEF Frames, Boot, ReplayEnds, Die, GroupTypeOK
<1>7. paused' \in BOOLEAN
  BY FrameSteps, RuntimeSteps
     DEF Frames, RuntimeMoves, FormFails, PauseOver, Die, GroupTypeOK
<1>8. batch' \subseteq Update
  BY FrameSteps, RuntimeSteps, CallTypes
     DEF Frames, RuntimeMoves, CallEnds, FormBatch, Die, GroupTypeOK
<1>9. pass' \subseteq Update
  <2>1. CASE PassStep BY <2>1 DEF PassStep, ReplayRun, ReplayBatch, GroupTypeOK
  <2>2. CASE MarkThrows BY <2>2 DEF MarkThrows, GroupTypeOK
  <2>3. CASE Boot \/ RetryDue \/ Die BY <2>3 DEF Boot, RetryDue, DueRun, Die
  <2> QED BY <2>1, <2>2, <2>3, FrameSteps DEF Frames, GroupTypeOK
<1> QED
  BY <1>1, <1>2, <1>3, <1>4, <1>5, <1>6, <1>7, <1>8, <1>9, TurnTypeStep, JobTypeStep,
     CallsTypeStep, RetryTypeStep, PollTypeStep DEF GroupTypeOK

-----------------------------------------------------------------------------
(* Batches, and the retry of a recorded one.                               *)

LEMMA FormedBatch ==
  ASSUME GroupTypeOK, FormBatch \/ FormFails
  PROVE  /\ ToSet(queue) \in SUBSET Update /\ ToSet(queue) # {}
         /\ \A u \in ToSet(queue) : \E i \in DOMAIN queue : u = queue[i]
         /\ Calm /\ batch = {} /\ queue' = << >>
         /\ UNCHANGED <<entry, turn, phase, exact, pass, requeued, forgotten, slipped>>
<1>1. \A u \in ToSet(queue) : \E i \in DOMAIN queue : u = queue[i] BY DEF ToSet
<1>2. ToSet(queue) \in SUBSET Update BY CallTypes
<1>3. ToSet(queue) # {}
  <2>1. queue # << >> /\ queue \in Seq(Update)
    BY DEF FormBatch, FormFails, Gathers, GroupTypeOK
  <2>2. 1 \in DOMAIN queue BY <2>1
  <2> QED BY <2>2 DEF ToSet
<1>4. Gathers BY DEF FormBatch, FormFails
<1>5. UNCHANGED <<entry, turn, phase, exact, pass, requeued, forgotten, slipped>>
  BY DEF FormBatch, FormFails, inboxVars, records, durable, dispatcher, history
<1> QED BY <1>1, <1>2, <1>3, <1>4, <1>5 DEF Gathers

BatchFormed(S) ==
  /\ \A u \in S : batchOf[u] \in {{}, S}
  /\ batchOf' = [u \in Update |-> IF u \in S THEN S ELSE batchOf[u]]
  /\ batch' = S
  /\ calls' = Append(calls, BatchCall("batch", S))
  /\ job' = [u \in Update |-> IF u \in S THEN "batched" ELSE job[u]]

LEMMA BatchForms == FormBatch => BatchFormed(ToSet(queue))
BY DEF FormBatch, BatchFormed, RecordBatch, DispatchBatch, Formed

LEMMA BatchesStep ==
  ASSUME GroupTypeOK, BatchesAreWhole, Next
  PROVE  BatchesAreWhole'
<1>1. CASE UNCHANGED batchOf BY <1>1 DEF BatchesAreWhole
<1>2. ASSUME NEW t \in Update, Compact(batchOf[t]) PROVE BatchesAreWhole'
  <2> DEFINE S == batchOf[t]
  <2>1. /\ \A u \in Update : batchOf'[u] = IF u \in S THEN {} ELSE batchOf[u]
        /\ \A u \in S : batchOf[u] = S
    BY <1>2 DEF Compact
  <2> HIDE DEF S
  <2>2. SUFFICES ASSUME NEW u \in Update, batchOf'[u] # {}
                 PROVE  u \in batchOf'[u] /\ \A v \in batchOf'[u] : batchOf'[v] = batchOf'[u]
    BY DEF BatchesAreWhole
  <2>3. u \notin S /\ batchOf'[u] = batchOf[u] BY <2>1, <2>2
  <2>4. u \in batchOf[u] /\ \A v \in batchOf[u] : v \in Update /\ batchOf[v] = batchOf[u]
    BY <2>2, <2>3 DEF BatchesAreWhole, GroupTypeOK
  <2>5. \A v \in batchOf[u] : v \notin S BY <2>1, <2>3, <2>4
  <2> QED BY <2>1, <2>3, <2>4, <2>5
<1>3. CASE FormBatch
  <2> DEFINE S == ToSet(queue)
  <2>1. S \in SUBSET Update /\ BatchFormed(S) BY <1>3, FormedBatch, BatchForms
  <2> HIDE DEF S
  <2>2. /\ \A u \in S : batchOf[u] \in {{}, S}
        /\ \A u \in Update : batchOf'[u] = IF u \in S THEN S ELSE batchOf[u]
    BY <2>1 DEF BatchFormed
  <2>3. SUFFICES ASSUME NEW u \in Update, batchOf'[u] # {}
                 PROVE  u \in batchOf'[u] /\ \A v \in batchOf'[u] : batchOf'[v] = batchOf'[u]
    BY DEF BatchesAreWhole
  <2>4. CASE u \in S BY <2>1, <2>2, <2>4
  <2>5. CASE u \notin S
    <3>1. /\ batchOf'[u] = batchOf[u] /\ u \in batchOf[u]
          /\ \A v \in batchOf[u] : v \in Update /\ batchOf[v] = batchOf[u]
      BY <2>2, <2>3, <2>5 DEF BatchesAreWhole, GroupTypeOK
    <3>2. \A v \in batchOf[u] : v \notin S BY <2>2, <2>3, <2>5, <3>1
    <3> QED BY <2>2, <3>1, <3>2
  <2> QED BY <2>4, <2>5
<1> QED BY <1>1, <1>2, <1>3, FrameSteps DEF Frames

\* OnRecord of the next state.
NextOnRecord(S) == S # {} /\ S \subseteq Update /\ \A v \in S : batchOf'[v] = S

LEMMA RecordStays ==
  ASSUME GroupTypeOK, Next, phase # "down", NEW S, OnRecord(S)
  PROVE  NextOnRecord(S)
<1>1. CASE UNCHANGED batchOf BY <1>1 DEF OnRecord, NextOnRecord
<1>2. CASE FormBatch
  <2> DEFINE T == ToSet(queue)
  <2>1. BatchFormed(T) BY <1>2, BatchForms
  <2> HIDE DEF T
  <2> QED BY <2>1 DEF BatchFormed, OnRecord, NextOnRecord
<1>3. \A v \in Update : ~Compact(batchOf[v]) BY DEF Compact
<1> QED BY <1>1, <1>2, <1>3, FrameSteps DEF Frames

RetryBegins ==
  /\ PassStep \/ MarkThrows
  /\ exact = NoRetry /\ batchOf' = batchOf
  /\ \E S : /\ OnRecord(S) /\ exact'.of = S /\ exact'.members = Undone(S) /\ exact'.open = Undone(S)
            /\ \/ exact'.at = "restoring" /\ \A u \in Undone(S) : entry'[u].state = "processing"
               \/ exact'.at = "fail" /\ exact'.slip

SameRetry == exact'.of = exact.of /\ exact'.members = exact.members

RetryMoves ==
  \/ exact' = exact
  \/ RetryBegins
  \/ /\ exact.at = "restoring" /\ SameRetry /\ exact'.open = exact.open /\ batchOf' = batchOf
     /\ \/ exact'.at = "running"
        \/ exact'.at = "fail" /\ exact.of \in refused'
  \/ /\ exact.at = "running" /\ SameRetry /\ exact'.open = exact.open
     /\ RuntimeStep /\ calls # << >> /\ Call.kind = "exact" /\ Call.of = exact.of
     /\ exact'.at \in Ending
     /\ exact'.at = "fail" => \A S : S = exact.of => Reason(S, exact'.slip)
  \/ /\ exact.at \in Ending /\ batchOf' = batchOf
     /\ \/ exact' = NoRetry
        \/ /\ SameRetry /\ exact'.open \subseteq exact.members
           /\ \/ exact'.at = exact.at /\ exact'.slip = exact.slip
              \/ exact'.at = "fail" /\ exact'.slip
  \/ Die /\ exact' = NoRetry

LEMMA RetrySteps ==
  ASSUME GroupTypeOK, BatchesAreWhole, RecordsHold, QueueIsWork, WorkIsReceived, Next
  PROVE  RetryMoves
<1>t. exact \in RetryType BY DEF GroupTypeOK
<1> USE DEF records, durable
<1>1. CASE (PassStep \/ MarkThrows) /\ ~UNCHANGED exact
  <2> DEFINE S == batchOf[Least(pass)]
  <2>1. Passing /\ Unrecorded = {} BY <1>1 DEF PassStep, MarkThrows, ReplayRun
  <2>2. OnRecord(S) BY <2>1, PassTakesBatch
  <2>3. exact = NoRetry BY <2>1 DEF Passing
  <2>4. batchOf' = batchOf BY <1>1 DEF PassStep, MarkThrows
  <2>5. CASE PassStep
    <3>1. exact' = Retry(S, "restoring", FALSE) /\ Marks(Undone(S))
      BY <1>1, <2>1, <2>5 DEF PassStep, ReplayBatch
    <3> HIDE DEF S
    <3>2. \A u \in Undone(S) : entry'[u].state = "processing" BY <2>2, <3>1, MarkedMembers
    <3> QED BY <2>2, <2>3, <2>4, <2>5, <3>1, <3>2 DEF Retry, RetryBegins, RetryMoves
  <2>6. CASE MarkThrows
    <3>1. exact' = Retry(S, "fail", TRUE) BY <2>6 DEF MarkThrows
    <3> HIDE DEF S
    <3> QED BY <2>2, <2>3, <2>4, <2>6, <3>1 DEF Retry, RetryBegins, RetryMoves
  <2> QED BY <1>1, <2>5, <2>6
<1>2. CASE Restored \/ NotRestored
  BY <1>2, <1>t DEF Restored, NotRestored, RetryType, SameRetry, RetryMoves
<1>3. CASE RuntimeStep /\ ~UNCHANGED exact
  <2>1. calls # << >> /\ RuntimeMoves BY <1>3, RuntimeSteps DEF RuntimeMoves
  <2>2. Call = calls[1] /\ 1 \in DOMAIN calls BY <2>1 DEF Call, GroupTypeOK
  <2>3. PICK end \in Ending : CallEnds(end) BY <1>3, <2>1 DEF RuntimeMoves
  <2>4. PICK slip \in BOOLEAN :
          /\ Call.kind = "exact" /\ exact' = [exact EXCEPT !.at = end, !.slip = slip]
          /\ end = "fail" => \A S : S = Call.of => Reason(S, slip)
    BY <1>3, <2>3 DEF CallEnds
  <2>5. exact.at = "running" /\ exact.of = Call.of BY <2>2, <2>4 DEF QueueIsWork
  <2>6. /\ exact'.at = end /\ exact'.slip = slip /\ SameRetry /\ exact'.open = exact.open
    <3>1. exact' = [exact EXCEPT !.at = end, !.slip = slip] BY <2>4
    <3>2. /\ exact'.at = end /\ exact'.slip = slip /\ exact'.of = exact.of
          /\ exact'.members = exact.members /\ exact'.open = exact.open
      BY <1>t, <3>1 DEF RetryType
    <3> QED BY <3>2 DEF SameRetry
  <2> QED BY <1>3, <2>1, <2>4, <2>5, <2>6 DEF RetryMoves
<1>4. ASSUME NEW v \in Update, RetryEnds(v) PROVE RetryMoves
  <2>1. exact.at \in Ending /\ batchOf' = batchOf BY <1>4 DEF RetryEnds, NextMember, RetryFrame
  <2>2. exact' = NoRetry \/ exact' = [exact EXCEPT !.open = exact.open \ {v}]
    BY <1>4 DEF RetryEnds
  <2>3. exact.open \subseteq exact.members BY DEF RecordsHold
  <2>4. CASE exact' = NoRetry BY <2>1, <2>4 DEF RetryMoves
  <2>5. CASE exact' = [exact EXCEPT !.open = exact.open \ {v}]
    <3>1. /\ SameRetry /\ exact'.open = exact.open \ {v} /\ exact'.at = exact.at
          /\ exact'.slip = exact.slip
      BY <1>t, <2>5, RetryShrinks DEF SameRetry
    <3> QED BY <2>1, <2>3, <3>1 DEF RetryMoves
  <2> QED BY <2>2, <2>4, <2>5
<1>5. ASSUME NEW v \in Update, RetryDoneThrows(v) PROVE RetryMoves
  <2>1. exact.at \in Ending /\ batchOf' = batchOf
    BY <1>5 DEF RetryDoneThrows, NextMember, RetryFrame
  <2>2. exact' = [exact EXCEPT !.at = "fail", !.open = exact.members, !.slip = TRUE]
    BY <1>5 DEF RetryDoneThrows
  <2>3. SameRetry /\ exact'.open = exact.members /\ exact'.at = "fail" /\ exact'.slip
    BY <1>t, <2>2, RetryFailed DEF SameRetry
  <2> QED BY <2>1, <2>3 DEF RetryMoves
<1>6. ASSUME NEW v \in Update, RetryFailThrows(v) PROVE RetryMoves
  BY <1>6 DEF RetryFailThrows, NextMember, RetryFrame, RetryMoves
<1>7. CASE Die BY <1>7 DEF Die, RetryMoves
<1>8. CASE UNCHANGED exact BY <1>8 DEF RetryMoves
<1> QED BY <1>1, <1>2, <1>3, <1>4, <1>5, <1>6, <1>7, <1>8, FrameSteps DEF Frames

\* The turn that runs is that of a recorded batch.
LEMMA CallOnRecord ==
  ASSUME GroupTypeOK, RecordsHold, QueueIsWork, calls # << >>, Call.kind \in {"batch", "exact"}
  PROVE  OnRecord(Call.of)
<1>1. Call = calls[1] /\ 1 \in DOMAIN calls BY DEF Call, GroupTypeOK
<1>2. CASE Call.kind = "batch" BY <1>1, <1>2 DEF QueueIsWork, RecordsHold
<1>3. CASE Call.kind = "exact" BY <1>1, <1>3 DEF QueueIsWork, RecordsHold
<1> QED BY <1>2, <1>3

LEMMA RecordsStep ==
  ASSUME GroupTypeOK, BatchesAreWhole, RecordsHold, QueueIsWork, WorkIsReceived, Next
  PROVE  RecordsHold'
<1>m. RetryMoves BY RetrySteps
<1>k. ASSUME NEW S, OnRecord(S), S = batch \/ (exact.at # "none" /\ S = exact.of)
      PROVE  NextOnRecord(S)
  <2>1. phase # "down" BY <1>k DEF OnRecord, WorkIsReceived, NoRetry
  <2> QED BY <1>k, <2>1, RecordStays
<1>1. batch' # {} => NextOnRecord(batch')
  <2>1. CASE FormBatch
    <3> DEFINE S == ToSet(queue)
    <3>1. S \in SUBSET Update /\ S # {} /\ BatchFormed(S) BY <2>1, FormedBatch, BatchForms
    <3> HIDE DEF S
    <3> QED BY <3>1 DEF BatchFormed, NextOnRecord
  <2>2. batch' = batch => (batch' # {} => NextOnRecord(batch')) BY <1>k DEF RecordsHold
  <2>3. CASE RuntimeStep
    <3>1. batch' = batch \/ batch' = {} BY <2>3, RuntimeSteps DEF RuntimeMoves, CallEnds
    <3> QED BY <2>2, <3>1
  <2>4. CASE Die BY <2>4 DEF Die
  <2> QED BY <2>1, <2>2, <2>3, <2>4, FrameSteps DEF Frames
<1>2. /\ exact'.at = "none" => exact' = NoRetry
      /\ exact'.at # "none" => NextOnRecord(exact'.of)
      /\ exact'.open \subseteq exact'.members /\ exact'.members \subseteq exact'.of
  <2> USE DEF Ending
  <2>1. CASE exact' = exact BY <1>k, <2>1 DEF RecordsHold
  <2>2. CASE exact' = NoRetry BY <2>2 DEF NoRetry
  <2>3. CASE RetryBegins
    <3>1. PICK S : /\ OnRecord(S) /\ exact'.of = S /\ exact'.members = Undone(S)
                   /\ exact'.open = Undone(S) /\ exact'.at \in {"restoring", "fail"}
      BY <2>3 DEF RetryBegins
    <3>2. NextOnRecord(S) BY <2>3, <3>1 DEF RetryBegins, OnRecord, NextOnRecord
    <3> QED BY <3>1, <3>2 DEF Undone
  <2>4. CASE exact.at # "none" /\ exact'.at # "none" /\ SameRetry
             /\ exact'.open \subseteq exact.members
    BY <1>k, <2>4 DEF SameRetry, RecordsHold
  <2>5. exact.open \subseteq exact.members BY DEF RecordsHold
  <2> QED BY <1>m, <2>1, <2>2, <2>3, <2>4, <2>5 DEF RetryMoves
<1>3. \A S \in DOMAIN turn' : S # {}
  <2>1. CASE turn' = turn BY <2>1 DEF RecordsHold
  <2>2. CASE RuntimeStep /\ TurnMoves
    <3>1. Call.of # {} BY <2>2, CallOnRecord, RuntimeSteps DEF RuntimeMoves, TurnMoves, OnRecord
    <3> QED BY <2>2, <3>1 DEF TurnMoves, TurnIs, RecordsHold
  <2> QED BY <2>1, <2>2, FrameSteps, RuntimeSteps DEF Frames, RuntimeMoves
<1> QED BY <1>1, <1>2, <1>3 DEF RecordsHold, OnRecord, NextOnRecord


-----------------------------------------------------------------------------
(* What a step may make of an update's work.                               *)

JobMoves(u) ==
  \/ job'[u] = job[u]
  \/ /\ job[u] = "idle" /\ job'[u] = "staged" /\ phase # "down" /\ ~IsDone(u)
     /\ entry'[u].state # "none" /\ batchOf' = batchOf
     /\ entry[u].state \in {"none", "received"} \/ batchOf[u] = {}
  \/ job[u] = "staged" /\ job'[u] \in {"idle", "preparing"} /\ StageBegins(u)
  \/ job[u] = "staged" /\ job'[u] = "fail" /\ StageFails(u)
  \/ job[u] = "preparing" /\ job'[u] \in {"queued", "fail", "seeing"} /\ Answered(u)
  \/ job[u] = "preparing" /\ job'[u] = "seeing" /\ Observe(u)
  \/ job[u] = "preparing" /\ job'[u] \in Ending /\ \E end \in Ending : PrepareEnds(u, end)
  \/ /\ job[u] = "queued" /\ u \in ToSet(queue)
     /\ \/ FormBatch /\ job'[u] = "batched"
        \/ (FormFails) /\ job'[u] = "fail"
  \/ /\ job[u] \in {"seeing", "batched"} /\ job'[u] \in Ending
     /\ RuntimeStep /\ calls # << >> /\ u \in Call.of /\ Call.kind # "exact"
     /\ job[u] = "seeing" <=> Call.kind \in {"see", "quiet"}
     /\ job'[u] = "fail" => \E slip \in BOOLEAN : \A S : S = Call.of => Reason(S, slip)
  \/ job[u] = "done" /\ job'[u] = "fail" /\ DoneThrows(u)
  \/ job[u] \in Ending /\ job'[u] = "idle" /\ (Settle(u) \/ Fail(u) \/ FailThrows(u))
  \/ Die /\ job'[u] = "idle"

LEMMA JobSteps ==
  ASSUME GroupTypeOK, QueueIsWork, WorkIsReceived, Next, NEW u \in Update
  PROVE  JobMoves(u)
<1>t. job \in [Update -> Jobs] BY DEF GroupTypeOK
<1> USE DEF records, durable
<1>1. CASE Handle
  <2>1. phase # "down" /\ batchOf' = batchOf BY <1>1 DEF Handle, WorkIsReceived
  <2>2. CASE UNCHANGED job BY <2>2 DEF JobMoves
  <2>3. CASE ~UNCHANGED job
    <3>0. page # {} BY <1>1 DEF Handle
    <3>1. Ingested({First.head}) /\ entry[First.head].state \in {"none", "received"}
      BY <1>1, <2>3 DEF Handle
    <3>2. entry'[First.head].state # "none"
      <4>1. First.head \in Update BY <3>0, FirstIsLeast DEF GroupTypeOK, PageType
      <4>2. \/ entry' = [entry EXCEPT ![First.head] = ReceivedEntry]
            \/ entry[First.head].state # "none" /\ entry' = entry
        BY <1>1 DEF Handle
      <4> QED BY <4>1, <4>2 DEF ReceivedEntry, GroupTypeOK
    <3> QED BY <1>t, <2>1, <3>1, <3>2 DEF Ingested, JobMoves
  <2> QED BY <2>2, <2>3
<1>2. CASE PassStep
  <2>1. phase # "down" BY <1>2 DEF PassStep, Passing, WorkIsReceived
  <2>2. CASE UNCHANGED job BY <2>2 DEF JobMoves
  <2>3. CASE ~UNCHANGED job
    <3>1. Ingested(Unrecorded) /\ entry' = entry /\ batchOf' = batchOf
      BY <1>2, <2>3 DEF PassStep, ReplayRun, ReplayBatch, inboxVars
    <3>2. ASSUME u \in Unrecorded PROVE batchOf[u] = {} /\ entry[u].state # "none"
      <4>1. u \in pass /\ \A v \in pass : v <= u => batchOf[v] = {} BY <3>2 DEF Unrecorded
      <4>2. u \in Nat /\ u <= u BY InboxAssumption
      <4> QED BY <4>1, <4>2 DEF WorkIsReceived
    <3> QED BY <1>t, <2>1, <3>1, <3>2 DEF Ingested, JobMoves
  <2> QED BY <2>2, <2>3
<1>3. ASSUME NEW v \in Update, StageBegins(v) \/ StageFails(v) PROVE JobMoves(u)
  <2>1. job[v] = "staged" BY <1>3 DEF StageBegins, StageFails, Staging
  <2>2. /\ StageBegins(v) => job'[v] \in {"idle", "preparing"}
        /\ StageFails(v) => job'[v] = "fail"
        /\ v # u => job'[u] = job[u]
    BY <1>3, <1>t DEF StageBegins, StageFails
  <2> QED BY <1>3, <2>1, <2>2 DEF JobMoves
<1>4. ASSUME NEW v \in Update, Answered(v) PROVE JobMoves(u)
  <2>1. job[v] = "preparing" BY <1>4 DEF Answered, Preparing
  <2>2. job'[v] \in {"queued", "fail", "seeing"} /\ (v # u => job'[u] = job[u])
    BY <1>4, <1>t DEF Answered, Sees
  <2> QED BY <1>4, <2>1, <2>2 DEF JobMoves
<1>5. ASSUME NEW v \in Update, Observe(v) PROVE JobMoves(u)
  <2>1. job[v] = "preparing" /\ job'[v] = "seeing" /\ (v # u => job'[u] = job[u])
    BY <1>5, <1>t DEF Observe, Preparing, Sees
  <2> QED BY <1>5, <2>1 DEF JobMoves
<1>6. ASSUME NEW v \in Update, NEW end \in Ending, PrepareEnds(v, end) PROVE JobMoves(u)
  <2>1. job[v] = "preparing" /\ job'[v] \in Ending /\ (v # u => job'[u] = job[u])
    BY <1>6, <1>t DEF PrepareEnds, Preparing
  <2> QED BY <1>6, <2>1 DEF JobMoves
<1>7. ASSUME NEW v \in Update, Settle(v) \/ Fail(v) \/ FailThrows(v) PROVE JobMoves(u)
  <2>1. job[v] \in Ending /\ job'[v] = "idle" /\ (v # u => job'[u] = job[u])
    BY <1>7, <1>t DEF Settle, Fail, FailThrows, Failed, Ending
  <2> QED BY <1>7, <2>1 DEF JobMoves
<1>8. ASSUME NEW v \in Update, DoneThrows(v) PROVE JobMoves(u)
  <2>1. job[v] = "done" /\ job'[v] = "fail" /\ (v # u => job'[u] = job[u])
    BY <1>8, <1>t DEF DoneThrows
  <2> QED BY <1>8, <2>1 DEF JobMoves
<1>9. CASE FormBatch \/ FormFails
  <2>1. \A v \in ToSet(queue) : job[v] = "queued" BY <1>9, FormedBatch DEF QueueIsWork
  <2>2. CASE FormBatch
    <3>1. job'[u] = IF u \in ToSet(queue) THEN "batched" ELSE job[u]
      BY <2>2, BatchForms DEF BatchFormed
    <3> QED BY <2>1, <2>2, <3>1 DEF JobMoves
  <2>3. CASE FormFails
    <3>1. job'[u] = IF u \in ToSet(queue) THEN "fail" ELSE job[u]
      BY <2>3 DEF FormFails, Formed
    <3> QED BY <2>1, <2>3, <3>1 DEF JobMoves
  <2> QED BY <1>9, <2>2, <2>3
<1>10. CASE RuntimeStep
  <2>1. CASE UNCHANGED job BY <2>1 DEF JobMoves
  <2>2. CASE ~UNCHANGED job
    <3>1. calls # << >> BY <1>10, RuntimeSteps DEF RuntimeMoves
    <3>2. PICK end \in Ending : CallEnds(end) BY <1>10, <2>2, RuntimeSteps DEF RuntimeMoves
    <3>3. Call = calls[1] /\ 1 \in DOMAIN calls /\ Call \in CallType
      BY <3>1 DEF Call, GroupTypeOK
    <3>4. u \in Call.of /\ Call.kind # "exact" =>
            /\ Call.kind \in {"see", "quiet"} => job[u] = "seeing"
            /\ Call.kind \notin {"see", "quiet"} => job[u] = "batched"
      BY <3>3 DEF QueueIsWork, CallType
    <3>5. end = "fail" => \E slip \in BOOLEAN : \A S : S = Call.of => Reason(S, slip)
      BY <3>2 DEF CallEnds
    <3>6. job'[u] = IF Call.kind # "exact" /\ u \in Call.of THEN end ELSE job[u]
      BY <3>2 DEF CallEnds
    <3> QED BY <1>10, <3>1, <3>4, <3>5, <3>6 DEF JobMoves
  <2> QED BY <2>1, <2>2
<1>11. CASE Die BY <1>11 DEF Die, JobMoves
<1>12. CASE UNCHANGED job BY <1>12 DEF JobMoves
<1> QED
  BY <1>1, <1>2, <1>3, <1>4, <1>5, <1>6, <1>7, <1>8, <1>9, <1>10, <1>11, <1>12, FrameSteps
     DEF Frames

-----------------------------------------------------------------------------
(* The queue of turns and the work.                                        *)

CallsSame ==
  /\ DOMAIN calls' = DOMAIN calls
  /\ \A i \in DOMAIN calls : calls'[i].kind = calls[i].kind /\ calls'[i].of = calls[i].of
  /\ RuntimeStep => UNCHANGED <<job, batch, exact>>

CallAdded(c) ==
  /\ calls' = Append(calls, c)
  /\ \/ \E v \in Update :
          /\ c.kind \in {"see", "quiet"} /\ c.of = {v}
          /\ Observe(v) \/ Answered(v)
          /\ job' = [job EXCEPT ![v] = "seeing"] /\ job[v] = "preparing"
     \/ FormBatch /\ c.kind = "batch" /\ c.of = ToSet(queue)
     \/ Restored /\ c.kind = "exact" /\ c.of = exact.of

LEMMA CallShapes ==
  ASSUME GroupTypeOK, Next
  PROVE  \/ CallsSame
         \/ RuntimeStep /\ calls # << >> /\ \E end \in Ending : CallEnds(end)
         \/ \E c \in CallType : CallAdded(c)
         \/ Die /\ calls' = << >>
<1>t. calls \in Seq(CallType) BY DEF GroupTypeOK
<1>1. CASE RuntimeStep
  <2>1. RuntimeMoves BY <1>1, RuntimeSteps
  <2>2. ASSUME UNCHANGED <<job, batch, exact>>, Begun PROVE CallsSame
    <3>1. DOMAIN calls' = DOMAIN calls BY <1>t, <2>1, <2>2, BegunCall DEF RuntimeMoves
    <3>2. \A k \in DOMAIN calls : calls'[k].kind = calls[k].kind /\ calls'[k].of = calls[k].of
      BY <1>t, <2>1, <2>2, BegunCall DEF RuntimeMoves
    <3> QED BY <2>2, <3>1, <3>2 DEF CallsSame
  <2>3. ASSUME UNCHANGED <<job, batch, exact, calls>> PROVE CallsSame
    BY <2>3 DEF CallsSame
  <2> QED BY <1>1, <2>1, <2>2, <2>3 DEF RuntimeMoves
<1>2. CASE FormBatch
  <2> DEFINE S == ToSet(queue)
  <2>1. S \in SUBSET Update /\ BatchFormed(S) BY <1>2, FormedBatch, BatchForms
  <2>2. /\ BatchCall("batch", S) \in CallType /\ calls' = Append(calls, BatchCall("batch", S))
        /\ BatchCall("batch", S).of = S /\ BatchCall("batch", S).kind = "batch"
    BY <2>1, CallTypes DEF BatchFormed, BatchCall
  <2>3. CallAdded(BatchCall("batch", S)) BY <1>2, <2>1, <2>2 DEF CallAdded
  <2> QED BY <2>2, <2>3
<1>3. CASE Restored
  <2>1. exact.of \in SUBSET Update BY DEF GroupTypeOK, RetryType
  <2>2. /\ BatchCall("exact", exact.of) \in CallType
        /\ BatchCall("exact", exact.of).of = exact.of
        /\ BatchCall("exact", exact.of).kind = "exact"
    BY <2>1, CallTypes DEF BatchCall
  <2>3. CallAdded(BatchCall("exact", exact.of))
    BY <1>3, <2>2 DEF CallAdded, Restored, DispatchBatch
  <2> QED BY <2>2, <2>3
<1>4. CASE Die BY <1>4 DEF Die
<1>5. ASSUME NEW v \in Update, Observe(v) \/ Answered(v), ~UNCHANGED calls
      PROVE  \E c \in CallType : CallAdded(c)
  <2>1. PICK k \in {"see", "quiet"} : Sees(k, v)
    BY <1>5 DEF Observe, Answered
  <2>2. SeeCall(k, v) \in CallType /\ SeeCall(k, v).kind = k /\ SeeCall(k, v).of = {v}
    BY CallTypes DEF SeeCall
  <2>3. job[v] = "preparing" BY <1>5 DEF Observe, Answered, Preparing
  <2>4. CallAdded(SeeCall(k, v)) BY <1>5, <2>1, <2>2, <2>3 DEF CallAdded, Sees
  <2> QED BY <2>2, <2>4
<1>6. CASE ~RuntimeStep /\ UNCHANGED calls BY <1>6 DEF CallsSame
<1>7. \/ FormBatch \/ RuntimeStep \/ Restored \/ Die \/ UNCHANGED calls
      \/ \E v \in Update : Observe(v) \/ Answered(v)
  BY FrameSteps DEF Frames
<1> QED BY <1>1, <1>2, <1>3, <1>4, <1>5, <1>6, <1>7

Matches(c) ==
  /\ c.kind \in {"see", "quiet"} => \A u \in c.of : job[u] = "seeing"
  /\ c.kind = "batch" => c.of = batch /\ batch # {} /\ \A u \in batch : job[u] = "batched"
  /\ c.kind = "exact" => exact.at = "running" /\ exact.of = c.of

MatchesNext(c) ==
  /\ c.kind \in {"see", "quiet"} => \A u \in c.of : job'[u] = "seeing"
  /\ c.kind = "batch" => c.of = batch' /\ batch' # {} /\ \A u \in batch' : job'[u] = "batched"
  /\ c.kind = "exact" => exact'.at = "running" /\ exact'.of = c.of

Apart(c, d) ==
  /\ c.kind = "exact" => d.kind # "exact"
  /\ c.kind # "exact" /\ d.kind # "exact" => c.of \cap d.of = {}

LEMMA QueueWorkParts ==
  /\ QueueIsWork <=>
       /\ \A i \in DOMAIN queue : job[queue[i]] = "queued"
       /\ \A i \in DOMAIN calls : Matches(calls[i])
       /\ \A i \in DOMAIN calls : \A j \in DOMAIN calls \ {i} : Apart(calls[i], calls[j])
  /\ QueueIsWork' <=>
       /\ \A i \in DOMAIN queue' : job'[queue'[i]] = "queued"
       /\ \A i \in DOMAIN calls' : MatchesNext(calls'[i])
       /\ \A i \in DOMAIN calls' : \A j \in DOMAIN calls' \ {i} : Apart(calls'[i], calls'[j])
<1> USE DEF QueueIsWork, Matches, MatchesNext, Apart
<1>1. QueueIsWork <=>
        /\ \A i \in DOMAIN queue : job[queue[i]] = "queued"
        /\ \A i \in DOMAIN calls : Matches(calls[i])
        /\ \A i \in DOMAIN calls : \A j \in DOMAIN calls \ {i} : Apart(calls[i], calls[j])
  OBVIOUS
<1>2. QueueIsWork' <=>
        /\ \A i \in DOMAIN queue' : job'[queue'[i]] = "queued"
        /\ \A i \in DOMAIN calls' : MatchesNext(calls'[i])
        /\ \A i \in DOMAIN calls' : \A j \in DOMAIN calls' \ {i} : Apart(calls'[i], calls'[j])
  OBVIOUS
<1> QED BY <1>1, <1>2

\* A call that waits matches the work as long as no call is over.
LEMMA CallKept ==
  ASSUME GroupTypeOK, BatchesAreWhole, RecordsHold, QueueIsWork, WorkIsReceived, Next, ~Die,
         RuntimeStep => UNCHANGED <<job, batch, exact>>, NEW i \in DOMAIN calls
  PROVE  MatchesNext(calls[i])
<1>0. calls[i] \in CallType BY DEF GroupTypeOK
<1>t. calls[i].of \subseteq Update BY <1>0 DEF CallType
<1>m. Matches(calls[i]) BY QueueWorkParts
<1>j. ASSUME NEW u \in Update, job[u] \in {"seeing", "batched"} PROVE job'[u] = job[u]
  <2>1. JobMoves(u) BY JobSteps
  <2> QED BY <1>j, <2>1 DEF JobMoves, Ending
<1>1. ASSUME calls[i].kind \in {"see", "quiet"}, NEW u \in calls[i].of PROVE job'[u] = "seeing"
  BY <1>1, <1>j, <1>m, <1>t DEF Matches
<1>2. ASSUME calls[i].kind = "batch"
      PROVE  calls[i].of = batch' /\ batch' # {} /\ \A u \in batch' : job'[u] = "batched"
  <2>1. calls[i].of = batch /\ batch # {} /\ \A u \in batch : job[u] = "batched"
    BY <1>2, <1>m DEF Matches
  <2>3. ~FormBatch BY <2>1, FormedBatch
  <2>4. batch' = batch BY <2>3, FrameSteps DEF Frames
  <2> QED BY <1>j, <1>t, <2>1, <2>4
<1>3. ASSUME calls[i].kind = "exact" PROVE exact'.at = "running" /\ exact'.of = calls[i].of
  <2>1. exact.at = "running" /\ exact.of = calls[i].of BY <1>3, <1>m DEF Matches
  <2>2. ~RetryBegins BY <2>1 DEF RetryBegins, NoRetry
  <2>3. exact' = exact \/ RuntimeStep BY <2>1, <2>2, RetrySteps DEF RetryMoves, Ending
  <2>4. exact' = exact BY <2>3
  <2> QED BY <2>1, <2>4
<1> QED BY <1>1, <1>2, <1>3 DEF MatchesNext

LEMMA NewCall ==
  ASSUME GroupTypeOK, QueueIsWork, WorkIsReceived, Next, NEW c \in CallType, CallAdded(c)
  PROVE  /\ MatchesNext(c) /\ ~Die /\ (RuntimeStep => UNCHANGED <<job, batch, exact>>)
         /\ \A i \in DOMAIN calls : Apart(c, calls[i]) /\ Apart(calls[i], c)
<1>t. calls \in Seq(CallType) BY DEF GroupTypeOK
<1>m. \A i \in DOMAIN calls : Matches(calls[i]) BY QueueWorkParts
<1>c. \A i \in DOMAIN calls : calls[i].kind \in {"see", "quiet", "batch", "exact"}
  <2>1. \A i \in DOMAIN calls : calls[i] \in CallType BY <1>t
  <2> QED BY <2>1 DEF CallType
<1>1. ~Die
  <2>1. calls' # << >> BY <1>t, AddedCall DEF CallAdded
  <2> QED BY <2>1 DEF Die
<1>2. RuntimeStep => UNCHANGED <<job, batch, exact>>
  <2>1. Len(calls') = Len(calls) + 1 BY <1>t DEF CallAdded
  <2>2. ASSUME calls # << >>, calls' = Tail(calls) PROVE FALSE
    <3>1. Len(calls') = Len(calls) - 1 /\ Len(calls) \in Nat BY <1>t, <2>2
    <3> QED BY <2>1, <3>1
  <2> QED BY <2>2, RuntimeSteps DEF RuntimeMoves, CallEnds
<1>3. ASSUME NEW v \in Update, c.kind \in {"see", "quiet"}, c.of = {v}, job[v] = "preparing",
             job' = [job EXCEPT ![v] = "seeing"]
      PROVE  MatchesNext(c) /\ \A i \in DOMAIN calls : Apart(c, calls[i]) /\ Apart(calls[i], c)
  <2>1. job'[v] = "seeing" BY <1>3 DEF GroupTypeOK
  <2>2. MatchesNext(c) BY <1>3, <2>1 DEF MatchesNext
  <2>3. \A i \in DOMAIN calls : calls[i].kind # "exact" => v \notin calls[i].of
    BY <1>c, <1>m, <1>3 DEF Matches
  <2> QED BY <1>3, <2>2, <2>3 DEF Apart
<1>4. ASSUME FormBatch, c.kind = "batch", c.of = ToSet(queue)
      PROVE  MatchesNext(c) /\ \A i \in DOMAIN calls : Apart(c, calls[i]) /\ Apart(calls[i], c)
  <2>1. \A u \in c.of : job[u] = "queued" BY <1>4, FormedBatch DEF QueueIsWork
  <2>2. c.of = batch' /\ batch' # {} /\ \A u \in batch' : u \in Update /\ job'[u] = "batched"
    BY <1>4, FormedBatch, BatchForms DEF BatchFormed
  <2>3. MatchesNext(c) BY <1>4, <2>2 DEF MatchesNext
  <2>4. \A i \in DOMAIN calls : calls[i].kind # "exact" => calls[i].of \cap c.of = {}
    BY <1>c, <1>m, <2>1 DEF Matches
  <2> QED BY <1>4, <2>3, <2>4 DEF Apart
<1>5. ASSUME Restored, c.kind = "exact", c.of = exact.of
      PROVE  MatchesNext(c) /\ \A i \in DOMAIN calls : Apart(c, calls[i]) /\ Apart(calls[i], c)
  <2>1. exact'.at = "running" /\ exact'.of = exact.of
    BY <1>5 DEF Restored, GroupTypeOK, RetryType
  <2>2. \A i \in DOMAIN calls : calls[i].kind # "exact" BY <1>5, <1>m DEF Restored, Matches
  <2> QED BY <1>5, <2>1, <2>2 DEF MatchesNext, Apart
<1> QED BY <1>1, <1>2, <1>3, <1>4, <1>5 DEF CallAdded

LEMMA CallOver ==
  ASSUME GroupTypeOK, QueueIsWork, calls # << >>,
         NEW end \in Ending, CallEnds(end), NEW i \in DOMAIN calls, i # 1
  PROVE  MatchesNext(calls[i])
<1>t. calls \in Seq(CallType) BY DEF GroupTypeOK
<1>1. Call = calls[1] /\ 1 \in DOMAIN calls BY <1>t, EndedCall DEF CallEnds
<1>2. Matches(calls[i]) /\ Apart(Call, calls[i]) BY <1>1, QueueWorkParts
<1>3. calls[i].of \subseteq Update
  <2>1. calls[i] \in CallType BY <1>t
  <2> QED BY <2>1 DEF CallType
<1>4. calls[i].kind # "exact" => \A u \in calls[i].of : job'[u] = job[u]
  BY <1>2, <1>3 DEF Apart, CallEnds
<1>5. ASSUME calls[i].kind = "batch"
      PROVE  calls[i].of = batch' /\ batch' # {} /\ \A u \in batch' : job'[u] = "batched"
  <2>1. calls[i].of = batch /\ batch # {} BY <1>2, <1>5 DEF Matches
  <2>2. Call.kind # "batch"
    <3>1. Call.kind = "batch" => Call.of = batch BY <1>1, QueueWorkParts DEF Matches
    <3> QED BY <1>2, <1>5, <2>1, <3>1 DEF Apart
  <2>3. batch' = batch BY <2>2 DEF CallEnds
  <2> QED BY <1>2, <1>4, <1>5, <2>1, <2>3 DEF Matches
<1>6. ASSUME calls[i].kind = "exact" PROVE exact'.at = "running" /\ exact'.of = calls[i].of
  <2>1. Call.kind # "exact" BY <1>2, <1>6 DEF Apart
  <2> QED BY <1>2, <1>6, <2>1 DEF Matches, CallEnds
<1> QED BY <1>2, <1>4, <1>5, <1>6 DEF Matches, MatchesNext

LEMMA QueueWorkStep ==
  ASSUME GroupTypeOK, BatchesAreWhole, RecordsHold, QueueIsWork, WorkIsReceived, Next
  PROVE  QueueIsWork'
<1>t. calls \in Seq(CallType) /\ queue \in Seq(Update) BY DEF GroupTypeOK
<1>a. \A i \in DOMAIN calls : \A j \in DOMAIN calls \ {i} : Apart(calls[i], calls[j])
  BY QueueWorkParts
<1>f. FormBatch \/ FormFails \/ Die => queue' = << >>
  BY FormedBatch DEF Die
<1>1. ASSUME NEW i \in DOMAIN queue' PROVE job'[queue'[i]] = "queued"
  <2>0. ~FormBatch /\ ~FormFails /\ ~Die BY <1>1, <1>f
  <2>q. ASSUME NEW k \in DOMAIN queue PROVE job'[queue[k]] = "queued"
    <3>1. queue[k] \in Update /\ job[queue[k]] = "queued" BY <1>t DEF QueueIsWork
    <3>2. JobMoves(queue[k]) BY <3>1, JobSteps
    <3> QED BY <2>0, <3>1, <3>2 DEF JobMoves, Ending
  <2>1. ASSUME NEW v \in Update, Answered(v)
        PROVE  job'[queue'[i]] = "queued"
    <3>1. CASE queue' = Append(queue, v)
      <4>1. (i \in DOMAIN queue /\ queue'[i] = queue[i]) \/ queue'[i] = v BY <1>t, <3>1
      <4>2. job'[v] = "queued"
        <5>1. queue' # queue BY <1>t, <3>1
        <5> QED BY <2>1, <5>1 DEF Answered, GroupTypeOK
      <4> QED BY <2>1, <2>q, <4>1, <4>2
    <3>2. CASE queue' = queue BY <2>1, <2>q, <3>2
    <3> QED BY <2>1, <3>1, <3>2 DEF Answered
  <2>2. CASE UNCHANGED queue BY <2>2, <2>q
  <2> QED BY <2>0, <2>1, <2>2, FrameSteps DEF Frames
<1>2. /\ \A i \in DOMAIN calls' : MatchesNext(calls'[i])
      /\ \A i \in DOMAIN calls' : \A j \in DOMAIN calls' \ {i} : Apart(calls'[i], calls'[j])
  <2>1. CASE CallsSame
    <3>1. CASE Die BY <3>1 DEF Die
    <3>2. CASE ~Die
      <4>1. \A i \in DOMAIN calls : MatchesNext(calls[i]) BY <2>1, <3>2, CallKept DEF CallsSame
      <4> QED BY <1>a, <2>1, <4>1 DEF CallsSame, MatchesNext, Apart
    <3> QED BY <3>1, <3>2
  <2>2. ASSUME calls # << >>, NEW end \in Ending, CallEnds(end)
        PROVE  /\ \A i \in DOMAIN calls' : MatchesNext(calls'[i])
               /\ \A i \in DOMAIN calls' : \A j \in DOMAIN calls' \ {i} :
                    Apart(calls'[i], calls'[j])
    <3>1. \A i \in DOMAIN calls' : i + 1 \in DOMAIN calls /\ i + 1 # 1 /\ calls'[i] = calls[i + 1]
      BY <1>t, <2>2, EndedCall DEF CallEnds
    <3>2. \A k \in DOMAIN calls : k # 1 => MatchesNext(calls[k]) BY <2>2, CallOver
    <3>3. \A i \in DOMAIN calls' : MatchesNext(calls'[i]) BY <3>1, <3>2
    <3>4. ASSUME NEW i \in DOMAIN calls', NEW j \in DOMAIN calls' \ {i}
          PROVE  Apart(calls'[i], calls'[j])
      <4>1. calls' \in Seq(CallType) BY <1>t, <2>2, EndedCall DEF CallEnds
      <4>2. i \in Nat /\ j \in Nat /\ i # j BY <4>1
      <4>3. i + 1 # j + 1 BY <4>2
      <4> QED BY <1>a, <3>1, <4>3
    <3> QED BY <3>3, <3>4
  <2>3. ASSUME NEW c \in CallType, CallAdded(c)
        PROVE  /\ \A i \in DOMAIN calls' : MatchesNext(calls'[i])
               /\ \A i \in DOMAIN calls' : \A j \in DOMAIN calls' \ {i} :
                    Apart(calls'[i], calls'[j])
    <3> DEFINE n == Len(calls) + 1
    <3>1. /\ DOMAIN calls' = DOMAIN calls \cup {n} /\ n \notin DOMAIN calls
          /\ \A i \in DOMAIN calls : calls'[i] = calls[i]
          /\ calls'[n] = c
      BY <1>t, <2>3, AddedCall DEF CallAdded
    <3>2. /\ MatchesNext(c) /\ ~Die /\ (RuntimeStep => UNCHANGED <<job, batch, exact>>)
          /\ \A i \in DOMAIN calls : Apart(c, calls[i]) /\ Apart(calls[i], c)
      BY <2>3, NewCall
    <3>3. \A i \in DOMAIN calls : MatchesNext(calls[i]) BY <3>2, CallKept
    <3> HIDE DEF n
    <3> QED BY <1>a, <3>1, <3>2, <3>3
  <2>4. CASE calls' = << >> BY <2>4
  <2> QED BY <2>1, <2>2, <2>3, <2>4, CallShapes
<1> QED BY <1>1, <1>2, QueueWorkParts

-----------------------------------------------------------------------------
(* The process that is down, and what is worked on.                        *)

LEMMA DownSteps ==
  ASSUME WorkIsReceived, Next, phase = "down"
  PROVE  \/ Arrive \/ PauseOver \/ Boot
         \/ \E v \in Update : RetryTime(v) \/ Requeue(v) \/ Compact(batchOf[v])
<1>1. /\ \A u \in Update : job[u] = "idle"
      /\ exact = NoRetry /\ page = {} /\ ~handled /\ pass = {} /\ queue = << >> /\ calls = << >>
  BY DEF WorkIsReceived
<1>2. ~Poll /\ ~Handle /\ ~HandleFails /\ ~Advance /\ ~AdvanceFails
  BY <1>1 DEF Poll, Handle, HandleFails, Advance, AdvanceFails
<1>3. ~FormBatch /\ ~FormFails
  BY <1>1 DEF FormBatch, FormFails, Gathers
<1>4. ASSUME NEW v \in Update
      PROVE  /\ ~StageBegins(v) /\ ~StageFails(v) /\ ~Answered(v) /\ ~Observe(v)
             /\ ~PrepareEnds(v, "fail") /\ ~PrepareEnds(v, "done")
             /\ ~Settle(v) /\ ~DoneThrows(v) /\ ~Fail(v) /\ ~FailThrows(v)
             /\ ~RetryEnds(v) /\ ~RetryDoneThrows(v) /\ ~RetryFailThrows(v)
  <2>1. job[v] = "idle" /\ exact.at = "none" BY <1>1 DEF NoRetry
  <2>2. ~StageBegins(v) /\ ~StageFails(v) BY <2>1 DEF StageBegins, StageFails, Staging
  <2>3. ~Answered(v) /\ ~Observe(v) /\ ~PrepareEnds(v, "fail") /\ ~PrepareEnds(v, "done")
    BY <2>1 DEF Answered, Observe, PrepareEnds, Preparing
  <2>4. ~Settle(v) /\ ~DoneThrows(v) /\ ~Fail(v) /\ ~FailThrows(v)
    BY <2>1 DEF Settle, DoneThrows, Fail, FailThrows, Failed, Ending
  <2>5. ~RetryEnds(v) /\ ~RetryDoneThrows(v) /\ ~RetryFailThrows(v)
    BY <2>1 DEF RetryEnds, RetryDoneThrows, RetryFailThrows, NextMember, Ending
  <2> QED BY <2>2, <2>3, <2>4, <2>5
<1>5. ~RuntimeStep BY <1>1, RuntimeSteps DEF RuntimeMoves
<1>6. /\ ~ReplayEnds /\ ~RetryDue /\ ~PassStep /\ ~MarkThrows /\ ~Restored /\ ~NotRestored /\ ~Die
  BY <1>1
     DEF ReplayEnds, RetryDue, PassStep, MarkThrows, Passing, Restored, NotRestored, NoRetry, Die
<1> QED BY <1>2, <1>3, <1>4, <1>5, <1>6 DEF Next, RuntimeStep

\* A record comes with its batch, and goes when all of it is done.
RecordMoves(u) ==
  \/ batchOf'[u] = batchOf[u]
  \/ batchOf'[u] = {} /\ IsDone(u) /\ phase = "down" /\ entry' = entry /\ job' = job
  \/ /\ FormBatch /\ u \in ToSet(queue) /\ batchOf'[u] = ToSet(queue)
     /\ job[u] = "queued" /\ job'[u] = "batched" /\ batchOf[u] \in {{}, ToSet(queue)}

LEMMA RecordSteps ==
  ASSUME GroupTypeOK, QueueIsWork, Next, NEW u \in Update
  PROVE  RecordMoves(u)
<1>1. CASE UNCHANGED batchOf BY <1>1 DEF RecordMoves
<1>2. ASSUME NEW v \in Update, Compact(batchOf[v]) PROVE RecordMoves(u)
  <2>1. /\ batchOf'[u] = IF u \in batchOf[v] THEN {} ELSE batchOf[u]
        /\ u \in batchOf[v] => IsDone(u)
        /\ phase = "down" /\ entry' = entry /\ job' = job
    BY <1>2 DEF Compact, inboxVars, volatile
  <2> QED BY <2>1 DEF RecordMoves
<1>3. CASE FormBatch
  <2>1. BatchFormed(ToSet(queue)) BY <1>3, BatchForms
  <2>2. /\ batchOf'[u] = IF u \in ToSet(queue) THEN ToSet(queue) ELSE batchOf[u]
        /\ u \in ToSet(queue) => job'[u] = "batched" /\ batchOf[u] \in {{}, ToSet(queue)}
    BY <2>1 DEF BatchFormed
  <2>3. u \in ToSet(queue) => job[u] = "queued" BY <1>3, FormedBatch DEF QueueIsWork
  <2> QED BY <1>3, <2>2, <2>3 DEF RecordMoves
<1> QED BY <1>1, <1>2, <1>3, FrameSteps DEF Frames

LEMMA WorkStep ==
  ASSUME GroupTypeOK, BatchesAreWhole, RecordsHold, QueueIsWork, WorkIsReceived, Next
  PROVE  WorkIsReceived'
<1>1. ASSUME NEW u \in Update, entry'[u].state = "none"
      PROVE  job'[u] = "idle" /\ batchOf'[u] = {} /\ u \notin pass'
  <2>1. entry[u].state = "none" BY <1>1, EntrySteps DEF EntryMoves
  <2>2. job[u] = "idle" /\ batchOf[u] = {} /\ u \notin pass BY <2>1 DEF WorkIsReceived
  <2>3. job'[u] = "idle" BY <1>1, <2>2, JobSteps DEF JobMoves, Ending
  <2>4. batchOf'[u] = {} BY <2>2, RecordSteps DEF RecordMoves
  <2>5. CASE PassStep \/ MarkThrows
    BY <2>2, <2>3, <2>4, <2>5 DEF PassStep, ReplayRun, ReplayBatch, MarkThrows
  <2>6. CASE Boot \/ RetryDue \/ Die
    BY <2>1, <2>3, <2>4, <2>6 DEF Boot, RetryDue, DueRun, IsOpen, Die
  <2> QED BY <2>2, <2>3, <2>4, <2>5, <2>6, FrameSteps DEF Frames
<1>2. ASSUME NEW u \in Update, job'[u] \in {"preparing", "queued"}
      PROVE  entry'[u].state # "received"
  <2>0. entry[u] \in Entry BY DEF GroupTypeOK
  <2>1. CASE job'[u] = job[u]
    <3>1. entry[u].state \notin {"none", "received"} /\ phase # "down"
      BY <1>2, <2>1 DEF WorkIsReceived
    <3>2. ~Requeue(u) BY <3>1 DEF Requeue
    <3> QED BY <3>1, <3>2, EntrySteps DEF EntryMoves
  <2>2. CASE StageBegins(u) /\ job'[u] = "preparing" /\ job[u] = "staged"
    <3>1. entry' = [entry EXCEPT ![u] = ProcessingEntry(@)]
      BY <2>2 DEF StageBegins, GroupTypeOK
    <3>2. entry'[u] = ProcessingEntry(entry[u]) BY <3>1 DEF GroupTypeOK
    <3> QED BY <2>0, <3>2, EntryFacts
  <2>3. CASE Answered(u)
    <3>1. entry'[u] = QueuedEntry(entry[u]) BY <2>3 DEF Answered, GroupTypeOK
    <3> QED BY <2>0, <3>1, EntryFacts
  <2> QED BY <1>2, <2>1, <2>2, <2>3, JobSteps DEF JobMoves, Ending
<1>3. ASSUME phase' = "down"
      PROVE  /\ \A u \in Update : job'[u] = "idle"
             /\ exact' = NoRetry /\ page' = {} /\ ~handled' /\ pass' = {} /\ queue' = << >>
             /\ calls' = << >> /\ batch' = {}
  <2> USE DEF volatile, polling, batcher, dispatcher
  <2>1. CASE phase = "down"
    <3>1. UNCHANGED <<job, exact, page, handled, pass, queue, calls, batch>>
      <4>1. CASE Arrive \/ PauseOver BY <4>1 DEF Arrive, PauseOver
      <4>2. CASE Boot BY <1>3, <4>2 DEF Boot
      <4>3. ASSUME NEW v \in Update, RetryTime(v) \/ Requeue(v) \/ Compact(batchOf[v])
            PROVE  UNCHANGED <<job, exact, page, handled, pass, queue, calls, batch>>
        BY <4>3 DEF RetryTime, Requeue, Compact
      <4> QED BY <2>1, <4>1, <4>2, <4>3, DownSteps
    <3> QED BY <2>1, <3>1 DEF WorkIsReceived
  <2>2. CASE phase # "down"
    <3>1. Die BY <1>3, <2>2, FrameSteps DEF Frames, Boot, ReplayEnds
    <3> QED BY <3>1 DEF Die, BreaksOff
  <2> QED BY <2>1, <2>2
<1> QED BY <1>1, <1>2, <1>3 DEF WorkIsReceived

-----------------------------------------------------------------------------
(* What the conversation has.                                              *)

\* A turn shows its messages when it is committed; it is that of their recorded batch.
LEMMA ShownGrows ==
  ASSUME GroupTypeOK, RecordsHold, QueueIsWork, Next, NEW u \in Update
  PROVE  \/ Shown(u)' \subseteq Shown(u) /\ (RuntimeStep \/ Shown(u)' = Shown(u))
         \/ /\ RuntimeStep /\ OnRecord(Call.of) /\ u \in Call.of
            /\ Shown(u)' \subseteq Shown(u) \cup {Call.of}
<1>1. CASE turn' = turn BY <1>1 DEF Shown, State
<1>2. CASE RuntimeStep /\ TurnMoves
  <2>1. calls # << >> BY <1>2, RuntimeSteps DEF RuntimeMoves
  <2>2. OnRecord(Call.of) BY <1>2, <2>1, CallOnRecord DEF TurnMoves
  <2>3. /\ DOMAIN turn' = DOMAIN turn \cup {Call.of}
        /\ \A S \in DOMAIN turn : S # Call.of => turn'[S] = turn[S]
    BY <1>2 DEF TurnMoves, TurnIs
  <2>4. \A S \in Shown(u)' : S # Call.of => S \in Shown(u) BY <2>3 DEF Shown, State
  <2>5. \A S \in Shown(u)' : u \in S BY DEF Shown
  <2> QED BY <1>2, <2>2, <2>4, <2>5
<1> QED BY <1>1, <1>2, FrameSteps, RuntimeSteps DEF Frames, RuntimeMoves

LEMMA ShownStep ==
  ASSUME GroupTypeOK, BatchesAreWhole, RecordsHold, ShownAsRecorded, QueueIsWork, WorkIsReceived,
         Next
  PROVE  ShownAsRecorded'
<1> SUFFICES ASSUME NEW u \in Update, u \notin forgotten'
             PROVE  /\ \A S, T \in Shown(u)' : S = T
                    /\ batchOf'[u] # {} => \A S \in Shown(u)' : S = batchOf'[u]
                    /\ batchOf'[u] = {} /\ Shown(u)' # {} => IsDone(u)' /\ job'[u] = "idle"
  BY DEF ShownAsRecorded
<1>f. u \notin forgotten
  <2>1. forgotten \subseteq forgotten' BY FrameSteps DEF Frames, Requeue
  <2> QED BY <2>1
<1>i. /\ \A S, T \in Shown(u) : S = T
      /\ batchOf[u] # {} => \A S \in Shown(u) : S = batchOf[u]
      /\ batchOf[u] = {} /\ Shown(u) # {} => IsDone(u) /\ job[u] = "idle"
  BY <1>f DEF ShownAsRecorded
<1>1. CASE RuntimeStep
  <2>1. entry' = entry /\ batchOf' = batchOf
    BY <1>1, RuntimeSteps DEF RuntimeMoves, records
  <2>2. CASE Shown(u)' \subseteq Shown(u)
    <3>1. IsDone(u)' = IsDone(u) BY <2>1 DEF IsDone
    <3>2. job[u] = "idle" /\ IsDone(u) => job'[u] = "idle" BY JobSteps DEF JobMoves, Ending
    <3> QED BY <1>i, <2>1, <2>2, <3>1, <3>2
  <2>3. CASE OnRecord(Call.of) /\ u \in Call.of /\ Shown(u)' \subseteq Shown(u) \cup {Call.of}
    <3>1. batchOf[u] = Call.of /\ Call.of # {} BY <2>3 DEF OnRecord
    <3> QED BY <1>i, <2>1, <2>3, <3>1
  <2> QED BY <2>2, <2>3, ShownGrows
<1>2. CASE ~RuntimeStep
  <2>1. Shown(u)' = Shown(u) BY <1>2, ShownGrows
  <2>2. CASE batchOf'[u] = batchOf[u]
    <3>1. ASSUME batchOf[u] = {}, Shown(u) # {} PROVE IsDone(u)' /\ job'[u] = "idle"
      <4>1. IsDone(u) /\ job[u] = "idle" BY <1>i, <3>1
      <4>2. ~AtWork(u)
        <5>1. u \in exact.open => batchOf[u] # {}
          BY DEF RecordsHold, OnRecord, NoRetry
        <5> QED BY <3>1, <4>1, <5>1 DEF AtWork
      <4>3. ~Requeue(u) BY <3>1 DEF Requeue
      <4>4. IsDone(u)' BY <4>1, <4>2, <4>3, EntrySteps DEF EntryMoves, IsDone
      <4>5. job'[u] = "idle" BY <4>1, JobSteps DEF JobMoves, Ending
      <4> QED BY <4>4, <4>5
    <3> QED BY <1>i, <2>1, <2>2, <3>1
  <2>3. CASE batchOf'[u] = {} /\ IsDone(u) /\ phase = "down" /\ entry' = entry /\ job' = job
    <3>1. IsDone(u)' /\ job'[u] = "idle" BY <2>3 DEF IsDone, WorkIsReceived
    <3> QED BY <1>i, <2>1, <2>3, <3>1
  <2>4. CASE /\ FormBatch /\ u \in ToSet(queue) /\ batchOf'[u] = ToSet(queue)
             /\ job[u] = "queued" /\ batchOf[u] \in {{}, ToSet(queue)}
    <3>1. ToSet(queue) # {} BY <2>4
    <3> QED BY <1>i, <2>1, <2>4, <3>1
  <2> QED BY <2>2, <2>3, <2>4, RecordSteps DEF RecordMoves
<1> QED BY <1>1, <1>2

-----------------------------------------------------------------------------
(* What is recorded last, and what may fail.                               *)

LEMMA RequeuedStays ==
  ASSUME Next, NEW u, u \notin requeued'
  PROVE  u \notin requeued /\ ~Requeue(u)
BY FrameSteps DEF Frames, Requeue

LEMMA RecordedLastStep ==
  ASSUME GroupTypeOK, BatchesAreWhole, RecordsHold, QueueIsWork, WorkIsReceived, RecordedLast,
         Next
  PROVE  RecordedLast'
<1> SUFFICES ASSUME NEW u \in Update, u \notin requeued'
             PROVE  /\ entry'[u].state = "received" => batchOf'[u] = {}
                    /\ job'[u] \in {"staged", "preparing", "queued", "seeing"} =>
                         batchOf'[u] = {}
  BY DEF RecordedLast
<1>r. u \notin requeued /\ ~Requeue(u) BY RequeuedStays
<1>i. /\ entry[u].state = "received" => batchOf[u] = {}
      /\ job[u] \in {"staged", "preparing", "queued", "seeing"} => batchOf[u] = {}
  BY <1>r DEF RecordedLast
<1>m. RecordMoves(u) /\ JobMoves(u) /\ EntryMoves(u)
  BY RecordSteps, JobSteps, EntrySteps
<1>1. ASSUME entry'[u].state = "received" PROVE batchOf'[u] = {}
  <2>1. entry[u].state \in {"none", "received"} BY <1>1, <1>m, <1>r DEF EntryMoves
  <2>2. batchOf[u] = {} BY <1>i, <2>1 DEF WorkIsReceived
  <2>3. job[u] # "queued" BY <2>1 DEF WorkIsReceived
  <2> QED BY <1>m, <2>2, <2>3 DEF RecordMoves
<1>2. ASSUME job'[u] \in {"staged", "preparing", "queued", "seeing"} PROVE batchOf'[u] = {}
  <2>1. CASE job[u] \in {"staged", "preparing", "queued", "seeing"}
    BY <1>2, <1>i, <1>m, <2>1 DEF RecordMoves
  <2>2. CASE job[u] \notin {"staged", "preparing", "queued", "seeing"}
    <3>1. /\ batchOf' = batchOf
          /\ entry[u].state \in {"none", "received"} \/ batchOf[u] = {}
      BY <1>2, <1>m, <2>2 DEF JobMoves, Ending
    <3> QED BY <1>i, <3>1 DEF WorkIsReceived
  <2> QED BY <2>1, <2>2
<1> QED BY <1>1, <1>2

\* What has failed keeps its reason until it is settled: no turn goes on before.
LEMMA ReasonStays ==
  ASSUME Next, ~Calm
  PROVE  turn' = turn /\ refused' = refused
<1>1. ~FormBatch /\ ~FormFails /\ ~RuntimeStep /\ ~NotRestored
  BY RuntimeSteps
     DEF RuntimeMoves, FormBatch, FormFails, Gathers, NotRestored
<1> QED BY <1>1, FrameSteps DEF Frames

LEMMA FailsUndeliveredStep ==
  ASSUME GroupTypeOK, BatchesAreWhole, RecordsHold, RecordsHold', QueueIsWork, WorkIsReceived,
         RecordedLast, FailsUndelivered, Next
  PROVE  FailsUndelivered'
<1>e. ~Delivered({})' BY DEF Delivered, RecordsHold
<1>1. ASSUME NEW u \in Update, u \notin requeued', job'[u] = "fail", NEW S, S = batchOf'[u]
      PROVE  ~Delivered(S)' \/ S \in refused' \/ u \in slipped'
  <2> USE DEF records, durable
  <2>r. u \notin requeued BY <1>1, RequeuedStays
  <2>m. RecordMoves(u) /\ JobMoves(u) BY RecordSteps, JobSteps
  <2>i. job[u] \in {"staged", "preparing", "queued", "seeing"} => batchOf[u] = {}
    BY <2>r DEF RecordedLast
  <2>1. CASE job[u] = "fail"
    <3>1. ~Calm BY <2>1 DEF Calm, Ending
    <3>2. turn' = turn /\ refused' = refused BY <3>1, ReasonStays
    <3>3. ~Delivered(batchOf[u]) \/ batchOf[u] \in refused \/ u \in slipped
      BY <2>1, <2>r DEF FailsUndelivered
    <3>4. ~FormBatch BY <3>1 DEF FormBatch, Gathers
    <3>5. S = batchOf[u] \/ S = {} BY <1>1, <2>m, <3>4 DEF RecordMoves
    <3>6. u \in slipped => u \in slipped'
      <4>1. ~RuntimeStep /\ ~Die BY <1>1, <3>1, RuntimeSteps DEF RuntimeMoves, Die
      <4>2. ASSUME NEW v \in Update, DoneThrows(v) PROVE slipped \subseteq slipped'
        BY <4>2 DEF DoneThrows
      <4>3. ASSUME NEW v \in Update, Fail(v) \/ FailThrows(v), u \in slipped PROVE u \in slipped'
        <5>1. job' = [job EXCEPT ![v] = "idle"] /\ slipped' = slipped \ {v}
          BY <4>3 DEF Fail, FailThrows, Failed
        <5>2. v # u BY <1>1, <5>1 DEF GroupTypeOK
        <5> QED BY <4>3, <5>1, <5>2
      <4> QED BY <4>1, <4>2, <4>3, FrameSteps DEF Frames
    <3>7. Delivered(S)' => Delivered(S) BY <3>2 DEF Delivered
    <3> QED BY <1>e, <3>2, <3>3, <3>5, <3>6, <3>7
  <2>2. CASE job[u] = "staged" /\ StageFails(u)
    <3>1. batchOf' = batchOf BY <2>2 DEF StageFails
    <3> QED BY <1>1, <1>e, <2>2, <2>i, <3>1
  <2>3. CASE job[u] = "preparing" /\ Answered(u)
    <3>1. batchOf' = batchOf BY <2>3 DEF Answered
    <3> QED BY <1>1, <1>e, <2>3, <2>i, <3>1
  <2>4. CASE job[u] = "preparing" /\ \E end \in Ending : PrepareEnds(u, end)
    <3>1. batchOf' = batchOf BY <2>4 DEF PrepareEnds
    <3> QED BY <1>1, <1>e, <2>4, <2>i, <3>1
  <2>5. CASE job[u] = "queued" /\ u \in ToSet(queue) /\ (FormFails)
    <3>1. batchOf' = batchOf BY <2>5 DEF FormFails
    <3> QED BY <1>1, <1>e, <2>5, <2>i, <3>1
  <2>6. CASE /\ job[u] \in {"seeing", "batched"}
             /\ RuntimeStep /\ calls # << >> /\ u \in Call.of /\ Call.kind # "exact"
             /\ job[u] = "seeing" <=> Call.kind \in {"see", "quiet"}
             /\ \E slip \in BOOLEAN : \A T : T = Call.of => Reason(T, slip)
    <3>1. batchOf' = batchOf BY <2>6, RuntimeSteps DEF RuntimeMoves
    <3>2. CASE Call.kind \in {"see", "quiet"} BY <1>1, <1>e, <2>6, <2>i, <3>1, <3>2
    <3>3. CASE Call.kind \notin {"see", "quiet"}
      <4>1. Call.kind = "batch" BY <2>6, <3>3, CallTypes DEF CallType
      <4>2. OnRecord(Call.of) BY <2>6, <4>1, CallOnRecord
      <4>3. S = Call.of BY <1>1, <2>6, <3>1, <4>2 DEF OnRecord
      <4>4. PICK slip \in BOOLEAN : \A T : T = Call.of => Reason(T, slip) BY <2>6
      <4>5. Reason(S, slip) BY <4>3, <4>4
      <4> QED BY <2>6, <3>3, <4>1, <4>3, <4>5 DEF Reason
    <3> QED BY <3>2, <3>3
  <2>7. CASE DoneThrows(u) BY <2>7 DEF DoneThrows
  <2> QED BY <1>1, <2>1, <2>2, <2>3, <2>4, <2>5, <2>6, <2>7, <2>m DEF JobMoves, Ending
<1>2. ASSUME exact'.at = "fail", NEW S, S = exact'.of
      PROVE  ~Delivered(S)' \/ S \in refused' \/ exact'.slip
  <2>m. RetryMoves BY RetrySteps
  <2>1. CASE exact.at = "fail" /\ S = exact.of /\ exact'.slip = exact.slip
    <3>1. ~Calm BY <2>1 DEF Calm, Ending
    <3>2. turn' = turn /\ refused' = refused BY <3>1, ReasonStays
    <3>3. ~Delivered(S) \/ S \in refused \/ exact.slip BY <2>1 DEF FailsUndelivered
    <3> QED BY <2>1, <3>2, <3>3 DEF Delivered
  <2>2. CASE RetryBegins BY <1>2, <2>2 DEF RetryBegins
  <2>3. CASE exact.at = "restoring" /\ SameRetry /\ exact.of \in refused'
    BY <1>2, <2>3 DEF SameRetry
  <2>4. CASE /\ exact.at = "running" /\ SameRetry /\ Call.kind = "exact"
             /\ \A T : T = exact.of => Reason(T, exact'.slip)
    <3>1. Reason(S, exact'.slip) BY <1>2, <2>4 DEF SameRetry
    <3> QED BY <2>4, <3>1 DEF Reason
  <2>5. CASE exact'.slip BY <2>5
  <2> QED
    BY <1>2, <2>1, <2>2, <2>3, <2>4, <2>5, <2>m DEF RetryMoves, SameRetry, NoRetry, Ending
<1> QED BY <1>1, <1>2 DEF FailsUndelivered

-----------------------------------------------------------------------------
(* The offset.                                                             *)

\* No step but Handle makes an entry of none, and none loses one.
LEMMA KeptStays ==
  ASSUME GroupTypeOK, BatchesAreWhole, RecordsHold, WorkIsReceived, OffsetPassesKept, Next
  PROVE  /\ \A u \in Update : Kept(u) => Kept(u)'
         /\ \A u \in Update : entry'[u].state = "none" => entry[u].state = "none"
         /\ ~Handle => \A u \in Update : entry[u].state = "none" => entry'[u].state = "none"
<1>1. \A u \in Update : EntryMoves(u) BY EntrySteps
<1>2. \A v \in Update : siblings[v] \subseteq siblings'[v]
  <2>1. CASE Handle
    <3>0. page # {} BY <2>1 DEF Handle
    <3>1. \/ siblings' = siblings
          \/ /\ entry[First.head].state = "none"
             /\ siblings' = [siblings EXCEPT ![First.head] = First.with]
      BY <2>1 DEF Handle
    <3>2. First.head \in Update BY <3>0, FirstIsLeast DEF GroupTypeOK, PageType
    <3> QED BY <3>1, <3>2 DEF GroupTypeOK, OffsetPassesKept
  <2>2. CASE Poll \/ HandleFails \/ Advance \/ AdvanceFails \/ Die
    BY <2>2 DEF Poll, HandleFails, Advance, AdvanceFails, Die, durable, records
  <2> QED BY <2>1, <2>2, FrameSteps DEF Frames
<1>3. \A u \in Update : Kept(u) => Kept(u)' BY <1>1, <1>2 DEF EntryMoves, Kept
<1> QED BY <1>1, <1>3 DEF EntryMoves

\* What the offset passes with the first of the page, once that is handled.
LEMMA AskedKept ==
  ASSUME GroupTypeOK, OffsetPassesKept, handled
  PROVE  /\ \A u \in Members(First) \cap Update :
              Kept(u) \/ (Between(First.head, u) /\ First.head \in broken)
         /\ \A u \in Update : u < Asked =>
              /\ Kept(u) \/ \E v \in Update : Between(v, u)
              /\ u < asks \/ \E q \in page : u \in Members(q)
<1>1. page # {} /\ entry[First.head].state # "none" /\ PageHolds(First)
  BY AskedGrows DEF OffsetPassesKept
<1>2. /\ First \in page /\ First \in PageType /\ First.head \in Nat /\ First.head \in Update
      /\ Reach(First) \in Members(First) /\ \A v \in Members(First) : v <= Reach(First)
      /\ Reach(First) \in Nat /\ asks \in Nat
      /\ Asked = asks \/ Asked = Reach(First) + 1
  BY <1>1, AskedGrows DEF PageType, GroupTypeOK
<1>3. Kept(First.head) BY <1>1 DEF Kept
<1>4. ASSUME NEW u \in Update, First.head < u, NEW w \in Update, u <= w, w \in First.with
      PROVE  Between(First.head, u)
  BY <1>1, <1>4 DEF PageHolds, Between
<1>5. ASSUME NEW u \in Members(First) \cap Update
      PROVE  Kept(u) \/ (Between(First.head, u) /\ First.head \in broken)
  <2>1. CASE u = First.head BY <1>3, <2>1
  <2>2. CASE u # First.head
    <3>1. u \in First.with /\ First.head < u /\ u \in Nat
      BY <1>1, <1>5, <2>2, InboxAssumption DEF Members, PageHolds
    <3>2. Between(First.head, u) BY <1>4, <3>1
    <3>3. First.head \in broken \/ u \in siblings[First.head] BY <1>1, <3>1 DEF PageHolds
    <3> QED BY <1>2, <3>2, <3>3 DEF Kept
  <2> QED BY <2>1, <2>2
<1>6. ASSUME NEW u \in Update, u < Asked
      PROVE  /\ Kept(u) \/ \E v \in Update : Between(v, u)
             /\ u < asks \/ \E q \in page : u \in Members(q)
  <2>0. u \in Nat BY InboxAssumption
  <2>1. CASE u < asks BY <2>1 DEF OffsetPassesKept, PassesKept
  <2>2. CASE ~(u < asks)
    <3>1. asks <= u /\ u <= Reach(First)
      <4> DEFINE r == Reach(First)
                 a == Asked
      <4>1. r \in Nat /\ (a = asks \/ a = r + 1) /\ u < a BY <1>2, <1>6
      <4> HIDE DEF r, a
      <4>2. asks <= u /\ u <= r BY <1>2, <2>0, <2>2, <4>1
      <4> QED BY <4>2 DEF r
    <3>2. PICK q \in page : u \in Members(q) BY <1>1, <1>2, <3>1 DEF PageHolds
    <3>3. CASE q = First BY <1>2, <1>5, <3>2, <3>3
    <3>4. CASE q # First /\ u = First.head BY <1>3, <3>2, <3>4
    <3>5. CASE q # First /\ u # First.head
      <4>1. First.head <= q.head /\ q.head \in Nat
        BY <1>1, FirstIsLeast, InboxAssumption DEF GroupTypeOK, PageType
      <4>2. q.head <= u
        <5>1. CASE u = q.head BY <2>0, <5>1
        <5>2. CASE u \in q.with
          <6>1. q.head < u BY <5>2 DEF OffsetPassesKept, PageHolds
          <6> QED BY <2>0, <4>1, <6>1
        <5> QED BY <3>2, <5>1, <5>2 DEF Members
      <4>3. First.head < u BY <1>2, <2>0, <3>5, <4>1, <4>2
      <4>4. Reach(First) # First.head
        <5> DEFINE r == Reach(First)
        <5>1. u <= r /\ r \in Nat BY <1>2, <3>1
        <5> HIDE DEF r
        <5>2. r # First.head BY <1>2, <2>0, <4>3, <5>1
        <5> QED BY <5>2 DEF r
      <4>5. Reach(First) \in First.with BY <1>2, <4>4 DEF Members
      <4>6. Reach(First) \in Update BY <1>2, <4>5 DEF PageType
      <4> QED BY <1>2, <1>4, <3>1, <3>2, <4>3, <4>5, <4>6
    <3> QED BY <3>3, <3>4, <3>5
  <2> QED BY <2>1, <2>2
<1> QED BY <1>5, <1>6

\* What a poll brings: the updates from asks on, each at its album's first.
LEMMA PolledPage ==
  ASSUME NEW n \in Nat, NEW m \in Nat, n .. m \subseteq Update
  PROVE  /\ \A p, q \in Merged(n .. m) : p.head = q.head => p = q
         /\ \A p \in Merged(n .. m) :
              /\ p.head \in n .. m /\ p.with \subseteq n .. m
              /\ \A w \in p.with :
                   p.head < w /\ AlbumOf[p.head] # None /\ AlbumOf[w] = AlbumOf[p.head]
         /\ \A u \in n .. m : \E q \in Merged(n .. m) : u \in Members(q)
<1> DEFINE S == n .. m
           Same(u) == {v \in S : v = u \/ (AlbumOf[u] # None /\ AlbumOf[v] = AlbumOf[u])}
<1>1. Merged(S) = {[head |-> u, with |-> Same(u) \ {u}] : u \in {v \in S : v = Least(Same(v))}}
  BY DEF Merged
<1>2. ASSUME NEW u \in S
      PROVE  Least(Same(u)) \in Same(u) /\ \A v \in Same(u) : Least(Same(u)) <= v
  <2>1. Same(u) \in SUBSET Nat /\ Same(u) # {} OBVIOUS
  <2> QED BY <2>1, LeastNatural
<1>3. \A p \in Merged(S) :
        p.head \in S /\ p.with = Same(p.head) \ {p.head} /\ p.head = Least(Same(p.head))
        /\ p = [head |-> p.head, with |-> Same(p.head) \ {p.head}]
  <2> TAKE p \in Merged(S)
  <2>1. PICK u \in S : u = Least(Same(u)) /\ p = [head |-> u, with |-> Same(u) \ {u}]
    BY <1>1
  <2>2. p.head = u /\ p.with = Same(u) \ {u} BY <2>1
  <2> HIDE DEF Same
  <2> QED BY <2>1, <2>2
<1>4. ASSUME NEW p \in Merged(S), NEW q \in Merged(S), p.head = q.head PROVE p = q
  <2> DEFINE Made(u) == [head |-> u, with |-> Same(u) \ {u}]
  <2>1. p = Made(p.head) /\ q = Made(q.head) BY <1>3
  <2> HIDE DEF Made
  <2> QED BY <1>4, <2>1
<1>5. ASSUME NEW p \in Merged(S)
      PROVE  /\ p.head \in S /\ p.with \subseteq S
             /\ \A w \in p.with :
                  p.head < w /\ AlbumOf[p.head] # None /\ AlbumOf[w] = AlbumOf[p.head]
  <2>1. p.head \in S /\ p.with = Same(p.head) \ {p.head} BY <1>3
  <2>2. ASSUME NEW w \in p.with
        PROVE  p.head < w /\ w \in S /\ AlbumOf[p.head] # None /\ AlbumOf[w] = AlbumOf[p.head]
    <3>0. w \in Same(p.head) /\ w # p.head BY <2>1, <2>2
    <3>1. p.head <= w
      <4> HIDE DEF Same
      <4> QED BY <1>2, <1>3, <2>1, <3>0
    <3>2. w \in Nat /\ w \in S /\ p.head \in Nat BY <2>1, <3>0
    <3> QED BY <3>0, <3>1, <3>2
  <2> QED BY <2>1, <2>2
<1>6. ASSUME NEW u \in S
      PROVE  \E q \in Merged(S) : u \in Members(q)
  <2> DEFINE h == Least(Same(u))
             q == [head |-> h, with |-> Same(h) \ {h}]
  <2>1. h \in Same(u) /\ h \in S BY <1>2
  <2>2. Same(h) = Same(u) /\ u \in Same(h) BY <2>1
  <2>3. q \in Merged(S) BY <1>1, <2>1, <2>2
  <2>4. q.head = h /\ q.with = Same(h) \ {h} OBVIOUS
  <2> HIDE DEF h, q
  <2> QED BY <2>1, <2>2, <2>3, <2>4 DEF Members
<1> QED BY <1>4, <1>5, <1>6

\* What breaks off with the page is named.
LEMMA BrokenPasses ==
  ASSUME GroupTypeOK, OffsetPassesKept, BreaksOff, NEW u \in Update,
         u < asks \/ (handled /\ u < Asked)
  PROVE  /\ Kept(u) \/ \E v \in Update : Between(v, u)
         /\ Kept(u) \/ \E v \in Update : Between(v, u) /\ {u, v} \cap broken' # {}
<1>1. broken' = broken \cup BrokenOff BY DEF BreaksOff
<1>2. Kept(u) \/ \E v \in Update : Between(v, u)
  BY AskedKept DEF OffsetPassesKept, PassesKept
<1>3. \/ Kept(u) \/ \E p \in page : u \in Members(p)
      \/ \E v \in Update : Between(v, u) /\ {u, v} \cap broken # {}
  BY AskedKept DEF OffsetPassesKept, PassesKept
<1>4. ASSUME NEW p \in page, u \in Members(p) PROVE u \in broken'
  <2>1. u < IF handled THEN Asked ELSE asks
    <3>1. CASE handled
      <4>1. page # {} OBVIOUS
      <4>2. Asked \in Nat /\ asks \in Nat /\ asks <= Asked BY <4>1, AskedGrows DEF GroupTypeOK
      <4>3. u \in Nat BY InboxAssumption
      <4> DEFINE a == Asked
      <4>4. u < asks \/ u < a BY <3>1
      <4> HIDE DEF a
      <4>5. a \in Nat /\ asks <= a BY <4>2 DEF a
      <4>6. u < a BY <4>2, <4>3, <4>4, <4>5
      <4> QED BY <3>1, <4>6 DEF a
    <3>2. CASE ~handled BY <3>2
    <3> QED BY <3>1, <3>2
  <2> QED BY <1>1, <1>4, <2>1 DEF BrokenOff
<1> QED BY <1>1, <1>2, <1>3, <1>4

LEMMA HeadBreaks ==
  ASSUME GroupTypeOK, OffsetPassesKept, BreaksOff, handled
  PROVE  First.head \in broken'
<1>1. page # {} BY DEF OffsetPassesKept
<1>2. /\ First \in page /\ First.head \in Nat /\ Reach(First) \in Nat /\ Asked \in Nat
      /\ First.head <= Reach(First) /\ Reach(First) < Asked
  BY <1>1, AskedGrows DEF Members
<1>3. First.head < Asked
  <2> DEFINE a == Asked
             r == Reach(First)
  <2>1. a \in Nat /\ r \in Nat /\ First.head <= r /\ r < a BY <1>2
  <2> HIDE DEF a, r
  <2>2. First.head < a BY <1>2, <2>1
  <2> QED BY <2>2 DEF a
<1>4. First.head \in BrokenOff BY <1>2, <1>3 DEF BrokenOff, Members
<1> QED BY <1>4 DEF BreaksOff

LEMMA OffsetStep ==
  ASSUME GroupTypeOK, BatchesAreWhole, RecordsHold, WorkIsReceived, OffsetPassesKept, Next
  PROVE  OffsetPassesKept'
<1>k. /\ \A u \in Update : Kept(u) => Kept(u)'
      /\ \A u \in Update : entry'[u].state = "none" => entry[u].state = "none"
      /\ ~Handle => \A u \in Update : entry[u].state = "none" => entry'[u].state = "none"
  BY KeptStays
<1>o. /\ \A u \in Update : u < asks => PassesKept(u)
      /\ \A u \in Update : entry[u].state = "none" => siblings[u] = {}
      /\ \A u \in Update : offset <= u /\ entry[u].state # "none" =>
           u \in broken \/ (handled /\ u = First.head)
      /\ \A p, q \in page : p.head = q.head => p = q
      /\ \A p \in page : PageHolds(p)
      /\ handled => page # {} /\ entry[First.head].state # "none"
  BY DEF OffsetPassesKept
<1>t. /\ arrived \in Nat /\ offset \in Nat /\ asks \in Nat /\ offset <= asks
      /\ page \subseteq PageType /\ Update \subseteq Nat
  BY InboxAssumption DEF GroupTypeOK
<1>p. ASSUME NEW u \in Update, Kept(u) \/ \E v \in Update : Between(v, u),
             \/ Kept(u) \/ \E p \in page' : u \in Members(p)
             \/ \E v \in Update : Between(v, u) /\ {u, v} \cap broken' # {}
      PROVE  PassesKept(u)'
  BY <1>k, <1>p DEF PassesKept, Between
<1>b. ASSUME BreaksOff, ~handled', siblings' = siblings, ~Handle,
             \A u \in Update : u < asks' => u < asks \/ (handled /\ u < Asked),
             \A u \in Update : offset' <= u => offset <= u,
             handled => First.head \in broken'
      PROVE  OffsetPassesKept'
  <2>1. page' = {} /\ broken \subseteq broken' BY <1>b DEF BreaksOff
  <2>2. ASSUME NEW u \in Update, u < asks' PROVE PassesKept(u)'
    <3>1. /\ Kept(u) \/ \E v \in Update : Between(v, u)
          /\ Kept(u) \/ \E v \in Update : Between(v, u) /\ {u, v} \cap broken' # {}
      BY <1>b, <2>2, BrokenPasses
    <3> QED BY <1>p, <3>1
  <2>3. ASSUME NEW u \in Update, offset' <= u, entry'[u].state # "none" PROVE u \in broken'
    BY <1>b, <1>k, <1>o, <2>1, <2>3
  <2> QED BY <1>b, <1>k, <1>o, <2>1, <2>2, <2>3 DEF OffsetPassesKept
<1>1. CASE Poll
  <2>1. /\ page' = Merged(asks .. arrived) /\ ~handled /\ page = {}
        /\ 1 .. arrived \subseteq Update /\ 1 <= asks
        /\ UNCHANGED <<asks, offset, handled, arrived, siblings, entry, broken>>
    BY <1>1 DEF Poll, Calm, durable, records, inboxVars, history, GroupTypeOK
  <2>2. asks .. arrived \subseteq Update BY <1>t, <2>1
  <2>3. /\ \A p, q \in page' : p.head = q.head => p = q
        /\ \A p \in page' :
             /\ p.head \in asks .. arrived /\ p.with \subseteq asks .. arrived
             /\ \A w \in p.with :
                  p.head < w /\ AlbumOf[p.head] # None /\ AlbumOf[w] = AlbumOf[p.head]
        /\ \A u \in asks .. arrived : \E q \in page' : u \in Members(q)
    BY <1>t, <2>1, <2>2, PolledPage
  <2>4. ASSUME NEW u \in Update, u < asks' PROVE PassesKept(u)'
    <3>1. PassesKept(u) BY <1>o, <2>1, <2>4
    <3> QED BY <1>p, <2>1, <3>1 DEF PassesKept
  <2>5. ASSUME NEW p \in page' PROVE PageHolds(p)'
    <3>1. /\ p.head <= arrived /\ p.head \in Update /\ asks <= p.head
          /\ \A w \in Members(p) : w \in Nat /\ w <= arrived
          /\ \A w \in p.with : w <= arrived
      BY <1>t, <2>2, <2>3 DEF Members
    <3>2. entry[p.head].state # "none" => p.head \in broken
      <4> DEFINE h == p.head
      <4>1. h \in Update /\ asks <= h BY <3>1
      <4> HIDE DEF h
      <4>2. h \in Nat BY <1>t, <4>1
      <4>3. offset <= h BY <1>t, <4>1, <4>2
      <4>4. entry[h].state # "none" => h \in broken BY <1>o, <2>1, <4>1, <4>3
      <4> QED BY <4>4 DEF h
    <3>3. ASSUME NEW u \in Update, asks <= u, NEW w \in Members(p), u <= w
          PROVE  \E q \in page' : u \in Members(q)
      <4>1. u \in asks .. arrived BY <1>t, <3>1, <3>3
      <4> QED BY <2>3, <4>1
    <3> QED BY <2>1, <2>3, <3>1, <3>2, <3>3 DEF PageHolds
  <2> QED BY <1>o, <2>1, <2>3, <2>4, <2>5 DEF OffsetPassesKept
<1>2. CASE Handle
  <2> DEFINE h == First.head
  <2>1. page # {} /\ ~handled /\ UNCHANGED <<asks, offset, page, arrived, broken>>
    BY <1>2 DEF Handle, Calm, history
  <2>2. First \in page /\ h \in Update BY <1>t, <2>1, FirstIsLeast DEF PageType
  <2>3. /\ entry'[h].state # "none"
        /\ \A u \in Update \ {h} : entry'[u] = entry[u] /\ siblings'[u] = siblings[u]
        /\ entry[h].state = "none" => siblings'[h] = First.with
        /\ entry[h].state # "none" => siblings'[h] = siblings[h]
    <3>1. \/ /\ entry[h].state = "none" /\ entry' = [entry EXCEPT ![h] = ReceivedEntry]
             /\ siblings' = [siblings EXCEPT ![h] = First.with]
          \/ entry[h].state # "none" /\ entry' = entry /\ siblings' = siblings
      BY <1>2 DEF Handle
    <3> QED BY <2>2, <3>1 DEF ReceivedEntry, GroupTypeOK
  <2>4. First' = First BY <2>1 DEF First
  <2>5. ASSUME NEW u \in Update, u < asks' PROVE PassesKept(u)'
    <3>1. PassesKept(u) BY <1>o, <2>1, <2>5
    <3> QED BY <1>p, <2>1, <3>1 DEF PassesKept
  <2>6. ASSUME NEW p \in page' PROVE PageHolds(p)'
    <3>1. p \in page /\ PageHolds(p) /\ p.head \in Update BY <1>o, <1>t, <2>1, <2>6 DEF PageType
    <3>2. p.head = h => p = First BY <1>o, <2>2, <3>1
    <3>3. entry'[p.head].state # "none" => p.head \in broken \/ p.with \subseteq siblings'[p.head]
      BY <2>3, <3>1, <3>2 DEF PageHolds
    <3> QED BY <2>1, <3>1, <3>3 DEF PageHolds
  <2>7. \A u \in Update : entry'[u].state = "none" => siblings'[u] = {} BY <1>o, <2>3
  <2>8. handled' BY <1>2 DEF Handle
  <2>9. \A u \in Update : entry'[u].state # "none" => entry[u].state # "none" \/ u = h
    BY <2>3
  <2>10. h = First'.head BY <2>4
  <2> HIDE DEF h
  <2> QED BY <1>o, <2>1, <2>3, <2>5, <2>6, <2>7, <2>8, <2>9, <2>10 DEF OffsetPassesKept
<1>3. CASE HandleFails
  <2>1. /\ BreaksOff /\ ~handled /\ ~handled'
        /\ siblings' = siblings /\ asks' = asks /\ offset' = offset /\ entry' = entry
    BY <1>3 DEF HandleFails, Calm, durable, records, inboxVars
  <2>2. ~Handle BY <2>1 DEF Handle
  <2> QED BY <1>b, <2>1, <2>2
<1>4. CASE Advance
  <2>1. /\ handled /\ asks' = Asked /\ offset' = Asked /\ ~handled' /\ page' = page \ {First}
        /\ UNCHANGED <<siblings, arrived, entry, broken>>
    BY <1>4 DEF Advance, records, inboxVars, history
  <2>2. page # {} BY <1>o, <2>1
  <2>3. /\ First \in page /\ First.head \in Nat
        /\ \A v \in Members(First) : v <= Reach(First)
        /\ Reach(First) \in Nat /\ Asked \in Nat /\ asks <= Asked /\ Reach(First) < Asked
    BY <2>2, AskedGrows
  <2>4. /\ \A u \in Members(First) \cap Update :
             Kept(u) \/ (Between(First.head, u) /\ First.head \in broken)
        /\ \A u \in Update : u < Asked =>
             /\ Kept(u) \/ \E v \in Update : Between(v, u)
             /\ u < asks \/ \E q \in page : u \in Members(q)
    BY <2>1, AskedKept
  <2>5. First.head \in Update BY <1>t, <2>3 DEF PageType
  <2>6. ASSUME NEW u \in Update, u < asks' PROVE PassesKept(u)'
    <3>1. \/ Kept(u) \/ \E p \in page : u \in Members(p)
          \/ \E v \in Update : Between(v, u) /\ {u, v} \cap broken # {}
      BY <1>o, <2>1, <2>4, <2>6 DEF PassesKept
    <3>2. \/ Kept(u) \/ \E p \in page' : u \in Members(p)
          \/ \E v \in Update : Between(v, u) /\ {u, v} \cap broken # {}
      BY <2>1, <2>4, <2>5, <3>1
    <3> QED BY <1>p, <2>1, <2>4, <2>6, <3>2
  <2>7. ASSUME NEW u \in Update, offset' <= u, entry'[u].state # "none" PROVE u \in broken
    <3> DEFINE a == Asked
               r == Reach(First)
    <3>1. u \in Nat /\ a \in Nat /\ r \in Nat /\ asks <= a /\ r < a /\ a <= u /\ First.head <= r
      BY <1>t, <2>1, <2>3, <2>7 DEF Members
    <3> HIDE DEF a, r
    <3>2. offset <= u /\ u # First.head BY <1>t, <2>3, <3>1
    <3> QED BY <1>o, <2>1, <2>7, <3>2
  <2>8. ASSUME NEW p \in page' PROVE PageHolds(p)'
    <3>1. p \in page /\ PageHolds(p) BY <1>o, <2>1, <2>8
    <3>2. ASSUME NEW u \in Update, Asked <= u, NEW w \in Members(p), u <= w
          PROVE  \E q \in page' : u \in Members(q)
      <4> DEFINE a == Asked
                 r == Reach(First)
      <4>1. u \in Nat /\ a \in Nat /\ r \in Nat /\ asks <= a /\ r < a /\ a <= u
        BY <1>t, <2>3, <3>2
      <4> HIDE DEF a, r
      <4>2. asks <= u /\ ~(u <= r) BY <1>t, <4>1
      <4>3. PICK q \in page : u \in Members(q) BY <3>1, <3>2, <4>2 DEF PageHolds
      <4>4. q # First BY <2>3, <4>2, <4>3 DEF r
      <4> QED BY <2>1, <4>3, <4>4
    <3> QED BY <2>1, <3>1, <3>2 DEF PageHolds
  <2> QED BY <1>o, <2>1, <2>6, <2>7, <2>8 DEF OffsetPassesKept
<1>5. CASE AdvanceFails
  <2>1. /\ BreaksOff /\ handled /\ ~handled' /\ asks' = Asked /\ offset' = offset
        /\ siblings' = siblings /\ entry' = entry
    BY <1>5 DEF AdvanceFails, durable, records, inboxVars
  <2>2. ~Handle BY <2>1 DEF Handle, Calm
  <2>3. First.head \in broken' BY <1>o, <2>1, HeadBreaks
  <2> QED BY <1>b, <2>1, <2>2, <2>3
<1>6. CASE Die
  <2>1. /\ BreaksOff /\ ~handled' /\ asks' = offset /\ offset' = offset
        /\ siblings' = siblings /\ entry' = entry
    BY <1>6 DEF Die, LoadInbox, durable, records
  <2>2. ~Handle
    <3>1. phase' = "down" /\ phase # "down" BY <1>6 DEF Die
    <3> QED BY <3>1 DEF Handle
  <2>3. handled => First.head \in broken' BY <1>o, <2>1, HeadBreaks
  <2>4. \A u \in Update : u < asks' => u < asks BY <1>t, <2>1
  <2> QED BY <1>b, <2>1, <2>2, <2>3, <2>4
<1>7. CASE ~Handle /\ UNCHANGED <<offset, siblings, asks, page, handled, broken>>
  <2>1. First' = First BY <1>7 DEF First
  <2>2. handled => First.head \in Update
    BY <1>o, <1>t, FirstIsLeast DEF PageType
  <2>3. arrived' = arrived \/ arrived' = arrived + 1
    BY FrameSteps DEF Frames, Arrive
  <2>4. ASSUME NEW n \in Nat, n <= arrived PROVE n <= arrived' BY <1>t, <2>3, <2>4
  <2>5. ASSUME NEW p \in page PROVE PageHolds(p)'
    <3>1. p.head \in Nat /\ p.head \in Update /\ p.with \subseteq Nat BY <1>t DEF PageType
    <3> QED BY <1>7, <1>k, <1>o, <2>4, <3>1 DEF PageHolds
  <2>6. \A u \in Update : u < asks' => PassesKept(u)' BY <1>7, <1>o, <1>p DEF PassesKept
  <2> QED BY <1>7, <1>k, <1>o, <2>1, <2>2, <2>5, <2>6 DEF OffsetPassesKept
<1> QED BY <1>1, <1>2, <1>3, <1>4, <1>5, <1>6, <1>7, FrameSteps DEF Frames

-----------------------------------------------------------------------------
(* The invariant, and what follows from it.                                *)

LEMMA GroupInvInit == Init => GroupIInv
<1> SUFFICES ASSUME Init PROVE GroupIInv OBVIOUS
<1>1. /\ entry = [u \in Update |-> NoEntry] /\ siblings = [u \in Update |-> {}]
      /\ batchOf = [u \in Update |-> {}] /\ turn = << >> /\ phase = "down"
      /\ page = {} /\ handled = FALSE /\ asks = 1 /\ offset = 1
      /\ job = [u \in Update |-> "idle"]
      /\ queue = << >> /\ batch = {} /\ exact = NoRetry /\ calls = << >> /\ pass = {}
  BY DEF Init, InboxInit
<1>2. /\ \A u \in Update : entry[u].state = "none" /\ siblings[u] = {} /\ batchOf[u] = {}
                           /\ job[u] = "idle"
      /\ DOMAIN turn = {} /\ DOMAIN queue = {} /\ DOMAIN calls = {}
  BY <1>1 DEF NoEntry
<1>3. GroupTypeOK BY GroupTypeInit
<1>4. BatchesAreWhole /\ RecordsHold
  BY <1>1, <1>2 DEF BatchesAreWhole, RecordsHold, NoRetry
<1>5. QueueIsWork /\ WorkIsReceived
  BY <1>1, <1>2 DEF QueueIsWork, WorkIsReceived
<1>6. RecordedLast /\ FailsUndelivered
  BY <1>1, <1>2 DEF RecordedLast, FailsUndelivered, NoRetry
<1>7. ShownAsRecorded
  <2>1. \A u \in Update : Shown(u) = {} BY <1>2 DEF Shown
  <2> QED BY <1>2, <2>1 DEF ShownAsRecorded
<1>8. OffsetPassesKept
  <2>1. \A u \in Update : ~(u < asks)
    <3> TAKE u \in Update
    <3>1. u \in Nat /\ u # 0 BY InboxAssumption, GroupAssumption
    <3> QED BY <1>1, <3>1
  <2> QED BY <1>1, <1>2, <2>1 DEF OffsetPassesKept
<1> QED BY <1>3, <1>4, <1>5, <1>6, <1>7, <1>8 DEF GroupIInv

LEMMA GroupInvStep == GroupIInv /\ [Next]_vars => GroupIInv'
<1> SUFFICES ASSUME GroupIInv, [Next]_vars PROVE GroupIInv' OBVIOUS
<1>i. /\ GroupTypeOK /\ BatchesAreWhole /\ RecordsHold /\ ShownAsRecorded
      /\ QueueIsWork /\ WorkIsReceived /\ RecordedLast /\ FailsUndelivered /\ OffsetPassesKept
  BY DEF GroupIInv
<1>1. CASE Next
  <2>1. GroupTypeOK' BY <1>1, <1>i, GroupTypeStep
  <2>2. BatchesAreWhole' BY <1>1, <1>i, BatchesStep
  <2>3. RecordsHold' BY <1>1, <1>i, RecordsStep
  <2>4. ShownAsRecorded' BY <1>1, <1>i, ShownStep
  <2>5. QueueIsWork' BY <1>1, <1>i, QueueWorkStep
  <2>6. WorkIsReceived' BY <1>1, <1>i, WorkStep
  <2>7. RecordedLast' BY <1>1, <1>i, RecordedLastStep
  <2>8. FailsUndelivered' BY <1>1, <1>i, <2>3, FailsUndeliveredStep
  <2>9. OffsetPassesKept' BY <1>1, <1>i, OffsetStep
  <2> QED BY <2>1, <2>2, <2>3, <2>4, <2>5, <2>6, <2>7, <2>8, <2>9 DEF GroupIInv
<1>2. CASE UNCHANGED vars
  <2>1. /\ UNCHANGED <<inflight, entry, arrived, phase, troubles>>
        /\ UNCHANGED <<durable, volatile, history>>
    BY <1>2 DEF vars, inboxVars
  <2>2. UNCHANGED <<offset, siblings, prepared, batchOf, turn, saved>>
    BY <2>1 DEF durable, records
  <2>3. UNCHANGED <<images, job, staged, calls, polling, batcher, dispatcher>>
    BY <2>1 DEF volatile
  <2>4. /\ UNCHANGED <<asks, page, handled, queue, batch, paused, exact, pass, awaited>>
        /\ UNCHANGED <<broken, slipped, refused, requeued, forgotten>>
    BY <2>1, <2>3 DEF polling, batcher, dispatcher, history
  <2>5. GroupTypeOK' BY <1>i, <2>1, <2>2, <2>3, <2>4 DEF GroupTypeOK
  <2>6. BatchesAreWhole' /\ RecordsHold'
    BY <1>i, <2>2, <2>4 DEF BatchesAreWhole, RecordsHold, OnRecord
  <2>7. ShownAsRecorded'
    BY <1>i, <2>1, <2>2, <2>3, <2>4 DEF ShownAsRecorded, Shown, State, IsDone
  <2>8. QueueIsWork' BY <1>i, <2>3, <2>4 DEF QueueIsWork
  <2>9. WorkIsReceived' BY <1>i, <2>1, <2>2, <2>3, <2>4 DEF WorkIsReceived
  <2>10. RecordedLast' BY <1>i, <2>1, <2>2, <2>3, <2>4 DEF RecordedLast
  <2>11. FailsUndelivered' BY <1>i, <2>2, <2>3, <2>4 DEF FailsUndelivered, Delivered
  <2>12. OffsetPassesKept'
    BY <1>i, <2>1, <2>2, <2>4 DEF OffsetPassesKept, PassesKept, PageHolds, Kept, Between, First
  <2> QED BY <2>5, <2>6, <2>7, <2>8, <2>9, <2>10, <2>11, <2>12 DEF GroupIInv
<1> QED BY <1>1, <1>2 DEF vars

\* The inductive invariant holds in every reachable state: Init has it, and every action
\* of the poll loop, the coordinator, the turns, the passes and the operator keeps it.
THEOREM GroupInvariant == Spec => []GroupIInv
BY GroupInvInit, GroupInvStep, PTL DEF Spec

\* Every variable has its type, whatever the updates, albums and bounds.
THEOREM GroupTypeCorrect == Spec => []GroupTypeOK
<1>1. GroupIInv => GroupTypeOK BY DEF GroupIInv
<1> QED BY <1>1, GroupInvariant, PTL

\* OnlyAlbumsLose: the offset never passes an update that is neither in the inbox nor on
\* the page, unless an album took it along or a page with it or the album's first broke
\* off - wherever a poll, a write or the process ends.
THEOREM OffsetLosesOnlyAlbums == Spec => []OnlyAlbumsLose
<1>1. GroupIInv => OnlyAlbumsLose
  <2> SUFFICES ASSUME GroupIInv, NEW u \in Update, u < offset, entry[u].state = "none"
               PROVE  \/ \E p \in page : u \in Members(p)
                      \/ \E v \in Update : u \in siblings[v]
                      \/ \E v, w \in Update :
                           /\ v < u /\ u <= w /\ AlbumOf[v] # None /\ AlbumOf[w] = AlbumOf[v]
                           /\ {u, v} \cap broken # {}
    BY DEF OnlyAlbumsLose
  <2>1. u \in Nat /\ offset \in Nat /\ asks \in Nat /\ offset <= asks
    BY InboxAssumption DEF GroupIInv, GroupTypeOK
  <2>2. u < asks BY <2>1
  <2>3. PassesKept(u) BY <2>2 DEF GroupIInv, OffsetPassesKept
  <2> QED BY <2>3 DEF PassesKept, Kept, Between
<1> QED BY <1>1, GroupInvariant, PTL

\* ShownOnce: a message is in one turn of the conversation at most, wherever a turn, a
\* retry or the process ends, unless the operator requeued it after the record of its
\* batch was compacted away.
THEOREM MessagesShownOnce == Spec => []ShownOnce
<1>1. GroupIInv => ShownOnce
  <2> SUFFICES ASSUME GroupIInv, NEW u \in Update, u \notin forgotten
               PROVE  Cardinality(Shown(u)) <= 1
    BY DEF ShownOnce
  <2>1. \A S, T \in Shown(u) : S = T BY DEF GroupIInv, ShownAsRecorded
  <2>2. CASE Shown(u) = {} BY <2>2, FS_EmptySet
  <2>3. CASE Shown(u) # {}
    <3>1. PICK S \in Shown(u) : TRUE BY <2>3
    <3>2. Shown(u) = {S} BY <2>1, <3>1
    <3> QED BY <3>2, FS_Singleton
  <2> QED BY <2>2, <2>3
<1> QED BY <1>1, GroupInvariant, PTL

\* AnsweredNeverFails: no failure is counted against a message whose batch was delivered,
\* unless the batch could not be retried as it was, a write after the delivery failed, or
\* the operator requeued the message.
THEOREM DeliveredNeverFails == Spec => AnsweredNeverFails
<1> DEFINE Failure(u) ==
      /\ entry'[u].state \in {"failed", "dead-letter"} /\ entry'[u].attempts > entry[u].attempts
      /\ State(batchOf[u]) = "delivered"
<1>1. ASSUME GroupIInv, [Next]_vars, NEW u \in Update, Failure(u)
      PROVE  batchOf[u] \in refused \/ u \in requeued \/ Slipped(u)
  <2>1. GroupTypeOK /\ RecordsHold /\ WorkIsReceived /\ BatchesAreWhole /\ FailsUndelivered
    BY <1>1 DEF GroupIInv
  <2>2. EntryMoves(u)
    <3>1. CASE Next BY <2>1, <3>1, EntrySteps
    <3>2. CASE UNCHANGED vars BY <2>1, <3>2, SameEntry DEF vars, inboxVars
    <3> QED BY <1>1, <3>1, <3>2
  <2>3. job[u] = "fail" \/ (exact.at = "fail" /\ u \in exact.open) BY <1>1, <2>2 DEF EntryMoves
  <2>4. Delivered(batchOf[u]) BY <1>1 DEF State, Delivered
  <2>5. CASE job[u] = "fail" BY <2>1, <2>4, <2>5 DEF FailsUndelivered, Slipped
  <2>6. CASE exact.at = "fail" /\ u \in exact.open
    <3>1. u \in exact.of /\ batchOf[u] = exact.of BY <2>1, <2>6 DEF RecordsHold, OnRecord
    <3> QED BY <2>1, <2>4, <2>6, <3>1 DEF FailsUndelivered, Slipped
  <2> QED BY <2>3, <2>5, <2>6
<1>2. GroupIInv /\ [Next]_vars =>
        [\A u \in Update :
           Failure(u) => batchOf[u] \in refused \/ u \in requeued \/ Slipped(u)]_vars
  BY <1>1
<1> QED BY <1>2, GroupInvariant, PTL DEF Spec, AnsweredNeverFails

=============================================================================
