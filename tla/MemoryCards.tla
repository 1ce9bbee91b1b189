----------------------------- MODULE MemoryCards -----------------------------
(***************************************************************************)
(* Day and week cards (runtime/memory/memory-card-manager.js, -store.js,   *)
(* -files.js) and the maintenance loop that has them written.              *)
(*                                                                         *)
(* A card is a line in cards.jsonl that names its sources, and a markdown  *)
(* file that, once it is there, is what the card says: people edit it.     *)
(* Sources are gathered before a card is generated and recorded after; the *)
(* conversation goes on, is folded, and files are edited in between.  A    *)
(* card is stale when a file it rests on changed after it was created.     *)
(***************************************************************************)
EXTENDS Naturals, FiniteSets, MaintenanceLoop

CONSTANTS
  Days,         \* the days of one week, 1 .. Days; the week is over with the last
  Turn, DayOf,  \* committed turns, and the day of each
  None,
  MaxEdits,     \* bound on edits of day cards and fold logs
  MaxTroubles   \* bound on failed generations and writes, crashes and stops

Day == 1 .. Days
Week == 0
Period == Day \cup {Week}

\* A day's sources are its turns, by themselves, in the window of summaries or in
\* the fold log; a week's are the cards of its days, in their versions.
TurnSource == {"turn", "window", "log"} \X Turn
CardSource == {"card"} \X Day \X Nat
Source(p) == IF p = Week THEN CardSource ELSE TurnSource

\* What a card says: the sources told, the days' texts a week was written from, and
\* how often somebody edited it.
DayText == [told : SUBSET TurnSource, of : {<< >>}, edit : Nat]
WeekText == [told : SUBSET CardSource, of : UNION {[D -> DayText] : D \in SUBSET Day},
             edit : Nat]
Text(p) == IF p = Week THEN WeekText ELSE DayText

Card(p) == [version : Nat, sources : SUBSET Source(p), content : Text(p)]

ASSUME CardsAssumption ==
  /\ Days \in Nat \ {0}
  /\ DayOf \in [Turn -> Day]
  /\ \A p \in Period : None \notin Card(p) \cup Text(p)
  /\ {MaxEdits, MaxTroubles} \subseteq Nat

VARIABLES
  place,     \* durable: is a turn "none" yet, "active" or "folded"
  card,      \* durable: the latest card of a period, its version and sources
  markdown,  \* durable: what the card's file says, or None
  changed,   \* did a file that the card rests on change after it was created
  retry,     \* durable: the sources a period's generation failed with, until it is
             \*   tried again, or None
  today,
  ripe,      \* days over, with their last scene ended or the latest hour reached
  past,      \* periods that cycles no longer look at: days of more than 42 days ago, a
             \*   week before the recent ones
  job,       \* the generation under way, or None
  up,
  unwritten, \* history: cards whose file could not be replaced
  overlooked,\* history: day cards edited while the week's was generated from them, or
             \*   within a second of it
  edits, troubles

store == <<place, card, markdown, changed, retry, today, ripe, past>>
bounds == <<edits, troubles>>
vars == <<store, job, up, unwritten, overlooked, bounds, loopVars>>

Init ==
  /\ place = [t \in Turn |-> "none"]
  /\ card = [p \in Period |-> None] /\ markdown = [p \in Period |-> None]
  /\ changed = [p \in Period |-> FALSE] /\ retry = [p \in Period |-> None]
  /\ today = 1 /\ ripe = {} /\ past = {}
  /\ job = None /\ up = FALSE
  /\ unwritten = {} /\ overlooked = {}
  /\ edits = 0 /\ troubles = 0
  /\ LoopInit

Trouble == troubles < MaxTroubles /\ troubles' = troubles + 1

----------------------------------------------------------------------------
(* Sources and cards.                                                      *)

\* A turn is a source by itself until it is folded; its fold is one in the window
\* of summaries and another in the fold log, for the two know its range with
\* different precision.
SourcesOf(t) ==
  IF place[t] = "none" THEN {}
  ELSE IF place[t] = "active" THEN {<<"turn", t>>}
  ELSE {<<"window", t>>, <<"log", t>>}

DaySources(d) == UNION {SourcesOf(t) : t \in {t \in Turn : DayOf[t] = d}}

Told(sources, of) == [told |-> sources, of |-> of, edit |-> 0]

\* What a card says: its file; a missing one is written anew when cards are read.
Content(p) == IF markdown[p] # None THEN markdown[p] ELSE card[p].content

Effective(p) == card[p] # None /\ ~changed[p]

Covers(p, sources) == card[p] # None /\ sources \subseteq card[p].sources

DaysTold == {d \in Day : DaySources(d) # {}}

\* A week's sources are the cards of its days.
WeekSources == {<<"card", d, card[d].version>> : d \in {d \in DaysTold : card[d] # None}}

PeriodSources(p) == IF p = Week THEN WeekSources ELSE DaySources(p)

\* The week waits for effective cards of all its days that cover them.
WeekReady == \A d \in DaysTold : Effective(d) /\ Covers(d, DaySources(d))

\* Mutant of Open: a period with an effective card is done.
OpenUncarded(p) ==
  /\ PeriodSources(p) # {} /\ p \notin past
  /\ IF p = Week THEN today > Days /\ WeekReady ELSE p < today /\ p \in ripe
  /\ ~Effective(p)
  /\ retry[p] # PeriodSources(p)

\* A period that is due: its sources are not all in an effective card, and it is not
\* waiting to try again with the same ones.  Only recent days and weeks are looked at.
Open(p) ==
  /\ PeriodSources(p) # {} /\ p \notin past
  /\ IF p = Week THEN today > Days /\ WeekReady ELSE p < today /\ p \in ripe
  /\ ~(Effective(p) /\ Covers(p, PeriodSources(p)))
  /\ retry[p] # PeriodSources(p)

\* Days go first, the latest first.
NextPeriod == {p \in Period : Open(p) /\ \A q \in Period : Open(q) => q <= p}

----------------------------------------------------------------------------
(* A cycle: maintainOne.                                                   *)

Generation(p) ==
  [period |-> p, sources |-> PeriodSources(p),
   of |-> IF p = Week THEN [d \in {d \in Day : card[d] # None} |-> Content(d)] ELSE << >>]

Cycle ==
  /\ up /\ CycleBegins
  /\ job' = IF NextPeriod = {} THEN None ELSE Generation(CHOOSE p \in NextPeriod : TRUE)
  /\ overlooked' = IF Week \in NextPeriod THEN {} ELSE overlooked
  /\ UNCHANGED <<store, up, unwritten, bounds>>

CycleIdles ==
  /\ up /\ job = None /\ CycleEnds
  /\ UNCHANGED <<store, job, up, unwritten, overlooked, bounds>>

\* Mutant of Record: the card takes the sources as they are when it is done.
RecordLate ==
  LET p == job.period IN
  card' = [card EXCEPT ![p] =
    [version |-> (IF @ = None THEN 0 ELSE @.version) + 1, sources |-> PeriodSources(p),
     content |-> Told(job.sources, job.of)]]

\* The line of cards.jsonl, with the sources the generation began with.
Record ==
  LET p == job.period IN
  card' = [card EXCEPT ![p] =
    [version |-> (IF @ = None THEN 0 ELSE @.version) + 1, sources |-> job.sources,
     content |-> Told(job.sources, job.of)]]

\* A file that cards rest on is written: the cards there are count as changed, but
\* one is not seen to be when it was created less than a second before.
Changed(rest, unseen) ==
  [q \in Period |-> changed[q] \/ (q \in rest \ unseen /\ card[q] # None)]

\* The new card is as late as can be; for the week's a day card's file changed.
AfterWrite(p, unseen) == [Changed({Week}, unseen) EXCEPT ![p] = FALSE]

Duplicate(p) == Effective(p) /\ card[p].sources = job.sources

\* The model has answered: the card is appended, its file replaced, its coverage
\* recorded as complete.
Complete ==
  /\ job # None
  /\ IF Duplicate(job.period) THEN UNCHANGED <<card, markdown, changed, retry, unwritten>>
     ELSE /\ Record
          /\ markdown' = [markdown EXCEPT ![job.period] = Told(job.sources, job.of)]
          /\ \E unseen \in SUBSET {Week} : changed' = AfterWrite(job.period, unseen)
          /\ retry' = [retry EXCEPT ![job.period] = None]
          /\ unwritten' = unwritten \ {job.period}
  /\ CycleEnds /\ job' = None
  /\ UNCHANGED <<place, today, ripe, past, up, overlooked, bounds>>

\* The card is appended but its file is not replaced: the write fails, which is
\* only logged, or the process dies before it.
Half ==
  /\ job # None /\ ~Duplicate(job.period) /\ Trouble
  /\ Record
  /\ changed' = [changed EXCEPT ![job.period] = FALSE]
  /\ retry' = [retry EXCEPT ![job.period] = None]
  /\ unwritten' = IF markdown[job.period] = None THEN unwritten
                  ELSE unwritten \cup {job.period}
  /\ job' = None
  /\ UNCHANGED <<place, markdown, today, ripe, past, overlooked, edits>>

FileFails == Half /\ CycleEnds /\ UNCHANGED up
DieHalfway == Half /\ LoopLost /\ up' = FALSE

\* With the same sources the period waits for its time.
RecordPending == retry' = [retry EXCEPT ![job.period] = job.sources]

\* The generation fails: no answer, an empty or injected one, or one that is cut off
\* again and again.
GenerationFails ==
  /\ job # None /\ Trouble
  /\ RecordPending
  /\ CycleEnds /\ job' = None
  /\ UNCHANGED <<place, card, markdown, changed, today, ripe, past, up, unwritten,
                 overlooked, edits>>

RetryDue(p) ==
  /\ retry[p] # None /\ retry' = [retry EXCEPT ![p] = None]
  /\ UNCHANGED <<place, card, markdown, changed, today, ripe, past, job, up, unwritten,
                 overlooked, bounds, loopVars>>

----------------------------------------------------------------------------
(* What goes on around it.                                                 *)

Commit(t) ==
  /\ up /\ place[t] = "none" /\ DayOf[t] = today
  /\ place' = [place EXCEPT ![t] = "active"]
  /\ Trigger
  /\ UNCHANGED <<card, markdown, changed, retry, today, ripe, past, job, up, unwritten,
                 overlooked, bounds>>

FoldTurn(t) ==
  /\ up /\ place[t] = "active"
  /\ place' = [place EXCEPT ![t] = "folded"]
  /\ UNCHANGED <<card, markdown, changed, retry, today, ripe, past, job, up, unwritten,
                 overlooked, bounds, loopVars>>

NextDay ==
  /\ today <= Days /\ today' = today + 1
  /\ UNCHANGED <<place, card, markdown, changed, retry, ripe, past, job, up, unwritten,
                 overlooked, bounds, loopVars>>

\* The day's last scene has been over for a while, or the latest hour has come.
Ripen(d) ==
  /\ d < today /\ d \notin ripe /\ ripe' = ripe \cup {d}
  /\ UNCHANGED <<place, card, markdown, changed, retry, today, past, job, up, unwritten,
                 overlooked, bounds, loopVars>>

\* More time goes by, the older days first, until cycles no longer look at a period;
\* which of a week and its days that is first the number of recent weeks decides.
Passes(p) ==
  /\ today > Days /\ p \notin past
  /\ \A d \in Day : p \in Day /\ d < p => d \in past
  /\ past' = past \cup {p}
  /\ UNCHANGED <<place, card, markdown, changed, retry, today, ripe, job, up, unwritten,
                 overlooked, bounds, loopVars>>

\* Mutant of EditCard: the week's card is not held against its days' files.
EditUnseen(d) ==
  /\ edits < MaxEdits /\ edits' = edits + 1
  /\ markdown[d] # None
  /\ markdown' = [markdown EXCEPT ![d].edit = @ + 1]
  /\ overlooked' = IF job # None /\ job.period = Week THEN overlooked \cup {d}
                   ELSE overlooked
  /\ UNCHANGED <<place, card, changed, retry, today, ripe, past, job, up, unwritten,
                 troubles, loopVars>>

\* Somebody edits the file of a day card.
EditCard(d) ==
  /\ edits < MaxEdits /\ edits' = edits + 1
  /\ markdown[d] # None
  /\ markdown' = [markdown EXCEPT ![d].edit = @ + 1]
  /\ \E unseen \in SUBSET {Week} :
       /\ changed' = Changed({Week}, unseen)
       /\ overlooked' = IF unseen # {} \/ (job # None /\ job.period = Week)
                        THEN overlooked \cup {d} ELSE overlooked
  /\ UNCHANGED <<place, card, retry, today, ripe, past, job, up, unwritten, troubles,
                 loopVars>>

\* Somebody saves a day's fold log.
TouchFoldLog(d) ==
  /\ edits < MaxEdits /\ edits' = edits + 1
  /\ \E unseen \in SUBSET {d, Week} : changed' = Changed({d, Week}, unseen)
  /\ UNCHANGED <<place, card, markdown, retry, today, ripe, past, job, up, unwritten,
                 overlooked, troubles, loopVars>>

StopLoop ==
  /\ up /\ Trouble /\ Stop
  /\ UNCHANGED <<store, job, up, unwritten, overlooked, edits>>

\* The process exits once the loop is stopped, or dies at any time.
Die ==
  /\ up /\ up' = FALSE
  /\ IF stopped THEN UNCHANGED troubles ELSE Trouble
  /\ job' = None /\ LoopLost
  /\ UNCHANGED <<store, unwritten, overlooked, edits>>

Boot ==
  /\ ~up /\ up' = TRUE /\ Start
  /\ UNCHANGED <<store, job, unwritten, overlooked, bounds>>

Next ==
  \/ Cycle \/ CycleIdles \/ Complete \/ FileFails \/ DieHalfway \/ GenerationFails
  \/ \E p \in Period : RetryDue(p) \/ Passes(p)
  \/ \E t \in Turn : Commit(t) \/ FoldTurn(t)
  \/ \E d \in Day : Ripen(d) \/ EditCard(d) \/ TouchFoldLog(d)
  \/ NextDay \/ StopLoop \/ Die \/ Boot

\* Time passes, timers fire, model calls end by their timeouts, and a process that
\* is gone is started again.
Fairness ==
  /\ WF_vars(Cycle) /\ WF_vars(CycleIdles)
  /\ WF_vars(Complete \/ FileFails \/ GenerationFails)
  /\ WF_vars(stopped /\ Die) /\ WF_vars(Boot) /\ WF_vars(NextDay)
  /\ \A d \in Day : WF_vars(Ripen(d))
  /\ \A p \in Period : WF_vars(RetryDue(p))

Spec == Init /\ [][Next]_vars /\ Fairness

----------------------------------------------------------------------------
(* Properties.                                                             *)

\* What a card claims to cover it tells of, however the conversation was folded
\* and files were edited while it was generated, unless its file could not be
\* replaced: the older file then speaks for the newer card, for good
\* (memory-card-store.js:137-166, 299-316).
CoveredIsTold ==
  \A p \in Period : card[p] # None /\ p \notin unwritten =>
    card[p].sources \subseteq Content(p).told

\* A week card that is taken for good tells of the day cards as they read now, unless
\* one was edited while it was generated or within a second of it: the edit counts as
\* older than the card and is not noticed again (memory-card-files.js:262-293).
WeekReadsAsItsDays ==
  Effective(Week) /\ Covers(Week, WeekSources) /\ Week \notin unwritten =>
    \A d \in DaysTold : card[d] # None /\ d \notin overlooked \cup unwritten =>
      d \in DOMAIN Content(Week).of /\ Content(Week).of[d] = Content(d)

\* A period has all it has to tell in an effective card.
IsTold(p) == PeriodSources(p) # {} => Effective(p) /\ Covers(p, PeriodSources(p))

\* The code gives up on a period that it no longer looks at, and on a week of which it
\* no longer looks at a day that is not told (memory-card-manager.js:579, 660).
GivenUp(p) == p \in past \/ (p = Week /\ \E d \in past : ~IsTold(d))

\* In the end every day with anything to tell has an effective card that covers it,
\* and so has the week, whatever fails, stops or dies on the way, unless that goes on
\* until the period is too old to be looked at.
EverythingIsTold == <>[](\A p \in Period : GivenUp(p) \/ IsTold(p))

=============================================================================
