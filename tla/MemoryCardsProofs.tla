-------------------------- MODULE MemoryCardsProofs --------------------------
(***************************************************************************)
(* What holds of the cards and of the loop that has them written for any   *)
(* number of days, turns, edits and failures: no trigger is lost, a card's *)
(* sources are told, and a week that is taken for good reads as its days.  *)
(***************************************************************************)
EXTENDS MemoryCards, TLAPS

-----------------------------------------------------------------------------
(* The inductive invariant.                                                *)

\* The generation under way: its period, its sources and what it will say.
Generated(g) ==
  /\ g.period \in Period
  /\ g.sources \subseteq Source(g.period)
  /\ Told(g.sources, g.of) \in Text(g.period)

AnyCard == UNION {Card(p) : p \in Period}
AnyText == UNION {Text(p) : p \in Period}

LoopTypeOK ==
  /\ timer \in {"none", "now", "later"}
  /\ running \in BOOLEAN /\ runAgain \in BOOLEAN
  /\ stopped \in BOOLEAN /\ asked \in BOOLEAN

TypeOK ==
  /\ place \in [Turn -> {"none", "active", "folded"}]
  /\ card \in [Period -> AnyCard \cup {None}]
  /\ markdown \in [Period -> AnyText \cup {None}]
  /\ \A p \in Period : /\ card[p] # None => card[p] \in Card(p)
                       /\ markdown[p] # None => markdown[p] \in Text(p)
  /\ changed \in [Period -> BOOLEAN]
  /\ retry \in [Period -> (SUBSET (TurnSource \cup CardSource)) \cup {None}]
  /\ today \in 1 .. Days + 1 /\ ripe \subseteq Day /\ past \subseteq Period
  /\ job # None => Generated(job)
  /\ up \in BOOLEAN
  /\ unwritten \subseteq Period /\ overlooked \subseteq Day
  /\ edits \in 0 .. MaxEdits /\ troubles \in 0 .. MaxTroubles
  /\ LoopTypeOK

\* The timer is set only between two cycles, and a generation is part of one.
LoopInv ==
  /\ TimerTellsWhatIsDue
  /\ running => timer = "none"
  /\ ~up => ~running
  /\ job # None => running

\* A day with a card has sources: they are folded but never go.
CardedAreTold == \A d \in Day : card[d] # None => d \in DaysTold

\* The week's card rests on versions that its days' cards have reached.
VersionInv ==
  card[Week] # None =>
    \A d \in Day : \A v \in Nat :
      <<"card", d, v>> \in card[Week].sources => card[d] # None /\ v <= card[d].version

\* While a week is generated its sources stay the cards of its days, and it says
\* of each what it still reads, unless somebody edited it meanwhile.
WeekInv(g) ==
  /\ g.sources = WeekSources
  /\ ~(Effective(Week) /\ Covers(Week, WeekSources))
  /\ \A d \in Day : card[d] # None /\ d \notin overlooked =>
       d \in DOMAIN g.of /\ g.of[d] = Content(d)

JobInv ==
  job # None => IF job.period = Week THEN WeekInv(job) ELSE job.period \in DaysTold

IInv ==
  /\ TypeOK /\ LoopInv /\ CoveredIsTold /\ CardedAreTold /\ VersionInv /\ JobInv
  /\ WeekReadsAsItsDays

-----------------------------------------------------------------------------
(* Facts about the operators.                                              *)

LEMMA Periods ==
  /\ Week \notin Day /\ Week \in Period
  /\ Day \subseteq Period /\ Day \subseteq Nat
  /\ \A p \in Period : p = Week \/ p \in Day
BY CardsAssumption DEF Week, Day, Period

\* A turn that is there is a source of its day.
LEMMA ToldDays ==
  ASSUME place \in [Turn -> {"none", "active", "folded"}], NEW d \in Day
  PROVE  /\ d \in DaysTold <=> \E t \in Turn : DayOf[t] = d /\ place[t] # "none"
         /\ DaySources(d) \subseteq TurnSource
<1>1. ASSUME NEW t \in Turn
      PROVE  /\ SourcesOf(t) \subseteq TurnSource
             /\ SourcesOf(t) # {} <=> place[t] # "none"
  <2>1. <<"turn", t>> \in TurnSource /\ <<"window", t>> \in TurnSource
        /\ <<"log", t>> \in TurnSource
    BY <1>1 DEF TurnSource
  <2>2. CASE place[t] = "none" BY <2>2 DEF SourcesOf
  <2>3. CASE place[t] = "active" BY <2>1, <2>3 DEF SourcesOf
  <2>4. CASE place[t] = "folded"
    <3>1. SourcesOf(t) = {<<"window", t>>, <<"log", t>>} BY <2>4 DEF SourcesOf
    <3> QED BY <2>1, <2>4, <3>1
  <2> QED BY <1>1, <2>2, <2>3, <2>4
<1>2. DaySources(d) # {} <=> \E t \in Turn : DayOf[t] = d /\ SourcesOf(t) # {}
  BY DEF DaySources
<1>3. DaySources(d) \subseteq TurnSource BY <1>1 DEF DaySources
<1> QED BY <1>1, <1>2, <1>3 DEF DaysTold

\* The sources and the text of a generation are of its period's kind.
LEMMA GenerationTyped ==
  ASSUME TypeOK, NEW p \in Period
  PROVE  Generated(Generation(p))
<1>1. p \in Day => DaySources(p) \subseteq TurnSource
  BY ToldDays DEF TypeOK
<1>2. WeekSources \subseteq CardSource
  <2> SUFFICES ASSUME NEW d \in DaysTold, card[d] # None
               PROVE  <<"card", d, card[d].version>> \in CardSource
    BY DEF WeekSources
  <2>1. d \in Day BY DEF DaysTold
  <2>2. card[d].version \in Nat BY <2>1, Periods DEF TypeOK, Card
  <2> QED BY <2>1, <2>2 DEF CardSource
<1>3. PeriodSources(p) \subseteq Source(p)
  BY <1>1, <1>2, Periods DEF PeriodSources, Source
<1>4. ASSUME p = Week PROVE Told(PeriodSources(p), Generation(p).of) \in Text(p)
  <2> DEFINE D == {d \in Day : card[d] # None}
  <2>1. Generation(p).of = [d \in D |-> Content(d)] BY <1>4 DEF Generation
  <2>2. ASSUME NEW d \in D PROVE Content(d) \in DayText
    BY Periods DEF TypeOK, Content, Card, Text
  <2>3. Generation(p).of \in [D -> DayText] BY <2>1, <2>2
  <2>4. D \in SUBSET Day OBVIOUS
  <2>5. Generation(p).of \in UNION {[E -> DayText] : E \in SUBSET Day}
    BY <2>3, <2>4
  <2> QED BY <2>5, <1>2, <1>4 DEF Told, Text, WeekText, PeriodSources
<1>5. ASSUME p # Week PROVE Told(PeriodSources(p), Generation(p).of) \in Text(p)
  BY <1>5, <1>1, Periods DEF Generation, Told, Text, DayText, PeriodSources
<1> QED BY <1>3, <1>4, <1>5 DEF Generated, Generation

\* A week's sources are the cards of its days, whichever are told.
LEMMA WeekSourcesAre ==
  /\ CardedAreTold =>
       WeekSources = {<<"card", d, card[d].version>> : d \in {d \in Day : card[d] # None}}
  /\ CardedAreTold' =>
       WeekSources' =
         {<<"card", d, card'[d].version>> : d \in {d \in Day : card'[d] # None}}
BY DEF WeekSources, CardedAreTold, DaysTold

\* A turn that is there stays there, so a day that is told stays told.
LEMMA ToldGrows ==
  ASSUME place \in [Turn -> {"none", "active", "folded"}],
         place' \in [Turn -> {"none", "active", "folded"}],
         \A t \in Turn : place[t] # "none" => place'[t] # "none"
  PROVE  DaysTold \subseteq DaysTold'
<1> SUFFICES ASSUME NEW d \in DaysTold PROVE d \in DaysTold'
  OBVIOUS
<1>1. d \in Day BY DEF DaysTold
<1>2. PICK t \in Turn : DayOf[t] = d /\ place[t] # "none" BY <1>1, ToldDays
<1>3. SourcesOf(t)' # {}
  BY <1>2 DEF SourcesOf
<1> QED BY <1>1, <1>2, <1>3 DEF DaysTold, DaySources

-----------------------------------------------------------------------------
(* The shapes of a step.                                                   *)

\* The loop's own moves, with what goes along with each.
LEMMA LoopMoves ==
  ASSUME LoopTypeOK, up \in BOOLEAN, LoopInv,
         \/ CycleBegins /\ up /\ up' = up
         \/ CycleEnds /\ up' = up /\ job' = None
         \/ LoopLost /\ up' = FALSE /\ job' = None
         \/ (Trigger \/ Stop \/ UNCHANGED loopVars) /\ UNCHANGED <<up, job>>
         \/ Start /\ ~up /\ up' /\ job' = job
  PROVE  LoopInv' /\ LoopTypeOK'
<1> USE DEF LoopTypeOK, LoopInv, TimerTellsWhatIsDue
<1>1. CASE CycleBegins /\ up /\ up' = up BY <1>1 DEF CycleBegins
<1>2. CASE CycleEnds /\ up' = up /\ job' = None BY <1>2 DEF CycleEnds, Schedule
<1>3. CASE LoopLost /\ up' = FALSE /\ job' = None BY <1>3 DEF LoopLost
<1>4. CASE Trigger /\ UNCHANGED <<up, job>> BY <1>4 DEF Trigger, Schedule
<1>5. CASE Stop /\ UNCHANGED <<up, job>> BY <1>5 DEF Stop
<1>6. CASE UNCHANGED loopVars /\ UNCHANGED <<up, job>> BY <1>6 DEF loopVars
<1>7. CASE Start /\ ~up /\ up' /\ job' = job BY <1>7 DEF Start
<1> QED BY <1>1, <1>2, <1>3, <1>4, <1>5, <1>6, <1>7

\* Cards and files stay as they are: nothing the cards claim is disturbed, and a
\* generation goes on or is gone.
LEMMA QuietKeeps ==
  ASSUME IInv, TypeOK', LoopInv',
         UNCHANGED <<card, markdown, unwritten, overlooked>>,
         \A p \in Period : changed[p] => changed'[p],
         DaysTold \subseteq DaysTold',
         job' = job \/ job' = None
  PROVE  IInv'
<1> USE Periods
<1>1. CardedAreTold' BY DEF IInv, CardedAreTold
<1>2. WeekSources' = WeekSources BY <1>1, WeekSourcesAre DEF IInv
<1>3. CoveredIsTold' BY DEF IInv, CoveredIsTold, Content
<1>4. VersionInv' BY DEF IInv, VersionInv
<1>5. \A p \in Period : Effective(p)' => Effective(p) BY DEF Effective
<1>6. Covers(Week, WeekSources)' <=> Covers(Week, WeekSources) BY <1>2 DEF Covers
<1>7. \A p \in Period : Content(p)' = Content(p) BY DEF Content
<1>8. WeekReadsAsItsDays'
  <2> SUFFICES ASSUME Effective(Week)', Covers(Week, WeekSources)', Week \notin unwritten',
                      NEW d \in DaysTold', card'[d] # None,
                      d \notin (overlooked \cup unwritten)'
               PROVE  (d \in DOMAIN Content(Week).of /\ Content(Week).of[d] = Content(d))'
    BY DEF WeekReadsAsItsDays
  <2>1. d \in Day BY DEF DaysTold
  <2>2. d \in DaysTold BY <2>1 DEF IInv, CardedAreTold
  <2> QED BY <1>5, <1>6, <1>7, <2>1, <2>2 DEF IInv, WeekReadsAsItsDays
<1>9. JobInv'
  BY <1>2, <1>5, <1>6, <1>7 DEF IInv, JobInv, WeekInv, TypeOK, Generated
<1> QED BY <1>1, <1>3, <1>4, <1>8, <1>9 DEF IInv

-----------------------------------------------------------------------------
(* Steps that leave cards and files alone.                                 *)

\* An idle cycle ends, a failed one leaves its sources to be tried again, and a
\* retry comes due.
LEMMA IdlingKeeps ==
  ASSUME IInv, CycleIdles \/ GenerationFails \/ \E p \in Period : RetryDue(p)
  PROVE  IInv'
<1> USE Periods
<1>1. DaysTold' = DaysTold
  BY DEF CycleIdles, GenerationFails, RetryDue, store, DaysTold, DaySources, SourcesOf
<1>2. CASE CycleIdles
  <2>1. (LoopInv /\ LoopTypeOK)' BY <1>2, LoopMoves DEF IInv, TypeOK, CycleIdles
  <2>2. TypeOK' BY <1>2, <2>1 DEF IInv, TypeOK, CycleIdles, store, bounds
  <2> QED BY <1>1, <1>2, <2>1, <2>2, QuietKeeps DEF CycleIdles, store
<1>3. CASE GenerationFails
  <2>1. (LoopInv /\ LoopTypeOK)' BY <1>3, LoopMoves DEF IInv, TypeOK, GenerationFails
  <2>2. job.period \in Period /\ job.sources \in SUBSET (TurnSource \cup CardSource)
    BY <1>3 DEF IInv, TypeOK, Generated, GenerationFails, Source
  <2>3. TypeOK'
    BY <1>3, <2>1, <2>2, CardsAssumption
       DEF IInv, TypeOK, GenerationFails, RecordPending, Trouble
  <2> QED BY <1>1, <1>3, <2>1, <2>3, QuietKeeps DEF GenerationFails
<1>4. CASE \E p \in Period : RetryDue(p)
  <2>1. (LoopInv /\ LoopTypeOK)' BY <1>4, LoopMoves DEF IInv, TypeOK, RetryDue
  <2>2. TypeOK' BY <1>4, <2>1 DEF IInv, TypeOK, RetryDue, bounds
  <2> QED BY <1>1, <1>4, <2>1, <2>2, QuietKeeps DEF RetryDue
<1> QED BY <1>2, <1>3, <1>4

\* Turns are committed, which triggers the loop, and folded; days go by.
LEMMA LivingKeeps ==
  ASSUME IInv,
         \/ \E t \in Turn : Commit(t) \/ FoldTurn(t)
         \/ NextDay \/ (\E d \in Day : Ripen(d)) \/ \E p \in Period : Passes(p)
  PROVE  IInv'
<1> USE Periods
<1>1. CASE \E t \in Turn : Commit(t)
  <2>1. (LoopInv /\ LoopTypeOK)' BY <1>1, LoopMoves DEF IInv, TypeOK, Commit
  <2>2. TypeOK' BY <1>1, <2>1 DEF IInv, TypeOK, Commit, bounds
  <2>3. \A t \in Turn : place[t] # "none" => place'[t] # "none"
    BY <1>1 DEF Commit, IInv, TypeOK
  <2>4. DaysTold \subseteq DaysTold' BY <2>2, <2>3, ToldGrows DEF IInv, TypeOK
  <2> QED BY <1>1, <2>1, <2>2, <2>4, QuietKeeps DEF Commit
<1>2. CASE \E t \in Turn : FoldTurn(t)
  <2>1. (LoopInv /\ LoopTypeOK)' BY <1>2, LoopMoves DEF IInv, TypeOK, FoldTurn
  <2>2. TypeOK' BY <1>2, <2>1 DEF IInv, TypeOK, FoldTurn, bounds
  <2>3. \A t \in Turn : place[t] # "none" => place'[t] # "none"
    BY <1>2 DEF FoldTurn, IInv, TypeOK
  <2>4. DaysTold \subseteq DaysTold' BY <2>2, <2>3, ToldGrows DEF IInv, TypeOK
  <2> QED BY <1>2, <2>1, <2>2, <2>4, QuietKeeps DEF FoldTurn
<1>3. CASE NextDay \/ (\E d \in Day : Ripen(d)) \/ \E p \in Period : Passes(p)
  <2>1. (LoopInv /\ LoopTypeOK)' BY <1>3, LoopMoves DEF IInv, TypeOK, NextDay, Ripen, Passes
  <2>2. TypeOK'
    <3>1. today' \in 1 .. Days + 1 /\ ripe' \subseteq Day
      <4>1. today \in 1 .. Days + 1 /\ ripe \subseteq Day /\ Days \in Nat
        BY CardsAssumption DEF IInv, TypeOK
      <4>2. CASE NextDay
        <5>1. today <= Days /\ today' = today + 1 /\ ripe' = ripe BY <4>2 DEF NextDay
        <5> QED BY <4>1, <5>1
      <4>3. CASE \E d \in Day : Ripen(d) BY <4>1, <4>3 DEF Ripen
      <4>4. CASE \E p \in Period : Passes(p) BY <4>1, <4>4 DEF Passes
      <4> QED BY <1>3, <4>2, <4>3, <4>4
    <3>2. past' \subseteq Period BY <1>3 DEF IInv, TypeOK, NextDay, Ripen, Passes
    <3> QED BY <1>3, <2>1, <3>1, <3>2 DEF IInv, TypeOK, NextDay, Ripen, Passes, bounds
  <2>3. DaysTold' = DaysTold
    BY <1>3 DEF NextDay, Ripen, Passes, DaysTold, DaySources, SourcesOf
  <2> QED BY <1>3, <2>1, <2>2, <2>3, QuietKeeps DEF NextDay, Ripen, Passes
<1> QED BY <1>1, <1>2, <1>3

\* A fold log is saved; the loop is stopped, the process ends and is started again.
LEMMA StoppingKeeps ==
  ASSUME IInv, (\E d \in Day : TouchFoldLog(d)) \/ StopLoop \/ Die \/ Boot
  PROVE  IInv'
<1> USE Periods
<1>1. DaysTold' = DaysTold
  BY DEF TouchFoldLog, StopLoop, Die, Boot, store, DaysTold, DaySources, SourcesOf
<1>2. CASE \E d \in Day : TouchFoldLog(d)
  <2>1. (LoopInv /\ LoopTypeOK)' BY <1>2, LoopMoves DEF IInv, TypeOK, TouchFoldLog
  <2>2. TypeOK'
    BY <1>2, <2>1, CardsAssumption DEF IInv, TypeOK, TouchFoldLog, Changed
  <2>3. \A p \in Period : changed[p] => changed'[p] BY <1>2 DEF TouchFoldLog, Changed
  <2> QED BY <1>1, <1>2, <2>1, <2>2, <2>3, QuietKeeps DEF TouchFoldLog
<1>3. CASE StopLoop
  <2>1. (LoopInv /\ LoopTypeOK)' BY <1>3, LoopMoves DEF IInv, TypeOK, StopLoop
  <2>2. TypeOK'
    BY <1>3, <2>1, CardsAssumption DEF IInv, TypeOK, StopLoop, Trouble, store
  <2> QED BY <1>1, <1>3, <2>1, <2>2, QuietKeeps DEF StopLoop, store
<1>4. CASE Die
  <2>1. (LoopInv /\ LoopTypeOK)' BY <1>4, LoopMoves DEF IInv, TypeOK, Die
  <2>2. troubles' \in 0 .. MaxTroubles
    <3>1. troubles' = troubles \/ Trouble BY <1>4, Zenon DEF Die
    <3> QED BY <3>1, CardsAssumption DEF IInv, TypeOK, Trouble
  <2>3. UNCHANGED <<store, unwritten, overlooked, edits>> /\ job' = None /\ up' = FALSE
    BY <1>4 DEF Die
  <2>4. TypeOK' BY <2>1, <2>2, <2>3 DEF IInv, TypeOK, store
  <2> QED BY <1>1, <2>1, <2>3, <2>4, QuietKeeps DEF store
<1>5. CASE Boot
  <2>1. (LoopInv /\ LoopTypeOK)' BY <1>5, LoopMoves DEF IInv, TypeOK, Boot
  <2>2. TypeOK' BY <1>5, <2>1 DEF IInv, TypeOK, Boot, store, bounds
  <2> QED BY <1>1, <1>5, <2>1, <2>2, QuietKeeps DEF Boot, store
<1> QED BY <1>2, <1>3, <1>4, <1>5

-----------------------------------------------------------------------------
(* A generation begins, and a card is edited.                              *)

\* A generation begins with the sources and texts of now; a week's is only begun
\* when its card is not taken for good.
LEMMA CycleKeeps ==
  ASSUME IInv, Cycle
  PROVE  IInv'
<1> USE Periods
<1>1. /\ UNCHANGED <<place, card, markdown, changed, retry, today, ripe, past>>
      /\ UNCHANGED <<up, unwritten, edits, troubles>>
  BY DEF Cycle, store, bounds
<1>2. (LoopInv /\ LoopTypeOK)' BY LoopMoves DEF IInv, TypeOK, Cycle
<1>3. /\ DaysTold' = DaysTold /\ WeekSources' = WeekSources
      /\ \A p \in Period : Content(p)' = Content(p) /\ (Effective(p)' <=> Effective(p))
  BY <1>1 DEF DaysTold, DaySources, SourcesOf, WeekSources, Content, Effective
<1>4. Covers(Week, WeekSources)' <=> Covers(Week, WeekSources) BY <1>1, <1>3 DEF Covers
<1>5. CoveredIsTold' /\ CardedAreTold' /\ VersionInv'
  BY <1>1, <1>3 DEF IInv, CoveredIsTold, CardedAreTold, VersionInv
<1>6. CASE NextPeriod = {}
  <2>1. job' = None /\ overlooked' = overlooked BY <1>6 DEF Cycle
  <2>2. TypeOK' BY <1>1, <1>2, <2>1 DEF IInv, TypeOK
  <2> QED BY <1>1, <1>2, <1>3, <2>1, <2>2, QuietKeeps
<1>7. CASE NextPeriod # {}
  <2>1. PICK p : p = CHOOSE q \in NextPeriod : TRUE OBVIOUS
  <2>2. p \in NextPeriod BY <1>7, <2>1
  <2>3. p \in Period /\ Open(p) /\ \A q \in Period : Open(q) => q <= p
    BY <2>2 DEF NextPeriod
  <2>4. job' = Generation(p) BY <1>7, <2>1 DEF Cycle
  <2>5. Generated(job)'
    <3>1. Generated(Generation(p)) BY <2>3, GenerationTyped DEF IInv
    <3> QED BY <2>4, <3>1 DEF Generated
  <2>6. overlooked' = {} \/ overlooked' = overlooked BY DEF Cycle
  <2>7. TypeOK' BY <1>1, <1>2, <2>5, <2>6 DEF IInv, TypeOK
  <2>8. Week \in NextPeriod <=> p = Week
    <3>1. \A q \in Day : 0 < q BY DEF Day
    <3>2. Week \in NextPeriod => p <= Week BY <2>3 DEF NextPeriod
    <3> QED BY <2>2, <2>3, <3>1, <3>2 DEF Week
  <2>9. CASE p = Week
    <3>1. overlooked' = {} BY <2>8, <2>9 DEF Cycle
    <3>2. ~(Effective(Week) /\ Covers(Week, WeekSources))
      BY <2>3, <2>9 DEF Open, PeriodSources
    <3>3. /\ job'.period = Week /\ job'.sources = WeekSources
          /\ job'.of = [d \in {d \in Day : card[d] # None} |-> Content(d)]
      BY <2>4, <2>9 DEF Generation, PeriodSources
    <3>4. \A d \in Day : card[d] # None =>
            d \in DOMAIN job'.of /\ job'.of[d] = Content(d)
      BY <3>3
    <3>5. WeekInv(job)' BY <1>1, <1>3, <1>4, <3>2, <3>3, <3>4 DEF WeekInv
    <3>6. JobInv' BY <3>3, <3>5 DEF JobInv
    <3>7. WeekReadsAsItsDays' BY <1>3, <1>4, <3>2 DEF WeekReadsAsItsDays
    <3> QED BY <1>2, <1>5, <2>7, <3>6, <3>7 DEF IInv
  <2>10. CASE p # Week
    <3>1. overlooked' = overlooked BY <2>8, <2>10 DEF Cycle
    <3>2. job'.period = p BY <2>4 DEF Generation
    <3>3. p \in DaysTold BY <2>3, <2>10 DEF Open, PeriodSources, DaysTold
    <3>4. JobInv' BY <1>3, <2>10, <3>2, <3>3 DEF JobInv
    <3>5. WeekReadsAsItsDays'
      BY <1>1, <1>3, <1>4, <3>1, Zenon DEF IInv, WeekReadsAsItsDays, DaysTold
    <3> QED BY <1>2, <1>5, <2>7, <3>4, <3>5 DEF IInv
  <2> QED BY <2>9, <2>10
<1> QED BY <1>6, <1>7

\* Somebody edits a day: it still tells its sources, and a week that rests on it is
\* stale or counts it as overlooked.
LEMMA EditKeeps ==
  ASSUME IInv, NEW d \in Day, EditCard(d)
  PROVE  IInv'
<1> USE Periods
<1>1. /\ UNCHANGED <<place, card, retry, today, ripe, past, job, up, unwritten, troubles>>
      /\ UNCHANGED loopVars
      /\ markdown[d] # None /\ edits < MaxEdits /\ edits' = edits + 1
      /\ markdown' = [markdown EXCEPT ![d].edit = @ + 1]
      /\ overlooked' \in {overlooked, overlooked \cup {d}}
      /\ job # None /\ job.period = Week => overlooked' = overlooked \cup {d}
      /\ changed' \in [Period -> BOOLEAN]
      /\ \A p \in Period : changed[p] => changed'[p]
      /\ card[Week] # None => changed'[Week] \/ d \in overlooked'
  BY DEF EditCard, Changed, IInv, TypeOK
<1>2. (LoopInv /\ LoopTypeOK)' BY <1>1, LoopMoves DEF IInv, TypeOK
<1>3. markdown[d] \in DayText BY <1>1 DEF IInv, TypeOK, Text
<1>4. /\ markdown'[d] \in DayText /\ markdown'[d].told = markdown[d].told
      /\ markdown'[d] # None
      /\ \A q \in Period : q # d => markdown'[q] = markdown[q]
      /\ markdown' \in [Period -> AnyText \cup {None}]
  <2>1. markdown'[d] = [markdown[d] EXCEPT !.edit = @ + 1] BY <1>1 DEF IInv, TypeOK
  <2>2. markdown'[d] \in DayText /\ markdown'[d].told = markdown[d].told
    BY <1>3, <2>1 DEF DayText
  <2>3. markdown'[d] # None BY <2>2, CardsAssumption DEF Text
  <2>4. \A q \in Period : q # d => markdown'[q] = markdown[q]
    BY <1>1 DEF IInv, TypeOK
  <2>5. markdown'[d] \in Text(d) BY <2>2 DEF Text
  <2>6. \A q \in Period : markdown'[q] \in AnyText \cup {None}
    BY <2>4, <2>5 DEF IInv, TypeOK, AnyText
  <2>7. markdown' = [q \in Period |-> markdown'[q]] BY <1>1 DEF IInv, TypeOK
  <2> QED BY <2>2, <2>3, <2>4, <2>6, <2>7
<1>5. TypeOK'
  <2>1. \A p \in Period : markdown'[p] # None => markdown'[p] \in Text(p)
    BY <1>4 DEF IInv, TypeOK, Text
  <2>2. changed' \in [Period -> BOOLEAN] BY <1>1
  <2>3. edits' \in 0 .. MaxEdits BY <1>1, CardsAssumption DEF IInv, TypeOK
  <2>4. overlooked' \subseteq Day BY <1>1 DEF IInv, TypeOK
  <2> QED BY <1>1, <1>2, <1>4, <2>1, <2>2, <2>3, <2>4 DEF IInv, TypeOK, Generated
<1>6. /\ DaysTold' = DaysTold /\ WeekSources' = WeekSources
      /\ \A p \in Period : p # d => Content(p)' = Content(p)
  BY <1>1, <1>4 DEF DaysTold, DaySources, SourcesOf, WeekSources, Content
<1>7. /\ Effective(Week)' => Effective(Week) /\ d \in overlooked'
      /\ Covers(Week, WeekSources)' <=> Covers(Week, WeekSources)
  BY <1>1, <1>6 DEF Effective, Covers
<1>8. CoveredIsTold'
  <2>1. Content(d).told = Content(d)'.told BY <1>1, <1>4 DEF Content
  <2> QED BY <1>1, <1>6, <2>1 DEF IInv, CoveredIsTold
<1>9. CardedAreTold' /\ VersionInv'
  BY <1>1, <1>6 DEF IInv, CardedAreTold, VersionInv
<1>10. WeekReadsAsItsDays'
  <2> SUFFICES ASSUME Effective(Week)', Covers(Week, WeekSources)', Week \notin unwritten',
                      NEW e \in DaysTold', card'[e] # None,
                      e \notin (overlooked \cup unwritten)'
               PROVE  (e \in DOMAIN Content(Week).of /\ Content(Week).of[e] = Content(e))'
    BY DEF WeekReadsAsItsDays
  <2>1. e # d /\ e \in DaysTold /\ e \in Period BY <1>6, <1>7 DEF DaysTold
  <2>2. e \notin overlooked \cup unwritten BY <1>1
  <2> QED BY <1>1, <1>6, <1>7, <2>1, <2>2 DEF IInv, WeekReadsAsItsDays
<1>11. JobInv'
  <2>1. CASE job # None /\ job.period = Week
    <3>1. overlooked' = overlooked \cup {d} BY <1>1, <2>1
    <3>2. WeekInv(job) BY <2>1 DEF IInv, JobInv
    <3>3. WeekInv(job)' BY <1>1, <1>6, <1>7, <3>1, <3>2 DEF WeekInv
    <3> QED BY <1>1, <2>1, <3>3 DEF JobInv
  <2>2. CASE ~(job # None /\ job.period = Week)
    BY <1>1, <1>6, <2>2 DEF IInv, JobInv
  <2> QED BY <2>1, <2>2
<1> QED BY <1>2, <1>5, <1>8, <1>9, <1>10, <1>11 DEF IInv

-----------------------------------------------------------------------------
(* A card is recorded.                                                     *)

\* The new card: a later version that claims and tells the generation's sources.
LEMMA RecordFacts ==
  ASSUME TypeOK, job # None, Record, NEW p, p = job.period
  PROVE  /\ p \in Period
         /\ card' \in [Period -> AnyCard \cup {None}]
         /\ card'[p] \in Card(p) /\ card'[p] # None
         /\ card'[p].sources = job.sources
         /\ card'[p].content = Told(job.sources, job.of)
         /\ Told(job.sources, job.of) \in Text(p)
         /\ card[p] # None => card[p].version < card'[p].version
         /\ \A q \in Period : q # p => card'[q] = card[q]
<1>1. p \in Period /\ job.sources \subseteq Source(p) /\ Told(job.sources, job.of) \in Text(p)
  BY DEF TypeOK, Generated
<1>2. PICK c : c = [version |-> (IF card[p] = None THEN 0 ELSE card[p].version) + 1,
                    sources |-> job.sources, content |-> Told(job.sources, job.of)]
  OBVIOUS
<1>3. card' = [card EXCEPT ![p] = c] BY <1>2 DEF Record
<1>4. card[p] # None => card[p].version \in Nat BY <1>1 DEF TypeOK, Card
<1>5. c.version \in Nat /\ (card[p] # None => card[p].version < c.version)
  BY <1>2, <1>4
<1>6. c \in Card(p) BY <1>1, <1>2, <1>5 DEF Card
<1>7. c # None BY <1>1, <1>6, CardsAssumption
<1>8. card'[p] = c /\ \A q \in Period : q # p => card'[q] = card[q]
  BY <1>1, <1>3 DEF TypeOK
<1>9. card' \in [Period -> AnyCard \cup {None}]
  BY <1>1, <1>3, <1>6 DEF TypeOK, AnyCard
<1> QED BY <1>1, <1>2, <1>5, <1>6, <1>7, <1>8, <1>9

\* What a recorded card leaves true, whether or not its file follows: the week rests
\* on versions that are there, and no longer covers a day that was recorded anew.
LEMMA RecordKeeps ==
  ASSUME IInv, job # None, Record, UNCHANGED place
  PROVE  /\ CardedAreTold' /\ VersionInv' /\ DaysTold' = DaysTold
         /\ job.period # Week => ~Covers(Week, WeekSources)' \/ card'[Week] = None
<1> USE Periods
<1>1. PICK p : p = job.period OBVIOUS
<1>2. /\ p \in Period
      /\ card'[p] \in Card(p) /\ card'[p] # None
      /\ card'[p].sources = job.sources
      /\ card[p] # None => card[p].version < card'[p].version
      /\ \A q \in Period : q # p => card'[q] = card[q]
  BY <1>1, RecordFacts DEF IInv
<1>3. DaysTold' = DaysTold BY DEF DaysTold, DaySources, SourcesOf
<1>4. CardedAreTold'
  BY <1>1, <1>2, <1>3 DEF IInv, CardedAreTold, JobInv
<1>5. ASSUME NEW d \in Day, card[d] # None PROVE card[d].version \in Nat
  BY <1>5 DEF IInv, TypeOK, Card
<1>6. card'[p].version \in Nat BY <1>2 DEF Card
<1>7. ASSUME p = Week PROVE VersionInv'
  <2> SUFFICES ASSUME NEW d \in Day, NEW v \in Nat, <<"card", d, v>> \in card'[Week].sources
               PROVE  card'[d] # None /\ v <= card'[d].version
    BY DEF VersionInv
  <2>1. <<"card", d, v>> \in WeekSources
    BY <1>1, <1>2, <1>7 DEF IInv, JobInv, WeekInv
  <2>2. card[d] # None /\ v = card[d].version
    BY <2>1 DEF WeekSources
  <2>3. d # p /\ card'[d] = card[d] BY <1>2, <1>7
  <2>4. card[d].version \in Nat BY <1>5, <2>2
  <2> QED BY <2>2, <2>3, <2>4
<1>8. ASSUME p # Week PROVE VersionInv'
  <2> SUFFICES ASSUME card'[Week] # None, NEW d \in Day, NEW v \in Nat,
                      <<"card", d, v>> \in card'[Week].sources
               PROVE  card'[d] # None /\ v <= card'[d].version
    BY DEF VersionInv
  <2>1. card[d] # None /\ v <= card[d].version
    BY <1>2, <1>8 DEF IInv, VersionInv
  <2> QED BY <1>2, <1>5, <1>6, <2>1
<1>9. ASSUME p # Week, card'[Week] # None PROVE ~Covers(Week, WeekSources)'
  <2>1. p \in Day /\ card'[Week] = card[Week] BY <1>2, <1>9
  <2>2. <<"card", p, card'[p].version>> \in WeekSources'
    BY <1>2, <1>4, <2>1 DEF CardedAreTold, WeekSources
  <2>3. SUFFICES ASSUME Covers(Week, WeekSources)' PROVE FALSE OBVIOUS
  <2>4. <<"card", p, card'[p].version>> \in card[Week].sources
    BY <2>1, <2>2, <2>3 DEF Covers
  <2>5. card[p] # None /\ card'[p].version <= card[p].version
    BY <1>6, <1>9, <2>1, <2>4 DEF IInv, VersionInv
  <2>6. card[p].version \in Nat BY <1>5, <2>1, <2>5
  <2>7. card[p].version < card'[p].version BY <1>2, <2>5
  <2> QED BY <1>6, <2>5, <2>6, <2>7
<1> QED BY <1>1, <1>3, <1>4, <1>7, <1>8, <1>9

\* The generation is done and its file is there, or the same card was there before.
LEMMA CompleteKeeps ==
  ASSUME IInv, Complete
  PROVE  IInv'
<1> USE Periods
<1>1. /\ job # None /\ job' = None /\ CycleEnds
      /\ UNCHANGED <<place, today, ripe, past, up, overlooked, edits, troubles>>
  BY DEF Complete, bounds
<1>2. (LoopInv /\ LoopTypeOK)' BY <1>1, LoopMoves DEF IInv, TypeOK
<1>3. CASE Duplicate(job.period)
  <2>1. UNCHANGED <<card, markdown, changed, retry, unwritten>>
    BY <1>3, Zenon DEF Complete
  <2>2. TypeOK' BY <1>1, <1>2, <2>1 DEF IInv, TypeOK
  <2>3. DaysTold' = DaysTold BY <1>1 DEF DaysTold, DaySources, SourcesOf
  <2> QED BY <1>1, <1>2, <2>1, <2>2, <2>3, QuietKeeps
<1>4. CASE ~Duplicate(job.period)
  <2>1. PICK p : p = job.period OBVIOUS
  <2>2. PICK c : c = Told(job.sources, job.of) OBVIOUS
  <2>3. /\ Record /\ markdown' = [markdown EXCEPT ![p] = c]
        /\ \E unseen \in SUBSET {Week} : changed' = AfterWrite(p, unseen)
        /\ retry' = [retry EXCEPT ![p] = None]
        /\ unwritten' = unwritten \ {p}
    BY <1>4, <2>1, <2>2 DEF Complete
  <2>4. /\ p \in Period /\ c \in Text(p)
        /\ card' \in [Period -> AnyCard \cup {None}]
        /\ card'[p] \in Card(p) /\ card'[p] # None
        /\ card'[p].sources = job.sources
        /\ \A q \in Period : q # p => card'[q] = card[q]
    BY <1>1, <2>1, <2>2, <2>3, RecordFacts DEF IInv
  <2>5. c # None BY <2>4, CardsAssumption
  <2>6. /\ markdown' \in [Period -> AnyText \cup {None}]
        /\ markdown'[p] = c
        /\ \A q \in Period : q # p => markdown'[q] = markdown[q]
    BY <2>3, <2>4 DEF IInv, TypeOK, AnyText
  <2>7. changed' \in [Period -> BOOLEAN]
    BY <2>3, <2>4 DEF IInv, TypeOK, AfterWrite, Changed
  <2>8. TypeOK'
    <3>1. retry' \in [Period -> (SUBSET (TurnSource \cup CardSource)) \cup {None}]
      BY <2>3 DEF IInv, TypeOK
    <3>2. \A q \in Period : /\ card'[q] # None => card'[q] \in Card(q)
                            /\ markdown'[q] # None => markdown'[q] \in Text(q)
      BY <2>4, <2>6 DEF IInv, TypeOK
    <3> QED BY <1>1, <1>2, <2>3, <2>4, <2>6, <2>7, <3>1, <3>2 DEF IInv, TypeOK
  <2>9. /\ CardedAreTold' /\ VersionInv' /\ DaysTold' = DaysTold
        /\ p # Week => ~Covers(Week, WeekSources)' \/ card'[Week] = None
    BY <1>1, <2>1, <2>3, RecordKeeps
  <2>10. Content(p)' = c /\ \A q \in Period : q # p => Content(q)' = Content(q)
    BY <2>4, <2>5, <2>6 DEF Content
  <2>11. CoveredIsTold'
    <3>1. c.told = job.sources BY <2>2 DEF Told
    <3>2. card'[p].sources \subseteq Content(p)'.told BY <2>4, <2>10, <3>1
    <3>3. ASSUME NEW q \in Period, q # p, card'[q] # None, q \notin unwritten'
          PROVE  card'[q].sources \subseteq Content(q)'.told
      BY <2>3, <2>4, <2>10, <3>3 DEF IInv, CoveredIsTold
    <3> QED BY <3>2, <3>3 DEF CoveredIsTold
  <2>12. WeekReadsAsItsDays'
    <3>1. CASE p # Week
      BY <2>9, <3>1 DEF WeekReadsAsItsDays, Effective
    <3>2. CASE p = Week
      <4>1. c.of = job.of BY <2>2 DEF Told
      <4>2. \A d \in Day : card'[d] # None /\ d \notin overlooked' =>
              d \in DOMAIN c.of /\ c.of[d] = Content(d)'
        BY <1>1, <2>1, <2>4, <2>10, <3>2, <4>1 DEF IInv, JobInv, WeekInv
      <4>3. Content(Week)' = c BY <2>10, <3>2
      <4> QED BY <2>9, <4>2, <4>3 DEF WeekReadsAsItsDays, DaysTold
    <3> QED BY <3>1, <3>2
  <2>13. JobInv' BY <1>1 DEF JobInv
  <2> QED BY <1>2, <2>8, <2>9, <2>11, <2>12, <2>13 DEF IInv
<1> QED BY <1>3, <1>4

\* The card is recorded and its file is not: a file that was there before speaks for
\* it from now on, which is what counts as unwritten.
LEMMA HalfKeeps ==
  ASSUME IInv, FileFails \/ DieHalfway
  PROVE  IInv'
<1> USE Periods
<1>1. Half BY DEF FileFails, DieHalfway
<1>2. PICK p : p = job.period OBVIOUS
<1>3. /\ job # None /\ job' = None /\ Record
      /\ changed' = [changed EXCEPT ![p] = FALSE]
      /\ retry' = [retry EXCEPT ![p] = None]
      /\ unwritten' = IF markdown[p] = None THEN unwritten ELSE unwritten \cup {p}
      /\ UNCHANGED <<place, markdown, today, ripe, past, overlooked, edits>>
      /\ troubles < MaxTroubles /\ troubles' = troubles + 1
  BY <1>1, <1>2 DEF Half, Trouble
<1>4. (LoopInv /\ LoopTypeOK)' BY <1>3, LoopMoves DEF IInv, TypeOK, FileFails, DieHalfway
<1>5. up' \in BOOLEAN BY DEF FileFails, DieHalfway, IInv, TypeOK
<1>6. /\ p \in Period
      /\ card' \in [Period -> AnyCard \cup {None}]
      /\ card'[p] \in Card(p) /\ card'[p] # None
      /\ card'[p].sources = job.sources /\ card'[p].content = Told(job.sources, job.of)
      /\ \A q \in Period : q # p => card'[q] = card[q]
  BY <1>2, <1>3, RecordFacts DEF IInv
<1>7. TypeOK'
  <2>1. /\ retry' \in [Period -> (SUBSET (TurnSource \cup CardSource)) \cup {None}]
        /\ changed' \in [Period -> BOOLEAN] /\ unwritten' \subseteq Period
    BY <1>3, <1>6 DEF IInv, TypeOK
  <2>2. \A q \in Period : card'[q] # None => card'[q] \in Card(q)
    BY <1>6 DEF IInv, TypeOK
  <2>3. troubles' \in 0 .. MaxTroubles BY <1>3, CardsAssumption DEF IInv, TypeOK
  <2> QED BY <1>3, <1>4, <1>5, <1>6, <2>1, <2>2, <2>3 DEF IInv, TypeOK
<1>8. /\ CardedAreTold' /\ VersionInv' /\ DaysTold' = DaysTold
      /\ p # Week => ~Covers(Week, WeekSources)' \/ card'[Week] = None
  BY <1>2, <1>3, RecordKeeps
<1>9. /\ p \notin unwritten' => Content(p)' = Told(job.sources, job.of)
      /\ \A q \in Period : q # p => Content(q)' = Content(q)
  BY <1>3, <1>6 DEF Content
<1>10. CoveredIsTold'
  <2>1. p \notin unwritten' => card'[p].sources \subseteq Content(p)'.told
    BY <1>6, <1>9 DEF Told
  <2>2. ASSUME NEW q \in Period, q # p, card'[q] # None, q \notin unwritten'
        PROVE  card'[q].sources \subseteq Content(q)'.told
    BY <1>3, <1>6, <1>9, <2>2 DEF IInv, CoveredIsTold
  <2> QED BY <2>1, <2>2 DEF CoveredIsTold
<1>11. WeekReadsAsItsDays'
  <2>1. CASE p # Week BY <1>8, <2>1 DEF WeekReadsAsItsDays, Effective
  <2>2. CASE p = Week
    <3>1. \A d \in Day : card'[d] # None /\ d \notin overlooked' =>
            d \in DOMAIN job.of /\ job.of[d] = Content(d)'
      BY <1>2, <1>3, <1>6, <1>9, <2>2 DEF IInv, JobInv, WeekInv
    <3>2. Week \notin unwritten' => Content(Week)'.of = job.of
      BY <1>9, <2>2 DEF Told
    <3> QED BY <1>8, <3>1, <3>2 DEF WeekReadsAsItsDays, DaysTold
  <2> QED BY <2>1, <2>2
<1>12. JobInv' BY <1>3 DEF JobInv
<1> QED BY <1>4, <1>7, <1>8, <1>10, <1>11, <1>12 DEF IInv

-----------------------------------------------------------------------------
(* The theorems.                                                           *)

LEMMA InitIInv == ASSUME Init PROVE IInv
<1> USE Periods
<1>1. TypeOK
  <2>1. 1 \in 1 .. Days + 1 /\ 0 \in 0 .. MaxEdits /\ 0 \in 0 .. MaxTroubles
    BY CardsAssumption
  <2>2. \A p \in Period : card[p] = None /\ markdown[p] = None BY DEF Init
  <2>3. LoopTypeOK BY DEF Init, LoopInit, LoopTypeOK
  <2>4. place \in [Turn -> {"none", "active", "folded"}] BY DEF Init
  <2>5. changed \in [Period -> BOOLEAN] BY DEF Init
  <2>6. card = [p \in Period |-> None] /\ markdown = [p \in Period |-> None]
        /\ retry = [p \in Period |-> None]
    BY DEF Init
  <2>7. /\ card \in [Period -> AnyCard \cup {None}]
        /\ markdown \in [Period -> AnyText \cup {None}]
        /\ retry \in [Period -> (SUBSET (TurnSource \cup CardSource)) \cup {None}]
    BY <2>6
  <2>8. /\ today = 1 /\ ripe = {} /\ past = {} /\ job = None /\ up = FALSE
        /\ unwritten = {} /\ overlooked = {} /\ edits = 0 /\ troubles = 0
    BY DEF Init
  <2> QED BY <2>1, <2>2, <2>3, <2>4, <2>5, <2>7, <2>8 DEF TypeOK
<1>2. LoopInv BY DEF Init, LoopInit, LoopInv, TimerTellsWhatIsDue
<1>3. CoveredIsTold /\ CardedAreTold /\ VersionInv /\ JobInv
  BY DEF Init, CoveredIsTold, CardedAreTold, VersionInv, JobInv
<1>4. WeekReadsAsItsDays BY DEF Init, WeekReadsAsItsDays, Effective
<1> QED BY <1>1, <1>2, <1>3, <1>4 DEF IInv

\* The inductive invariant holds of every behaviour: of cycles that end well, fail or
\* break off, of commits, folds and edits, of stops, crashes and restarts.
THEOREM CardsInductive == Spec => []IInv
<1>1. IInv /\ [Next]_vars => IInv'
  <2> SUFFICES ASSUME IInv, [Next]_vars PROVE IInv' OBVIOUS
  <2>1. CASE Next
    BY <2>1, CycleKeeps, EditKeeps, CompleteKeeps, HalfKeeps, IdlingKeeps, LivingKeeps,
       StoppingKeeps DEF Next
  <2>2. CASE UNCHANGED vars
    <3>1. /\ UNCHANGED <<store, job, up, unwritten, overlooked, bounds, loopVars>>
      BY <2>2 DEF vars
    <3>2. (LoopInv /\ LoopTypeOK)' BY <3>1, LoopMoves DEF IInv, TypeOK
    <3>3. TypeOK' BY <3>1, <3>2 DEF IInv, TypeOK, store, bounds
    <3>4. DaysTold' = DaysTold BY <3>1 DEF store, DaysTold, DaySources, SourcesOf
    <3> QED BY <3>1, <3>2, <3>3, <3>4, QuietKeeps DEF store
  <2> QED BY <2>1, <2>2
<1> QED BY InitIInv, <1>1, PTL DEF Spec

\* The records, files and generations of cards and the loop's variables keep their
\* shape: a day's sources are turns, a week's are versions of its days' cards.
THEOREM CardsTypeCorrect == Spec => []TypeOK
<1>1. IInv => TypeOK BY DEF IInv
<1> QED BY CardsInductive, <1>1, PTL

\* No accepted trigger is lost and no cycle's end revives a stopped loop, whatever
\* the cycles come to (maintenance-supervisor.cjs, _schedule, trigger and _run).
THEOREM NoTriggerIsLost == Spec => []TimerTellsWhatIsDue
<1>1. IInv => TimerTellsWhatIsDue BY DEF IInv, LoopInv
<1> QED BY CardsInductive, <1>1, PTL

\* What a card claims to cover it tells of, for any turns, edits and failures, unless
\* its file could not be replaced (appendCard, cards).
THEOREM CoveredAreTold == Spec => []CoveredIsTold
<1>1. IInv => CoveredIsTold BY DEF IInv
<1> QED BY CardsInductive, <1>1, PTL

\* A week that is taken for good tells of its days' cards as they read now, but for
\* edits made while it was generated and files that could not be replaced
\* (isCardStaleFromFiles, _settleWeek).
THEOREM WeekAgreesWithDays == Spec => []WeekReadsAsItsDays
<1>1. IInv => WeekReadsAsItsDays BY DEF IInv
<1> QED BY CardsInductive, <1>1, PTL

=============================================================================
