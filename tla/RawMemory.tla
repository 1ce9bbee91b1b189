------------------------------ MODULE RawMemory ------------------------------
(***************************************************************************)
(* The conversation a session remembers: the append-only transcript, the   *)
(* active rounds and their folds (runtime/memory/conversation-history.js), *)
(* ensureTurn of LayeredMemory, which puts a finished turn there, and the  *)
(* session anchor with the proof of the transcript it was last seen with   *)
(* (runtime/selfsame-session.cjs).                                         *)
(*                                                                         *)
(* One turn is remembered at a time (the runtime's queue), in three durable *)
(* steps: the transcript line, the active round, the line that says the    *)
(* round is active.  A fold is asked of the model between two of the short *)
(* state mutations, so turns arrive while it runs.  The process may die    *)
(* before and after every one of these, and in the middle of a line.       *)
(***************************************************************************)
EXTENDS Integers, Sequences, FiniteSets, Functions, SequencesExt

CONSTANTS
  Turn,          \* turns, by their causal ids
  Weight,        \* the tokens each turn's round takes
  SoftMark,      \* activeSoftTokenWatermark
  TargetMark,    \* activeTargetTokenWatermark
  HardCap,       \* hardTokenCap; escalation is at one and a half of it
  RoundLimit,    \* roundHardLimit
  RawTail,       \* minimumRawTailRounds
  BatchMax,      \* roundsBudget: the most rounds one fold takes
  SummaryLimit,  \* summaryHistoryLimit
  FullMode,      \* semanticMemoryMode = full
  FlushRecords,  \* TRANSCRIPT_INDEX_FLUSH_RECORDS
  NoTurn, NoIndex, NoProof,
  MaxTroubles    \* bound on exits, crashes and file operations that throw

Lines == [what : {"turn", "commit", "cut"}, turn : Turn, ended : BOOLEAN]
Summary == [of : Seq(Turn), mechanical : BOOLEAN]
Index == [upto : Nat, known : SUBSET Turn, committed : SUBSET Turn]
Proof == [bytes : Nat, sources : Nat]

ASSUME MemoryAssumption ==
  /\ Weight \in [Turn -> Nat \ {0}]
  /\ {SoftMark, TargetMark, HardCap, MaxTroubles} \subseteq Nat
  /\ {RoundLimit, RawTail, BatchMax, SummaryLimit, FlushRecords} \subseteq Nat \ {0}
  /\ FullMode \in BOOLEAN
  /\ NoTurn \notin Turn /\ NoIndex \notin Index /\ NoProof \notin Proof

VARIABLES
  transcript,  \* durable: lines [what, turn, ended]
  rounds,      \* durable: the active rounds, oldest first
  summaries,   \* durable: the summary window, each [of, mechanical]
  archived,    \* durable: summaries moved out of the window
  overflow,    \* durable: rounds archived before a mechanical fold
  foldState,   \* durable: failures in a row, and whether the retry waits
  indexFile,   \* durable: the last index written beside the transcript
  anchor,      \* durable: the proof in the session's state file
  up,          \* the process runs; closing: its memory was closed
  closing,
  index,       \* the causal index in memory, up to a line
  live,        \* the turn being remembered, and its next step
  step,
  worker,      \* where the background fold stands
  wanted,      \* _foldRequested
  plan,        \* the rounds the running fold was planned with
  answered,    \* turns the runtime finished with
  dropped,     \* history: summaries lost by an archive that threw
  broken,      \* history: turns stopped between their round and its commit
  troubles     \* exits, crashes and throwing operations so far

files == <<transcript, rounds, summaries, archived, overflow, foldState>>
fold == <<worker, wanted, plan>>
turn == <<live, step, answered>>
history == <<dropped, broken, troubles>>
vars == <<files, indexFile, anchor, up, closing, index, fold, turn, history>>

Init ==
  /\ transcript = << >> /\ rounds = << >> /\ summaries = << >>
  /\ archived = {} /\ overflow = {}
  /\ foldState = [failures |-> 0, waits |-> FALSE]
  /\ indexFile = NoIndex /\ anchor = NoProof
  /\ up = TRUE /\ closing = FALSE /\ index = NoIndex
  /\ live = NoTurn /\ step = "idle" /\ answered = {}
  /\ worker = "none" /\ wanted = FALSE /\ plan = << >>
  /\ dropped = {} /\ broken = {} /\ troubles = 0

----------------------------------------------------------------------------
(* The transcript and its index.                                           *)

Line(what, t) == [what |-> what, turn |-> t, ended |-> TRUE]

\* A line that was cut off: it is separated from the next one by a newline of
\* that one's, which makes it a line of its own after all.
Appended(line) ==
  Append([n \in DOMAIN transcript |-> [transcript[n] EXCEPT !.ended = TRUE]], line)

\* The turns a stretch of complete lines makes known, or commits.
Named(lines, what, from, to) ==
  {lines[n].turn : n \in {m \in from..to : lines[m].what = what}}

\* The complete lines of the file.
Complete(lines) ==
  IF lines = << >> \/ Last(lines).ended THEN Len(lines) ELSE Len(lines) - 1

\* Mutant of Scanned: the unfinished line at the end counts as read.
ScannedWhole(ix, lines) ==
  LET upto == Len(lines) IN
  [upto      |-> upto,
   known     |-> ix.known \cup Named(lines, "turn", ix.upto + 1, upto),
   committed |-> ix.committed \cup Named(lines, "commit", ix.upto + 1, upto)]

\* _scanTranscriptFrom: what the complete lines beyond an index add to it.
Scanned(ix, lines) ==
  LET upto == Complete(lines) IN
  [upto      |-> upto,
   known     |-> ix.known \cup Named(lines, "turn", ix.upto + 1, upto),
   committed |-> ix.committed \cup Named(lines, "commit", ix.upto + 1, upto)]

EmptyIndex == [upto |-> 0, known |-> {}, committed |-> {}]

\* _ensureCausalCache: the index in memory, else the file's index and what the
\* transcript says beyond it.
TheIndex ==
  IF index # NoIndex THEN index
  ELSE Scanned(IF indexFile = NoIndex THEN EmptyIndex ELSE indexFile, transcript)

\* The index file is written when the index is built, and then whenever enough
\* records were read since.
IndexWritten(ix) ==
  indexFile' = IF index = NoIndex \/ ix.upto >= indexFile.upto + FlushRecords THEN ix
               ELSE indexFile

AppendLine(line) ==
  /\ transcript' = Appended(line)
  /\ index' = Scanned(TheIndex, transcript')
  /\ IndexWritten(index')

UseIndex ==
  /\ index' = TheIndex
  /\ indexFile' = IF index = NoIndex THEN TheIndex ELSE indexFile

----------------------------------------------------------------------------
(* Remembering a turn.                                                     *)

RequestFold ==
  IF closing THEN UNCHANGED <<worker, wanted>>
  ELSE /\ wanted' = TRUE
       /\ worker' = IF worker = "none" THEN "top" ELSE worker

\* The runtime hands a turn to memory, for the first time or again after an
\* attempt that did not finish: it is new, or known, or known and committed.
EnsureTurn(t) ==
  /\ up /\ ~closing /\ live = NoTurn /\ t \notin answered
  /\ live' = t
  /\ IF t \in TheIndex.known
     THEN /\ UseIndex
          /\ step' = IF t \in TheIndex.committed THEN "proof" ELSE "round"
          /\ UNCHANGED transcript
     ELSE /\ AppendLine(Line("turn", t))
          /\ step' = "round"
  /\ UNCHANGED <<rounds, summaries, archived, overflow, foldState, anchor, up,
                 closing, fold, answered, history>>

\* Mutant of PushRound: the rounds are not searched for the turn.
PushAlways ==
  /\ up /\ step = "round"
  /\ rounds' = Append(rounds, live)
  /\ step' = "commit"
  /\ UNCHANGED <<transcript, summaries, archived, overflow, foldState, indexFile,
                 anchor, up, closing, index, fold, live, answered, history>>

\* The mutation of appendTurn and of restoreUncommittedTurn.
PushRound ==
  /\ up /\ step = "round"
  /\ rounds' = IF live \in Range(rounds) THEN rounds ELSE Append(rounds, live)
  /\ step' = "commit"
  /\ UNCHANGED <<transcript, summaries, archived, overflow, foldState, indexFile,
                 anchor, up, closing, index, fold, live, answered, history>>

CommitTurn ==
  /\ up /\ step = "commit"
  /\ IF live \in index.committed
     THEN UNCHANGED <<transcript, index, indexFile>>
     ELSE AppendLine(Line("commit", live))
  /\ RequestFold
  /\ step' = "proof"
  /\ UNCHANGED <<rounds, summaries, archived, overflow, foldState, anchor, up,
                 closing, plan, live, answered, history>>

TranscriptProof == [bytes |-> Len(transcript), sources |-> Cardinality(index.known)]

\* The runtime stores the transcript's proof in the session's state file.
Checkpoint ==
  /\ up /\ step = "proof"
  /\ anchor' = TranscriptProof
  /\ answered' = answered \cup {live}
  /\ live' = NoTurn /\ step' = "idle"
  /\ UNCHANGED <<files, indexFile, up, closing, index, fold, history>>

Break == IF step = "commit" THEN broken \cup {live} ELSE broken

\* A file operation of the attempt throws, with its bytes in the file or not;
\* a line that got there all the same is not in the index yet.
TurnThrows ==
  /\ up /\ troubles < MaxTroubles
  /\ \/ /\ step = "idle" /\ ~closing
        /\ \E t \in Turn \ answered :
             /\ t \notin TheIndex.known
             /\ transcript' = Appended(Line("turn", t))
        /\ UNCHANGED <<index, indexFile, rounds>>
     \/ /\ step = "round"
        /\ UNCHANGED <<transcript, index, indexFile, rounds>>
     \/ /\ step = "round" /\ live \notin Range(rounds)
        /\ rounds' = Append(rounds, live)
        /\ UNCHANGED <<transcript, index, indexFile>>
     \/ /\ step = "commit" /\ live \notin index.committed
        /\ transcript' \in {transcript, Appended(Line("commit", live))}
        /\ UNCHANGED <<index, indexFile, rounds>>
     \/ /\ step = "proof"
        /\ UNCHANGED <<transcript, index, indexFile, rounds>>
  /\ troubles' = troubles + 1
  /\ broken' = IF rounds' # rounds THEN broken \cup {live} ELSE Break
  /\ live' = NoTurn /\ step' = "idle"
  /\ UNCHANGED <<summaries, archived, overflow, foldState, anchor, up, closing,
                 fold, answered, dropped>>

----------------------------------------------------------------------------
(* Folding.                                                                *)

Tokens(rs) == FoldLeft(LAMBDA n, t : n + Weight[t], 0, rs)

Escalated(n) == 2 * n > 3 * HardCap

AtMost(a, b) == IF a < b THEN a ELSE b
AtLeast(a, b) == IF a > b THEN a ELSE b

OverSoftMark(rs) == Tokens(rs) > SoftMark /\ Len(rs) > RawTail

Removable(rs) ==
  IF Tokens(rs) > HardCap /\ Len(rs) <= RawTail THEN Len(rs)
  ELSE AtLeast(0, Len(rs) - RawTail)

DesiredRemoval(rs) ==
  IF OverSoftMark(rs) THEN AtLeast(1, Tokens(rs) - TargetMark) ELSE 1

RoundOverflow(rs) == AtLeast(1, Len(rs) - AtLeast(RawTail, (RoundLimit * 8) \div 10))

\* How many of the oldest rounds a fold takes: none when no watermark is passed,
\* else the fewest that bring the tokens and the rounds down, within a batch.
BatchOf(rs) ==
  LET most == AtMost(Removable(rs), BatchMax)
      enough == {n \in 1..most : /\ Tokens(SubSeq(rs, 1, n)) >= DesiredRemoval(rs)
                                 /\ n >= RoundOverflow(rs)} IN
  IF ~OverSoftMark(rs) /\ Len(rs) <= RoundLimit /\ Tokens(rs) <= HardCap THEN 0
  ELSE IF enough = {} THEN most
  ELSE CHOOSE n \in enough : \A m \in enough : n <= m

FoldPlan ==
  IF foldState.waits /\ ~Escalated(Tokens(rounds)) THEN << >>
  ELSE SubSeq(rounds, 1, BatchOf(rounds))

\* The worker's loop: while a fold is wanted, and memory is not closed.
WorkerTurns ==
  /\ up /\ worker = "top"
  /\ IF wanted /\ ~closing THEN wanted' = FALSE /\ worker' = "planning"
     ELSE worker' = "leaving" /\ UNCHANGED wanted
  /\ UNCHANGED <<files, indexFile, anchor, up, closing, index, plan, turn, history>>

\* Mutant of WorkerLeaves: the finally does not look at the wish.
LeavesForGood ==
  /\ up /\ worker = "leaving"
  /\ worker' = "none"
  /\ UNCHANGED <<files, indexFile, anchor, up, closing, index, wanted, plan, turn,
                 history>>

\* The loop has ended; its finally starts another worker for a wish that came
\* in between.
WorkerLeaves ==
  /\ up /\ worker = "leaving"
  /\ worker' = IF wanted /\ ~closing THEN "top" ELSE "none"
  /\ UNCHANGED <<files, indexFile, anchor, up, closing, index, wanted, plan, turn,
                 history>>

PlanFold ==
  /\ up /\ worker = "planning"
  /\ plan' = FoldPlan
  /\ worker' = IF FoldPlan = << >> THEN "top" ELSE "asking"
  /\ UNCHANGED <<files, indexFile, anchor, up, closing, index, wanted, turn, history>>

\* The model's answer: a summary that may be used, or none (a refusal, a failure,
\* an empty or unverified text).
FoldAnswered ==
  /\ up /\ worker = "asking"
  /\ worker' \in {"installing", "failing"}
  /\ UNCHANGED <<files, indexFile, anchor, up, closing, index, wanted, plan, turn,
                 history>>

PlanHolds == plan = SubSeq(rounds, 1, Len(plan))

\* Mutant of Install: every active round is taken for folded.
InstallOverAll(mechanical) ==
  /\ rounds' = << >>
  /\ summaries' = << [of |-> plan, mechanical |-> mechanical] >>
  /\ archived' = archived \cup Range(summaries)
  /\ foldState' = [failures |-> 0, waits |-> FALSE]
  /\ UNCHANGED <<dropped, troubles>>

\* The planned rounds become a summary; the oldest summaries leave the window
\* for the archive, whose append may throw and is only logged.
Install(mechanical) ==
  LET all == Append(summaries, [of |-> plan, mechanical |-> mechanical])
      excess == AtLeast(0, Len(all) - SummaryLimit)
      leaving == {all[n] : n \in 1..excess} IN
  /\ rounds' = SubSeq(rounds, Len(plan) + 1, Len(rounds))
  /\ summaries' = SubSeq(all, excess + 1, Len(all))
  /\ foldState' = [failures |-> 0, waits |-> FALSE]
  /\ \/ /\ archived' = archived \cup leaving
        /\ UNCHANGED <<dropped, troubles>>
     \/ /\ leaving # {} /\ troubles < MaxTroubles
        /\ troubles' = troubles + 1
        /\ dropped' = dropped \cup leaving
        /\ UNCHANGED archived

\* The rounds the fold was planned with are no longer the oldest: plan again.
PlanIsStale ==
  /\ wanted' = TRUE
  /\ UNCHANGED <<rounds, summaries, archived, overflow, foldState, dropped, troubles>>

InstallFold ==
  /\ up /\ worker = "installing"
  /\ IF PlanHolds THEN Install(FALSE) /\ UNCHANGED <<overflow, wanted>>
     ELSE PlanIsStale
  /\ worker' = "top" /\ plan' = << >>
  /\ UNCHANGED <<transcript, indexFile, anchor, up, closing, index, turn, broken>>

\* No summary came back: count the failure (three are as good as more) and wait,
\* the failures or the tokens call for the mechanical digest, which first
\* archives the rounds.
FailFold ==
  LET failures == foldState.failures + 1
      mechanical == Escalated(Tokens(rounds)) \/ (~FullMode /\ failures >= 3)
      Waits == /\ foldState' = [failures |-> AtMost(failures, 3), waits |-> TRUE]
               /\ UNCHANGED <<rounds, summaries, archived, overflow, dropped>>
  IN
  /\ up /\ worker = "failing"
  /\ IF ~PlanHolds THEN PlanIsStale
     ELSE /\ UNCHANGED wanted
          /\ \/ ~mechanical /\ Waits /\ UNCHANGED troubles
             \/ mechanical /\ overflow' = overflow \cup Range(plan) /\ Install(TRUE)
             \/ mechanical /\ troubles < MaxTroubles /\ troubles' = troubles + 1 /\ Waits
  /\ worker' = "top" /\ plan' = << >>
  /\ UNCHANGED <<transcript, indexFile, anchor, up, closing, index, turn, broken>>

BackoffElapses ==
  /\ foldState.waits
  /\ foldState' = [foldState EXCEPT !.waits = FALSE]
  /\ UNCHANGED <<transcript, rounds, summaries, archived, overflow, indexFile,
                 anchor, up, closing, index, fold, turn, history>>

\* Reading or saving the history throws inside the worker: it is logged.
WorkerThrows ==
  /\ up /\ worker \in {"planning", "installing", "failing"} /\ troubles < MaxTroubles
  /\ worker' = "leaving" /\ plan' = << >>
  /\ troubles' = troubles + 1
  /\ UNCHANGED <<files, indexFile, anchor, up, closing, index, wanted, turn, dropped,
                 broken>>

----------------------------------------------------------------------------
(* The process.                                                            *)

Close ==
  /\ up /\ ~closing /\ live = NoTurn /\ troubles < MaxTroubles
  /\ closing' = TRUE
  /\ indexFile' = IF index = NoIndex THEN indexFile ELSE index
  /\ troubles' = troubles + 1
  /\ UNCHANGED <<files, anchor, up, index, fold, turn, dropped, broken>>

\* Mutant of Die: a line that was appended is not yet on the disk.
DieUnsynced ==
  /\ up /\ (closing \/ troubles < MaxTroubles)
  /\ transcript' \in {transcript, SubSeq(transcript, 1, AtLeast(0, Len(transcript) - 1))}
  /\ up' = FALSE /\ closing' = FALSE /\ index' = NoIndex
  /\ live' = NoTurn /\ step' = "idle"
  /\ worker' = "none" /\ wanted' = FALSE /\ plan' = << >>
  /\ troubles' = IF closing THEN troubles ELSE troubles + 1
  /\ UNCHANGED <<rounds, summaries, archived, overflow, foldState, indexFile, anchor,
                 answered, dropped, broken>>

\* Everything in memory is gone.  A line may be cut off where it was being
\* written, or complete but for its newline.
Die ==
  /\ up /\ (closing \/ troubles < MaxTroubles)
  /\ \/ UNCHANGED transcript
     \/ /\ step = "idle" /\ ~closing
        /\ \E t \in (Turn \ answered) \ TheIndex.known, what \in {"turn", "cut"} :
             transcript' = Appended([what |-> what, turn |-> t, ended |-> FALSE])
     \/ /\ step = "commit" /\ live \notin index.committed
        /\ \E what \in {"commit", "cut"} :
             transcript' = Appended([what |-> what, turn |-> live, ended |-> FALSE])
  /\ up' = FALSE /\ closing' = FALSE /\ index' = NoIndex
  /\ live' = NoTurn /\ step' = "idle"
  /\ worker' = "none" /\ wanted' = FALSE /\ plan' = << >>
  /\ broken' = Break
  /\ troubles' = IF closing THEN troubles ELSE troubles + 1
  /\ UNCHANGED <<rounds, summaries, archived, overflow, foldState, indexFile, anchor,
                 answered, dropped>>

\* The transcript still begins with what the proof was taken of, and names at
\* least as many turns: the stored session may be resumed.
Verifies(ix) ==
  anchor # NoProof =>
    anchor.bytes <= Len(transcript) /\ anchor.sources <= Cardinality(ix.known)

Restart ==
  /\ ~up
  /\ Verifies(TheIndex)
  /\ up' = TRUE
  /\ IF anchor = NoProof THEN UNCHANGED <<index, indexFile>> ELSE UseIndex
  /\ UNCHANGED <<files, anchor, closing, fold, turn, history>>

----------------------------------------------------------------------------

FoldStep == WorkerTurns \/ WorkerLeaves \/ PlanFold \/ FoldAnswered \/ InstallFold \/ FailFold

TurnStep == (\E t \in Turn : EnsureTurn(t)) \/ PushRound \/ CommitTurn \/ Checkpoint

Next ==
  \/ TurnStep \/ TurnThrows
  \/ FoldStep \/ BackoffElapses \/ WorkerThrows
  \/ Close \/ Die \/ Restart

\* Promises that are not waiting for an answer go on; the dispatcher hands an
\* unfinished turn over again; a model call ends by its timeout; a process that
\* was closed exits, and one that is gone is started anew.
Fairness ==
  /\ WF_vars(TurnStep)
  /\ WF_vars(FoldStep)
  /\ WF_vars(Restart \/ (closing /\ Die))

Spec == Init /\ [][Next]_vars /\ Fairness

----------------------------------------------------------------------------
(* Properties.                                                             *)

\* Type invariant of the durable and the volatile state.
TypeOK ==
  /\ transcript \in Seq(Lines) /\ rounds \in Seq(Turn)
  /\ summaries \in Seq(Summary) /\ archived \subseteq Summary
  /\ dropped \subseteq Summary /\ overflow \subseteq Turn
  /\ foldState \in [failures : 0..3, waits : BOOLEAN]
  /\ indexFile \in Index \cup {NoIndex} /\ index \in Index \cup {NoIndex}
  /\ anchor \in Proof \cup {NoProof}
  /\ up \in BOOLEAN /\ closing \in BOOLEAN
  /\ live \in Turn \cup {NoTurn}
  /\ step \in {"idle", "round", "commit", "proof"}
  /\ worker \in {"none", "top", "planning", "asking", "installing", "failing", "leaving"}
  /\ wanted \in BOOLEAN /\ plan \in Seq(Turn)
  /\ answered \subseteq Turn /\ broken \subseteq Turn
  /\ troubles \in 0..MaxTroubles

IndexAgrees(ix) ==
  ix # NoIndex =>
    /\ ix.upto <= Complete(transcript)
    /\ ix.known = Named(transcript, "turn", 1, ix.upto)
    /\ ix.committed = Named(transcript, "commit", 1, ix.upto)

\* The index, in memory and in its file, says exactly what a scan of the
\* transcript's first lines says: through crashes in the middle of a line,
\* lines completed by the next append, failed appends and checkpoints taken
\* between (_scanTranscriptFrom, _readCausalCheckpoint, _appendTranscript).
IndexIsTranscript == IndexAgrees(index) /\ IndexAgrees(indexFile)

TurnsOf(ss) == UNION {Range(s.of) : s \in ss}

\* What memory still has: the rounds, the summary window and its archive.
Kept == Range(rounds) \cup TurnsOf(Range(summaries) \cup archived)

\* What was in a summary that left the window while its append to the archive threw.
Lost == TurnsOf(dropped)

\* Folds, failures of the turn and of the model, crashes and restarts lose nothing: a
\* turn that the transcript commits, or that the runtime is done with, is in the active
\* rounds, in the summary window or in the archive.  The exception is the code's: a
\* summary leaves the window although its archive throws (_archiveSummary logs it and
\* goes on, against the comment at _appendSummaryToData), and its turns are then in the
\* transcript only.  What a mechanical digest took out is in the overflow archive too,
\* and whatever was remembered at all is in the transcript.
OnlyTheArchiveForgets ==
  /\ Named(transcript, "commit", 1, Complete(transcript)) \cup answered \subseteq Kept \cup Lost
  /\ Kept \cup Lost \subseteq Named(transcript, "turn", 1, Len(transcript))
  /\ \A s \in Range(summaries) \cup archived \cup dropped :
       s.mechanical => Range(s.of) \subseteq overflow

Folds(t) ==
  Cardinality({s \in Range(summaries) \cup archived \cup dropped : t \in Range(s.of)})

\* No turn is among the active rounds twice, and a turn that was folded is not
\* among them and in one summary only.  What may be folded and be put back, is a
\* turn that was stopped between its round and its commit line: its round may be
\* folded before it is tried again (restoreUncommittedTurn looks at the rounds,
\* not at the summaries).
OnlyBrokenTurnsRepeat ==
  /\ IsInjective(rounds)
  /\ \A t \in Turn \ broken : Folds(t) + Cardinality({t} \cap Range(rounds)) <= 1

\* The session can be resumed at every moment, also after a crash: the stored
\* proof is of a prefix of the transcript.  The checkpoint may lag, never lead.
SessionResumes == Verifies(Scanned(EmptyIndex, transcript))

\* Every turn ends up remembered and committed, and a fold that was asked for is
\* planned, whatever the worker was doing when the wish came in.
EveryTurnIsCommitted ==
  /\ \A t \in Turn : <>(t \in answered)
  /\ wanted ~> (worker = "planning" \/ closing \/ ~up)

=============================================================================
