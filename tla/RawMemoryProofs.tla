--------------------------- MODULE RawMemoryProofs ---------------------------
(***************************************************************************)
(* What holds of the remembered conversation for any turns, weights and    *)
(* limits: the shape of the variables, that the index agrees with the      *)
(* transcript, that only the archive loses a turn and no turn is told      *)
(* twice, and that the session can be resumed.                             *)
(***************************************************************************)
EXTENDS RawMemory, FiniteSetTheorems, WellFoundedInduction, TLAPS

-----------------------------------------------------------------------------
(* The inductive invariant.                                                *)

Known == Named(transcript, "turn", 1, Len(transcript))
Committed == Named(transcript, "commit", 1, Len(transcript))
AllSummaries == Range(summaries) \cup archived \cup dropped
Summarised == TurnsOf(AllSummaries)
Remembered == Range(rounds) \cup Summarised

\* Where the turn being remembered stands agrees with its index and its round;
\* at "round" it is not remembered yet, unless it was stopped before.
StepInv ==
  /\ step = "idle" <=> live = NoTurn
  /\ step # "idle" => up /\ index # NoIndex /\ live \in index.known
  /\ step = "round" => live \notin Remembered \/ live \in broken
  /\ step = "commit" => live \in Remembered
  /\ step = "proof" => live \in index.committed

\* A commit line comes after a line of its turn.
Follow(lines) ==
  \A n \in 1..Len(lines) : lines[n].what = "commit" =>
    \E m \in 1..(n - 1) : lines[m].what = "turn" /\ lines[m].turn = lines[n].turn
CommitsFollow == Follow(transcript)

\* What is remembered has a turn line, what is committed or answered is
\* remembered, and what is remembered and not known to be committed was stopped,
\* or is about to be.
MemoryInv ==
  /\ Remembered \subseteq Known
  /\ Committed \cup answered \subseteq Remembered
  /\ \A t \in Remembered :
       t \in broken \/ t \in TheIndex.committed \/ (step = "commit" /\ t = live)

\* The rounds and the summaries share no turn, and no two summaries do, but for
\* those that were stopped; what was folded mechanically is archived.
FoldInv ==
  /\ IsInjective(rounds)
  /\ \A s \in AllSummaries : s.mechanical => Range(s.of) \subseteq overflow
  /\ \A s \in AllSummaries : \A t \in Range(s.of) \ broken : t \notin Range(rounds)
  /\ \A r, s \in AllSummaries : \A t \in (Range(r.of) \cap Range(s.of)) \ broken : r = s

\* A running fold was planned with the oldest of the rounds as they still are.
PlanInv == Len(plan) <= Len(rounds) /\ plan = SubSeq(rounds, 1, Len(plan))

\* The proof was taken of a prefix of the transcript.
AnchorInv ==
  anchor # NoProof =>
    /\ anchor.bytes <= Len(transcript)
    /\ anchor.sources <= Cardinality(Named(transcript, "turn", 1, Complete(transcript)))

IInv ==
  /\ TypeOK /\ IndexIsTranscript /\ StepInv /\ CommitsFollow /\ MemoryInv
  /\ FoldInv /\ PlanInv /\ AnchorInv

-----------------------------------------------------------------------------
(* The transcript and its scans.                                           *)

\* What an index read to some line says of these lines.
Agrees(ix, lines) ==
  ix # NoIndex =>
    /\ ix.upto <= Complete(lines)
    /\ ix.known = Named(lines, "turn", 1, ix.upto)
    /\ ix.committed = Named(lines, "commit", 1, ix.upto)

\* The index of a scan from the first line.
Scan(lines) ==
  [upto      |-> Complete(lines),
   known     |-> Named(lines, "turn", 1, Complete(lines)),
   committed |-> Named(lines, "commit", 1, Complete(lines))]

\* A turn is named by a stretch when one of its lines is of it.
LEMMA NamedMember ==
  ASSUME NEW lines, NEW what, NEW from, NEW to, NEW t
  PROVE  t \in Named(lines, what, from, to)
           <=> \E n \in from..to : lines[n].what = what /\ lines[n].turn = t
  BY DEF Named

\* A stretch of lines names turns only, and finitely many.
LEMMA NamedType ==
  ASSUME NEW lines \in Seq(Lines), NEW what, NEW to \in Nat, to <= Len(lines)
  PROVE  /\ Named(lines, what, 1, to) \in SUBSET Turn
         /\ IsFiniteSet(Named(lines, what, 1, to))
<1> DEFINE S == {m \in 1..to : lines[m].what = what}
<1> DEFINE N == {lines[n].turn : n \in S}
<1> DEFINE f == [n \in S |-> lines[n].turn]
<1>1. \A n \in 1..to : lines[n].turn \in Turn
  <2> TAKE n \in 1..to
  <2>1. n \in 1..Len(lines) OBVIOUS
  <2>2. lines[n] \in Lines BY <2>1
  <2> QED BY <2>2 DEF Lines
<1>2. IsFiniteSet(S)
  <2>1. IsFiniteSet(1..to) BY FS_Interval
  <2>2. S \subseteq 1..to OBVIOUS
  <2> QED BY <2>1, <2>2, FS_Subset
<1>3. f \in Surjection(S, N) BY DEF Surjection
<1>4. Named(lines, what, 1, to) = N BY DEF Named
<1>5. N \subseteq Turn BY <1>1
<1> HIDE DEF S, N, f
<1>6. IsFiniteSet(N) BY <1>2, <1>3, FS_Surjection
<1> QED BY <1>4, <1>5, <1>6

\* A stretch names what its two parts name.
LEMMA NamedSplit ==
  ASSUME NEW lines, NEW what, NEW i \in Nat, NEW j \in Nat, i <= j
  PROVE  Named(lines, what, 1, j) = Named(lines, what, 1, i) \cup Named(lines, what, i + 1, j)
<1>1. 1..j = (1..i) \cup ((i + 1)..j) OBVIOUS
<1> QED BY <1>1 DEF Named

\* All lines but an unfinished last one are complete.
LEMMA CompleteType ==
  ASSUME NEW lines \in Seq(Lines)
  PROVE  /\ Complete(lines) \in Nat
         /\ Complete(lines) <= Len(lines)
         /\ Len(lines) <= Complete(lines) + 1
<1>1. CASE lines = << >> BY <1>1 DEF Complete
<1>2. CASE lines # << >>
  <2>1. Len(lines) \in Nat /\ Len(lines) > 0 BY <1>2
  <2> QED BY <2>1, <1>2 DEF Complete
<1> QED BY <1>1, <1>2

\* Scanning the lines beyond an index that agrees gives the whole scan.
LEMMA ScannedIsScan ==
  ASSUME NEW lines \in Seq(Lines), NEW ix \in Index, ix # NoIndex, Agrees(ix, lines)
  PROVE  Scanned(ix, lines) = Scan(lines)
<1>1. Complete(lines) \in Nat BY CompleteType
<1>2. ix.upto \in Nat /\ ix.upto <= Complete(lines) BY DEF Index, Agrees
<1>3. /\ ix.known = Named(lines, "turn", 1, ix.upto)
      /\ ix.committed = Named(lines, "commit", 1, ix.upto)
  BY DEF Agrees
<1>4. \A what : Named(lines, what, 1, Complete(lines))
                  = Named(lines, what, 1, ix.upto) \cup Named(lines, what, ix.upto + 1, Complete(lines))
  <2> TAKE what
  <2> DEFINE i == ix.upto
             j == Complete(lines)
  <2>1. i \in Nat /\ j \in Nat /\ i <= j BY <1>1, <1>2
  <2> HIDE DEF i, j
  <2>2. Named(lines, what, 1, j) = Named(lines, what, 1, i) \cup Named(lines, what, i + 1, j)
    BY <2>1, NamedSplit
  <2> QED BY <2>2 DEF i, j
<1> QED BY <1>3, <1>4 DEF Scanned, Scan

\* A scan is an index that agrees.
LEMMA ScanAgrees ==
  ASSUME NEW lines \in Seq(Lines)
  PROVE  Scan(lines) \in Index /\ Scan(lines) # NoIndex /\ Agrees(Scan(lines), lines)
<1>1. Complete(lines) \in Nat /\ Complete(lines) <= Len(lines) BY CompleteType
<1>2. \A what : Named(lines, what, 1, Complete(lines)) \in SUBSET Turn BY <1>1, NamedType
<1>3. Scan(lines) \in Index BY <1>1, <1>2 DEF Scan, Index
<1>4. Scan(lines) # NoIndex BY <1>3, MemoryAssumption
<1> QED BY <1>1, <1>3, <1>4 DEF Scan, Agrees

\* The empty index agrees with anything.
LEMMA EmptyAgrees ==
  ASSUME NEW lines \in Seq(Lines)
  PROVE  EmptyIndex \in Index /\ EmptyIndex # NoIndex /\ Agrees(EmptyIndex, lines)
<1>1. EmptyIndex \in Index BY DEF EmptyIndex, Index
<1>2. EmptyIndex # NoIndex BY <1>1, MemoryAssumption
<1>3. \A what : Named(lines, what, 1, 0) = {} BY DEF Named
<1>4. 0 <= Complete(lines) BY CompleteType
<1> QED BY <1>1, <1>2, <1>3, <1>4 DEF EmptyIndex, Agrees

\* Appending keeps the lines there are, but for completing the last one.
LEMMA AppendedLines ==
  ASSUME transcript \in Seq(Lines), NEW line \in Lines
  PROVE  /\ Appended(line) \in Seq(Lines)
         /\ Len(Appended(line)) = Len(transcript) + 1
         /\ Appended(line)[Len(transcript) + 1] = line
         /\ \A n \in 1..Len(transcript) : /\ Appended(line)[n].what = transcript[n].what
                                          /\ Appended(line)[n].turn = transcript[n].turn
         /\ Complete(Appended(line)) = IF line.ended THEN Len(transcript) + 1 ELSE Len(transcript)
<1> DEFINE kept == [n \in DOMAIN transcript |-> [transcript[n] EXCEPT !.ended = TRUE]]
<1>1. DOMAIN transcript = 1..Len(transcript) /\ Len(transcript) \in Nat OBVIOUS
<1>2. \A n \in 1..Len(transcript) : /\ kept[n] \in Lines
                                    /\ kept[n].what = transcript[n].what
                                    /\ kept[n].turn = transcript[n].turn
  <2> TAKE n \in 1..Len(transcript)
  <2>1. kept[n] = [transcript[n] EXCEPT !.ended = TRUE] BY <1>1
  <2>2. transcript[n] \in Lines BY <1>1
  <2> HIDE DEF kept
  <2> QED BY <2>1, <2>2 DEF Lines
<1>3. kept \in Seq(Lines) /\ Len(kept) = Len(transcript)
  BY <1>1, <1>2
<1> HIDE DEF kept
<1>4. Appended(line) = Append(kept, line)
  BY DEF Appended, kept
<1>5. /\ Append(kept, line) \in Seq(Lines)
      /\ Len(Append(kept, line)) = Len(kept) + 1
      /\ Append(kept, line)[Len(kept) + 1] = line
      /\ \A n \in 1..Len(kept) : Append(kept, line)[n] = kept[n]
  BY <1>3
<1>6. Append(kept, line) # << >> /\ Last(Append(kept, line)) = line
  <2>1. Append(kept, line) # << >> BY <1>1, <1>3, <1>5
  <2>2. Last(Append(kept, line)) = Append(kept, line)[Len(Append(kept, line))] BY DEF Last
  <2> QED BY <1>5, <2>1, <2>2
<1>7. Complete(Append(kept, line)) = IF line.ended THEN Len(kept) + 1 ELSE Len(kept)
  BY <1>1, <1>3, <1>5, <1>6 DEF Complete
<1> QED BY <1>1, <1>2, <1>3, <1>4, <1>5, <1>7

\* So the stretches of the lines there were name what they named.
LEMMA AppendedNames ==
  ASSUME transcript \in Seq(Lines), NEW line \in Lines,
         NEW what, NEW to \in Nat, to <= Len(transcript)
  PROVE  Named(Appended(line), what, 1, to) = Named(transcript, what, 1, to)
<1>1. \A n \in 1..to : /\ Appended(line)[n].what = transcript[n].what
                       /\ Appended(line)[n].turn = transcript[n].turn
  <2> TAKE n \in 1..to
  <2>1. n \in 1..Len(transcript) OBVIOUS
  <2> QED BY <2>1, AppendedLines
<1> QED BY <1>1 DEF Named

\* And the new line adds its turn, if it is one that names.
LEMMA AppendedNamesAll ==
  ASSUME transcript \in Seq(Lines), NEW line \in Lines, NEW what
  PROVE  Named(Appended(line), what, 1, Len(transcript) + 1)
           = Named(transcript, what, 1, Len(transcript))
               \cup (IF line.what = what THEN {line.turn} ELSE {})
<1> DEFINE L == Len(transcript)
<1>1. L \in Nat OBVIOUS
<1>2. Named(Appended(line), what, 1, L + 1)
        = Named(Appended(line), what, 1, L) \cup Named(Appended(line), what, L + 1, L + 1)
  <2> DEFINE j == L + 1
  <2>1. j \in Nat /\ L <= j BY <1>1
  <2> HIDE DEF L
  <2>2. Named(Appended(line), what, 1, j)
          = Named(Appended(line), what, 1, L) \cup Named(Appended(line), what, L + 1, j)
    <3> HIDE DEF j
    <3> QED BY <1>1, <2>1, NamedSplit
  <2> QED BY <2>2
<1>3. Named(Appended(line), what, 1, L) = Named(transcript, what, 1, L)
  BY <1>1, AppendedNames
<1>4. Appended(line)[L + 1] = line BY AppendedLines
<1>5. Named(Appended(line), what, L + 1, L + 1) = IF line.what = what THEN {line.turn} ELSE {}
  <2>1. (L + 1)..(L + 1) = {L + 1} BY <1>1
  <2> QED BY <2>1, <1>4 DEF Named
<1> QED BY <1>2, <1>3, <1>5

\* An index that agrees with the lines agrees with them when one is appended.
LEMMA AgreesGrows ==
  ASSUME transcript \in Seq(Lines), NEW line \in Lines,
         NEW ix \in Index \cup {NoIndex}, Agrees(ix, transcript)
  PROVE  Agrees(ix, Appended(line))
<1> SUFFICES ASSUME ix # NoIndex PROVE Agrees(ix, Appended(line))
  BY DEF Agrees
<1>1. ix.upto \in Nat BY DEF Index
<1>2. ix.upto <= Len(transcript)
  BY <1>1, CompleteType DEF Agrees
<1>3. Len(transcript) <= Complete(Appended(line)) BY AppendedLines
<1>4. \A what : Named(Appended(line), what, 1, ix.upto) = Named(transcript, what, 1, ix.upto)
  BY <1>1, <1>2, AppendedNames
<1>5. ix.upto <= Complete(Appended(line))
  BY <1>1, <1>2, <1>3, AppendedLines, CompleteType
<1> QED BY <1>4, <1>5 DEF Agrees

\* An index that agrees holds no more than the scan.
LEMMA ScanIsMost ==
  ASSUME NEW lines \in Seq(Lines), NEW ix \in Index, ix # NoIndex, Agrees(ix, lines)
  PROVE  /\ ix.known \subseteq Scan(lines).known
         /\ ix.committed \subseteq Scan(lines).committed
<1>1. Scanned(ix, lines) = Scan(lines) BY ScannedIsScan
<1>2. ix.known \subseteq Scanned(ix, lines).known
  BY DEF Scanned
<1>3. ix.committed \subseteq Scanned(ix, lines).committed
  BY DEF Scanned
<1> QED BY <1>1, <1>2, <1>3

\* What an index that agrees holds, the transcript says; and it knows every
\* turn it has for committed.
LEMMA CommittedIsKnown ==
  ASSUME NEW lines \in Seq(Lines), Follow(lines),
         NEW ix \in Index, ix # NoIndex, Agrees(ix, lines)
  PROVE  /\ ix.committed \subseteq ix.known
         /\ ix.known \subseteq Named(lines, "turn", 1, Len(lines))
         /\ ix.committed \subseteq Named(lines, "commit", 1, Len(lines))
<1>1. ix.upto \in Nat /\ ix.upto <= Len(lines)
  <2>1. ix.upto \in Nat BY DEF Index
  <2>2. ix.upto <= Complete(lines) BY DEF Agrees
  <2>3. Complete(lines) \in Nat /\ Complete(lines) <= Len(lines) /\ Len(lines) \in Nat
    BY CompleteType
  <2> QED BY <2>1, <2>2, <2>3
<1>2. /\ ix.known = Named(lines, "turn", 1, ix.upto)
      /\ ix.committed = Named(lines, "commit", 1, ix.upto)
  BY DEF Agrees
<1>3. ix.known \subseteq Named(lines, "turn", 1, Len(lines))
  BY <1>1, <1>2 DEF Named
<1>4. ix.committed \subseteq Named(lines, "commit", 1, Len(lines))
  BY <1>1, <1>2 DEF Named
<1>5. ASSUME NEW t \in ix.committed PROVE t \in ix.known
  <2>1. PICK n \in 1..ix.upto : lines[n].what = "commit" /\ lines[n].turn = t
    BY <1>2, NamedMember
  <2>2. n \in 1..Len(lines) BY <1>1
  <2>3. PICK m \in 1..(n - 1) : lines[m].what = "turn" /\ lines[m].turn = lines[n].turn
    BY <2>1, <2>2 DEF Follow
  <2>4. m \in 1..ix.upto BY <1>1, <2>1
  <2> QED BY <1>2, <2>1, <2>3, <2>4, NamedMember
<1> QED BY <1>3, <1>4, <1>5

\* The index that is used: the one in memory, or the file's with the rest read.
Used(ix, file, lines) ==
  IF ix # NoIndex THEN ix
  ELSE Scanned(IF file = NoIndex THEN EmptyIndex ELSE file, lines)

LEMMA UsedAgrees ==
  ASSUME NEW lines \in Seq(Lines), NEW ix \in Index \cup {NoIndex},
         NEW file \in Index \cup {NoIndex}, Agrees(ix, lines), Agrees(file, lines)
  PROVE  /\ Used(ix, file, lines) \in Index /\ Used(ix, file, lines) # NoIndex
         /\ Agrees(Used(ix, file, lines), lines)
         /\ ix # NoIndex => Used(ix, file, lines) = ix
         /\ ix = NoIndex => Used(ix, file, lines) = Scan(lines)
<1>1. CASE ix # NoIndex
  BY <1>1 DEF Used
<1>2. CASE ix = NoIndex
  <2> DEFINE from == IF file = NoIndex THEN EmptyIndex ELSE file
  <2>1. from \in Index /\ from # NoIndex /\ Agrees(from, lines)
    BY EmptyAgrees
  <2>2. Used(ix, file, lines) = Scanned(from, lines) BY <1>2 DEF Used
  <2> HIDE DEF from
  <2>3. Used(ix, file, lines) = Scan(lines) BY <2>1, <2>2, ScannedIsScan
  <2> QED BY <1>2, <2>3, ScanAgrees
<1> QED BY <1>1, <1>2

\* In every state the invariant allows, the index used agrees with the transcript.
LEMMA TheIndexAgrees ==
  ASSUME TypeOK, IndexIsTranscript, CommitsFollow
  PROVE  /\ TheIndex \in Index /\ TheIndex # NoIndex
         /\ Agrees(TheIndex, transcript)
         /\ index # NoIndex => TheIndex = index
         /\ index = NoIndex => TheIndex = Scan(transcript)
         /\ TheIndex.committed \subseteq TheIndex.known
         /\ TheIndex.known \subseteq Known /\ TheIndex.committed \subseteq Committed
<1>1. /\ transcript \in Seq(Lines)
      /\ index \in Index \cup {NoIndex} /\ indexFile \in Index \cup {NoIndex}
  BY DEF TypeOK
<1>2. Agrees(index, transcript) /\ Agrees(indexFile, transcript)
  BY DEF IndexIsTranscript, IndexAgrees, Agrees
<1>3. TheIndex = Used(index, indexFile, transcript)
  BY DEF TheIndex, Used
<1>4. /\ TheIndex \in Index /\ TheIndex # NoIndex
      /\ Agrees(TheIndex, transcript)
      /\ index # NoIndex => TheIndex = index
      /\ index = NoIndex => TheIndex = Scan(transcript)
  BY <1>1, <1>2, <1>3, UsedAgrees
<1>5. /\ TheIndex.committed \subseteq TheIndex.known
      /\ TheIndex.known \subseteq Known /\ TheIndex.committed \subseteq Committed
  BY <1>1, <1>4, CommittedIsKnown DEF CommitsFollow, Known, Committed
<1> QED BY <1>4, <1>5

-----------------------------------------------------------------------------
(* Appending a line.                                                       *)

\* A line may be appended when it is a turn's, or of a turn that has one, or
\* when nothing can be read of it.
LEMMA TranscriptGrows ==
  ASSUME TypeOK, IndexIsTranscript, CommitsFollow, AnchorInv,
         NEW line \in Lines, line.what = "commit" => line.turn \in Known,
         transcript' = Appended(line)
  PROVE  /\ transcript' \in Seq(Lines)
         /\ CommitsFollow'
         /\ Known' = Known \cup (IF line.what = "turn" THEN {line.turn} ELSE {})
         /\ Committed' = Committed \cup (IF line.what = "commit" THEN {line.turn} ELSE {})
         /\ \A ix \in Index \cup {NoIndex} : Agrees(ix, transcript) => Agrees(ix, transcript')
         /\ anchor' = anchor => AnchorInv'
<1> DEFINE L == Len(transcript)
<1>1. transcript \in Seq(Lines) /\ L \in Nat BY DEF TypeOK
<1>2. /\ transcript' \in Seq(Lines) /\ Len(transcript') = L + 1
      /\ transcript'[L + 1] = line
      /\ \A n \in 1..L : /\ transcript'[n].what = transcript[n].what
                         /\ transcript'[n].turn = transcript[n].turn
      /\ L <= Complete(transcript') /\ Complete(transcript') \in Nat
  BY <1>1, AppendedLines
<1>3. CommitsFollow'
  <2> SUFFICES ASSUME NEW n \in 1..(L + 1), transcript'[n].what = "commit"
               PROVE  \E m \in 1..(n - 1) : /\ transcript'[m].what = "turn"
                                            /\ transcript'[m].turn = transcript'[n].turn
    BY <1>2 DEF CommitsFollow, Follow
  <2>1. CASE n \in 1..L
    <3>1. PICK m \in 1..(n - 1) : transcript[m].what = "turn" /\ transcript[m].turn = transcript[n].turn
      BY <1>2, <2>1 DEF CommitsFollow, Follow
    <3>2. m \in 1..L BY <1>1, <2>1
    <3> QED BY <1>2, <2>1, <3>1, <3>2
  <2>2. CASE n = L + 1
    <3>1. line.turn \in Known /\ transcript'[n] = line BY <1>2, <2>2
    <3>2. PICK m \in 1..L : transcript[m].what = "turn" /\ transcript[m].turn = line.turn
      BY <3>1, NamedMember DEF Known
    <3>3. m \in 1..(n - 1) BY <1>1, <2>2
    <3> QED BY <1>2, <3>1, <3>2, <3>3
  <2> QED BY <1>1, <2>1, <2>2
<1>4. /\ Known' = Known \cup (IF line.what = "turn" THEN {line.turn} ELSE {})
      /\ Committed' = Committed \cup (IF line.what = "commit" THEN {line.turn} ELSE {})
  BY <1>1, <1>2, AppendedNamesAll DEF Known, Committed
<1>5. \A ix \in Index \cup {NoIndex} : Agrees(ix, transcript) => Agrees(ix, transcript')
  BY <1>1, AgreesGrows
<1>6. ASSUME anchor' = anchor PROVE AnchorInv'
  <2> SUFFICES ASSUME anchor # NoProof
               PROVE  /\ anchor.bytes <= L + 1
                      /\ anchor.sources
                           <= Cardinality(Named(transcript', "turn", 1, Complete(transcript')))
    BY <1>2, <1>6 DEF AnchorInv
  <2>1. anchor.bytes \in Nat /\ anchor.sources \in Nat /\ anchor.bytes <= L
    BY DEF TypeOK, Proof, AnchorInv
  <2> DEFINE before == Named(transcript, "turn", 1, Complete(transcript))
             after == Named(transcript', "turn", 1, Complete(transcript'))
  <2>2. Complete(transcript') \in Nat /\ Complete(transcript') <= Len(transcript')
    BY <1>2, CompleteType
  <2>3. IsFiniteSet(before) /\ IsFiniteSet(after)
    BY <1>1, <1>2, <2>2, CompleteType, NamedType
  <2>4. before \subseteq after
    <3>1. Scan(transcript) \in Index /\ Scan(transcript) # NoIndex
          /\ Agrees(Scan(transcript), transcript)
      BY <1>1, ScanAgrees
    <3>2. Agrees(Scan(transcript), transcript') BY <1>5, <3>1
    <3>3. Scan(transcript).known \subseteq Scan(transcript').known
      BY <1>2, <3>1, <3>2, ScanIsMost
    <3> QED BY <3>3 DEF Scan
  <2>5. anchor.sources <= Cardinality(before) BY DEF AnchorInv
  <2> HIDE DEF before, after
  <2>6. Cardinality(before) <= Cardinality(after) BY <2>3, <2>4, FS_Subset
  <2>7. Cardinality(before) \in Nat /\ Cardinality(after) \in Nat
    BY <2>3, FS_CardinalityType
  <2>8. anchor.sources <= Cardinality(after) BY <2>1, <2>5, <2>6, <2>7
  <2> QED BY <1>1, <2>1, <2>8 DEF after
<1> QED BY <1>2, <1>3, <1>4, <1>5, <1>6

-----------------------------------------------------------------------------
(* The size of a fold.                                                     *)

\* A set of naturals that is not empty has a least element.
LEMMA LeastNatural ==
  ASSUME NEW S \in SUBSET Nat, S # {}
  PROVE  \E n \in S : \A m \in S : n <= m
<1> DEFINE R == OpToRel(<, Nat)
<1>1. IsWellFoundedOn(R, Nat) BY NatLessThanWellFounded
<1>2. \A m, n \in Nat : <<m, n>> \in R <=> m < n BY DEF OpToRel
<1> HIDE DEF R
<1>3. \E n \in S : \A m \in S : ~ (<<m, n>> \in R) BY <1>1, WFMin
<1>4. PICK n \in S : \A m \in S : ~ (<<m, n>> \in R) BY <1>3
<1>5. \A m \in S : n <= m
  <2> TAKE m \in S
  <2>1. m \in Nat /\ n \in Nat OBVIOUS
  <2>2. ~(m < n) BY <1>2, <1>4, <2>1
  <2> QED BY <2>1, <2>2
<1> QED BY <1>5

\* A fold takes no more rounds than there are.
LEMMA BatchIsOldest ==
  ASSUME NEW rs \in Seq(Turn)
  PROVE  BatchOf(rs) \in 0..Len(rs)
<1> DEFINE most == AtMost(Removable(rs), BatchMax)
           enough == {n \in 1..most : /\ Tokens(SubSeq(rs, 1, n)) >= DesiredRemoval(rs)
                                      /\ n >= RoundOverflow(rs)}
<1>1. Len(rs) \in Nat /\ RawTail \in Nat /\ BatchMax \in Nat
  BY MemoryAssumption
<1>2. most \in 0..Len(rs)
  <2>1. Removable(rs) \in 0..Len(rs) BY <1>1 DEF Removable, AtLeast
  <2> QED BY <1>1, <2>1 DEF AtMost
<1>3. ASSUME enough # {}
      PROVE  (CHOOSE n \in enough : \A m \in enough : n <= m) \in 1..most
  <2>1. enough \in SUBSET Nat BY <1>2
  <2>2. enough \subseteq 1..most OBVIOUS
  <2> HIDE DEF enough, most
  <2>3. \E n \in enough : \A m \in enough : n <= m
    BY <1>3, <2>1, LeastNatural
  <2>4. (CHOOSE n \in enough : \A m \in enough : n <= m) \in enough BY <2>3
  <2> QED BY <2>2, <2>4
<1>4. CASE ~OverSoftMark(rs) /\ Len(rs) <= RoundLimit /\ Tokens(rs) <= HardCap
  BY <1>1, <1>4 DEF BatchOf
<1>5. CASE ~(~OverSoftMark(rs) /\ Len(rs) <= RoundLimit /\ Tokens(rs) <= HardCap)
  <2>1. BatchOf(rs) = IF enough = {} THEN most
                      ELSE CHOOSE n \in enough : \A m \in enough : n <= m
    BY <1>5 DEF BatchOf
  <2> HIDE DEF enough, most
  <2> QED BY <1>1, <1>2, <1>3, <2>1
<1> QED BY <1>4, <1>5

\* So the plan of a fold is the oldest of the rounds.
LEMMA PlanIsOldest ==
  ASSUME rounds \in Seq(Turn)
  PROVE  /\ FoldPlan \in Seq(Turn) /\ Len(FoldPlan) <= Len(rounds)
         /\ FoldPlan = SubSeq(rounds, 1, Len(FoldPlan))
<1>1. CASE FoldPlan = << >>
  BY <1>1
<1>2. CASE FoldPlan # << >>
  <2> DEFINE n == BatchOf(rounds)
  <2>1. FoldPlan = SubSeq(rounds, 1, n) BY <1>2 DEF FoldPlan
  <2>2. n \in 0..Len(rounds) BY BatchIsOldest
  <2> HIDE DEF n
  <2>3. /\ SubSeq(rounds, 1, n) \in Seq(Turn) /\ Len(SubSeq(rounds, 1, n)) = n
    BY <2>2
  <2> QED BY <2>1, <2>2, <2>3
<1> QED BY <1>1, <1>2

-----------------------------------------------------------------------------
(* What a step leaves alone.                                               *)

LEMMA ScanSame ==
  ASSUME IndexIsTranscript, CommitsFollow, AnchorInv,
         UNCHANGED <<transcript, index, indexFile, anchor>>
  PROVE  /\ IndexIsTranscript' /\ CommitsFollow' /\ AnchorInv'
         /\ TheIndex' = TheIndex /\ Known' = Known /\ Committed' = Committed
  BY DEF IndexIsTranscript, IndexAgrees, CommitsFollow, AnchorInv, TheIndex, Known, Committed

\* More turns that were stopped do no harm to what is said of the others.
LEMMA RoundsSame ==
  ASSUME FoldInv, UNCHANGED <<rounds, summaries, archived, dropped, overflow>>,
         broken \subseteq broken'
  PROVE  FoldInv' /\ Remembered' = Remembered
<1>1. AllSummaries' = AllSummaries BY DEF AllSummaries
<1>2. Remembered' = Remembered BY <1>1 DEF Remembered, Summarised, TurnsOf
<1>3. FoldInv' BY <1>1 DEF FoldInv
<1> QED BY <1>2, <1>3

LEMMA SummaryType ==
  ASSUME TypeOK
  PROVE  AllSummaries \subseteq Summary /\ Summarised = UNION {Range(s.of) : s \in AllSummaries}
<1>1. Range(summaries) \subseteq Summary
  <2> SUFFICES ASSUME NEW n \in DOMAIN summaries PROVE summaries[n] \in Summary
    BY DEF Range
  <2>1. summaries \in Seq(Summary) BY DEF TypeOK
  <2> QED BY <2>1
<1>2. archived \subseteq Summary /\ dropped \subseteq Summary BY DEF TypeOK
<1> QED BY <1>1, <1>2 DEF AllSummaries, Summarised, TurnsOf

-----------------------------------------------------------------------------
(* The initial states and the steps of the worker.                         *)

LEMMA InitIInv == Init => IInv
<1> SUFFICES ASSUME Init PROVE IInv
  OBVIOUS
<1>1. Range(<< >>) = {} BY DEF Range
<1>2. TypeOK
  <2>1. MaxTroubles \in Nat BY MemoryAssumption
  <2>2. foldState \in [failures : 0..3, waits : BOOLEAN] BY DEF Init
  <2>3. transcript \in Seq(Lines) /\ rounds \in Seq(Turn) /\ summaries \in Seq(Summary)
    BY DEF Init
  <2>4. /\ indexFile = NoIndex /\ index = NoIndex /\ anchor = NoProof
        /\ up = TRUE /\ closing = FALSE /\ live = NoTurn /\ step = "idle"
        /\ worker = "none" /\ wanted = FALSE /\ plan \in Seq(Turn) /\ troubles = 0
        /\ archived = {} /\ dropped = {} /\ overflow = {} /\ answered = {} /\ broken = {}
    BY DEF Init
  <2>5. troubles \in 0..MaxTroubles BY <2>1, <2>4
  <2> QED BY <2>2, <2>3, <2>4, <2>5 DEF TypeOK
<1>3. IndexIsTranscript BY DEF Init, IndexIsTranscript, IndexAgrees
<1>4. StepInv /\ CommitsFollow /\ AnchorInv /\ PlanInv
  BY DEF Init, StepInv, CommitsFollow, Follow, AnchorInv, PlanInv
<1>5. AllSummaries = {} /\ Summarised = {} /\ Remembered = {}
  BY <1>1 DEF Init, AllSummaries, Summarised, TurnsOf, Remembered
<1>6. Committed = {}
  BY DEF Init, Committed, Named
<1>7. MemoryInv BY <1>5, <1>6 DEF Init, MemoryInv
<1>8. FoldInv BY <1>5 DEF Init, FoldInv, IsInjective
<1> QED BY <1>2, <1>3, <1>4, <1>7, <1>8 DEF IInv

\* Steps of the worker that touch neither rounds nor summaries.
LEMMA WorkerKeeps ==
  ASSUME IInv,
         \/ WorkerTurns \/ WorkerLeaves \/ PlanFold \/ FoldAnswered \/ WorkerThrows
         \/ BackoffElapses \/ UNCHANGED vars
  PROVE  IInv'
<1>1. /\ TypeOK /\ IndexIsTranscript /\ StepInv /\ CommitsFollow /\ MemoryInv
      /\ FoldInv /\ PlanInv /\ AnchorInv
  BY DEF IInv
<1>2. /\ UNCHANGED <<transcript, rounds, summaries, archived, overflow>>
      /\ UNCHANGED <<indexFile, anchor, up, closing, index, live, step, answered>>
      /\ UNCHANGED <<dropped, broken>>
  BY DEF WorkerTurns, WorkerLeaves, PlanFold, FoldAnswered, WorkerThrows, BackoffElapses,
         vars, files, fold, turn, history
<1>3. /\ PlanInv' /\ plan' \in Seq(Turn)
      /\ wanted' \in BOOLEAN
      /\ worker' \in {"none", "top", "planning", "asking", "installing", "failing", "leaving"}
      /\ foldState' \in [failures : 0..3, waits : BOOLEAN]
      /\ troubles' \in 0..MaxTroubles
  <2>1. /\ rounds \in Seq(Turn) /\ plan \in Seq(Turn) /\ wanted \in BOOLEAN
        /\ worker \in {"none", "top", "planning", "asking", "installing", "failing", "leaving"}
        /\ foldState \in [failures : 0..3, waits : BOOLEAN]
        /\ troubles \in 0..MaxTroubles /\ MaxTroubles \in Nat
    BY <1>1, MemoryAssumption DEF TypeOK
  <2>2. CASE WorkerTurns \/ WorkerLeaves \/ FoldAnswered \/ UNCHANGED vars
    BY <1>1, <2>1, <2>2
       DEF WorkerTurns, WorkerLeaves, FoldAnswered, vars, files, fold, turn, history, PlanInv
  <2>3. CASE PlanFold
    <3>1. /\ plan' = FoldPlan /\ rounds' = rounds
          /\ worker' \in {"top", "asking"}
          /\ wanted' = wanted /\ foldState' = foldState /\ troubles' = troubles
      BY <2>3 DEF PlanFold, files, turn, history
    <3> QED BY <2>1, <3>1, PlanIsOldest DEF PlanInv
  <2>4. CASE WorkerThrows
    BY <2>1, <2>4 DEF WorkerThrows, files, turn, PlanInv
  <2>5. CASE BackoffElapses
    BY <1>1, <2>1, <2>5 DEF BackoffElapses, fold, turn, history, PlanInv
  <2> QED BY <2>2, <2>3, <2>4, <2>5
<1>4. TypeOK'
  BY <1>1, <1>2, <1>3 DEF TypeOK
<1>5. /\ IndexIsTranscript' /\ CommitsFollow' /\ AnchorInv'
      /\ TheIndex' = TheIndex /\ Known' = Known /\ Committed' = Committed
  BY <1>1, <1>2, ScanSame
<1>6. FoldInv' /\ Remembered' = Remembered
  BY <1>1, <1>2, RoundsSame
<1>7. StepInv' BY <1>1, <1>2, <1>6 DEF StepInv
<1>8. MemoryInv' BY <1>1, <1>2, <1>5, <1>6 DEF MemoryInv
<1> QED BY <1>3, <1>4, <1>5, <1>6, <1>7, <1>8 DEF IInv

-----------------------------------------------------------------------------
(* The steps of a turn.                                                    *)

\* A whole line that is appended is in the index at once, and with it all that
\* the transcript says.
LEMMA AppendLineKeeps ==
  ASSUME TypeOK, IndexIsTranscript, CommitsFollow, AnchorInv,
         NEW line \in Lines, line.ended = TRUE, line.what = "commit" => line.turn \in Known,
         AppendLine(line), anchor' = anchor
  PROVE  /\ transcript' \in Seq(Lines)
         /\ index' \in Index /\ index' # NoIndex /\ indexFile' \in Index \cup {NoIndex}
         /\ IndexIsTranscript' /\ CommitsFollow' /\ AnchorInv'
         /\ Known' = Known \cup (IF line.what = "turn" THEN {line.turn} ELSE {})
         /\ Committed' = Committed \cup (IF line.what = "commit" THEN {line.turn} ELSE {})
         /\ TheIndex' = index' /\ index'.known = Known' /\ index'.committed = Committed'
<1>1. /\ transcript' = Appended(line) /\ index' = Scanned(TheIndex, transcript')
      /\ indexFile' \in {index', indexFile}
  BY DEF AppendLine, IndexWritten
<1>2. /\ transcript' \in Seq(Lines)
      /\ CommitsFollow' /\ AnchorInv'
      /\ Known' = Known \cup (IF line.what = "turn" THEN {line.turn} ELSE {})
      /\ Committed' = Committed \cup (IF line.what = "commit" THEN {line.turn} ELSE {})
      /\ \A ix \in Index \cup {NoIndex} : Agrees(ix, transcript) => Agrees(ix, transcript')
  BY <1>1, TranscriptGrows
<1>3. TheIndex \in Index /\ TheIndex # NoIndex /\ Agrees(TheIndex, transcript)
  BY TheIndexAgrees
<1>4. index' = Scan(transcript')
  BY <1>1, <1>2, <1>3, ScannedIsScan
<1>5. index' \in Index /\ index' # NoIndex /\ Agrees(index', transcript')
  BY <1>2, <1>4, ScanAgrees
<1>6. indexFile \in Index \cup {NoIndex} /\ Agrees(indexFile, transcript)
  BY DEF TypeOK, IndexIsTranscript, IndexAgrees, Agrees
<1>7. indexFile' \in Index \cup {NoIndex} /\ Agrees(indexFile', transcript')
  BY <1>1, <1>2, <1>5, <1>6
<1>8. IndexIsTranscript'
  BY <1>5, <1>7 DEF IndexIsTranscript, IndexAgrees, Agrees
<1>9. TheIndex' = index' BY <1>5 DEF TheIndex
<1>10. Complete(transcript') = Len(transcript')
  <2>1. transcript \in Seq(Lines) BY DEF TypeOK
  <2> QED BY <1>1, <2>1, AppendedLines
<1>11. index'.known = Known' /\ index'.committed = Committed'
  BY <1>4, <1>10 DEF Scan, Known, Committed
<1> QED BY <1>2, <1>5, <1>7, <1>8, <1>9, <1>11

\* Building the index from its file changes nothing of what it says.
LEMMA UseIndexKeeps ==
  ASSUME TypeOK, IndexIsTranscript, CommitsFollow, AnchorInv,
         UseIndex, UNCHANGED <<transcript, anchor>>
  PROVE  /\ index' \in Index /\ index' # NoIndex /\ indexFile' \in Index \cup {NoIndex}
         /\ IndexIsTranscript' /\ CommitsFollow' /\ AnchorInv'
         /\ Known' = Known /\ Committed' = Committed
         /\ TheIndex' = TheIndex /\ index' = TheIndex
<1>1. TheIndex \in Index /\ TheIndex # NoIndex /\ Agrees(TheIndex, transcript)
  BY TheIndexAgrees
<1>2. index' = TheIndex /\ indexFile' \in {TheIndex, indexFile}
  BY DEF UseIndex
<1>3. indexFile \in Index \cup {NoIndex} /\ Agrees(indexFile, transcript)
  BY DEF TypeOK, IndexIsTranscript, IndexAgrees, Agrees
<1>4. IndexIsTranscript'
  BY <1>1, <1>2, <1>3 DEF IndexIsTranscript, IndexAgrees, Agrees
<1>5. CommitsFollow' /\ AnchorInv' /\ Known' = Known /\ Committed' = Committed
  BY DEF CommitsFollow, AnchorInv, Known, Committed
<1>6. TheIndex' = index' BY <1>1, <1>2 DEF TheIndex
<1> QED BY <1>1, <1>2, <1>3, <1>4, <1>5, <1>6

LEMMA EnsureTurnKeeps ==
  ASSUME IInv, NEW t \in Turn, EnsureTurn(t)
  PROVE  IInv'
<1>1. /\ TypeOK /\ IndexIsTranscript /\ StepInv /\ CommitsFollow /\ MemoryInv
      /\ FoldInv /\ PlanInv /\ AnchorInv
  BY DEF IInv
<1>2. /\ up /\ ~closing /\ live = NoTurn /\ live' = t
      /\ UNCHANGED <<rounds, summaries, archived, overflow, foldState, anchor, up, closing>>
      /\ UNCHANGED <<worker, wanted, plan, answered, dropped, broken, troubles>>
  BY DEF EnsureTurn, fold, history
<1>3. step = "idle" /\ t # NoTurn
  BY <1>1, <1>2, MemoryAssumption DEF StepInv
<1>4. FoldInv' /\ Remembered' = Remembered
  BY <1>1, <1>2, RoundsSame
<1>5. /\ TheIndex.committed \subseteq TheIndex.known
      /\ TheIndex.known \subseteq Known /\ TheIndex.committed \subseteq Committed
  BY <1>1, TheIndexAgrees
<1>6. PlanInv' BY <1>1, <1>2 DEF PlanInv
<1>7. \A r \in Remembered : r \in broken \/ r \in TheIndex.committed
  BY <1>1, <1>3 DEF MemoryInv
<1>8. CASE t \in TheIndex.known
  <2>1. /\ UseIndex /\ UNCHANGED transcript
        /\ step' = IF t \in TheIndex.committed THEN "proof" ELSE "round"
    BY <1>8 DEF EnsureTurn
  <2>2. /\ index' \in Index /\ index' # NoIndex /\ indexFile' \in Index \cup {NoIndex}
        /\ IndexIsTranscript' /\ CommitsFollow' /\ AnchorInv'
        /\ Known' = Known /\ Committed' = Committed
        /\ TheIndex' = TheIndex /\ index' = TheIndex
    BY <1>1, <1>2, <2>1, UseIndexKeeps
  <2>3. TypeOK' BY <1>1, <1>2, <2>1, <2>2 DEF TypeOK
  <2>4. StepInv'
    BY <1>2, <1>3, <1>4, <1>7, <1>8, <2>1, <2>2 DEF StepInv
  <2>5. MemoryInv' BY <1>1, <1>2, <1>4, <1>7, <2>2 DEF MemoryInv
  <2> QED BY <1>4, <1>6, <2>2, <2>3, <2>4, <2>5 DEF IInv
<1>9. CASE t \notin TheIndex.known
  <2> DEFINE line == Line("turn", t)
  <2>1. AppendLine(line) /\ step' = "round"
    BY <1>9 DEF EnsureTurn
  <2>2. line \in Lines /\ line.ended = TRUE /\ line.what = "turn" /\ line.turn = t
    BY DEF Line, Lines
  <2> HIDE DEF line
  <2>3. /\ transcript' \in Seq(Lines)
        /\ index' \in Index /\ index' # NoIndex /\ indexFile' \in Index \cup {NoIndex}
        /\ IndexIsTranscript' /\ CommitsFollow' /\ AnchorInv'
        /\ Known' = Known \cup {t} /\ Committed' = Committed
        /\ TheIndex' = index' /\ index'.known = Known' /\ index'.committed = Committed'
    BY <1>1, <1>2, <2>1, <2>2, AppendLineKeeps
  <2>4. TypeOK' BY <1>1, <1>2, <2>1, <2>3 DEF TypeOK
  <2>5. t \in Remembered => t \in broken BY <1>5, <1>7, <1>9
  <2>6. StepInv'
    BY <1>2, <1>3, <1>4, <2>1, <2>3, <2>5 DEF StepInv
  <2>7. MemoryInv' BY <1>1, <1>2, <1>4, <1>5, <1>7, <2>3 DEF MemoryInv
  <2> QED BY <1>4, <1>6, <2>3, <2>4, <2>6, <2>7 DEF IInv
<1> QED BY <1>8, <1>9

\* A round that is pushed is the newest: the oldest ones stay as they are.
LEMMA PushedRound ==
  ASSUME rounds \in Seq(Turn), IsInjective(rounds), PlanInv, plan \in Seq(Turn),
         NEW t \in Turn, t \notin Range(rounds), rounds' = Append(rounds, t), plan' = plan
  PROVE  /\ rounds' \in Seq(Turn) /\ Range(rounds') = Range(rounds) \cup {t}
         /\ IsInjective(rounds') /\ PlanInv'
<1>1. /\ rounds' \in Seq(Turn) /\ Len(rounds') = Len(rounds) + 1
      /\ rounds'[Len(rounds) + 1] = t /\ \A n \in 1..Len(rounds) : rounds'[n] = rounds[n]
      /\ DOMAIN rounds' = 1..(Len(rounds) + 1) /\ DOMAIN rounds = 1..Len(rounds)
      /\ Len(rounds) \in Nat
  OBVIOUS
<1>2. Range(rounds') = Range(rounds) \cup {t}
  BY <1>1 DEF Range
<1>3. IsInjective(rounds')
  <2> SUFFICES ASSUME NEW m \in 1..(Len(rounds) + 1), NEW n \in 1..(Len(rounds) + 1),
                      rounds'[m] = rounds'[n]
               PROVE  m = n
    BY <1>1 DEF IsInjective
  <2>1. \A i \in 1..Len(rounds) : rounds[i] # t BY <1>1 DEF Range
  <2>2. \A i, j \in 1..Len(rounds) : rounds[i] = rounds[j] => i = j BY <1>1 DEF IsInjective
  <2> QED BY <1>1, <2>1, <2>2
<1>4. PlanInv'
  <2>1. Len(plan) \in Nat /\ Len(plan) <= Len(rounds) BY DEF PlanInv
  <2>2. SubSeq(rounds', 1, Len(plan)) = SubSeq(rounds, 1, Len(plan))
    <3>1. \A n \in 1..Len(plan) : rounds'[n] = rounds[n] BY <1>1, <2>1
    <3> QED BY <1>1, <2>1, <3>1
  <2> QED BY <1>1, <2>1, <2>2 DEF PlanInv
<1> QED BY <1>1, <1>2, <1>3, <1>4

\* It may be folded already when its turn was stopped before, not otherwise.
LEMMA PushKeepsFolds ==
  ASSUME TypeOK, FoldInv, PlanInv, NEW t \in Turn, t \notin Range(rounds),
         t \notin Remembered \/ t \in broken',
         rounds' = Append(rounds, t), broken \subseteq broken',
         UNCHANGED <<summaries, archived, dropped, overflow, plan>>
  PROVE  /\ rounds' \in Seq(Turn) /\ Remembered' = Remembered \cup {t}
         /\ FoldInv' /\ PlanInv'
<1>1. /\ rounds' \in Seq(Turn) /\ Range(rounds') = Range(rounds) \cup {t}
      /\ IsInjective(rounds') /\ PlanInv'
  BY PushedRound DEF TypeOK, FoldInv
<1>2. AllSummaries' = AllSummaries /\ Summarised' = Summarised
  BY DEF AllSummaries, Summarised, TurnsOf
<1>3. Remembered' = Remembered \cup {t}
  BY <1>1, <1>2 DEF Remembered
<1>4. \A s \in AllSummaries : \A u \in Range(s.of) \ broken' : u \notin Range(rounds')
  <2> SUFFICES ASSUME NEW s \in AllSummaries, NEW u \in Range(s.of), u \notin broken'
               PROVE  u \notin Range(rounds')
    OBVIOUS
  <2>1. u \notin Range(rounds) BY DEF FoldInv
  <2>2. u \in Remembered BY SummaryType DEF Remembered
  <2> QED BY <1>1, <2>1, <2>2
<1>5. FoldInv'
  BY <1>1, <1>2, <1>4 DEF FoldInv
<1> QED BY <1>1, <1>3, <1>5

LEMMA PushRoundKeeps ==
  ASSUME IInv, PushRound
  PROVE  IInv'
<1>1. /\ TypeOK /\ IndexIsTranscript /\ StepInv /\ CommitsFollow /\ MemoryInv
      /\ FoldInv /\ PlanInv /\ AnchorInv
  BY DEF IInv
<1>2. /\ up /\ step = "round" /\ step' = "commit"
      /\ rounds' = IF live \in Range(rounds) THEN rounds ELSE Append(rounds, live)
      /\ UNCHANGED <<transcript, summaries, archived, overflow, foldState, indexFile>>
      /\ UNCHANGED <<anchor, up, closing, index, live, answered>>
      /\ UNCHANGED <<worker, wanted, plan, dropped, broken, troubles>>
  BY DEF PushRound, fold, history
<1>3. /\ live \in Turn /\ live # NoTurn /\ index # NoIndex /\ live \in index.known
      /\ live \notin Remembered \/ live \in broken
  BY <1>1, <1>2 DEF StepInv, TypeOK
<1>4. /\ IndexIsTranscript' /\ CommitsFollow' /\ AnchorInv'
      /\ TheIndex' = TheIndex /\ Known' = Known /\ Committed' = Committed
  BY <1>1, <1>2, ScanSame
<1>5. live \in Known
  BY <1>1, <1>3, TheIndexAgrees
<1>6. /\ rounds' \in Seq(Turn) /\ Remembered' = Remembered \cup {live}
      /\ FoldInv' /\ PlanInv'
  <2>1. CASE live \in Range(rounds)
    <3>1. rounds' = rounds BY <1>2, <2>1
    <3>2. FoldInv' /\ Remembered' = Remembered BY <1>1, <1>2, <3>1, RoundsSame
    <3>3. PlanInv' /\ rounds' \in Seq(Turn) BY <1>1, <1>2, <3>1 DEF PlanInv, TypeOK
    <3>4. live \in Remembered BY <2>1 DEF Remembered
    <3> QED BY <3>2, <3>3, <3>4
  <2>2. CASE live \notin Range(rounds)
    BY <1>1, <1>2, <1>3, <2>2, PushKeepsFolds
  <2> QED BY <2>1, <2>2
<1>7. TypeOK' BY <1>1, <1>2, <1>6 DEF TypeOK
<1>8. StepInv' BY <1>1, <1>2, <1>3, <1>6 DEF StepInv
<1>9. MemoryInv' BY <1>1, <1>2, <1>4, <1>5, <1>6 DEF MemoryInv
<1> QED BY <1>4, <1>6, <1>7, <1>8, <1>9 DEF IInv

LEMMA CommitTurnKeeps ==
  ASSUME IInv, CommitTurn
  PROVE  IInv'
<1>1. /\ TypeOK /\ IndexIsTranscript /\ StepInv /\ CommitsFollow /\ MemoryInv
      /\ FoldInv /\ PlanInv /\ AnchorInv
  BY DEF IInv
<1>2. /\ up /\ step = "commit" /\ step' = "proof"
      /\ RequestFold
      /\ UNCHANGED <<rounds, summaries, archived, overflow, foldState, anchor, up>>
      /\ UNCHANGED <<closing, plan, live, answered, dropped, broken, troubles>>
  BY DEF CommitTurn, history
<1>3. /\ live \in Turn /\ live # NoTurn /\ index # NoIndex /\ live \in index.known
      /\ live \in Remembered
  BY <1>1, <1>2 DEF StepInv, TypeOK
<1>4. TheIndex = index /\ live \in Known /\ index.committed \subseteq Committed
  BY <1>1, <1>3, TheIndexAgrees
<1>5. FoldInv' /\ Remembered' = Remembered
  BY <1>1, <1>2, RoundsSame
<1>6. PlanInv' BY <1>1, <1>2 DEF PlanInv
<1>7. /\ worker' \in {"none", "top", "planning", "asking", "installing", "failing", "leaving"}
      /\ wanted' \in BOOLEAN
  BY <1>1, <1>2 DEF RequestFold, TypeOK
<1>8. /\ transcript' \in Seq(Lines)
      /\ index' \in Index /\ index' # NoIndex /\ indexFile' \in Index \cup {NoIndex}
      /\ IndexIsTranscript' /\ CommitsFollow' /\ AnchorInv'
      /\ Known' = Known /\ Committed' \subseteq Committed \cup {live}
      /\ TheIndex' = index' /\ index.committed \subseteq index'.committed
      /\ live \in index'.committed /\ live \in index'.known
  <2>1. CASE live \in index.committed
    <3>1. UNCHANGED <<transcript, index, indexFile>> BY <2>1 DEF CommitTurn
    <3>2. /\ IndexIsTranscript' /\ CommitsFollow' /\ AnchorInv'
          /\ TheIndex' = TheIndex /\ Known' = Known /\ Committed' = Committed
      BY <1>1, <1>2, <3>1, ScanSame
    <3> QED BY <1>1, <1>3, <1>4, <2>1, <3>1, <3>2 DEF TypeOK
  <2>2. CASE live \notin index.committed
    <3> DEFINE line == Line("commit", live)
    <3>1. AppendLine(line) BY <2>2 DEF CommitTurn
    <3>2. line \in Lines /\ line.ended = TRUE /\ line.what = "commit" /\ line.turn = live
      BY <1>3 DEF Line, Lines
    <3> HIDE DEF line
    <3>3. /\ transcript' \in Seq(Lines)
          /\ index' \in Index /\ index' # NoIndex /\ indexFile' \in Index \cup {NoIndex}
          /\ IndexIsTranscript' /\ CommitsFollow' /\ AnchorInv'
          /\ Known' = Known /\ Committed' = Committed \cup {live}
          /\ TheIndex' = index' /\ index'.known = Known' /\ index'.committed = Committed'
      BY <1>1, <1>2, <1>4, <3>1, <3>2, AppendLineKeeps
    <3> QED BY <1>4, <3>3
  <2> QED BY <2>1, <2>2
<1>9. TypeOK' BY <1>1, <1>2, <1>7, <1>8 DEF TypeOK
<1>10. StepInv' BY <1>1, <1>2, <1>3, <1>8 DEF StepInv
<1>11. MemoryInv'
  <2>1. Remembered' \subseteq Known' BY <1>1, <1>5, <1>8 DEF MemoryInv
  <2>2. Committed' \cup answered' \subseteq Remembered'
    BY <1>1, <1>2, <1>3, <1>5, <1>8 DEF MemoryInv
  <2>3. \A r \in Remembered' : r \in broken' \/ r \in TheIndex'.committed
    BY <1>1, <1>2, <1>4, <1>5, <1>8 DEF MemoryInv
  <2> QED BY <2>1, <2>2, <2>3 DEF MemoryInv
<1> QED BY <1>5, <1>6, <1>8, <1>9, <1>10, <1>11 DEF IInv

LEMMA CheckpointKeeps ==
  ASSUME IInv, Checkpoint
  PROVE  IInv'
<1>1. /\ TypeOK /\ IndexIsTranscript /\ StepInv /\ CommitsFollow /\ MemoryInv
      /\ FoldInv /\ PlanInv /\ AnchorInv
  BY DEF IInv
<1>2. /\ up /\ step = "proof" /\ step' = "idle" /\ live' = NoTurn
      /\ anchor' = TranscriptProof /\ answered' = answered \cup {live}
      /\ UNCHANGED <<transcript, rounds, summaries, archived, overflow, foldState>>
      /\ UNCHANGED <<indexFile, up, closing, index, worker, wanted, plan>>
      /\ UNCHANGED <<dropped, broken, troubles>>
  BY DEF Checkpoint, files, fold, history
<1>3. live \in Turn /\ index # NoIndex /\ live \in index.committed
  BY <1>1, <1>2 DEF StepInv, TypeOK
<1>4. /\ TheIndex = index /\ TheIndex \in Index /\ Agrees(index, transcript)
      /\ index.committed \subseteq Committed
  BY <1>1, <1>3, TheIndexAgrees
<1>5. /\ IndexIsTranscript' /\ CommitsFollow'
      /\ TheIndex' = TheIndex /\ Known' = Known /\ Committed' = Committed
  BY <1>1, <1>2 DEF IndexIsTranscript, IndexAgrees, CommitsFollow, TheIndex, Known, Committed
<1>6. anchor' \in Proof /\ AnchorInv'
  <2> DEFINE all == Named(transcript, "turn", 1, Complete(transcript))
  <2>1. transcript \in Seq(Lines) BY <1>1 DEF TypeOK
  <2>2. index.known \subseteq all
    BY <1>3, <1>4, <2>1, ScanIsMost DEF Scan
  <2>3. IsFiniteSet(all) BY <2>1, CompleteType, NamedType
  <2> HIDE DEF all
  <2>4. IsFiniteSet(index.known) /\ Cardinality(index.known) <= Cardinality(all)
    BY <2>2, <2>3, FS_Subset
  <2>5. Cardinality(index.known) \in Nat BY <2>4, FS_CardinalityType
  <2>6. /\ anchor' = [bytes |-> Len(transcript), sources |-> Cardinality(index.known)]
        /\ Len(transcript) \in Nat
    BY <1>2, <2>1 DEF TranscriptProof
  <2>7. anchor' \in Proof BY <2>5, <2>6 DEF Proof
  <2>8. anchor'.bytes <= Len(transcript) /\ anchor'.sources <= Cardinality(all)
    BY <2>4, <2>6
  <2> QED BY <1>2, <2>7, <2>8 DEF AnchorInv, all
<1>7. FoldInv' /\ Remembered' = Remembered
  BY <1>1, <1>2, RoundsSame
<1>8. PlanInv' BY <1>1, <1>2 DEF PlanInv
<1>9. TypeOK' BY <1>1, <1>2, <1>3, <1>6 DEF TypeOK
<1>10. StepInv' BY <1>2 DEF StepInv
<1>11. MemoryInv'
  <2>1. live \in Remembered BY <1>1, <1>3, <1>4 DEF MemoryInv
  <2>2. \A r \in Remembered : r \in broken \/ r \in TheIndex.committed
    BY <1>1, <1>2 DEF MemoryInv
  <2> QED BY <1>1, <1>2, <1>5, <1>7, <2>1, <2>2 DEF MemoryInv
<1> QED BY <1>5, <1>6, <1>7, <1>8, <1>9, <1>10, <1>11 DEF IInv

-----------------------------------------------------------------------------
(* The steps of the process: attempts that throw, crashes and restarts.    *)

\* A line that reached the file while the index was not told, or is lost.
LEMMA UntoldLine ==
  ASSUME TypeOK, IndexIsTranscript, CommitsFollow, AnchorInv,
         \/ transcript' = transcript
         \/ \E line \in Lines :
              /\ transcript' = Appended(line)
              /\ line.what = "commit" => line.turn \in Known \cap Remembered,
         index' \in {index, NoIndex}, UNCHANGED <<indexFile, anchor>>
  PROVE  /\ transcript' \in Seq(Lines)
         /\ IndexIsTranscript' /\ CommitsFollow' /\ AnchorInv'
         /\ Known \subseteq Known' /\ Committed' \subseteq Committed \cup Remembered
         /\ TheIndex.committed \subseteq TheIndex'.committed
<1>1. /\ transcript \in Seq(Lines)
      /\ index \in Index \cup {NoIndex} /\ indexFile \in Index \cup {NoIndex}
      /\ Agrees(index, transcript) /\ Agrees(indexFile, transcript)
  BY DEF TypeOK, IndexIsTranscript, IndexAgrees, Agrees
<1>2. /\ TheIndex \in Index /\ TheIndex # NoIndex /\ Agrees(TheIndex, transcript)
      /\ index # NoIndex => TheIndex = index
  BY TheIndexAgrees
<1>3. /\ transcript' \in Seq(Lines)
      /\ CommitsFollow' /\ AnchorInv'
      /\ Known \subseteq Known' /\ Committed' \subseteq Committed \cup Remembered
      /\ \A ix \in Index \cup {NoIndex} : Agrees(ix, transcript) => Agrees(ix, transcript')
  <2>1. CASE transcript' = transcript
    BY <1>1, <2>1 DEF CommitsFollow, AnchorInv, Known, Committed
  <2>2. CASE transcript' # transcript
    <3>1. PICK line \in Lines : /\ transcript' = Appended(line)
                                /\ line.what = "commit" => line.turn \in Known \cap Remembered
      BY <2>2
    <3> QED BY <3>1, TranscriptGrows
  <2> QED BY <2>1, <2>2
<1>4. Agrees(index', transcript') /\ Agrees(indexFile', transcript')
  <2>1. Agrees(NoIndex, transcript') BY DEF Agrees
  <2> QED BY <1>1, <1>3, <2>1
<1>5. IndexIsTranscript'
  BY <1>4 DEF IndexIsTranscript, IndexAgrees, Agrees
<1>6. TheIndex.committed \subseteq TheIndex'.committed
  <2>1. CASE index' # NoIndex
    BY <1>2, <2>1 DEF TheIndex
  <2>2. CASE index' = NoIndex
    <3>1. TheIndex' = Used(NoIndex, indexFile', transcript') BY <2>2 DEF TheIndex, Used
    <3>2. TheIndex' = Scan(transcript')
      BY <1>1, <1>3, <1>4, <2>2, <3>1, UsedAgrees
    <3>3. Agrees(TheIndex, transcript') BY <1>2, <1>3
    <3> QED BY <1>2, <1>3, <3>2, <3>3, ScanIsMost
  <2> QED BY <2>1, <2>2
<1> QED BY <1>3, <1>5, <1>6

LEMMA TurnThrowsKeeps ==
  ASSUME IInv, TurnThrows
  PROVE  IInv'
<1>1. /\ TypeOK /\ IndexIsTranscript /\ StepInv /\ CommitsFollow /\ MemoryInv
      /\ FoldInv /\ PlanInv /\ AnchorInv
  BY DEF IInv
<1>2. /\ up /\ troubles' = troubles + 1 /\ troubles < MaxTroubles
      /\ broken' = IF rounds' # rounds THEN broken \cup {live} ELSE Break
      /\ live' = NoTurn /\ step' = "idle"
      /\ UNCHANGED <<summaries, archived, overflow, foldState, anchor, up, closing>>
      /\ UNCHANGED <<worker, wanted, plan, answered, dropped, index, indexFile>>
  BY DEF TurnThrows, fold
<1>3. step # "idle" => live \in Turn /\ index # NoIndex /\ live \in index.known
  BY <1>1 DEF StepInv, TypeOK
<1>4. index # NoIndex => index.known \subseteq Known
  BY <1>1, TheIndexAgrees
<1>5. \/ transcript' = transcript
      \/ \E line \in Lines :
           /\ transcript' = Appended(line)
           /\ line.what = "commit" => line.turn \in Known \cap Remembered
  <2>1. CASE step = "idle"
    <3>1. PICK t \in Turn : transcript' = Appended(Line("turn", t))
      BY <2>1 DEF TurnThrows
    <3>2. Line("turn", t) \in Lines /\ Line("turn", t).what = "turn"
      BY DEF Line, Lines
    <3> QED BY <3>1, <3>2
  <2>2. CASE step = "commit"
    <3>1. transcript' \in {transcript, Appended(Line("commit", live))}
      BY <2>2 DEF TurnThrows
    <3>2. live \in Turn /\ live \in Known \cap Remembered
      BY <1>1, <1>3, <1>4, <2>2 DEF StepInv
    <3>3. Line("commit", live) \in Lines /\ Line("commit", live).turn = live
      BY <3>2 DEF Line, Lines
    <3> QED BY <3>1, <3>2, <3>3
  <2>3. CASE step \notin {"idle", "commit"}
    BY <2>3 DEF TurnThrows
  <2> QED BY <2>1, <2>2, <2>3
<1>6. /\ transcript' \in Seq(Lines)
      /\ IndexIsTranscript' /\ CommitsFollow' /\ AnchorInv'
      /\ Known \subseteq Known' /\ Committed' \subseteq Committed \cup Remembered
      /\ TheIndex.committed \subseteq TheIndex'.committed
  <2>1. index' \in {index, NoIndex} BY <1>2
  <2> QED BY <1>1, <1>2, <1>5, <2>1, UntoldLine
<1>7. rounds' # rounds => /\ step = "round" /\ live \notin Range(rounds)
                          /\ rounds' = Append(rounds, live)
  BY DEF TurnThrows
<1>8. /\ broken \subseteq broken' /\ broken' \subseteq Turn
      /\ step = "commit" => live \in broken'
      /\ rounds' # rounds => live \in broken'
  BY <1>1, <1>2, <1>3, <1>7 DEF Break, TypeOK
<1>9. /\ rounds' \in Seq(Turn) /\ Remembered \subseteq Remembered'
      /\ Remembered' \subseteq Known'
      /\ \A r \in Remembered' : r \in Remembered \/ r \in broken'
      /\ FoldInv' /\ PlanInv'
  <2>1. CASE rounds' = rounds
    <3>1. FoldInv' /\ Remembered' = Remembered BY <1>1, <1>2, <1>8, <2>1, RoundsSame
    <3> QED BY <1>1, <1>2, <1>6, <2>1, <3>1 DEF PlanInv, TypeOK, MemoryInv
  <2>2. CASE rounds' # rounds
    <3>1. live \in Turn /\ live \in Known BY <1>3, <1>4, <1>7, <2>2
    <3>2. /\ rounds' \in Seq(Turn) /\ Remembered' = Remembered \cup {live}
          /\ FoldInv' /\ PlanInv'
      BY <1>1, <1>2, <1>7, <1>8, <2>2, <3>1, PushKeepsFolds
    <3> QED BY <1>1, <1>6, <1>8, <2>2, <3>1, <3>2 DEF MemoryInv
  <2> QED BY <2>1, <2>2
<1>10. TypeOK'
  <2>1. troubles' \in 0..MaxTroubles
    <3>1. troubles \in 0..MaxTroubles /\ MaxTroubles \in Nat
      BY <1>1, MemoryAssumption DEF TypeOK
    <3> QED BY <1>2, <3>1
  <2> QED BY <1>1, <1>2, <1>6, <1>8, <1>9, <2>1 DEF TypeOK
<1>11. StepInv' BY <1>2 DEF StepInv
<1>12. MemoryInv'
  <2>1. \A r \in Remembered' : r \in broken' \/ r \in TheIndex'.committed
    BY <1>1, <1>6, <1>8, <1>9 DEF MemoryInv
  <2>2. Committed' \cup answered' \subseteq Remembered'
    BY <1>1, <1>2, <1>6, <1>9 DEF MemoryInv
  <2> QED BY <1>9, <2>1, <2>2 DEF MemoryInv
<1> QED BY <1>6, <1>9, <1>10, <1>11, <1>12 DEF IInv

LEMMA DieKeeps ==
  ASSUME IInv, Die
  PROVE  IInv'
<1>1. /\ TypeOK /\ IndexIsTranscript /\ StepInv /\ CommitsFollow /\ MemoryInv
      /\ FoldInv /\ PlanInv /\ AnchorInv
  BY DEF IInv
<1>2. /\ up /\ (closing \/ troubles < MaxTroubles)
      /\ up' = FALSE /\ closing' = FALSE /\ index' = NoIndex
      /\ live' = NoTurn /\ step' = "idle"
      /\ worker' = "none" /\ wanted' = FALSE /\ plan' = << >>
      /\ broken' = Break
      /\ troubles' = IF closing THEN troubles ELSE troubles + 1
      /\ UNCHANGED <<rounds, summaries, archived, overflow, foldState, indexFile>>
      /\ UNCHANGED <<anchor, answered, dropped>>
  BY DEF Die
<1>3. step # "idle" => live \in Turn /\ index # NoIndex /\ live \in index.known
  BY <1>1 DEF StepInv, TypeOK
<1>4. index # NoIndex => index.known \subseteq Known
  BY <1>1, TheIndexAgrees
<1>5. \/ transcript' = transcript
      \/ \E line \in Lines :
           /\ transcript' = Appended(line)
           /\ line.what = "commit" => line.turn \in Known \cap Remembered
  <2>1. CASE \E t \in (Turn \ answered) \ TheIndex.known, what \in {"turn", "cut"} :
               transcript' = Appended([what |-> what, turn |-> t, ended |-> FALSE])
    <3>1. PICK t \in Turn, what \in {"turn", "cut"} :
                 transcript' = Appended([what |-> what, turn |-> t, ended |-> FALSE])
      BY <2>1
    <3>2. [what |-> what, turn |-> t, ended |-> FALSE] \in Lines BY DEF Lines
    <3> QED BY <3>1, <3>2
  <2>2. CASE /\ step = "commit"
             /\ \E what \in {"commit", "cut"} :
                  transcript' = Appended([what |-> what, turn |-> live, ended |-> FALSE])
    <3>1. PICK what \in {"commit", "cut"} :
                 transcript' = Appended([what |-> what, turn |-> live, ended |-> FALSE])
      BY <2>2
    <3>2. live \in Turn /\ live \in Known \cap Remembered
      BY <1>1, <1>3, <1>4, <2>2 DEF StepInv
    <3>3. [what |-> what, turn |-> live, ended |-> FALSE] \in Lines BY <3>2 DEF Lines
    <3> QED BY <3>1, <3>2, <3>3
  <2> QED BY <2>1, <2>2 DEF Die
<1>6. /\ transcript' \in Seq(Lines)
      /\ IndexIsTranscript' /\ CommitsFollow' /\ AnchorInv'
      /\ Known \subseteq Known' /\ Committed' \subseteq Committed \cup Remembered
      /\ TheIndex.committed \subseteq TheIndex'.committed
  <2>1. index' \in {index, NoIndex} BY <1>2
  <2> QED BY <1>1, <1>2, <1>5, <2>1, UntoldLine
<1>7. /\ broken \subseteq broken' /\ broken' \subseteq Turn
      /\ step = "commit" => live \in broken'
  BY <1>1, <1>2, <1>3 DEF Break, TypeOK
<1>8. FoldInv' /\ Remembered' = Remembered
  BY <1>1, <1>2, <1>7, RoundsSame
<1>9. PlanInv'
  <2>1. rounds \in Seq(Turn) /\ Len(rounds) \in Nat BY <1>1 DEF TypeOK
  <2> QED BY <1>2, <2>1 DEF PlanInv
<1>10. TypeOK'
  <2>1. troubles' \in 0..MaxTroubles
    <3>1. troubles \in 0..MaxTroubles /\ MaxTroubles \in Nat
      BY <1>1, MemoryAssumption DEF TypeOK
    <3> QED BY <1>2, <3>1
  <2>4. plan' \in Seq(Turn) /\ index' \in Index \cup {NoIndex}
    <3>1. plan' = << >> /\ index' = NoIndex BY <1>2
    <3> QED BY <3>1
  <2>2. /\ live' \in Turn \cup {NoTurn} /\ step' \in {"idle", "round", "commit", "proof"}
        /\ worker' \in {"none", "top", "planning", "asking", "installing", "failing", "leaving"}
        /\ wanted' \in BOOLEAN /\ up' \in BOOLEAN /\ closing' \in BOOLEAN
    BY <1>2, Zenon
  <2>3. UNCHANGED <<rounds, summaries, archived, overflow, foldState, indexFile,
                    anchor, answered, dropped>>
    BY <1>2
  <2> QED BY <1>1, <1>6, <1>7, <2>1, <2>2, <2>3, <2>4 DEF TypeOK
<1>11. StepInv' BY <1>2 DEF StepInv
<1>12. MemoryInv'
  <2>1. \A r \in Remembered : r \in broken' \/ r \in TheIndex'.committed
    BY <1>1, <1>6, <1>7 DEF MemoryInv
  <2> QED BY <1>1, <1>2, <1>6, <1>8, <2>1 DEF MemoryInv
<1> QED BY <1>6, <1>8, <1>9, <1>10, <1>11, <1>12 DEF IInv

LEMMA CloseKeeps ==
  ASSUME IInv, Close
  PROVE  IInv'
<1>1. /\ TypeOK /\ IndexIsTranscript /\ StepInv /\ CommitsFollow /\ MemoryInv
      /\ FoldInv /\ PlanInv /\ AnchorInv
  BY DEF IInv
<1>2. /\ closing' = TRUE /\ troubles' = troubles + 1 /\ troubles < MaxTroubles
      /\ indexFile' = IF index = NoIndex THEN indexFile ELSE index
      /\ UNCHANGED <<transcript, rounds, summaries, archived, overflow, foldState>>
      /\ UNCHANGED <<anchor, up, index, worker, wanted, plan, live, step, answered>>
      /\ UNCHANGED <<dropped, broken>>
  BY DEF Close, files, fold, turn
<1>3. TypeOK'
  <2>1. troubles' \in 0..MaxTroubles
    <3>1. troubles \in 0..MaxTroubles /\ MaxTroubles \in Nat
      BY <1>1, MemoryAssumption DEF TypeOK
    <3> QED BY <1>2, <3>1
  <2> QED BY <1>1, <1>2, <2>1 DEF TypeOK
<1>4. IndexIsTranscript'
  BY <1>1, <1>2 DEF IndexIsTranscript, IndexAgrees
<1>5. CommitsFollow' /\ AnchorInv' /\ Known' = Known /\ Committed' = Committed
  BY <1>1, <1>2 DEF CommitsFollow, AnchorInv, Known, Committed
<1>6. TheIndex' = TheIndex
  BY <1>2 DEF TheIndex
<1>7. FoldInv' /\ Remembered' = Remembered
  BY <1>1, <1>2, RoundsSame
<1>8. PlanInv' /\ StepInv' BY <1>1, <1>2, <1>7 DEF PlanInv, StepInv
<1>9. MemoryInv' BY <1>1, <1>2, <1>5, <1>6, <1>7 DEF MemoryInv
<1> QED BY <1>3, <1>4, <1>5, <1>7, <1>8, <1>9 DEF IInv

LEMMA RestartKeeps ==
  ASSUME IInv, Restart
  PROVE  IInv'
<1>1. /\ TypeOK /\ IndexIsTranscript /\ StepInv /\ CommitsFollow /\ MemoryInv
      /\ FoldInv /\ PlanInv /\ AnchorInv
  BY DEF IInv
<1>2. /\ ~up /\ up' = TRUE
      /\ IF anchor = NoProof THEN UNCHANGED <<index, indexFile>> ELSE UseIndex
      /\ UNCHANGED <<transcript, rounds, summaries, archived, overflow, foldState>>
      /\ UNCHANGED <<anchor, closing, worker, wanted, plan, live, step, answered>>
      /\ UNCHANGED <<dropped, broken, troubles>>
  BY DEF Restart, files, fold, turn, history
<1>3. step = "idle" /\ live = NoTurn
  BY <1>1, <1>2 DEF StepInv
<1>4. /\ index' \in Index \cup {NoIndex} /\ indexFile' \in Index \cup {NoIndex}
      /\ IndexIsTranscript' /\ CommitsFollow' /\ AnchorInv'
      /\ Known' = Known /\ Committed' = Committed /\ TheIndex' = TheIndex
  <2>1. CASE UNCHANGED <<index, indexFile>>
    BY <1>1, <1>2, <2>1, ScanSame DEF TypeOK
  <2>2. CASE UseIndex
    BY <1>1, <1>2, <2>2, UseIndexKeeps
  <2> QED BY <1>2, <2>1, <2>2
<1>5. TypeOK' BY <1>1, <1>2, <1>4 DEF TypeOK
<1>6. FoldInv' /\ Remembered' = Remembered
  BY <1>1, <1>2, RoundsSame
<1>7. PlanInv' /\ StepInv' BY <1>1, <1>2, <1>3 DEF PlanInv, StepInv
<1>8. MemoryInv' BY <1>1, <1>2, <1>4, <1>6 DEF MemoryInv
<1> QED BY <1>4, <1>5, <1>6, <1>7, <1>8 DEF IInv

-----------------------------------------------------------------------------
(* Installing a fold.                                                      *)

\* The first and the last part of a sequence hold what the sequence holds.
LEMMA SplitSequence ==
  ASSUME NEW S, NEW s \in Seq(S), NEW i \in Nat, i <= Len(s)
  PROVE  /\ SubSeq(s, 1, i) \in Seq(S) /\ SubSeq(s, i + 1, Len(s)) \in Seq(S)
         /\ Range(SubSeq(s, 1, i)) = {s[n] : n \in 1..i}
         /\ Range(SubSeq(s, i + 1, Len(s))) = {s[n] : n \in (i + 1)..Len(s)}
         /\ Range(s) = Range(SubSeq(s, 1, i)) \cup Range(SubSeq(s, i + 1, Len(s)))
         /\ IsInjective(s) => /\ IsInjective(SubSeq(s, i + 1, Len(s)))
                              /\ Range(SubSeq(s, 1, i)) \cap Range(SubSeq(s, i + 1, Len(s))) = {}
<1> DEFINE a == SubSeq(s, 1, i)
           b == SubSeq(s, i + 1, Len(s))
           L == Len(s)
<1>1. L \in Nat /\ i \in Nat /\ i <= L /\ DOMAIN s = 1..L OBVIOUS
<1>2. /\ a \in Seq(S) /\ DOMAIN a = 1..i /\ \A n \in 1..i : a[n] = s[n]
  BY <1>1
<1>3. /\ b \in Seq(S) /\ DOMAIN b = 1..(L - i) /\ \A n \in 1..(L - i) : b[n] = s[n + i]
  BY <1>1
<1> HIDE DEF a, b, L
<1>4. Range(a) = {s[n] : n \in 1..i} BY <1>2 DEF Range
<1>5. Range(b) = {s[n] : n \in (i + 1)..L}
  <2>1. ASSUME NEW n \in 1..(L - i) PROVE b[n] \in {s[m] : m \in (i + 1)..L}
    <3>1. n + i \in (i + 1)..L /\ b[n] = s[n + i] BY <1>1, <1>3
    <3> QED BY <3>1
  <2>2. ASSUME NEW m \in (i + 1)..L PROVE s[m] \in Range(b)
    <3>1. m - i \in 1..(L - i) /\ (m - i) + i = m BY <1>1
    <3>2. b[m - i] = s[m] BY <1>3, <3>1
    <3> QED BY <1>3, <3>1, <3>2 DEF Range
  <2> QED BY <1>3, <2>1, <2>2 DEF Range
<1>6. Range(s) = Range(a) \cup Range(b)
  <2>1. Range(s) = {s[n] : n \in 1..L} BY <1>1 DEF Range
  <2>2. 1..L = (1..i) \cup ((i + 1)..L) BY <1>1
  <2> QED BY <1>4, <1>5, <2>1, <2>2
<1>7. ASSUME IsInjective(s) PROVE IsInjective(b) /\ Range(a) \cap Range(b) = {}
  <2>1. \A m, n \in 1..L : s[m] = s[n] => m = n BY <1>1, <1>7 DEF IsInjective
  <2>2. ASSUME NEW m \in 1..(L - i), NEW n \in 1..(L - i), b[m] = b[n] PROVE m = n
    <3>1. m + i \in 1..L /\ n + i \in 1..L /\ s[m + i] = s[n + i] BY <1>1, <1>3, <2>2
    <3>2. m + i = n + i BY <2>1, <3>1
    <3> QED BY <1>1, <3>2
  <2>3. IsInjective(b) BY <1>3, <2>2 DEF IsInjective
  <2>4. ASSUME NEW m \in 1..i, NEW n \in (i + 1)..L, s[m] = s[n] PROVE FALSE
    <3>1. m \in 1..L /\ n \in 1..L /\ m # n BY <1>1
    <3> QED BY <2>1, <2>4, <3>1
  <2> QED BY <1>4, <1>5, <2>3, <2>4
<1> QED BY <1>2, <1>3, <1>4, <1>5, <1>6, <1>7 DEF a, b, L

\* A fold moves its rounds into one new summary, and loses none of the others:
\* those that leave the window are archived, or counted as dropped.
LEMMA InstallMoves ==
  ASSUME TypeOK, PlanInv, FoldInv, NEW m \in BOOLEAN, Install(m)
  PROVE  LET new == [of |-> plan, mechanical |-> m] IN
         /\ rounds' \in Seq(Turn) /\ summaries' \in Seq(Summary)
         /\ archived' \subseteq Summary /\ dropped' \subseteq Summary
         /\ AllSummaries' = AllSummaries \cup {new}
         /\ Range(rounds) = Range(plan) \cup Range(rounds')
         /\ Range(plan) \cap Range(rounds') = {} /\ IsInjective(rounds')
         /\ foldState' \in [failures : 0..3, waits : BOOLEAN]
         /\ troubles' \in 0..MaxTroubles
<1> DEFINE new == [of |-> plan, mechanical |-> m]
           all == Append(summaries, new)
           excess == AtLeast(0, Len(all) - SummaryLimit)
           leaving == {all[n] : n \in 1..excess}
<1>1. /\ rounds' = SubSeq(rounds, Len(plan) + 1, Len(rounds))
      /\ summaries' = SubSeq(all, excess + 1, Len(all))
      /\ foldState' = [failures |-> 0, waits |-> FALSE]
      /\ \/ archived' = archived \cup leaving /\ UNCHANGED <<dropped, troubles>>
         \/ /\ troubles < MaxTroubles /\ troubles' = troubles + 1
            /\ dropped' = dropped \cup leaving /\ archived' = archived
  BY DEF Install
<1>2. /\ rounds \in Seq(Turn) /\ summaries \in Seq(Summary) /\ plan \in Seq(Turn)
      /\ archived \subseteq Summary /\ dropped \subseteq Summary
      /\ troubles \in 0..MaxTroubles
      /\ MaxTroubles \in Nat /\ SummaryLimit \in Nat /\ SummaryLimit > 0
  BY MemoryAssumption DEF TypeOK
<1>3. new \in Summary BY <1>2 DEF Summary
<1> HIDE DEF new
<1>4. /\ all \in Seq(Summary) /\ Len(all) \in Nat /\ Len(all) = Len(summaries) + 1
      /\ Range(all) = Range(summaries) \cup {new}
  <2>1. all \in Seq(Summary) /\ Len(all) = Len(summaries) + 1 /\ Len(summaries) \in Nat
    BY <1>2, <1>3
  <2>2. /\ DOMAIN all = 1..(Len(summaries) + 1) /\ DOMAIN summaries = 1..Len(summaries)
        /\ all[Len(summaries) + 1] = new
        /\ \A n \in 1..Len(summaries) : all[n] = summaries[n]
    BY <1>2, <1>3
  <2> HIDE DEF all
  <2>3. Range(all) = Range(summaries) \cup {new} BY <2>1, <2>2 DEF Range
  <2> QED BY <2>1, <2>3
<1>5. excess \in Nat /\ excess <= Len(all)
  BY <1>2, <1>4 DEF AtLeast
<1> HIDE DEF all, excess
<1>6. /\ summaries' \in Seq(Summary)
      /\ Range(all) = leaving \cup Range(summaries')
  <2>1. /\ SubSeq(all, excess + 1, Len(all)) \in Seq(Summary)
        /\ Range(SubSeq(all, 1, excess)) = {all[n] : n \in 1..excess}
        /\ Range(all) = Range(SubSeq(all, 1, excess)) \cup Range(SubSeq(all, excess + 1, Len(all)))
    BY <1>4, <1>5, SplitSequence
  <2> QED BY <1>1, <2>1
<1> HIDE DEF leaving
<1>7. leaving \subseteq Summary
  <2>1. Range(all) \subseteq Summary
    <3>1. \A n \in DOMAIN all : all[n] \in Summary BY <1>4
    <3> QED BY <3>1 DEF Range
  <2> QED BY <1>6, <2>1
<1>8. archived' \subseteq Summary /\ dropped' \subseteq Summary
  BY <1>1, <1>2, <1>7
<1>9. AllSummaries' = AllSummaries \cup {new}
  <2>1. archived' \cup dropped' = archived \cup dropped \cup leaving BY <1>1
  <2> QED BY <1>4, <1>6, <2>1 DEF AllSummaries
<1>10. /\ rounds' \in Seq(Turn)
       /\ Range(rounds) = Range(plan) \cup Range(rounds')
       /\ Range(plan) \cap Range(rounds') = {} /\ IsInjective(rounds')
  <2> DEFINE i == Len(plan)
  <2>1. i \in Nat /\ i <= Len(rounds) /\ plan = SubSeq(rounds, 1, i) /\ IsInjective(rounds)
        /\ rounds' = SubSeq(rounds, i + 1, Len(rounds))
    BY <1>1, <1>2 DEF PlanInv, FoldInv
  <2> HIDE DEF i
  <2>2. /\ SubSeq(rounds, i + 1, Len(rounds)) \in Seq(Turn)
        /\ Range(rounds) = Range(SubSeq(rounds, 1, i)) \cup Range(SubSeq(rounds, i + 1, Len(rounds)))
        /\ IsInjective(SubSeq(rounds, i + 1, Len(rounds)))
        /\ Range(SubSeq(rounds, 1, i)) \cap Range(SubSeq(rounds, i + 1, Len(rounds))) = {}
    BY <1>2, <2>1, SplitSequence
  <2> QED BY <2>1, <2>2
<1>11. foldState' \in [failures : 0..3, waits : BOOLEAN] BY <1>1
<1>12. troubles' \in 0..MaxTroubles BY <1>1, <1>2
<1> QED BY <1>6, <1>8, <1>9, <1>10, <1>11, <1>12 DEF new

\* So the same turns are remembered, and the rounds and the summaries share none
\* but those that were stopped.
LEMMA InstallKeeps ==
  ASSUME IInv, NEW m \in BOOLEAN, Install(m), overflow' \subseteq Turn,
         overflow' = IF m THEN overflow \cup Range(plan) ELSE overflow,
         worker' = "top", plan' = << >>, wanted' = wanted,
         UNCHANGED <<transcript, indexFile, anchor, up, closing, index, turn, broken>>
  PROVE  IInv'
<1> DEFINE new == [of |-> plan, mechanical |-> m]
<1>1. /\ TypeOK /\ IndexIsTranscript /\ StepInv /\ CommitsFollow /\ MemoryInv
      /\ FoldInv /\ PlanInv /\ AnchorInv
  BY DEF IInv
<1>2. /\ rounds' \in Seq(Turn) /\ summaries' \in Seq(Summary)
      /\ archived' \subseteq Summary /\ dropped' \subseteq Summary
      /\ AllSummaries' = AllSummaries \cup {new}
      /\ Range(rounds) = Range(plan) \cup Range(rounds')
      /\ Range(plan) \cap Range(rounds') = {} /\ IsInjective(rounds')
      /\ foldState' \in [failures : 0..3, waits : BOOLEAN]
      /\ troubles' \in 0..MaxTroubles
  BY <1>1, InstallMoves
<1>3. new.of = plan /\ new.mechanical = m OBVIOUS
<1> HIDE DEF new
<1>4. UNCHANGED <<transcript, indexFile, anchor, up, closing, index, live, step>>
      /\ UNCHANGED <<answered, broken>>
  BY DEF turn
<1>5. TypeOK'
  <2>1. plan' \in Seq(Turn) /\ worker' \in {"top"} /\ wanted' = wanted OBVIOUS
  <2> QED BY <1>1, <1>2, <1>4, <2>1 DEF TypeOK
<1>6. /\ IndexIsTranscript' /\ CommitsFollow' /\ AnchorInv'
      /\ TheIndex' = TheIndex /\ Known' = Known /\ Committed' = Committed
  BY <1>1, <1>4, ScanSame
<1>7. Remembered' = Remembered
  <2>1. Summarised = UNION {Range(s.of) : s \in AllSummaries}
        /\ Summarised' = UNION {Range(s.of) : s \in AllSummaries'}
    BY DEF Summarised, TurnsOf
  <2>2. Summarised' = Summarised \cup Range(plan) BY <1>2, <1>3, <2>1
  <2> QED BY <1>2, <2>2 DEF Remembered
<1>8. StepInv' BY <1>1, <1>4, <1>7 DEF StepInv
<1>9. MemoryInv' BY <1>1, <1>4, <1>6, <1>7 DEF MemoryInv
<1>10. FoldInv'
  <2>1. \A s \in AllSummaries : \A t \in Range(s.of) \ broken : t \notin Range(plan)
    BY <1>1, <1>2 DEF FoldInv
  <2>2. \A s \in AllSummaries' : s.mechanical => Range(s.of) \subseteq overflow'
    BY <1>1, <1>2, <1>3 DEF FoldInv
  <2>3. \A s \in AllSummaries' : \A t \in Range(s.of) \ broken' : t \notin Range(rounds')
    BY <1>1, <1>2, <1>3, <1>4 DEF FoldInv
  <2>4. \A r, s \in AllSummaries' : \A t \in (Range(r.of) \cap Range(s.of)) \ broken' : r = s
    BY <1>1, <1>2, <1>3, <1>4, <2>1 DEF FoldInv
  <2> QED BY <1>2, <2>2, <2>3, <2>4 DEF FoldInv
<1>11. PlanInv'
  <2>1. Len(rounds') \in Nat /\ Len(plan') = 0 BY <1>2
  <2>2. SubSeq(rounds', 1, 0) = << >> BY <1>2
  <2> QED BY <2>1, <2>2 DEF PlanInv
<1> QED BY <1>5, <1>6, <1>8, <1>9, <1>10, <1>11 DEF IInv

\* A fold that does not come about leaves the memory as it was.
LEMMA NoFoldKeeps ==
  ASSUME IInv, UNCHANGED <<rounds, summaries, archived, overflow, dropped>>,
         foldState' \in [failures : 0..3, waits : BOOLEAN],
         troubles' \in 0..MaxTroubles, worker' = "top", plan' = << >>, wanted' \in BOOLEAN,
         UNCHANGED <<transcript, indexFile, anchor, up, closing, index, turn, broken>>
  PROVE  IInv'
<1>1. /\ TypeOK /\ IndexIsTranscript /\ StepInv /\ CommitsFollow /\ MemoryInv
      /\ FoldInv /\ PlanInv /\ AnchorInv
  BY DEF IInv
<1>2. UNCHANGED <<transcript, indexFile, anchor, up, closing, index, live, step>>
      /\ UNCHANGED <<answered, broken>>
  BY DEF turn
<1>3. TypeOK'
  <2>1. plan' \in Seq(Turn) /\ worker' \in {"top"} OBVIOUS
  <2> QED BY <1>1, <1>2, <2>1 DEF TypeOK
<1>4. /\ IndexIsTranscript' /\ CommitsFollow' /\ AnchorInv'
      /\ TheIndex' = TheIndex /\ Known' = Known /\ Committed' = Committed
  BY <1>1, <1>2, ScanSame
<1>5. FoldInv' /\ Remembered' = Remembered
  BY <1>1, <1>2, RoundsSame
<1>6. StepInv' BY <1>1, <1>2, <1>5 DEF StepInv
<1>7. MemoryInv' BY <1>1, <1>2, <1>4, <1>5 DEF MemoryInv
<1>8. PlanInv'
  <2>1. rounds' \in Seq(Turn) BY <1>1 DEF TypeOK
  <2>2. Len(rounds') \in Nat /\ Len(plan') = 0 /\ SubSeq(rounds', 1, 0) = << >> BY <2>1
  <2> QED BY <2>2 DEF PlanInv
<1> QED BY <1>3, <1>4, <1>5, <1>6, <1>7, <1>8 DEF IInv

LEMMA InstallFoldKeeps ==
  ASSUME IInv, InstallFold
  PROVE  IInv'
<1>1. TypeOK /\ PlanInv BY DEF IInv
<1>2. PlanHolds BY <1>1 DEF PlanInv, PlanHolds
<1>3. /\ Install(FALSE) /\ overflow' = overflow /\ wanted' = wanted
      /\ worker' = "top" /\ plan' = << >>
      /\ UNCHANGED <<transcript, indexFile, anchor, up, closing, index, turn, broken>>
  BY <1>2 DEF InstallFold
<1>4. overflow' \subseteq Turn BY <1>1, <1>3 DEF TypeOK
<1> QED BY <1>3, <1>4, InstallKeeps

LEMMA FailFoldKeeps ==
  ASSUME IInv, FailFold
  PROVE  IInv'
<1>1. TypeOK /\ PlanInv BY DEF IInv
<1>2. PlanHolds BY <1>1 DEF PlanInv, PlanHolds
<1> DEFINE Waits == /\ foldState' = [failures |-> AtMost(foldState.failures + 1, 3), waits |-> TRUE]
                    /\ UNCHANGED <<rounds, summaries, archived, overflow, dropped>>
<1>3. /\ wanted' = wanted /\ worker' = "top" /\ plan' = << >>
      /\ UNCHANGED <<transcript, indexFile, anchor, up, closing, index, turn, broken>>
      /\ \/ Waits /\ troubles' = troubles
         \/ overflow' = overflow \cup Range(plan) /\ Install(TRUE)
         \/ Waits /\ troubles < MaxTroubles /\ troubles' = troubles + 1
  BY <1>2 DEF FailFold
<1>4. CASE overflow' = overflow \cup Range(plan) /\ Install(TRUE)
  <2>1. overflow' \subseteq Turn
    <3>1. \A n \in DOMAIN plan : plan[n] \in Turn BY <1>1 DEF TypeOK
    <3> QED BY <1>1, <1>4, <3>1 DEF TypeOK, Range
  <2> QED BY <1>3, <1>4, <2>1, InstallKeeps
<1>5. CASE Waits /\ (troubles' = troubles \/ (troubles < MaxTroubles /\ troubles' = troubles + 1))
  <2>1. troubles' \in 0..MaxTroubles
    <3>1. troubles \in 0..MaxTroubles /\ MaxTroubles \in Nat
      BY <1>1, MemoryAssumption DEF TypeOK
    <3> QED BY <1>5, <3>1
  <2>2. foldState' \in [failures : 0..3, waits : BOOLEAN]
    <3>1. foldState.failures \in 0..3 BY <1>1 DEF TypeOK
    <3>2. AtMost(foldState.failures + 1, 3) \in 0..3 BY <3>1 DEF AtMost
    <3> QED BY <1>5, <3>2
  <2>3. wanted' \in BOOLEAN BY <1>1, <1>3 DEF TypeOK
  <2> QED BY <1>3, <1>5, <2>1, <2>2, <2>3, NoFoldKeeps
<1> QED BY <1>3, <1>4, <1>5

-----------------------------------------------------------------------------
(* The theorems.                                                           *)

\* The inductive invariant holds of every behaviour: of turns, folds, throwing
\* operations, crashes in the middle of a line and restarts.
THEOREM MemoryInductive == Spec => []IInv
<1>1. IInv /\ [Next]_vars => IInv'
  BY EnsureTurnKeeps, PushRoundKeeps, CommitTurnKeeps, CheckpointKeeps, TurnThrowsKeeps,
     WorkerKeeps, InstallFoldKeeps, FailFoldKeeps, CloseKeeps, DieKeeps, RestartKeeps
     DEF Next, TurnStep, FoldStep
<1> QED
  BY InitIInv, <1>1, PTL DEF Spec

\* The transcript, the rounds, the summaries and the indexes keep their shape.
THEOREM MemoryTypeCorrect == Spec => []TypeOK
<1>1. IInv => TypeOK
  BY DEF IInv
<1> QED
  BY MemoryInductive, <1>1, PTL

\* The causal index, in memory and in its file, is what a scan of the transcript
\* up to its line gives, however often it was written, lost and read again
\* (_scanTranscriptFrom, _readCausalCheckpoint).
THEOREM IndexAgreesAlways == Spec => []IndexIsTranscript
<1>1. IInv => IndexIsTranscript
  BY DEF IInv
<1> QED
  BY MemoryInductive, <1>1, PTL

\* A committed or answered turn stays among the rounds, in the window or in the archive,
\* unless the archive of its summary threw; then it is still in the transcript, and a
\* mechanical digest has its rounds archived: for any limits and through any failures
\* (appendTurn, the fold, _archiveSummary).
THEOREM OnlyTheArchiveForgetsTurns == Spec => []OnlyTheArchiveForgets
<1>1. IInv => OnlyTheArchiveForgets
  <2> SUFFICES ASSUME IInv PROVE OnlyTheArchiveForgets
    OBVIOUS
  <2>1. TypeOK /\ MemoryInv /\ FoldInv BY DEF IInv
  <2>2. Named(transcript, "commit", 1, Complete(transcript)) \subseteq Committed
    <3>1. transcript \in Seq(Lines) BY <2>1 DEF TypeOK
    <3>2. /\ Complete(transcript) \in Nat /\ Len(transcript) \in Nat
          /\ Complete(transcript) <= Len(transcript)
      BY <3>1, CompleteType
    <3> QED BY <3>2 DEF Named, Committed
  <2>3. Committed \cup answered \subseteq Remembered /\ Remembered \subseteq Known
    BY <2>1 DEF MemoryInv
  <2>4. \A s \in AllSummaries : s.mechanical => Range(s.of) \subseteq overflow
    BY <2>1 DEF FoldInv
  <2>5. Kept \cup Lost = Remembered
    BY DEF Kept, Lost, TurnsOf, Remembered, Summarised, AllSummaries
  <2> QED BY <2>2, <2>3, <2>4, <2>5 DEF OnlyTheArchiveForgets, Known, AllSummaries
<1> QED
  BY MemoryInductive, <1>1, PTL

\* A turn is among the rounds or in one summary, once, unless it was stopped
\* between its round and its commit line (restoreUncommittedTurn, appendTurn).
THEOREM OthersAreToldOnce == Spec => []OnlyBrokenTurnsRepeat
<1>1. IInv => OnlyBrokenTurnsRepeat
  <2> SUFFICES ASSUME IInv, NEW t \in Turn \ broken
               PROVE  /\ IsInjective(rounds)
                      /\ Folds(t) + Cardinality({t} \cap Range(rounds)) <= 1
    <3>1. IInv => IsInjective(rounds) BY DEF IInv, FoldInv
    <3> QED BY <3>1 DEF OnlyBrokenTurnsRepeat
  <2>1. FoldInv BY DEF IInv
  <2> DEFINE F == {s \in AllSummaries : t \in Range(s.of)}
             R == {t} \cap Range(rounds)
  <2>2. Folds(t) = Cardinality(F) BY DEF Folds, AllSummaries
  <2>3. \A r, s \in F : r = s BY <2>1 DEF FoldInv
  <2>4. F = {} \/ R = {} BY <2>1 DEF FoldInv
  <2>5. R = {} \/ R = {t} OBVIOUS
  <2>6. F = {} \/ \E s : F = {s} BY <2>3
  <2> HIDE DEF F, R
  <2>7. /\ Cardinality(F) = 0 \/ Cardinality(F) = 1
        /\ F = {} => Cardinality(F) = 0
    BY <2>6, FS_EmptySet, FS_Singleton
  <2>8. /\ Cardinality(R) = 0 \/ Cardinality(R) = 1
        /\ R = {} => Cardinality(R) = 0
    BY <2>5, FS_EmptySet, FS_Singleton
  <2>9. Cardinality(F) + Cardinality(R) <= 1 BY <2>4, <2>7, <2>8
  <2> QED BY <2>1, <2>2, <2>9 DEF FoldInv, R
<1> QED
  BY MemoryInductive, <1>1, PTL

\* The proof in the session's state file is never ahead of the transcript: a
\* stored session is never refused after a crash (verifyTranscriptProof).
THEOREM SessionAlwaysResumes == Spec => []SessionResumes
<1>1. IInv => SessionResumes
  <2> SUFFICES ASSUME IInv, anchor # NoProof
               PROVE  /\ anchor.bytes <= Len(transcript)
                      /\ anchor.sources
                           <= Cardinality(Scanned(EmptyIndex, transcript).known)
    BY DEF SessionResumes, Verifies
  <2>1. transcript \in Seq(Lines) /\ AnchorInv BY DEF IInv, TypeOK
  <2>2. Scanned(EmptyIndex, transcript) = Scan(transcript)
    BY <2>1, EmptyAgrees, ScannedIsScan
  <2> QED BY <2>1, <2>2 DEF AnchorInv, Scan
<1> QED
  BY MemoryInductive, <1>1, PTL

=============================================================================
