---------------------------- MODULE ProcessProofs ----------------------------
(***************************************************************************)
(* What keeps one runtime on a storage root, for every value of the        *)
(* constants.  The first part is about the lock files: a lock is exclusive *)
(* as long as no live owner's file was taken away, and a takeover on an    *)
(* outdated judgement is the only step that does so first.  The second is  *)
(* about the supervisor: it owns at most one runtime, the one it watches.  *)
(***************************************************************************)
EXTENDS InstanceLock, Supervisor, TLAPS

\* The file at l is that of p.
Owns(p, l) == file[l].by = {p}

\* While nothing was mislaid, the path of every lock a live process holds or
\* is creating has its file.
FilesInPlace ==
  ~mislaid => \A p \in Proc : Live(p) =>
    /\ \A i \in 1 .. held[p] : Owns(p, Wants[p][i])
    /\ pc[p] \in {"opened", "written"} => Owns(p, Wanted(p))

\* Whoever made a file has begun, and a stale owner is never seen again.
OwnersBegan ==
  \A l \in Lock : \A q \in file[l].by : pc[q] # "idle"

LockInv == LockTypeOK /\ FilesInPlace /\ OwnersBegan /\ StaleIsDead

-----------------------------------------------------------------------------
\* The locks in the order of a process are locks, each once.
LEMMA WantsFacts ==
  ASSUME NEW p \in Proc
  PROVE  /\ Len(Wants[p]) \in Nat \ {0}
         /\ \A i \in 1 .. Len(Wants[p]) : Wants[p][i] \in Lock
         /\ \A i, j \in 1 .. Len(Wants[p]) : Wants[p][i] = Wants[p][j] => i = j
<1>1. Wants[p] \in Seq(Lock) /\ Wants[p] # <<>>
  BY LockAssumption
<1>2. Len(Wants[p]) \in Nat /\ \A i \in 1 .. Len(Wants[p]) : Wants[p][i] \in Lock
  BY <1>1
<1>3. Len(Wants[p]) # 0
  BY <1>1
<1> QED
  BY <1>2, <1>3, LockAssumption

\* The contents a path can get.
LEMMA ContentFacts ==
  /\ {} \in Owner
  /\ NoFile \in Content
  /\ \A p \in Proc : {p} \in Owner
  /\ \A p \in Proc, b \in BOOLEAN : [by |-> {p}, written |-> b] \in Content
  /\ \A c \in Content : c.by \in Owner
<1>1. {} \in Owner /\ \A p \in Proc : {p} \in Owner
  BY DEF Owner
<1>2. NoFile \in Content
  BY <1>1 DEF NoFile, Content
<1>3. \A p \in Proc, b \in BOOLEAN : [by |-> {p}, written |-> b] \in Content
  BY <1>1 DEF Content
<1>4. \A c \in Content : c.by \in Owner
  BY DEF Content
<1> QED
  BY <1>1, <1>2, <1>3, <1>4

\* The types hold at first.
LEMMA TypeInit == LockInit => LockTypeOK
<1> SUFFICES ASSUME LockInit PROVE LockTypeOK
  OBVIOUS
<1>1. \A p \in Proc : Len(Wants[p]) \in Nat \ {0}
  BY WantsFacts
<1>2. file \in [Lock -> Content]
  BY ContentFacts DEF LockInit
<1>3. /\ pc \in [Proc -> Stage] /\ held \in [Proc -> Nat]
      /\ judged \in [Proc -> Owner] /\ mislaid \in BOOLEAN
  BY ContentFacts DEF LockInit, Stage
<1>4. \A p \in Proc : pc[p] = "idle" /\ held[p] = 0
  BY DEF LockInit
<1> QED
  BY <1>1, <1>2, <1>3, <1>4 DEF LockTypeOK

\* Every step keeps the types.
LEMMA TypeStep == LockTypeOK /\ [LockNext]_lockVars => LockTypeOK'
<1> SUFFICES ASSUME LockTypeOK, [LockNext]_lockVars PROVE LockTypeOK'
  OBVIOUS
<1>w. \A p \in Proc : /\ Len(Wants[p]) \in Nat \ {0}
                      /\ \A i \in 1 .. Len(Wants[p]) : Wants[p][i] \in Lock
  BY WantsFacts
<1> USE DEF LockTypeOK, Stage
<1>1. ASSUME NEW p \in Proc, Begin(p) PROVE LockTypeOK'
  BY <1>1, <1>w DEF Begin, Moves
<1>2. ASSUME NEW p \in Proc, Open(p) PROVE LockTypeOK'
  <2>1. Wanted(p) \in Lock
    BY <1>2, <1>w DEF Open, Wanted
  <2>2. file' \in [Lock -> Content]
    BY <1>2, <2>1, ContentFacts DEF Open
  <2> QED
    BY <1>2, <1>w, <2>2 DEF Open, Moves
<1>3. ASSUME NEW p \in Proc, Reads(p) PROVE LockTypeOK'
  <2>1. Wanted(p) \in Lock
    BY <1>3, <1>w DEF Reads, Wanted
  <2>2. file[Wanted(p)].by \in Owner
    BY <2>1, ContentFacts
  <2>3. judged' \in [Proc -> Owner]
    BY <1>3, <2>2 DEF Reads
  <2> QED
    BY <1>3, <1>w, <2>3 DEF Reads, Moves, Refused
<1>4. ASSUME NEW p \in Proc, TakesAside(p) PROVE LockTypeOK'
  <2>1. file' \in [Lock -> Content]
    BY <1>4, ContentFacts DEF TakesAside, Unlink
  <2>2. mislaid' \in BOOLEAN
    BY <1>4 DEF TakesAside, Unlink
  <2>3. judged' \in [Proc -> Owner]
    BY <1>4, ContentFacts DEF TakesAside
  <2> QED
    BY <1>4, <1>w, <2>1, <2>2, <2>3 DEF TakesAside, Moves
<1>5. ASSUME NEW p \in Proc, WritesOwner(p) PROVE LockTypeOK'
  <2>1. file' \in [Lock -> Content]
    BY <1>5, ContentFacts DEF WritesOwner
  <2> QED
    BY <1>5, <1>w, <2>1 DEF WritesOwner, Moves
<1>6. ASSUME NEW p \in Proc, WriteFails(p) PROVE LockTypeOK'
  <2>1. file' \in [Lock -> Content]
    BY <1>6, ContentFacts DEF WriteFails, Unlink
  <2>2. mislaid' \in BOOLEAN
    BY <1>6 DEF WriteFails, Unlink
  <2> QED
    BY <1>6, <1>w, <2>1, <2>2 DEF WriteFails, Moves, Refused
<1>7. ASSUME NEW p \in Proc, Acquires(p) PROVE LockTypeOK'
  <2>1. CASE Absent(Wanted(p))
    <3>1. held[p] \in Nat /\ held[p] < Len(Wants[p])
      BY <1>7, <1>w DEF Acquires
    <3>2. /\ pc' = [pc EXCEPT ![p] = IF held[p] = 0 THEN "gone" ELSE "releasing"]
          /\ UNCHANGED <<file, held, judged, mislaid>>
      BY <1>7, <2>1 DEF Acquires, Moves, Refused
    <3> QED
      BY <3>1, <3>2, <1>w
  <2>2. CASE ~Absent(Wanted(p))
    <3>1. held[p] \in Nat /\ held[p] < Len(Wants[p]) /\ Len(Wants[p]) \in Nat
      BY <1>7, <1>w DEF Acquires
    <3>2. /\ held' = [held EXCEPT ![p] = held[p] + 1]
          /\ pc' = [pc EXCEPT ![p] = IF held[p] + 1 = Len(Wants[p]) THEN "working" ELSE "opening"]
          /\ UNCHANGED <<file, judged, mislaid>>
      BY <1>7, <2>2 DEF Acquires, Moves
    <3> QED
      BY <3>1, <3>2, <1>w
  <2> QED
    BY <2>1, <2>2
<1>8. ASSUME NEW p \in Proc, Finishes(p) PROVE LockTypeOK'
  BY <1>8, <1>w DEF Finishes, Moves
<1>9. ASSUME NEW p \in Proc, Checks(p) PROVE LockTypeOK'
  <2>1. CASE held' = held
    BY <1>9, <1>w, <2>1 DEF Checks, Moves
  <2>2. CASE held' # held
    <3>1. held[p] \in Nat /\ held[p] > 0 /\ held[p] <= Len(Wants[p]) /\ Len(Wants[p]) \in Nat
      BY <1>9, <1>w DEF Checks
    <3>2. /\ held' = [held EXCEPT ![p] = held[p] - 1]
          /\ pc' = [pc EXCEPT ![p] = IF held[p] = 1 THEN "gone" ELSE "releasing"]
          /\ UNCHANGED <<file, judged, mislaid>>
      BY <1>9, <2>2 DEF Checks, Moves
    <3> QED
      BY <3>1, <3>2, <1>w
  <2> QED
    BY <2>1, <2>2
<1>10. ASSUME NEW p \in Proc, Unlinks(p) PROVE LockTypeOK'
  <2>1. file' \in [Lock -> Content]
    BY <1>10, ContentFacts DEF Unlinks, Unlink
  <2>2. mislaid' \in BOOLEAN
    BY <1>10 DEF Unlinks, Unlink
  <2> QED
    BY <1>10, <1>w, <2>1, <2>2 DEF Unlinks, Moves
<1>11. ASSUME NEW p \in Proc, Dies(p) PROVE LockTypeOK'
  BY <1>11, <1>w DEF Dies
<1>12. CASE UNCHANGED lockVars
  BY <1>12 DEF lockVars
<1> QED
  BY <1>1, <1>2, <1>3, <1>4, <1>5, <1>6, <1>7, <1>8, <1>9, <1>10, <1>11, <1>12
     DEF LockNext, Acts

\* Every variable keeps its shape, for any processes, locks and orders.
THEOREM LockTypeCorrect == LockSpec => []LockTypeOK
<1> QED
  BY TypeInit, TypeStep, PTL DEF LockSpec

-----------------------------------------------------------------------------
(* A step from a state of the invariant.                                   *)

\* Unlinking a path takes a live process's file only if that is there.
LEMMA Unlinking ==
  ASSUME LockTypeOK, NEW p \in Proc, NEW l \in Lock, Unlink(p, l), ~mislaid'
  PROVE  /\ ~mislaid
         /\ \A q \in Proc : q # p /\ Live(q) => ~Owns(q, l)
         /\ \A k \in Lock : k # l => file'[k] = file[k]
         /\ file'[l].by = {}
  BY DEF Unlink, Owns, LockTypeOK, NoFile

\* The invariant holds at first.
LEMMA InvInit == LockInit => LockInv
  BY TypeInit DEF LockInit, LockInv, FilesInPlace, OwnersBegan, StaleIsDead, NoFile, Live

\* A lock file names only processes that began.
LEMMA OwnersStep == LockInv /\ [LockNext]_lockVars => OwnersBegan'
<1> SUFFICES ASSUME LockInv, [LockNext]_lockVars, NEW l \in Lock, NEW q \in file'[l].by
             PROVE  pc'[q] # "idle"
  BY DEF OwnersBegan
<1>1. LockTypeOK /\ OwnersBegan /\ LockTypeOK'
  BY TypeStep DEF LockInv
<1>2. q \in Proc
  <2>1. file'[l] \in Content
    BY <1>1 DEF LockTypeOK
  <2> QED
    BY <2>1, ContentFacts DEF Owner
<1>3. ASSUME pc[q] # "idle" PROVE pc'[q] # "idle"
  BY <1>1, <1>2, <1>3 DEF LockNext, Acts, lockVars, LockTypeOK, Stage, Begin, Open, Reads, TakesAside, WritesOwner,
     WriteFails, Acquires, Finishes, Checks, Unlinks, Dies, Moves, Refused
<1>4. CASE q \in file[l].by
  BY <1>1, <1>3, <1>4 DEF OwnersBegan
<1>5. CASE q \notin file[l].by
  <2>a. file' # file
    BY <1>5
  <2>b. ~\E p \in Proc : TakesAside(p) \/ WriteFails(p) \/ Unlinks(p)
    <3>1. NoFile.by = {}
      BY DEF NoFile
    <3>2. ASSUME NEW p \in Proc, NEW k, Unlink(p, k) PROVE FALSE
      BY <1>1, <1>5, <3>1, <3>2 DEF Unlink, LockTypeOK
    <3> QED
      BY <2>a, <3>2 DEF TakesAside, WriteFails, Unlinks
  <2>c. ~\E p \in Proc : WritesOwner(p)
    <3> SUFFICES ASSUME NEW p \in Proc, WritesOwner(p) PROVE FALSE
      OBVIOUS
    <3>1. file'[l] = file[l] \/ (file'[l] = [by |-> {p}, written |-> TRUE] /\ file[l].by = {p})
      BY DEF WritesOwner
    <3> QED
      BY <1>5, <3>1
  <2>1. PICK p \in Proc : Open(p)
    BY <2>a, <2>b, <2>c DEF LockNext, Acts, lockVars, Begin, Reads, Acquires, Finishes, Checks, Dies
  <2>2. q = p
    <3>1. file'[l] = file[l] \/ file'[l] = [by |-> {p}, written |-> FALSE]
      BY <1>1, <2>1 DEF Open, LockTypeOK
    <3> QED
      BY <1>5, <3>1
  <2> QED
    BY <1>1, <2>1, <2>2 DEF Open, Moves, LockTypeOK
<1> QED
  BY <1>4, <1>5

\* Every step keeps what was judged stale gone for good.
LEMMA StaleStep == LockInv /\ [LockNext]_lockVars => StaleIsDead'
<1> SUFFICES ASSUME LockInv, [LockNext]_lockVars, NEW p \in Proc, NEW q \in Proc, q \in judged'[p]
             PROVE  pc'[q] \in {"gone", "dead"}
  BY DEF StaleIsDead
<1>1. LockTypeOK /\ OwnersBegan /\ StaleIsDead
  BY DEF LockInv
<1>2. ASSUME pc[q] \in {"gone", "dead"} PROVE pc'[q] \in {"gone", "dead"}
  BY <1>1, <1>2 DEF LockNext, Acts, lockVars, LockTypeOK, Begin, Open, Reads, TakesAside, WritesOwner,
     WriteFails, Acquires, Finishes, Checks, Unlinks, Dies, Moves, Live
<1>3. CASE q \in judged[p]
  BY <1>1, <1>2, <1>3 DEF StaleIsDead
<1>4. CASE q \notin judged[p]
  <2>1. Reads(p)
    BY <1>1, <1>4 DEF LockNext, Acts, lockVars, LockTypeOK, Begin, Open, Reads, TakesAside, WritesOwner,
       WriteFails, Acquires, Finishes, Checks, Unlinks, Dies
  <2>2. q \in file[Wanted(p)].by /\ ~Live(q)
    BY <1>1, <1>4, <2>1 DEF Reads, LockTypeOK
  <2>3. Wanted(p) \in Lock
    BY <1>1, <2>1, WantsFacts DEF Reads, Wanted, LockTypeOK
  <2> QED
    BY <1>1, <1>2, <2>2, <2>3 DEF OwnersBegan, Live
<1> QED
  BY <1>3, <1>4

\* One step keeps every live process's files in place, unless it mislays one.
LEMMA PlaceStep == LockInv /\ [LockNext]_lockVars => FilesInPlace'
<1> SUFFICES ASSUME LockInv, [LockNext]_lockVars, ~mislaid', NEW p \in Proc, Live(p)'
             PROVE  /\ \A i \in 1 .. held'[p] : Owns(p, Wants[p][i])'
                    /\ pc'[p] \in {"opened", "written"} => Owns(p, Wanted(p))'
  BY DEF FilesInPlace
<1> DEFINE Mine(l) == file[l].by = {p}
           Kept(l) == file'[l].by = {p}
<1> SUFFICES /\ \A i \in 1 .. held'[p] : Kept(Wants[p][i])
             /\ pc'[p] \in {"opened", "written"} => Kept(Wants[p][held'[p] + 1])
  BY DEF Owns, Wanted, Kept
<1>1. LockTypeOK /\ LockTypeOK' /\ FilesInPlace
  BY TypeStep DEF LockInv
<1>w. /\ Len(Wants[p]) \in Nat \ {0}
      /\ \A i \in 1 .. Len(Wants[p]) : Wants[p][i] \in Lock
      /\ \A i, j \in 1 .. Len(Wants[p]) : Wants[p][i] = Wants[p][j] => i = j
  BY WantsFacts
<1>h. /\ held[p] \in Nat /\ held'[p] \in Nat
      /\ held[p] <= Len(Wants[p]) /\ held'[p] <= Len(Wants[p])
      /\ pc[p] = "idle" => held[p] = 0
      /\ pc[p] \in {"opening", "reading", "stale", "opened", "written"}
           => held[p] < Len(Wants[p])
  BY <1>1 DEF LockTypeOK
<1>m. ~mislaid
  BY DEF LockNext, Acts, lockVars, Begin, Open, Reads, TakesAside, WritesOwner, WriteFails, Acquires, Finishes,
     Checks, Unlinks, Dies, Unlink
<1>i. ASSUME Live(p)
      PROVE  /\ \A i \in 1 .. held[p] : Mine(Wants[p][i])
             /\ pc[p] \in {"opened", "written"} => Mine(Wants[p][held[p] + 1])
  BY <1>1, <1>m, <1>i DEF FilesInPlace, Owns, Wanted
<1>j. /\ \A i \in 1 .. held[p] : Wants[p][i] \in Lock
      /\ held[p] < Len(Wants[p]) => Wants[p][held[p] + 1] \in Lock
  BY <1>w, <1>h
<1> HIDE DEF Mine, Kept
\* p keeps its indices and nobody unlinks: all stays in place.
<1>k. ASSUME \A l \in Lock : Mine(l) => Kept(l),
             Live(p), held'[p] = held[p], pc'[p] \in {"opened", "written"} => pc[p] \in {"opened", "written"}
      PROVE  /\ \A i \in 1 .. held'[p] : Kept(Wants[p][i])
             /\ pc'[p] \in {"opened", "written"} => Kept(Wants[p][held'[p] + 1])
  BY <1>h, <1>i, <1>j, <1>k
<1>2. ASSUME NEW q \in Proc, q # p, Begin(q) \/ Acts(q) \/ Finishes(q) \/ Dies(q)
      PROVE  /\ \A i \in 1 .. held'[p] : Kept(Wants[p][i])
             /\ pc'[p] \in {"opened", "written"} => Kept(Wants[p][held'[p] + 1])
  <2>1. pc'[p] = pc[p] /\ held'[p] = held[p]
    BY <1>1, <1>2 DEF Acts, Begin, Open, Reads, TakesAside, WritesOwner, WriteFails, Acquires, Finishes,
       Checks, Unlinks, Dies, Moves, LockTypeOK
  <2>2. Live(p)
    BY <2>1 DEF Live
  <2>3. ASSUME NEW l \in Lock, Mine(l) PROVE Kept(l)
    <3> USE DEF Mine, Kept
    <3>1. CASE Open(q)
      BY <1>1, <2>3, <3>1 DEF Open, Absent, LockTypeOK
    <3>2. CASE WritesOwner(q)
      BY <1>1, <1>2, <2>3, <3>2 DEF WritesOwner, LockTypeOK
    <3>3. ASSUME NEW k, Unlink(q, k) PROVE Kept(l)
      BY <1>1, <1>2, <2>2, <2>3, <3>3 DEF Unlink, LockTypeOK
    <3>4. CASE TakesAside(q) \/ WriteFails(q) \/ Unlinks(q)
      BY <2>3, <3>3, <3>4 DEF TakesAside, WriteFails, Unlinks
    <3>5. CASE file' = file
      BY <2>3, <3>5
    <3> QED
      BY <1>2, <3>1, <3>2, <3>4, <3>5 DEF Acts, Begin, Reads, Acquires, Finishes, Checks, Dies
  <2> QED
    BY <1>k, <2>1, <2>2, <2>3
<1>3. CASE Begin(p) \/ Finishes(p) \/ Reads(p) \/ Dies(p)
  <2>1. CASE Begin(p)
    <3>1. held'[p] = 0 /\ pc'[p] = "opening"
      BY <1>1, <1>h, <2>1 DEF Begin, Moves, LockTypeOK
    <3> QED
      BY <3>1
  <2>2. CASE Finishes(p) \/ Reads(p)
    <3>1. /\ Live(p) /\ held'[p] = held[p] /\ file' = file
          /\ pc'[p] \notin {"opened", "written"}
      BY <1>1, <2>2 DEF Finishes, Reads, Moves, Refused, Live, LockTypeOK
    <3> QED
      BY <1>k, <3>1 DEF Mine, Kept
  <2>3. ~Dies(p)
    BY <1>1 DEF Dies, Live, LockTypeOK
  <2> QED
    BY <1>3, <2>1, <2>2, <2>3
<1>4. CASE Open(p)
  <2>1. Live(p)
    BY <1>4 DEF Open, Live
  <2>2. held'[p] = held[p] /\ held[p] + 1 \in 1 .. Len(Wants[p])
    BY <1>h, <1>4 DEF Open
  <2>3. CASE pc'[p] = "opened"
    <3>1. file' = [file EXCEPT ![Wanted(p)] = [by |-> {p}, written |-> FALSE]]
      BY <1>1, <1>4, <2>3 DEF Open, Moves, LockTypeOK
    <3>2. \A l \in Lock : Mine(l) \/ l = Wanted(p) => Kept(l)
      BY <1>1, <3>1 DEF LockTypeOK, Mine, Kept
    <3>3. Kept(Wants[p][held[p] + 1])
      BY <1>w, <2>2, <3>2 DEF Wanted
    <3> QED
      BY <1>h, <1>i, <1>j, <2>1, <2>2, <3>2, <3>3
  <2>4. CASE pc'[p] # "opened"
    <3>1. file' = file /\ pc'[p] = "reading"
      BY <1>1, <1>4, <2>4 DEF Open, Moves, LockTypeOK
    <3> QED
      BY <1>k, <2>1, <2>2, <3>1 DEF Mine, Kept
  <2> QED
    BY <2>3, <2>4
<1>5. CASE WritesOwner(p)
  <2>1. Live(p) /\ pc[p] = "opened" /\ held'[p] = held[p]
    BY <1>5 DEF WritesOwner, Moves, Live
  <2>2. \A l \in Lock : Mine(l) => Kept(l)
    BY <1>1, <1>5 DEF WritesOwner, LockTypeOK, Mine, Kept
  <2> QED
    BY <1>k, <2>1, <2>2
<1>6. CASE Acquires(p)
  <2>1. Live(p) /\ pc[p] = "written" /\ file' = file
    BY <1>6 DEF Acquires, Live
  <2>2. held'[p] \in {held[p], held[p] + 1} /\ pc'[p] \notin {"opened", "written"}
    BY <1>1, <1>6 DEF Acquires, Moves, Refused, LockTypeOK
  <2>3. \A l : Mine(l) => Kept(l)
    BY <2>1 DEF Mine, Kept
  <2>4. ASSUME NEW i \in 1 .. held'[p] PROVE Mine(Wants[p][i])
    BY <1>h, <1>i, <2>1, <2>2, <2>4
  <2> QED
    BY <2>2, <2>3, <2>4
<1>7. CASE Checks(p)
  <2>1. Live(p) /\ file' = file
    BY <1>7 DEF Checks, Live
  <2>2. held'[p] <= held[p] /\ pc'[p] \notin {"opened", "written"}
    BY <1>1, <1>h, <1>7 DEF Checks, Moves, LockTypeOK
  <2>3. \A l : Mine(l) => Kept(l)
    BY <2>1 DEF Mine, Kept
  <2>4. ASSUME NEW i \in 1 .. held'[p] PROVE Mine(Wants[p][i])
    BY <1>h, <1>i, <2>1, <2>2, <2>4
  <2> QED
    BY <2>2, <2>3, <2>4
<1>8. ASSUME NEW n \in Nat, n + 1 \in 1 .. Len(Wants[p]), n <= held[p], Live(p),
             Unlink(p, Wants[p][n + 1])
      PROVE  \A i \in 1 .. n : Kept(Wants[p][i])
  <2>1. \A i \in 1 .. n : Wants[p][i] \in Lock /\ Wants[p][i] # Wants[p][n + 1]
    BY <1>w, <1>8
  <2>2. \A l \in Lock : l # Wants[p][n + 1] /\ Mine(l) => Kept(l)
    BY <1>1, <1>8 DEF Unlink, LockTypeOK, Mine, Kept
  <2>3. \A i \in 1 .. n : Mine(Wants[p][i])
    BY <1>h, <1>i, <1>8
  <2> QED
    BY <2>1, <2>2, <2>3
<1>9. CASE TakesAside(p) \/ WriteFails(p)
  <2>1. /\ Live(p) /\ held'[p] = held[p] /\ held[p] + 1 \in 1 .. Len(Wants[p])
        /\ pc'[p] \notin {"opened", "written"}
    BY <1>1, <1>h, <1>9 DEF TakesAside, WriteFails, Moves, Refused, Live, LockTypeOK
  <2>2. file' = file \/ Unlink(p, Wants[p][held[p] + 1])
    BY <1>9 DEF TakesAside, WriteFails, Wanted
  <2>3. CASE file' = file
    BY <1>k, <2>1, <2>3 DEF Mine, Kept
  <2>4. CASE Unlink(p, Wants[p][held[p] + 1])
    <3>1. \A i \in 1 .. held[p] : Kept(Wants[p][i])
      BY <1>h, <1>8, <2>1, <2>4
    <3> QED
      BY <2>1, <3>1
  <2> QED
    BY <2>2, <2>3, <2>4
<1>10. CASE Unlinks(p)
  <2>1. Live(p) /\ held[p] > 0 /\ Unlink(p, Wants[p][held[p]])
    BY <1>1, <1>10 DEF Unlinks, Moves, Live, Latest, LockTypeOK
  <2>2. held'[p] = held[p] - 1 /\ pc'[p] \notin {"opened", "written"}
    BY <1>1, <1>10 DEF Unlinks, Moves, LockTypeOK
  <2>3. /\ held[p] - 1 \in Nat /\ (held[p] - 1) + 1 = held[p]
        /\ held[p] \in 1 .. Len(Wants[p]) /\ held[p] - 1 <= held[p]
    BY <1>h, <1>w, <2>1
  <2>4. \A i \in 1 .. held[p] - 1 : Kept(Wants[p][i])
    BY <1>8, <2>1, <2>3
  <2> QED
    BY <2>2, <2>4
<1>11. CASE UNCHANGED lockVars
  BY <1>k, <1>11 DEF lockVars, Live, Mine, Kept
<1> QED
  BY <1>2, <1>3, <1>4, <1>5, <1>6, <1>7, <1>9, <1>10, <1>11 DEF LockNext, Acts

\* Every step preserves the invariant.
LEMMA InvStep == LockInv /\ [LockNext]_lockVars => LockInv'
  BY TypeStep, OwnersStep, StaleStep, PlaceStep DEF LockInv

\* The inductive invariant holds.
LEMMA InvHolds == LockSpec => []LockInv
<1> QED
  BY InvInit, InvStep, PTL DEF LockSpec

-----------------------------------------------------------------------------
(* The results.                                                            *)

\* Without a mislaid file no two live processes hold one lock.
THEOREM LockIsExclusive == LockSpec => []ExclusiveUnlessMislaid
<1>1. LockInv => ExclusiveUnlessMislaid
  <2> SUFFICES ASSUME LockInv, ~mislaid, NEW p \in Proc, NEW q \in Proc, NEW l \in Lock,
                      Holds(p, l), Holds(q, l)
               PROVE  p = q
    BY DEF ExclusiveUnlessMislaid
  <2>1. file[l].by = {p} /\ file[l].by = {q}
    BY DEF LockInv, FilesInPlace, Holds, Owns
  <2> QED
    BY <2>1
<1> QED
  BY <1>1, InvHolds, PTL

\* A judgement of staleness is never passed on a live process.
THEOREM StaleIsForever == LockSpec => []StaleIsDead
<1>1. LockInv => StaleIsDead
  BY DEF LockInv
<1> QED
  BY <1>1, InvHolds, PTL

\* The first file lost is lost to a takeover that acts on an outdated
\* judgement: releases and failed writes unlink the process's own file.
THEOREM OnlyOutdatedTakeover == LockSpec => OnlyOutdatedTakeoverMislays
<1>1. LockInv /\ [LockNext]_lockVars => [~mislaid /\ mislaid' =>
        \E p \in Proc : pc[p] = "stale" /\ file[Wanted(p)].by # judged[p]]_lockVars
  <2> SUFFICES ASSUME LockInv, [LockNext]_lockVars, ~mislaid, mislaid'
               PROVE  \E p \in Proc : pc[p] = "stale" /\ file[Wanted(p)].by # judged[p]
    OBVIOUS
  <2>1. LockTypeOK /\ FilesInPlace /\ StaleIsDead
    BY DEF LockInv
  <2>2. PICK p \in Proc : TakesAside(p) \/ WriteFails(p) \/ Unlinks(p)
    BY DEF LockNext, Acts, lockVars, Begin, Open, Reads, WritesOwner, Acquires, Finishes, Checks, Dies
  <2>w. Len(Wants[p]) \in Nat \ {0} /\ \A i \in 1 .. Len(Wants[p]) : Wants[p][i] \in Lock
    BY WantsFacts
  <2>3. ~WriteFails(p)
    <3> SUFFICES ASSUME WriteFails(p) PROVE FALSE
      OBVIOUS
    <3>1. file[Wanted(p)].by = {p}
      BY <2>1 DEF WriteFails, Moves, FilesInPlace, Owns, Live
    <3> QED
      BY <3>1 DEF WriteFails, Unlink
  <2>4. ~Unlinks(p)
    <3> SUFFICES ASSUME Unlinks(p) PROVE FALSE
      OBVIOUS
    <3>1. held[p] \in Nat /\ held[p] > 0
      BY <2>1 DEF Unlinks, Moves, LockTypeOK
    <3>2. file[Latest(p)].by = {p}
      <4>1. Live(p) /\ held[p] \in 1 .. held[p] BY <3>1 DEF Unlinks, Moves, Live
      <4>2. Owns(p, Wants[p][held[p]]) BY <2>1, <4>1 DEF FilesInPlace
      <4> QED BY <4>2 DEF Owns, Latest
    <3> QED
      BY <3>2 DEF Unlinks, Unlink
  <2>5. TakesAside(p)
    BY <2>2, <2>3, <2>4
  <2>6. pc[p] = "stale" /\ \E q \in file[Wanted(p)].by : Live(q)
    BY <2>5 DEF TakesAside, Moves, Unlink
  <2>7. Wanted(p) \in Lock
    BY <2>1, <2>6, <2>w DEF Wanted, LockTypeOK
  <2>8. file[Wanted(p)].by \in Owner
    BY <2>1, <2>7, ContentFacts DEF LockTypeOK
  <2> QED
    BY <2>1, <2>6, <2>8 DEF StaleIsDead, Live, Owner
<1> QED
  BY <1>1, InvHolds, PTL DEF LockSpec, OnlyOutdatedTakeoverMislays

-----------------------------------------------------------------------------
(* The supervisor and its runtimes.                                        *)

ProcType ==
  [st : {"none", "boot", "starting", "ready", "lingering", "exited"},
   ours : BOOLEAN, hung : BOOLEAN, slow : BOOLEAN, beat : Int, term : BOOLEAN]

\* Only the watched runtime is the supervisor's; a pending restart and an end
\* mean that there is none, and a pending kill that there is one.
OwnedInv ==
  /\ mode \in {"down", "up", "stopping", "finished"}
  /\ child \in Slot \cup {NoChild}
  /\ proc \in [Slot -> ProcType]
  /\ \A c \in Slot : proc[c].ours => child = c
  /\ mode \in {"down", "finished"} => child = NoChild
  /\ restart # Off => child = NoChild /\ mode = "up"
  /\ kill # Off => child # NoChild

\* No process becomes the supervisor's.
NoneAdopted ==
  /\ proc' \in [Slot -> ProcType]
  /\ \A c \in Slot : proc'[c].ours => proc[c].ours

-----------------------------------------------------------------------------
\* No process, and a process that is spawned or has ended, are typed.
LEMMA NoProcType ==
  /\ NoProc \in ProcType /\ ~NoProc.ours
  /\ [NoProc EXCEPT !.st = "exited", !.ours = TRUE] \in ProcType
  /\ \A slow \in BOOLEAN :
       [NoProc EXCEPT !.st = "boot", !.ours = TRUE, !.slow = slow] \in ProcType
<1>1. NoProc \in ProcType /\ ~NoProc.ours
  BY DEF NoProc, ProcType
<1> QED
  BY <1>1 DEF ProcType

\* An exit gives the supervisor no process it did not spawn.
LEMMA Exiting ==
  ASSUME OwnedInv, NEW c \in Slot, Exits(c)
  PROVE  NoneAdopted
<1>1. Ended(c) \in ProcType /\ (Ended(c).ours => proc[c].ours)
  BY NoProcType DEF Ended
<1> QED
  BY <1>1 DEF Exits, NoneAdopted, OwnedInv

\* Nor does SIGTERM.
LEMMA Terminating ==
  ASSUME OwnedInv, NEW c \in Slot, Terminates(c)
  PROVE  NoneAdopted
<1>1. CASE proc[c].st = "boot"
  BY <1>1, Exiting DEF Terminates
<1>2. CASE proc[c].st # "boot"
  <2>1. proc' = [proc EXCEPT ![c].term = Alive(c)]
    BY <1>2 DEF Terminates
  <2>2. Alive(c) \in BOOLEAN
    BY DEF Alive
  <2> QED
    BY <2>1, <2>2 DEF NoneAdopted, OwnedInv, ProcType
<1> QED
  BY <1>1, <1>2

\* The runtime's own steps leave the supervisor alone and adopt nobody.
LEMMA RuntimeStep ==
  ASSUME OwnedInv, NEW c \in Slot, SupervisorAssumption,
         RuntimeActs(c) \/ BecomesReady(c) \/ LoopRecovers(c) \/ Fails(c) \/ Hangs(c)
  PROVE  NoneAdopted /\ SupervisorKept
<1> USE DEF OwnedInv, ProcType
<1>e. HeartbeatEvery \in Int
  BY DEF SupervisorAssumption
<1>1. CASE Exits(c)
  BY <1>1, Exiting DEF RuntimeActs, Boot, BecomesReady, LoopRecovers, Beats, Heartbeat, HandlesTerm,
     Drains, Fails, Hangs
<1>2. CASE ~Exits(c)
  <2>1. SupervisorKept
    BY DEF RuntimeActs, Boot, BecomesReady, LoopRecovers, Beats, Heartbeat, HandlesTerm,
       Drains, Fails, Hangs
  <2>2. CASE Boot(c)
    BY <1>2, <1>e, <2>2 DEF Boot, NoneAdopted
  <2>3. CASE BecomesReady(c)
    BY <2>3 DEF BecomesReady, NoneAdopted
  <2>4. CASE Heartbeat(c)
    <3>1. proc[c].ours
      BY <1>2, <2>4 DEF Heartbeat
    <3>2. proc' = [proc EXCEPT ![c].beat = HeartbeatEvery, ![c].hung = FALSE]
      BY <2>4, <3>1 DEF Heartbeat
    <3>3. [proc[c] EXCEPT !.beat = HeartbeatEvery, !.hung = FALSE] \in ProcType
      BY <1>e
    <3> QED
      BY <2>1, <3>2, <3>3 DEF NoneAdopted
  <2>5. CASE Fails(c)
    BY <1>2, <2>5 DEF Fails, NoneAdopted
  <2>6. CASE Hangs(c)
    <3>1. proc' = [proc EXCEPT ![c].hung = TRUE]
      BY <2>6 DEF Hangs
    <3>2. [proc[c] EXCEPT !.hung = TRUE] \in ProcType
      OBVIOUS
    <3> QED
      BY <2>1, <3>1, <3>2 DEF NoneAdopted
  <2> QED
    BY <1>2, <2>1, <2>2, <2>3, <2>4, <2>5, <2>6
       DEF RuntimeActs, Beats, LoopRecovers, HandlesTerm, Drains
<1> QED
  BY <1>1, <1>2

\* Time passes: no child changes, and no timer that is off is set.
LEMMA Elapsing ==
  ASSUME OwnedInv, NEW n \in Int, NEW k \in Int, Elapse(n, k)
  PROVE  /\ NoneAdopted /\ UNCHANGED <<mode, child>>
         /\ restart = Off => restart' = Off
         /\ kill = Off => kill' = Off
<1>1. proc' = [c \in Slot |-> [proc[c] EXCEPT !.beat = Larger(@ - k, 0)]]
  BY DEF Elapse
<1>2. ASSUME NEW c \in Slot
      PROVE  /\ [proc[c] EXCEPT !.beat = Larger(@ - k, 0)] \in ProcType
             /\ [proc[c] EXCEPT !.beat = Larger(@ - k, 0)].ours = proc[c].ours
  <2>1. proc[c] \in ProcType
    BY DEF OwnedInv
  <2>2. Larger(proc[c].beat - k, 0) \in Int
    BY <2>1 DEF Larger, ProcType
  <2> QED
    BY <2>1, <2>2 DEF ProcType
<1> QED
  BY <1>1, <1>2 DEF Elapse, NoneAdopted, OwnedInv

\* The child becomes a process the supervisor spawned.
LEMMA Spawning ==
  ASSUME OwnedInv, child = NoChild, Spawn, mode' = "up", restart' = Off, kill' = Off
  PROVE  OwnedInv'
<1>1. PICK c \in Slot, slow \in BOOLEAN :
        /\ proc' = [proc EXCEPT ![c] = [NoProc EXCEPT !.st = "boot", !.ours = TRUE, !.slow = slow]]
        /\ child' = c
  BY DEF Spawn
<1>2. [NoProc EXCEPT !.st = "boot", !.ours = TRUE, !.slow = slow] \in ProcType
  BY NoProcType
<1>3. proc' \in [Slot -> ProcType] /\ \A d \in Slot : d # c => proc'[d] = proc[d]
  BY <1>1, <1>2 DEF OwnedInv
<1> QED
  BY <1>1, <1>3, SupervisorAssumption DEF OwnedInv, SupervisorAssumption, Off

\* A restart is scheduled only while the supervisor is up.
LEMMA Scheduling ==
  ASSUME ScheduleRestart
  PROVE  /\ kill' = Off
         /\ mode' \in {"up", "finished"}
         /\ restart' # Off => mode' = "up"
  BY DEF ScheduleRestart, Finish

-----------------------------------------------------------------------------
\* The invariant holds at first.
LEMMA OwnedInit == Init => OwnedInv
  BY NoProcType DEF Init, OwnedInv, Off

\* Every step preserves the invariant.
LEMMA OwnedStep == OwnedInv /\ [Next]_vars => OwnedInv'
<1> SUFFICES ASSUME OwnedInv, [Next]_vars PROVE OwnedInv'
  OBVIOUS
<1>a. SupervisorAssumption
  BY SupervisorAssumption
<1>1. ASSUME NoneAdopted, UNCHANGED <<mode, child>>,
             restart = Off => restart' = Off, kill = Off => kill' = Off
      PROVE  OwnedInv'
  BY <1>1 DEF OwnedInv, NoneAdopted
<1>2. ASSUME NEW c \in Slot,
             RuntimeActs(c) \/ BecomesReady(c) \/ LoopRecovers(c) \/ Fails(c) \/ Hangs(c)
      PROVE  OwnedInv'
  BY <1>1, <1>2, <1>a, RuntimeStep DEF SupervisorKept
<1>3. CASE Tick
  BY <1>1, <1>3, Elapsing DEF Tick
<1>4. CASE Sleep
  <2>1. PICK n \in Sleeps, k \in {0, 1} : Elapse(n, k * n)
    BY <1>4 DEF Sleep
  <2>2. n \in Int /\ k * n \in Int
    BY <1>a, <2>1 DEF SupervisorAssumption
  <2> QED
    BY <1>1, <2>1, <2>2, Elapsing
<1>5. CASE HostStarts
  <2>1. child = NoChild /\ restart = Off /\ kill = Off
    BY <1>5 DEF HostStarts, OwnedInv
  <2>2. CASE SpawnFails
    BY <2>1, <2>2, Scheduling DEF SpawnFails, OwnedInv
  <2>3. CASE Spawn /\ mode' = "up" /\ UNCHANGED <<kill, restart, budget>>
    BY <2>1, <2>3, Spawning
  <2> QED
    BY <1>5, <2>2, <2>3 DEF HostStarts
<1>6. CASE RestartFires
  <2>1. child = NoChild /\ mode = "up" /\ kill = Off
    BY <1>6 DEF RestartFires, OwnedInv, Off
  <2>2. CASE SpawnFails
    BY <2>1, <2>2, Scheduling DEF SpawnFails, OwnedInv
  <2>3. CASE Spawn /\ restart' = Off /\ UNCHANGED <<mode, kill, budget>>
    BY <2>1, <2>3, Spawning
  <2> QED
    BY <1>6, <2>2, <2>3 DEF RestartFires
<1>7. CASE ChildExits
  <2>1. child \in Slot /\ proc' = [proc EXCEPT ![child] = NoProc] /\ child' = NoChild
    BY <1>7 DEF ChildExits, OwnedInv
  <2>2. proc' \in [Slot -> ProcType] /\ \A c \in Slot : ~proc'[c].ours
    BY <2>1, NoProcType DEF OwnedInv
  <2>3. /\ kill' = Off /\ mode' \in {"up", "finished"}
        /\ restart' # Off => mode' = "up"
    BY <1>7, Scheduling DEF ChildExits, Finish
  <2> QED
    BY <2>1, <2>2, <2>3 DEF OwnedInv
<1>8. CASE KillFires
  <2>1. child \in Slot /\ kill' = Off /\ UNCHANGED <<mode, child, restart>>
    BY <1>8 DEF KillFires, OwnedInv, Off
  <2>2. NoneAdopted
    BY <1>8, <2>1, Exiting DEF KillFires, NoneAdopted, OwnedInv
  <2> QED
    BY <1>1, <2>1, <2>2
<1>9. CASE MonitorRebases \/ MonitorGrants \/ MonitorContent \/ MonitorSuspects
  <2>1. UNCHANGED <<mode, child, restart, kill, proc>>
    BY <1>9 DEF MonitorRebases, MonitorGrants, MonitorContent, MonitorSuspects, Monitors
  <2> QED
    BY <2>1 DEF OwnedInv
<1>10. CASE MonitorTerminates
  <2>1. child \in Slot /\ UNCHANGED <<mode, child, restart>>
    BY <1>10 DEF MonitorTerminates, Monitors, OwnedInv
  <2>2. NoneAdopted
    BY <1>10, <2>1, Terminating DEF MonitorTerminates, NoneAdopted, OwnedInv
  <2> QED
    BY <1>a, <2>1, <2>2 DEF OwnedInv, NoneAdopted, SupervisorAssumption
<1>11. CASE Stop
  <2>1. CASE child = NoChild
    BY <1>11, <2>1 DEF Stop, Finish, OwnedInv
  <2>2. CASE child # NoChild
    <3>1. NoneAdopted /\ mode' = "stopping" /\ restart' = Off /\ child' = child
      BY <1>11, <2>2, Terminating DEF Stop, OwnedInv
    <3> QED
      BY <2>2, <3>1 DEF OwnedInv, NoneAdopted
  <2> QED
    BY <2>1, <2>2
<1>12. CASE SupervisorDies
  <2>1. ASSUME NEW c \in Slot
        PROVE  proc'[c] \in ProcType /\ ~proc'[c].ours
    <3>1. proc[c] \in ProcType
      BY DEF OwnedInv
    <3>2. [proc[c] EXCEPT !.ours = FALSE] \in ProcType /\ ~[proc[c] EXCEPT !.ours = FALSE].ours
      BY <3>1 DEF ProcType
    <3> QED
      BY <1>12, <3>2, NoProcType DEF SupervisorDies
  <2>2. proc' \in [Slot -> ProcType]
    BY <1>12, <2>1 DEF SupervisorDies
  <2> QED
    BY <1>12, <2>1, <2>2 DEF SupervisorDies, OwnedInv
<1>13. CASE UNCHANGED vars
  BY <1>13 DEF vars, OwnedInv
<1> QED
  BY <1>2, <1>3, <1>4, <1>5, <1>6, <1>7, <1>8, <1>9, <1>10, <1>11, <1>12, <1>13
     DEF Next, SupervisorActs

\* For any settings and faults: no runtime of the supervisor runs beside the
\* one it watches, and none when it has stopped, given up or died.
THEOREM SupervisorOwnsOne == Spec => []NoRuntimeLeftBehind
<1>1. OwnedInv => NoRuntimeLeftBehind
  BY SupervisorAssumption DEF OwnedInv, NoRuntimeLeftBehind, SupervisorAssumption
<1> QED
  BY <1>1, OwnedInit, OwnedStep, PTL DEF Spec

=============================================================================
