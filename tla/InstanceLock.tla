---------------------------- MODULE InstanceLock ----------------------------
(***************************************************************************)
(* The lock files of a storage root (runtime/instance-lock.cjs): the       *)
(* runtime's, the supervisor's, and the offline tools that take both       *)
(* (bin/tether-ops.cjs, bin/tether-memory.cjs).                            *)
(*                                                                         *)
(* An action is one system call on the file with the code around it, so    *)
(* other processes act between any two.  A process is an incarnation: its  *)
(* pid together with its start marker and command.  A pid that the         *)
(* operating system gave to somebody else is told apart by that identity,  *)
(* or leaves the owner in doubt.                                           *)
(***************************************************************************)
EXTENDS Naturals, Sequences

CONSTANTS
  Proc,         \* process incarnations
  Lock,         \* the lock files
  Wants         \* the locks each process takes, in order

ASSUME LockAssumption ==
  /\ Wants \in [Proc -> Seq(Lock) \ {<<>>}]
  /\ \A p \in Proc : \A i, j \in 1 .. Len(Wants[p]) : Wants[p][i] = Wants[p][j] => i = j

VARIABLES
  file,         \* durable: the content at each lock's path
  pc,           \* where each process stands
  held,         \* how many of its locks each process has acquired
  judged,       \* the owner whose lock a process has found stale
  mislaid       \* history: the lock of a live process was taken from its path

lockVars == <<file, pc, held, judged, mislaid>>

Stage == {"idle", "opening", "reading", "stale", "opened", "written",
          "working", "releasing", "unlinking", "gone", "dead"}

NoFile == [by |-> {}, written |-> FALSE]

\* Nobody, or the process that created the file or was read from it.
Owner == {{}} \cup {{p} : p \in Proc}

Content == [by : Owner, written : BOOLEAN]

LockInit ==
  /\ file = [l \in Lock |-> NoFile]
  /\ pc = [p \in Proc |-> "idle"]
  /\ held = [p \in Proc |-> 0]
  /\ judged = [p \in Proc |-> {}]
  /\ mislaid = FALSE

-----------------------------------------------------------------------------
Live(p) == pc[p] \notin {"idle", "gone", "dead"}

\* The lock a process is acquiring, and the one it releases next.
Wanted(p) == Wants[p][held[p] + 1]
Latest(p) == Wants[p][held[p]]

Absent(l) == file[l].by = {}

Moves(p, from, to) ==
  /\ pc[p] = from
  /\ pc' = [pc EXCEPT ![p] = to]

\* The path of l is unlinked or renamed, whatever is there by now.
Unlink(p, l) ==
  /\ file' = [file EXCEPT ![l] = NoFile]
  /\ mislaid' = (mislaid \/ \E q \in file[l].by : q # p /\ Live(q))

\* The acquisition throws: what was acquired before is released.
Refused(p) == IF held[p] = 0 THEN "gone" ELSE "releasing"

-----------------------------------------------------------------------------
(* acquireInstanceLock.                                                    *)

Begin(p) ==
  /\ Moves(p, "idle", "opening")
  /\ UNCHANGED <<file, held, judged, mislaid>>

\* Mutant of Open: "w" in place of "wx".
OpensAnyway(p) ==
  /\ Moves(p, "opening", "opened")
  /\ file' = [file EXCEPT ![Wanted(p)] = [by |-> {p}, written |-> FALSE]]
  /\ UNCHANGED <<held, judged, mislaid>>

\* open with "wx": created, or EEXIST.
Open(p) ==
  /\ pc[p] = "opening"
  /\ \/ /\ Absent(Wanted(p))
        /\ Moves(p, "opening", "opened")
        /\ file' = [file EXCEPT ![Wanted(p)] = [by |-> {p}, written |-> FALSE]]
     \/ /\ ~Absent(Wanted(p))
        /\ Moves(p, "opening", "reading")
        /\ UNCHANGED file
  /\ UNCHANGED <<held, judged, mislaid>>

ReadsOrWaits(p) ==
  /\ pc[p] = "reading"
  /\ \/ ~file[Wanted(p)].written /\ Moves(p, "reading", "opening")
     \/ file[Wanted(p)].written /\ Moves(p, "reading", Refused(p))
  /\ UNCHANGED <<file, held, judged, mislaid>>

\* The lock read back: gone again; malformed or owned by a live process, which
\* refuses; or the lock of a dead process, unless its pid is in use and the
\* identity of the user cannot be observed.
Reads(p) ==
  LET lock == file[Wanted(p)]
      owned == lock.written /\ \E q \in lock.by : Live(q)
  IN
  /\ pc[p] = "reading"
  /\ \/ /\ Absent(Wanted(p))
        /\ Moves(p, "reading", "opening")
        /\ UNCHANGED judged
     \/ /\ ~Absent(Wanted(p))
        /\ Moves(p, "reading", Refused(p))
        /\ UNCHANGED judged
     \/ /\ lock.written /\ ~owned
        /\ Moves(p, "reading", "stale")
        /\ judged' = [judged EXCEPT ![p] = lock.by]
  /\ UNCHANGED <<file, held, mislaid>>

\* rename to a private path and unlink there; ENOENT starts over.
TakesAside(p) ==
  /\ Moves(p, "stale", "opening")
  /\ IF Absent(Wanted(p)) THEN UNCHANGED <<file, mislaid>> ELSE Unlink(p, Wanted(p))
  /\ judged' = [judged EXCEPT ![p] = {}]
  /\ UNCHANGED held

\* The content goes to the open descriptor, wherever its path went.
WritesOwner(p) ==
  /\ Moves(p, "opened", "written")
  /\ file' = [l \in Lock |-> IF l = Wanted(p) /\ file[l].by = {p}
                             THEN [by |-> {p}, written |-> TRUE] ELSE file[l]]
  /\ UNCHANGED <<held, judged, mislaid>>

\* The write or the fsync throws: the path is unlinked.
WriteFails(p) ==
  /\ Moves(p, "opened", Refused(p))
  /\ Unlink(p, Wanted(p))
  /\ UNCHANGED <<held, judged>>

\* chmod on the path completes the acquisition; it throws when the path is gone.
Acquires(p) ==
  /\ pc[p] = "written"
  /\ \/ /\ Absent(Wanted(p))
        /\ Moves(p, "written", Refused(p))
        /\ UNCHANGED held
     \/ /\ ~Absent(Wanted(p))
        /\ held' = [held EXCEPT ![p] = @ + 1]
        /\ Moves(p, "written", IF held[p] + 1 = Len(Wants[p]) THEN "working" ELSE "opening")
  /\ UNCHANGED <<file, judged, mislaid>>

-----------------------------------------------------------------------------
(* release.                                                                *)

Finishes(p) ==
  /\ Moves(p, "working", "releasing")
  /\ UNCHANGED <<file, held, judged, mislaid>>

\* Only the own token is unlinked; a release of anything else returns false.
Checks(p) ==
  /\ pc[p] = "releasing"
  /\ IF file[Latest(p)] = [by |-> {p}, written |-> TRUE]
     THEN Moves(p, "releasing", "unlinking") /\ UNCHANGED held
     ELSE /\ Moves(p, "releasing", IF held[p] = 1 THEN "gone" ELSE "releasing")
          /\ held' = [held EXCEPT ![p] = @ - 1]
  /\ UNCHANGED <<file, judged, mislaid>>

Unlinks(p) ==
  /\ Moves(p, "unlinking", IF held[p] = 1 THEN "gone" ELSE "releasing")
  /\ Unlink(p, Latest(p))
  /\ held' = [held EXCEPT ![p] = @ - 1]
  /\ UNCHANGED judged

\* The process is killed; its files stay.
Dies(p) ==
  /\ Live(p)
  /\ pc' = [pc EXCEPT ![p] = "dead"]
  /\ UNCHANGED <<file, held, judged, mislaid>>

-----------------------------------------------------------------------------
Acts(p) ==
  \/ Open(p) \/ Reads(p) \/ TakesAside(p) \/ WritesOwner(p) \/ WriteFails(p) \/ Acquires(p)
  \/ Checks(p) \/ Unlinks(p)

LockNext == \E p \in Proc : Begin(p) \/ Acts(p) \/ Finishes(p) \/ Dies(p)

LockSpec == LockInit /\ [][LockNext]_lockVars

\* A process that runs gets through its system calls.
FairLockSpec == LockSpec /\ \A p \in Proc : WF_lockVars(Acts(p))

-----------------------------------------------------------------------------
(* Properties.                                                             *)

\* The locks a live process believes to hold.
Holds(p, l) == Live(p) /\ \E i \in 1 .. held[p] : Wants[p][i] = l

\* Every variable keeps its shape, and a process never runs past the locks it
\* wants nor releases more than it acquired.
LockTypeOK ==
  /\ file \in [Lock -> Content]
  /\ pc \in [Proc -> Stage]
  /\ held \in [Proc -> Nat]
  /\ judged \in [Proc -> Owner]
  /\ mislaid \in BOOLEAN
  /\ \A p \in Proc :
       /\ held[p] <= Len(Wants[p])
       /\ pc[p] = "idle" => held[p] = 0
       /\ pc[p] \in {"opening", "reading", "stale", "opened", "written"}
            => held[p] < Len(Wants[p])
       /\ pc[p] \in {"working", "releasing", "unlinking"} => held[p] > 0

\* As long as no live process lost its file from the path, no two processes
\* hold one lock, in whatever order they create, give up, release and die.
ExclusiveUnlessMislaid ==
  ~mislaid => \A p, q \in Proc, l \in Lock : Holds(p, l) /\ Holds(q, l) => p = q

\* A lock found stale belongs to a process that is gone for good.
StaleIsDead == \A p, q \in Proc : q \in judged[p] => pc[q] \in {"gone", "dead"}

\* The file of a live process is lost in one way only: a takeover renames the
\* path on a judgement passed on an earlier owner.  A release, a failed write
\* or a takeover whose judgement is up to date never takes a live owner's file.
OnlyOutdatedTakeoverMislays ==
  [][~mislaid /\ mislaid' =>
       \E p \in Proc : pc[p] = "stale" /\ file[Wanted(p)].by # judged[p]]_lockVars

\* Every attempt comes to an end: the process works, or was refused.
AttemptsEnd ==
  \A p \in Proc : pc[p] = "opening" ~> pc[p] \in {"working", "gone", "dead"}

=============================================================================
