--------------------------- MODULE BackupRestore ---------------------------
(***************************************************************************)
(* Backups of a storage root and their restoration (operations/backup.cjs, *)
(* operations/storage-schema.cjs), with what else may happen to the root   *)
(* in between: a runtime that starts on it and serves turns, a migration,  *)
(* the loss of the whole root, and the death of any process at any step.   *)
(*                                                                         *)
(* The instance locks let one process work on the root at a time: proc is  *)
(* where the runtime is, job where a restore is, and one of them is idle.  *)
(* Four files stand for the root's: the transcript, the version marker,    *)
(* the Telegram inbox (for every journal copied between marker and anchor) *)
(* and the session anchor. The transcript is the sequence of its turns and *)
(* of the lines a crash has torn; a turn is the update it answers and the  *)
(* session that did. A marker is the number of its initialisation.         *)
(***************************************************************************)
EXTENDS Integers, Sequences, FiniteSets, SequencesExt

CONSTANTS
  Absent,         \* no such file or backup, no receipt, no proof in an anchor
  MayCreate,      \* allowInitialSessionCreate
  MaxUpdates,     \* bounds the updates received
  Backup,         \* the names a published backup may get
  MaxSessions,    \* bounds the sessions created
  MaxStamps,      \* bounds the initialisations and migrations
  MaxTroubles,    \* bounds crashes and failed steps
  MaxLosses       \* bounds the roots lost

Turn == [of : Nat, by : Nat]
Anchor == [sid : Nat, proof : {Absent} \union Seq(Turn)]
Receipt == [state : {"prepared", "completed"}, of : Backup]

ASSUME BackupAssumption ==
  /\ MayCreate \in BOOLEAN
  /\ Absent \notin Backup /\ Absent \notin Nat /\ Absent \notin Receipt
  /\ Absent \notin Seq(Turn) /\ Absent \notin Anchor
  /\ \A inbox \in SUBSET (1 .. MaxUpdates) : inbox # Absent
  /\ {MaxUpdates, MaxSessions, MaxStamps, MaxTroubles, MaxLosses} \subseteq Nat

VARIABLES
  file,       \* the root's files
  dirs,       \* its directories have been made
  health,     \* runtime-health.json is there
  litter,     \* a temporary file of the restore receipt is there
  work,       \* the file in .tether-restore-work: "none", "torn" or "whole"
  receipt,    \* the restore receipt
  backup,     \* the published backups
  proc,       \* where the runtime is
  job,        \* where the restore is
  updates,    \* received so far
  sessions,   \* created so far
  stamps,     \* markers written so far
  troubles,   \* used up
  losses      \* used up

others == <<dirs, health, litter, work, receipt>>
root == <<file, others>>
counts == <<updates, sessions, stamps>>
bounds == <<troubles, losses>>
vars == <<root, backup, proc, job, counts, bounds>>

\* Mutant of Order: the names alone.
OrderByName == <<"transcript", "session", "marker", "inbox">>

Order == <<"transcript", "marker", "inbox", "session">>
Files == {"transcript", "marker", "inbox", "session"}
NoFiles == [f \in Files |-> Absent]

Exists(f) == file[f] # Absent
Torn == [of |-> 0, by |-> 0]
TurnsOf(transcript) == Range(transcript) \ {Torn}

NoJob == [step |-> "none", of |-> Absent, at |-> 0]
Published == {b \in Backup : backup[b] # Absent}
Source == backup[job.of]
JobIs(step) == job.step = step
GoesTo(step) == job' = [job EXCEPT !.step = step]
Quiet == proc = "off" /\ job = NoJob

Init ==
  /\ file = NoFiles /\ dirs = FALSE /\ health = FALSE /\ litter = FALSE
  /\ work = "none" /\ receipt = Absent
  /\ backup = [b \in Backup |-> Absent] /\ proc = "off" /\ job = NoJob
  /\ updates = 0 /\ sessions = 0 /\ stamps = 0 /\ troubles = 0 /\ losses = 0

-----------------------------------------------------------------------------
(* The storage schema.                                                     *)

\* Receipts, health file and restore work are ephemeral and do not count.
HasEntries == dirs \/ \E f \in Files : Exists(f)

\* "current", "uninitialized" or "migration-required"
SchemaStatus ==
  IF Exists("marker") THEN "current"
  ELSE IF HasEntries THEN "migration-required" ELSE "uninitialized"

WriteMarker ==
  /\ stamps < MaxStamps
  /\ file' = [file EXCEPT !["marker"] = stamps + 1]
  /\ stamps' = stamps + 1

\* tether-ops migrate: an unversioned root is adopted, an empty one
\* initialised, a current one left alone.
Migrate ==
  /\ Quiet
  /\ SchemaStatus # "current"
  /\ WriteMarker
  /\ UNCHANGED <<others, backup, proc, job, updates, sessions, bounds>>

-----------------------------------------------------------------------------
(* The runtime.                                                            *)

\* main, to ensureRuntimeStorageSchema.
Boots ==
  /\ Quiet
  /\ \/ SchemaStatus = "current" /\ UNCHANGED <<file, stamps>>
     \/ SchemaStatus = "uninitialized" /\ WriteMarker
  /\ proc' = "booted"
  /\ UNCHANGED <<others, backup, job, updates, sessions, bounds>>

\* The health reporter starts and the components are constructed; a new
\* transcript gets its bootstrap record, which is no turn.
Loads ==
  /\ proc = "booted"
  /\ health' = TRUE /\ dirs' = TRUE
  /\ file' = IF Exists("transcript") THEN file
             ELSE [file EXCEPT !["transcript"] = <<>>]
  /\ proc' = "loaded"
  /\ UNCHANGED <<litter, work, receipt, backup, job, counts, bounds>>

Proven(files) ==
  files["session"].proof # Absent =>
    /\ files["transcript"] # Absent
    /\ IsPrefix(files["session"].proof, files["transcript"])

HasAuthority == TurnsOf(file["transcript"]) # {}

Creates ==
  /\ ~Exists("session")
  /\ MayCreate /\ ~HasAuthority
  /\ sessions < MaxSessions
  /\ sessions' = sessions + 1
  /\ file' = [file EXCEPT !["session"] =
                [sid |-> sessions + 1, proof |-> Absent]]
  /\ proc' = "on"

Resumes ==
  /\ Exists("session") /\ Proven(file)
  /\ proc' = "on"
  /\ UNCHANGED <<file, sessions>>

\* The session is refused and the process ends.
Refuses ==
  /\ IF Exists("session") THEN ~Proven(file) ELSE ~MayCreate \/ HasAuthority
  /\ proc' = "off"
  /\ UNCHANGED <<file, sessions>>

Opens ==
  /\ proc = "loaded"
  /\ Creates \/ Resumes \/ Refuses
  /\ UNCHANGED <<others, backup, job, updates, stamps, bounds>>

Serving == proc \in {"on", "answered"}

Receives ==
  /\ proc = "on" /\ updates < MaxUpdates
  /\ updates' = updates + 1
  /\ file' = [file EXCEPT !["inbox"] =
                (IF Exists("inbox") THEN @ ELSE {}) \union {updates + 1}]
  /\ UNCHANGED <<others, backup, proc, job, sessions, stamps, bounds>>

Open == IF Exists("inbox")
        THEN file["inbox"] \ {t.of : t \in TurnsOf(file["transcript"])}
        ELSE {}

\* The turn is appended; the checkpoint of the session follows.
Answers ==
  /\ proc = "on"
  /\ \E u \in Open :
       file' = [file EXCEPT !["transcript"] =
                  Append(@, [of |-> u, by |-> file["session"].sid])]
  /\ proc' = "answered"
  /\ UNCHANGED <<others, backup, job, updates,
                 sessions, stamps, bounds>>

Checkpoints ==
  /\ proc = "answered"
  /\ file' = [file EXCEPT !["session"].proof = file["transcript"]]
  /\ proc' = "on"
  /\ UNCHANGED <<others, backup, job, counts,
                 bounds>>

Stops ==
  /\ proc = "on"
  /\ proc' = "off"
  /\ UNCHANGED <<root, backup, job, counts, bounds>>

-----------------------------------------------------------------------------
(* Backup: copied into a staging directory, verified there and renamed. A  *)
(* crash or a refusal leaves a staging directory at most.                  *)

\* Every line of a journal parses.
Readable(files) ==
  files["transcript"] # Absent =>
    \A i \in DOMAIN files["transcript"] : files["transcript"][i] # Torn

\* An anchor with its proof, or nothing that would need one.
SessionProven(files) ==
  IF files["session"] = Absent
  THEN files["transcript"] = Absent /\ files["inbox"] = Absent
  ELSE Proven(files)

\* verifyBackup
Verified(files) ==
  /\ files["marker"] # Absent
  /\ Readable(files)
  /\ SessionProven(files)

CreateBackup ==
  /\ Quiet
  /\ SchemaStatus = "current"
  /\ Verified(file)
  /\ \E b \in Backup \ Published :
       backup' = [backup EXCEPT ![b] = [file |-> file, dirs |-> dirs]]
  /\ UNCHANGED <<root, proc, job, counts, bounds>>

-----------------------------------------------------------------------------
(* Restore.                                                                *)

\* Nothing but the locks.
TargetIsEmpty ==
  ~HasEntries /\ ~health /\ ~litter /\ work = "none" /\ receipt = Absent

\* A receipt of this backup, and nothing it does not know of. The health
\* file and a receipt's temporary file are in no backup.
TargetResumes(b) ==
  /\ receipt # Absent /\ receipt.of = b
  /\ ~health /\ ~litter
  /\ \A f \in Files : Exists(f) => backup[b].file[f] # Absent
  /\ dirs => backup[b].dirs

RestoreBegins ==
  /\ Quiet
  /\ \E b \in Published :
       /\ Verified(backup[b].file)
       /\ \/ TargetIsEmpty /\ job' = [step |-> "prepare", of |-> b, at |-> 1]
          \/ TargetResumes(b) /\ job' = [step |-> "dirs", of |-> b, at |-> 1]
  /\ UNCHANGED <<root, backup, proc, counts, bounds>>

\* writeJsonAtomic, first half and second.
ReceiptBegins(from, to) ==
  /\ JobIs(from)
  /\ litter' = TRUE
  /\ GoesTo(to)
  /\ UNCHANGED <<file, dirs, health, work, receipt>>

ReceiptEnds(state) ==
  /\ litter' = FALSE
  /\ receipt' = [state |-> state, of |-> job.of]
  /\ UNCHANGED <<file, dirs, health, work>>

Prepares ==
  \/ ReceiptBegins("prepare", "preparing")
  \/ JobIs("preparing") /\ ReceiptEnds("prepared") /\ GoesTo("dirs")

MakesDirs ==
  /\ JobIs("dirs")
  /\ dirs' = (dirs \/ Source.dirs)
  /\ GoesTo("file")
  /\ UNCHANGED <<file, health, litter, work, receipt>>

AtFile(f) == JobIs("file") /\ job.at <= Len(Order) /\ f = Order[job.at]
NextFile == job' = [job EXCEPT !.step = "file", !.at = @ + 1]

\* Mutant of Skips: what exists is not compared.
SkipsExisting(f) ==
  /\ AtFile(f)
  /\ Exists(f) \/ Source.file[f] = Absent
  /\ NextFile
  /\ UNCHANGED root

\* Not in the backup, or restored by an earlier run.
Skips(f) ==
  /\ AtFile(f)
  /\ file[f] = Source.file[f]
  /\ NextFile
  /\ UNCHANGED root

Missing(f) == AtFile(f) /\ ~Exists(f) /\ Source.file[f] # Absent

\* Mutant of Discards: the partial copy stays in the way of the next.
DiscardsNever(f) == FALSE

\* A partial copy an earlier run left is thrown away, unless it is whole.
Discards(f) ==
  /\ Missing(f) /\ work = "torn"
  /\ work' = "none"
  /\ UNCHANGED <<job, file, dirs, health, litter, receipt>>

Copies(f) ==
  /\ Missing(f) /\ work = "none"
  /\ work' = "torn"
  /\ GoesTo("copying")
  /\ UNCHANGED <<file, dirs, health, litter, receipt>>

CopyEnds ==
  /\ JobIs("copying")
  /\ work' = "whole"
  /\ GoesTo("file")
  /\ UNCHANGED <<file, dirs, health, litter, receipt>>

Places(f) ==
  /\ Missing(f) /\ work = "whole"
  /\ file' = [file EXCEPT ![f] = Source.file[f]]
  /\ work' = "none"
  /\ NextFile
  /\ UNCHANGED <<dirs, health, litter, receipt>>

\* What is there is not the backup's.
Ambiguous(f) ==
  /\ AtFile(f) /\ Exists(f) /\ file[f] # Source.file[f]
  /\ job' = NoJob
  /\ UNCHANGED root

Finishes ==
  \/ job.at > Len(Order) /\ ReceiptBegins("file", "finishing")
  \/ JobIs("finishing") /\ ReceiptEnds("completed") /\ job' = NoJob

RestoreStep ==
  /\ \/ Prepares \/ MakesDirs \/ CopyEnds \/ Finishes
     \/ \E f \in Files : \/ Skips(f) \/ Discards(f) \/ Copies(f)
                         \/ Places(f) \/ Ambiguous(f)
  /\ UNCHANGED <<backup, proc, counts, bounds>>

-----------------------------------------------------------------------------
(* Failures.                                                               *)

\* A step of the restore throws; the receipt's temporary file is removed.
RestoreFails ==
  /\ job # NoJob /\ troubles < MaxTroubles
  /\ troubles' = troubles + 1
  /\ job' = NoJob /\ litter' = FALSE
  /\ UNCHANGED <<file, dirs, health, work, receipt, backup, proc, counts,
                 losses>>

\* The process at work dies, the runtime possibly within an append.
Crash ==
  /\ ~Quiet /\ troubles < MaxTroubles
  /\ troubles' = troubles + 1
  /\ proc' = "off" /\ job' = NoJob
  /\ \/ UNCHANGED file
     \/ proc = "on" /\ Open # {}
        /\ file' = [file EXCEPT !["transcript"] = Append(@, Torn)]
  /\ UNCHANGED <<others, backup, counts, losses>>

\* The root is lost, or the operator provides a new empty one.
Loses ==
  /\ Quiet /\ losses < MaxLosses
  /\ losses' = losses + 1
  /\ file' = NoFiles /\ dirs' = FALSE /\ health' = FALSE /\ litter' = FALSE
  /\ work' = "none" /\ receipt' = Absent
  /\ UNCHANGED <<backup, proc, job, counts, troubles>>

Runtime ==
  Boots \/ Loads \/ Opens \/ Receives \/ Answers \/ Checkpoints \/ Stops

Next ==
  \/ Runtime \/ Migrate \/ CreateBackup
  \/ RestoreBegins \/ RestoreStep
  \/ RestoreFails \/ Crash \/ Loses

Spec == Init /\ [][Next]_vars

\* A process gets on, and the operator runs an interrupted restore again.
FairSpec ==
  /\ Spec
  /\ WF_vars(RestoreStep) /\ WF_vars(Loads \/ Opens \/ Checkpoints)
  /\ WF_vars(RestoreBegins /\ receipt # Absent)

-----------------------------------------------------------------------------
(* Properties.                                                             *)

FilesOK(files) ==
  /\ files = [f \in Files |-> files[f]]
  /\ files["transcript"] # Absent => files["transcript"] \in Seq(Turn)
  /\ files["marker"] # Absent => files["marker"] \in Nat
  /\ files["inbox"] # Absent => files["inbox"] \subseteq 1 .. MaxUpdates
  /\ files["session"] # Absent => files["session"] \in Anchor

Steps == {"prepare", "preparing", "dirs", "file", "copying", "finishing"}

\* The variables keep their shape.
TypeOK ==
  /\ FilesOK(file)
  /\ dirs \in BOOLEAN /\ health \in BOOLEAN /\ litter \in BOOLEAN
  /\ work \in {"none", "torn", "whole"}
  /\ receipt # Absent => receipt \in Receipt /\ receipt.of \in Published
  /\ backup = [b \in Backup |-> backup[b]]
  /\ \A b \in Published :
       FilesOK(backup[b].file) /\ backup[b].dirs \in BOOLEAN
  /\ proc \in {"off", "booted", "loaded", "on", "answered"}
  /\ job # NoJob =>
       job \in [step : Steps, of : Published, at : 1 .. Len(Order) + 1]
  /\ updates \in 0 .. MaxUpdates /\ sessions \in Nat /\ stamps \in Nat
  /\ troubles \in Nat /\ losses \in Nat

\* Where a restore is about to declare itself complete, the root's files are
\* exactly the backup's, however many runs it took and whatever was started,
\* migrated or copied in between (backup.cjs:516-594).
CompletedIsBackup ==
  JobIs("finishing") =>
    /\ file = Source.file
    /\ Source.dirs => dirs

Holds(b) ==
  LET kept == backup[b].file IN
    /\ kept["transcript"] # Absent =>
         IsPrefix(kept["transcript"], file["transcript"])
    /\ kept["inbox"] # Absent =>
         Exists("inbox") /\ kept["inbox"] \subseteq file["inbox"]
    /\ file["marker"] = kept["marker"]

SessionOf(b) == backup[b].file["session"]

\* The root's session came with the backup of its receipt.
IsRestored ==
  /\ receipt # Absent
  /\ SessionOf(receipt.of) # Absent
  /\ file["session"].sid = SessionOf(receipt.of).sid

\* A runtime serves one session's history: every turn of its transcript was
\* answered by its session from an update in its inbox; and where that
\* session came with a backup, complete or interrupted, all of the backup
\* came with it ("copied last so an interrupted restore cannot look like a
\* complete persona root", backup.cjs:561-565).
RunsWhole ==
  Serving =>
    /\ \A t \in TurnsOf(file["transcript"]) :
         /\ t.by = file["session"].sid
         /\ Exists("inbox") /\ t.of \in file["inbox"]
    /\ IsRestored => Holds(receipt.of)

\* Somebody else has written to the root, or the crash of a restore has left
\* a file that no later run removes.
Spoiled ==
  \/ health \/ (litter /\ job = NoJob)
  \/ receipt # Absent /\ Exists("marker")
     /\ file["marker"] # backup[receipt.of].file["marker"]

\* A restore that has its receipt can be completed by running it again,
\* unless the root was started or migrated meanwhile or a crash fell into
\* the writing of a receipt (backup.cjs:119-133, 502-557).
RestoreEnds ==
  (receipt # Absent /\ receipt.state = "prepared")
    ~> (receipt = Absent \/ receipt.state = "completed" \/ Spoiled)

=============================================================================
