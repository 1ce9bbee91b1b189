------------------------ MODULE BackupRestoreProofs ------------------------
(***************************************************************************)
(* What holds of backups and restores for every bound, whether a session   *)
(* may be created or not: the shape of the variables, that a restore       *)
(* completes with exactly the backup's files, and that a runtime serves    *)
(* one whole history.                                                      *)
(***************************************************************************)
EXTENDS BackupRestore, TLAPS

-----------------------------------------------------------------------------
(* The inductive invariant.                                                *)

\* Files with an anchor have the rest of a root, and their turns are its
\* session's.
Whole(files) ==
  files["session"] # Absent =>
    /\ files["marker"] # Absent /\ files["transcript"] # Absent
    /\ files["session"].sid <= sessions
    /\ \A t \in TurnsOf(files["transcript"]) :
         /\ t.by = files["session"].sid
         /\ files["inbox"] # Absent /\ t.of \in files["inbox"]

BackupsInv ==
  \A b \in Published :
    backup[b].file["marker"] # Absent /\ Whole(backup[b].file)

RuntimeInv ==
  /\ proc # "off" => job = NoJob /\ Exists("marker")
  /\ proc \in {"loaded", "on", "answered"} => health /\ Exists("transcript")
  /\ Serving => Exists("session")

\* Nothing but what the backup has; done up to where the job stands.
JobInv ==
  job # NoJob =>
    /\ ~health
    /\ job.step \in {"prepare", "preparing"} =>
         file = NoFiles /\ receipt = Absent /\ job.at = 1
    /\ job.step \notin {"prepare", "preparing"} =>
         receipt # Absent /\ receipt.of = job.of
    /\ job.step = "dirs" => job.at = 1
    /\ job.step = "copying" => job.at <= Len(Order)
    /\ job.step = "finishing" => job.at > Len(Order)
    /\ \A f \in Files : Exists(f) => Source.file[f] # Absent
    /\ job.step \in {"file", "copying", "finishing"} =>
         /\ Source.dirs => dirs
         /\ \A i \in 1 .. Len(Order) :
              i < job.at => file[Order[i]] = Source.file[Order[i]]

\* An anchor nobody started from was restored, and so was everything else.
RestoredInv ==
  (Exists("session") /\ ~health) =>
    receipt # Absent /\ file = backup[receipt.of].file

LinkedInv == (Exists("session") /\ IsRestored) => Holds(receipt.of)

IInv ==
  /\ TypeOK /\ Whole(file) /\ BackupsInv /\ RuntimeInv
  /\ JobInv /\ RestoredInv /\ LinkedInv

-----------------------------------------------------------------------------
(* Sequences.                                                              *)

LEMMA OrderIs ==
  /\ Len(Order) = 4
  /\ Order[1] = "transcript" /\ Order[2] = "marker"
  /\ Order[3] = "inbox" /\ Order[4] = "session"
BY DEF Order

LEMMA PrefixOfItself ==
  ASSUME NEW S, NEW s \in Seq(S)
  PROVE  IsPrefix(s, s)
BY DEF IsPrefix

\* What is a prefix stays one when something is appended.
LEMMA PrefixGrows ==
  ASSUME NEW S, NEW s \in Seq(S), NEW t \in Seq(S), NEW e \in S, IsPrefix(s, t)
  PROVE  IsPrefix(s, Append(t, e))
<1>1. Len(s) <= Len(t) /\ SubSeq(s, 1, Len(s)) = SubSeq(t, 1, Len(s))
  BY DEF IsPrefix
<1>2. Len(Append(t, e)) = Len(t) + 1
  OBVIOUS
<1>3. SubSeq(Append(t, e), 1, Len(s)) = SubSeq(t, 1, Len(s))
  BY <1>1, <1>2
<1> QED
  BY <1>1, <1>2, <1>3 DEF IsPrefix

\* The turns of a longer transcript.
LEMMA TurnsGrow ==
  ASSUME NEW s \in Seq(Turn), NEW e \in Turn
  PROVE  /\ Append(s, e) \in Seq(Turn)
         /\ TurnsOf(Append(s, e)) \subseteq TurnsOf(s) \union {e}
         /\ TurnsOf(Append(s, Torn)) = TurnsOf(s)
<1>1. Append(s, e) \in Seq(Turn)
  OBVIOUS
<1>2. ASSUME NEW x \in Turn
      PROVE  Range(Append(s, x)) = Range(s) \union {x}
  <2>1. Range(Append(s, x)) \subseteq Range(s) \union {x}
    BY DEF Range
  <2>2. \A i \in 1 .. Len(s) : Append(s, x)[i] = s[i]
    OBVIOUS
  <2>3. Append(s, x)[Len(s) + 1] = x /\ DOMAIN Append(s, x) = 1 .. Len(s) + 1
    OBVIOUS
  <2>4. Range(s) \union {x} \subseteq Range(Append(s, x))
    BY <2>2, <2>3 DEF Range
  <2> QED
    BY <2>1, <2>4
<1>3. Torn \in Turn
  BY DEF Torn, Turn
<1> QED
  BY <1>1, <1>2, <1>3 DEF TurnsOf

-----------------------------------------------------------------------------
(* Files.                                                                  *)

\* What may be written to a file.
Fits(f, v) ==
  v # Absent =>
    /\ f = "transcript" => v \in Seq(Turn)
    /\ f = "marker" => v \in Nat
    /\ f = "inbox" => v \subseteq 1 .. MaxUpdates
    /\ f = "session" => v \in Anchor

LEMMA FileFits ==
  ASSUME NEW files, FilesOK(files), NEW f \in Files
  PROVE  Fits(f, files[f])
BY DEF FilesOK, Fits, Files

LEMMA FilesSame ==
  ASSUME NEW a, NEW b, FilesOK(a), FilesOK(b), \A f \in Files : a[f] = b[f]
  PROVE  a = b
BY DEF FilesOK

LEMMA NoFilesOK == FilesOK(NoFiles) /\ \A f \in Files : NoFiles[f] = Absent
BY DEF FilesOK, NoFiles, Files

LEMMA FourFiles ==
  /\ Files = {"transcript", "marker", "inbox", "session"}
  /\ \A f \in Files : \E i \in 1 .. Len(Order) : Order[i] = f
BY OrderIs DEF Files

-----------------------------------------------------------------------------
(* What a step that leaves its subject alone keeps.                        *)

LEMMA AnchorIs ==
  ASSUME NEW a \in Anchor
  PROVE  /\ a.sid \in Nat
         /\ a.proof = Absent \/ a.proof \in Seq(Turn)
BY DEF Anchor

LEMMA BackupsSame ==
  ASSUME TypeOK, BackupsInv, UNCHANGED backup,
         sessions' \in Nat, sessions <= sessions'
  PROVE  BackupsInv'
<1>1. Published' = Published
  BY DEF Published
<1>2. ASSUME NEW b \in Published, backup[b].file["session"] # Absent
      PROVE  backup[b].file["session"].sid <= sessions'
  <2>1. backup[b].file["session"] \in Anchor
    BY <1>2 DEF TypeOK, FilesOK
  <2>2. backup[b].file["session"].sid <= sessions
    BY <1>2 DEF BackupsInv, Whole
  <2> QED
    BY <2>1, <2>2, AnchorIs DEF TypeOK
<1> QED
  BY <1>1, <1>2 DEF BackupsInv, Whole

\* The numbers.
LEMMA Counts ==
  ASSUME IInv
  PROVE  /\ TypeOK /\ BackupsInv /\ FilesOK(file)
         /\ sessions \in Nat /\ stamps \in Nat /\ updates \in Nat
<1>1. TypeOK /\ BackupsInv
  BY DEF IInv
<1>2. FilesOK(file) /\ sessions \in Nat /\ stamps \in Nat /\ updates \in Nat
  BY <1>1, BackupAssumption DEF TypeOK
<1> QED
  BY <1>1, <1>2

LEMMA FilesKeepWhole ==
  ASSUME TypeOK, Whole(file), UNCHANGED <<file, sessions>>
  PROVE  Whole(file)'
BY DEF Whole

LEMMA LinkSame ==
  ASSUME LinkedInv, UNCHANGED <<file, receipt, backup>>
  PROVE  LinkedInv'
BY DEF LinkedInv, Exists, IsRestored, SessionOf, Holds

LEMMA RestoredSame ==
  ASSUME RestoredInv, UNCHANGED <<file, receipt, backup>>, health => health'
  PROVE  RestoredInv'
BY DEF RestoredInv, Exists

LEMMA RootSame ==
  ASSUME IInv, UNCHANGED <<file, receipt, backup, sessions>>, health => health'
  PROVE  Whole(file)' /\ BackupsInv' /\ RestoredInv' /\ LinkedInv'
<1>1. TypeOK /\ Whole(file) /\ BackupsInv /\ RestoredInv /\ LinkedInv
  BY DEF IInv
<1>2. sessions' \in Nat /\ sessions <= sessions'
  BY Counts
<1> QED
  BY <1>1, <1>2, BackupsSame, FilesKeepWhole, LinkSame, RestoredSame

LEMMA NoJobInv ==
  ASSUME job' = NoJob
  PROVE  JobInv'
BY DEF JobInv, NoJob

\* A marker that was not there: no anchor is either.
LEMMA NoAnchorYet ==
  ASSUME IInv, ~Exists("marker")
  PROVE  ~Exists("session")
BY DEF IInv, Whole, Exists

\* The steps that write one file.
LEMMA WritesOne ==
  ASSUME TypeOK, NEW f \in Files, NEW v, Fits(f, v),
         file' = [file EXCEPT ![f] = v]
  PROVE  /\ FilesOK(file') /\ file'[f] = v
         /\ \A g \in Files \ {f} : file'[g] = file[g]
<1>1. FilesOK(file)
  BY DEF TypeOK
<1>2. file = [g \in Files |-> file[g]]
  BY <1>1 DEF FilesOK
<1>3. file' = [g \in Files |-> IF g = f THEN v ELSE file[g]]
  BY <1>2
<1>4. file'[f] = v /\ \A g \in Files \ {f} : file'[g] = file[g]
  BY <1>3
<1>5. file' = [g \in Files |-> file'[g]]
  BY <1>3, <1>4
<1>6. \A g \in Files : Fits(g, file'[g])
  BY <1>1, <1>4, FileFits
<1>7. FilesOK(file')
  BY <1>5, <1>6 DEF FilesOK, Fits, Files
<1> QED
  BY <1>4, <1>7

-----------------------------------------------------------------------------
(* The steps.                                                              *)

THEOREM InitIInv == Init => IInv
<1> SUFFICES ASSUME Init PROVE IInv
  OBVIOUS
<1>1. FilesOK(file) /\ \A f \in Files : file[f] = Absent
  BY NoFilesOK DEF Init
<1>2. Published = {}
  BY DEF Init, Published
<1>3. backup = [b \in Backup |-> backup[b]] /\ job = NoJob /\ receipt = Absent
  BY DEF Init
<1>4. TypeOK
  <2>1. updates \in 0 .. MaxUpdates /\ sessions \in Nat /\ stamps \in Nat
    BY BackupAssumption DEF Init
  <2>2. troubles \in Nat /\ losses \in Nat
    BY DEF Init
  <2>3. /\ dirs \in BOOLEAN /\ health \in BOOLEAN /\ litter \in BOOLEAN
        /\ work \in {"none", "torn", "whole"}
        /\ proc \in {"off", "booted", "loaded", "on", "answered"}
    BY DEF Init
  <2> QED
    BY <1>1, <1>2, <1>3, <2>1, <2>2, <2>3 DEF TypeOK
<1>5. Whole(file) /\ BackupsInv /\ RestoredInv /\ LinkedInv
  BY <1>1, <1>2, FourFiles DEF Whole, BackupsInv, RestoredInv, LinkedInv, Exists
<1>6. RuntimeInv /\ JobInv
  BY DEF Init, RuntimeInv, JobInv, NoJob, Serving
<1> QED
  BY <1>4, <1>5, <1>6 DEF IInv

LEMMA MarkerKeeps ==
  ASSUME IInv, Quiet, ~Exists("marker"), WriteMarker, job' = job,
         proc' \in {"off", "booted"},
         UNCHANGED <<others, backup, updates, sessions, bounds>>
  PROVE  IInv'
<1>1. TypeOK /\ stamps + 1 \in Nat
  BY Counts
<1>2. Fits("marker", stamps + 1)
  BY <1>1 DEF Fits
<1>3. /\ FilesOK(file') /\ file'["marker"] = stamps + 1
      /\ \A g \in Files \ {"marker"} : file'[g] = file[g]
  BY <1>1, <1>2, WritesOne, FourFiles DEF WriteMarker
<1>4. ~Exists("session") /\ ~Exists("session")'
  BY <1>3, NoAnchorYet, FourFiles DEF Exists
<1>5. TypeOK'
  BY <1>1, <1>3 DEF TypeOK, WriteMarker, others, bounds, Published, Quiet
<1>6. Whole(file)' /\ RestoredInv' /\ LinkedInv'
  BY <1>4 DEF Whole, RestoredInv, LinkedInv, Exists
<1>7. BackupsInv'
  BY Counts, BackupsSame
<1>8. Exists("marker")'
  BY <1>1, <1>3, BackupAssumption DEF Exists
<1>9. RuntimeInv' /\ JobInv'
  BY <1>8, NoJobInv DEF RuntimeInv, Quiet, Serving
<1> QED
  BY <1>5, <1>6, <1>7, <1>9 DEF IInv

LEMMA MigrateKeeps ==
  ASSUME IInv, Migrate
  PROVE  IInv'
<1>1. Quiet /\ ~Exists("marker")
  BY DEF Migrate, SchemaStatus
<1> QED
  BY <1>1, MarkerKeeps DEF Migrate, Quiet

LEMMA BootsKeeps ==
  ASSUME IInv, Boots
  PROVE  IInv'
<1>1. CASE Exists("marker") /\ UNCHANGED <<file, stamps>>
  <2>1. TypeOK'
    BY <1>1, Counts DEF Boots, TypeOK, others, bounds, Published
  <2>2. Whole(file)' /\ BackupsInv' /\ RestoredInv' /\ LinkedInv'
    BY <1>1, RootSame DEF Boots, others
  <2>3. RuntimeInv' /\ JobInv'
    BY <1>1, NoJobInv DEF Boots, RuntimeInv, Quiet, Serving, Exists
  <2> QED
    BY <2>1, <2>2, <2>3 DEF IInv
<1>2. CASE ~Exists("marker") /\ WriteMarker
  BY <1>2, MarkerKeeps DEF Boots, Quiet
<1> QED
  BY <1>1, <1>2 DEF Boots, SchemaStatus

LEMMA LoadsKeeps ==
  ASSUME IInv, Loads
  PROVE  IInv'
<1>1. TypeOK /\ RuntimeInv /\ job = NoJob /\ Exists("marker")
  BY DEF IInv, Loads, RuntimeInv
<1>2. JobInv'
  BY <1>1, NoJobInv DEF Loads
<1>3. CASE Exists("transcript") /\ file' = file
  <2>1. TypeOK'
    BY <1>1, <1>3 DEF Loads, TypeOK, counts, bounds, Published
  <2>2. Whole(file)' /\ BackupsInv' /\ RestoredInv' /\ LinkedInv'
    BY <1>3, RootSame DEF Loads, counts
  <2>3. RuntimeInv'
    BY <1>1, <1>3 DEF Loads, RuntimeInv, Serving, Exists
  <2> QED
    BY <1>2, <2>1, <2>2, <2>3 DEF IInv
<1>4. CASE ~Exists("transcript")
  <2>1. Fits("transcript", <<>>) /\ <<>> # Absent
    <3>1. <<>> \in Seq(Turn)
      OBVIOUS
    <3> QED
      BY <3>1, BackupAssumption DEF Fits
  <2>2. /\ FilesOK(file') /\ file'["transcript"] = <<>>
        /\ \A g \in Files \ {"transcript"} : file'[g] = file[g]
    BY <1>1, <1>4, <2>1, WritesOne, FourFiles DEF Loads
  <2>3. ~Exists("session") /\ ~Exists("session")'
    BY <1>4, <2>2, FourFiles DEF IInv, Whole, Exists
  <2>4. TypeOK'
    BY <1>1, <2>2 DEF Loads, TypeOK, counts, bounds, Published
  <2>5. Whole(file)' /\ RestoredInv' /\ LinkedInv'
    BY <2>3 DEF Whole, RestoredInv, LinkedInv, Exists
  <2>6. BackupsInv'
    <3>1. backup' = backup /\ sessions' = sessions
      BY DEF Loads, counts
    <3> QED
      BY <3>1, Counts, BackupsSame
  <2>7. RuntimeInv'
    BY <1>1, <2>1, <2>2, FourFiles DEF Loads, RuntimeInv, Serving, Exists
  <2> QED
    BY <1>2, <2>4, <2>5, <2>6, <2>7 DEF IInv
<1> QED
  BY <1>3, <1>4 DEF Loads

LEMMA CreatesKeeps ==
  ASSUME IInv, Opens, Creates
  PROVE  IInv'
<1>1. /\ TypeOK /\ RuntimeInv /\ job = NoJob /\ health
      /\ Exists("marker") /\ Exists("transcript")
  BY DEF IInv, Opens, RuntimeInv
<1> DEFINE a == [sid |-> sessions + 1, proof |-> Absent]
<1>2. a \in Anchor /\ Fits("session", a) /\ a # Absent
  BY Counts, BackupAssumption DEF Anchor, Fits
<1>3. /\ FilesOK(file') /\ file'["session"] = a
      /\ \A g \in Files \ {"session"} : file'[g] = file[g]
  BY <1>1, <1>2, WritesOne, FourFiles DEF Creates
<1>4. sessions' \in Nat /\ sessions' = sessions + 1 /\ sessions <= sessions'
  BY Counts DEF Creates
<1>5. TypeOK'
  BY <1>1, <1>3, <1>4 DEF Opens, Creates, TypeOK, others, bounds, Published
<1>6. Whole(file)'
  BY <1>1, <1>3, <1>4, FourFiles DEF Whole, Creates, HasAuthority, Exists
<1>7. BackupsInv'
  BY <1>4, Counts, BackupsSame DEF Opens
<1>8. RuntimeInv' /\ JobInv' /\ RestoredInv'
  BY <1>1, <1>2, <1>3, NoJobInv, FourFiles
     DEF Opens, Creates, others, RuntimeInv, RestoredInv, Serving, Exists
<1>9. ~IsRestored'
  <2> SUFFICES ASSUME receipt # Absent, SessionOf(receipt.of) # Absent
               PROVE  SessionOf(receipt.of).sid # sessions + 1
    BY <1>3 DEF IsRestored, SessionOf, Opens, others
  <2>1. receipt.of \in Published
    BY <1>1 DEF TypeOK
  <2>2. /\ SessionOf(receipt.of) \in Anchor
        /\ SessionOf(receipt.of).sid <= sessions
    BY <1>1, <2>1 DEF IInv, BackupsInv, Whole, SessionOf, TypeOK, FilesOK
  <2> QED
    BY <2>2, AnchorIs, Counts
<1> QED
  BY <1>5, <1>6, <1>7, <1>8, <1>9 DEF IInv, LinkedInv

LEMMA OpensKeeps ==
  ASSUME IInv, Opens
  PROVE  IInv'
<1>1. CASE Resumes \/ Refuses
  <2>1. UNCHANGED <<root, sessions>> /\ (proc' = "off" \/ Exists("session"))
    BY <1>1 DEF Opens, Resumes, Refuses, root
  <2>2. /\ TypeOK /\ RuntimeInv /\ job = NoJob /\ health
        /\ Exists("marker") /\ Exists("transcript")
    BY DEF IInv, Opens, RuntimeInv
  <2>3. TypeOK'
    BY <1>1, <2>1, <2>2
       DEF Opens, Resumes, Refuses, TypeOK, root, others, bounds, Published
  <2>4. Whole(file)' /\ BackupsInv' /\ RestoredInv' /\ LinkedInv'
    BY <2>1, RootSame DEF Opens, root, others
  <2>5. RuntimeInv' /\ JobInv'
    BY <1>1, <2>1, <2>2, NoJobInv
       DEF Opens, Resumes, Refuses, RuntimeInv, Serving, Exists, root, others
  <2> QED
    BY <2>3, <2>4, <2>5 DEF IInv
<1> QED
  BY <1>1, CreatesKeeps DEF Opens

LEMMA ReceivesKeeps ==
  ASSUME IInv, Receives
  PROVE  IInv'
<1>1. /\ TypeOK /\ RuntimeInv /\ job = NoJob /\ health
      /\ Exists("marker") /\ Exists("transcript") /\ Exists("session")
  BY DEF IInv, Receives, RuntimeInv, Serving
<1> DEFINE old == IF Exists("inbox") THEN file["inbox"] ELSE {}
           new == old \union {updates + 1}
<1>2. old \subseteq 1 .. MaxUpdates
  BY <1>1, FileFits, Counts, FourFiles DEF Fits, Exists
<1>3. new \subseteq 1 .. MaxUpdates
  BY <1>2, Counts, BackupAssumption DEF Receives
<1>4. Fits("inbox", new) /\ new # Absent
  BY <1>3, BackupAssumption DEF Fits
<1>5. file' = [file EXCEPT !["inbox"] = new]
  BY DEF Receives
<1> HIDE DEF new
<1>6. /\ FilesOK(file') /\ file'["inbox"] = new
      /\ \A g \in Files \ {"inbox"} : file'[g] = file[g]
  BY <1>1, <1>4, <1>5, WritesOne, FourFiles
<1>7. /\ file'["session"] = file["session"] /\ file'["marker"] = file["marker"]
      /\ file'["transcript"] = file["transcript"]
  BY <1>6, FourFiles
<1>8. updates' \in 0 .. MaxUpdates /\ sessions' = sessions /\ backup' = backup
  BY Counts, BackupAssumption DEF Receives
<1>9. TypeOK'
  BY <1>1, <1>6, <1>8 DEF Receives, TypeOK, others, bounds, Published
<1>10. Whole(file)'
  BY <1>1, <1>4, <1>6, <1>7, <1>8 DEF IInv, Whole, new, Exists
<1>11. BackupsInv'
  BY <1>8, Counts, BackupsSame
<1>12. RuntimeInv' /\ JobInv' /\ RestoredInv'
  BY <1>1, <1>7, NoJobInv
     DEF Receives, others, RuntimeInv, RestoredInv, Serving, Exists
<1>13. LinkedInv'
  BY <1>4, <1>6, <1>7
     DEF IInv, LinkedInv, IsRestored, SessionOf, Holds, Exists, new,
         Receives, others
<1> QED
  BY <1>9, <1>10, <1>11, <1>12, <1>13 DEF IInv

\* A line is appended to the transcript: a turn, or what a crash leaves.
LEMMA AppendKeeps ==
  ASSUME IInv, proc = "on", NEW e \in Turn,
         e = Torn \/ ( /\ e.by = file["session"].sid
                      /\ Exists("inbox") /\ e.of \in file["inbox"]),
         file' = [file EXCEPT !["transcript"] = Append(@, e)],
         UNCHANGED <<others, backup, sessions>>
  PROVE  /\ FilesOK(file') /\ Exists("transcript")'
         /\ UNCHANGED <<file["session"], file["marker"], file["inbox"]>>
         /\ Whole(file)' /\ BackupsInv' /\ RestoredInv' /\ LinkedInv'
<1>1. /\ TypeOK /\ RuntimeInv /\ health
      /\ Exists("marker") /\ Exists("transcript") /\ Exists("session")
  BY DEF IInv, RuntimeInv, Serving
<1> DEFINE old == file["transcript"]
           new == Append(old, e)
<1>2. old \in Seq(Turn)
  BY <1>1, FileFits, Counts, FourFiles DEF Fits, Exists
<1>3. /\ new \in Seq(Turn)
      /\ TurnsOf(new) \subseteq TurnsOf(old) \union {e}
      /\ e = Torn => TurnsOf(new) = TurnsOf(old)
  BY <1>2, TurnsGrow
<1>4. Fits("transcript", new) /\ new # Absent
  BY <1>3, BackupAssumption DEF Fits
<1>5. file' = [file EXCEPT !["transcript"] = new]
  OBVIOUS
<1> HIDE DEF new
<1>6. /\ FilesOK(file') /\ file'["transcript"] = new
      /\ \A g \in Files \ {"transcript"} : file'[g] = file[g]
  BY <1>1, <1>4, <1>5, WritesOne, FourFiles
<1>7. /\ file'["session"] = file["session"] /\ file'["marker"] = file["marker"]
      /\ file'["inbox"] = file["inbox"]
  BY <1>6, FourFiles
<1>8. Whole(file)'
  BY <1>1, <1>3, <1>4, <1>6, <1>7 DEF IInv, Whole, Exists
<1>9. BackupsInv'
  BY Counts, BackupsSame
<1>10. RestoredInv'
  BY <1>1 DEF others, RestoredInv
<1>11. ASSUME NEW s \in Seq(Turn), IsPrefix(s, old)
       PROVE  IsPrefix(s, new)
  BY <1>2, <1>11, PrefixGrows DEF new
<1>12. LinkedInv'
  <2> SUFFICES ASSUME IsRestored' PROVE Holds(receipt.of)'
    BY DEF LinkedInv
  <2>1. IsRestored /\ Holds(receipt.of)
    BY <1>1, <1>7 DEF IInv, LinkedInv, IsRestored, SessionOf, others
  <2>2. receipt.of \in Published
    BY <1>1, <2>1 DEF TypeOK, IsRestored
  <2> DEFINE kept == backup[receipt.of].file
  <2>3. kept["transcript"] # Absent => kept["transcript"] \in Seq(Turn)
    BY <1>1, <2>2 DEF TypeOK, FilesOK
  <2>4. kept["transcript"] # Absent => IsPrefix(kept["transcript"], new)
    BY <1>11, <2>1, <2>3 DEF Holds
  <2> QED
    BY <1>6, <1>7, <2>1, <2>4 DEF Holds, others, Exists
<1> QED
  BY <1>4, <1>6, <1>7, <1>8, <1>9, <1>10, <1>12 DEF Exists

LEMMA AnswersKeeps ==
  ASSUME IInv, Answers
  PROVE  IInv'
<1>1. /\ TypeOK /\ RuntimeInv /\ job = NoJob /\ health /\ FilesOK(file)
      /\ Exists("marker") /\ Exists("transcript") /\ Exists("session")
  BY Counts DEF IInv, Answers, RuntimeInv, Serving
<1>2. PICK u \in Open :
        file' = [file EXCEPT !["transcript"] =
                   Append(@, [of |-> u, by |-> file["session"].sid])]
  BY DEF Answers
<1> DEFINE e == [of |-> u, by |-> file["session"].sid]
<1>3. Exists("inbox") /\ u \in file["inbox"]
  BY DEF Open
<1>4. u \in Nat
  BY <1>1, <1>3, FileFits, FourFiles, BackupAssumption DEF Fits, Exists
<1>5. file["session"] \in Anchor
  BY <1>1, FileFits, FourFiles DEF Fits, Exists
<1>6. e \in Turn /\ e.of = u /\ e.by = file["session"].sid
  BY <1>4, <1>5, AnchorIs DEF Turn
<1> HIDE DEF e
<1>7. file' = [file EXCEPT !["transcript"] = Append(@, e)]
  BY <1>2 DEF e
<1>8. proc = "on" /\ UNCHANGED <<others, backup, sessions>>
  BY DEF Answers
<1>9. /\ FilesOK(file') /\ Exists("transcript")'
      /\ UNCHANGED <<file["session"], file["marker"], file["inbox"]>>
      /\ Whole(file)' /\ BackupsInv' /\ RestoredInv' /\ LinkedInv'
  BY <1>3, <1>6, <1>7, <1>8, AppendKeeps
<1>10. TypeOK'
  BY <1>1, <1>9 DEF Answers, TypeOK, others, bounds, Published
<1>11. RuntimeInv' /\ JobInv'
  BY <1>1, <1>9, NoJobInv DEF Answers, others, RuntimeInv, Serving, Exists
<1> QED
  BY <1>9, <1>10, <1>11 DEF IInv

LEMMA CheckpointsKeeps ==
  ASSUME IInv, Checkpoints
  PROVE  IInv'
<1>1. /\ TypeOK /\ RuntimeInv /\ job = NoJob /\ health /\ FilesOK(file)
      /\ Exists("marker") /\ Exists("transcript") /\ Exists("session")
  BY Counts DEF IInv, Checkpoints, RuntimeInv, Serving
<1> DEFINE old == file["session"]
           new == [old EXCEPT !.proof = file["transcript"]]
<1>2. old \in Anchor /\ file["transcript"] \in Seq(Turn)
  BY <1>1, FileFits, FourFiles DEF Fits, Exists
<1>3. new \in Anchor /\ new.sid = old.sid
  BY <1>2 DEF Anchor
<1>4. Fits("session", new) /\ new # Absent
  BY <1>3, BackupAssumption DEF Fits
<1>5. file' = [file EXCEPT !["session"] = new]
  BY DEF Checkpoints
<1> HIDE DEF new
<1>6. /\ FilesOK(file') /\ file'["session"] = new
      /\ \A g \in Files \ {"session"} : file'[g] = file[g]
  BY <1>1, <1>4, <1>5, WritesOne, FourFiles
<1>7. /\ file'["transcript"] = file["transcript"]
      /\ file'["marker"] = file["marker"] /\ file'["inbox"] = file["inbox"]
      /\ file'["session"].sid = file["session"].sid
  BY <1>3, <1>6, FourFiles
<1>8. sessions' = sessions /\ backup' = backup /\ receipt' = receipt
  BY DEF Checkpoints, counts, others
<1>9. TypeOK'
  BY <1>1, <1>6 DEF Checkpoints, TypeOK, counts, others, bounds, Published
<1>10. Whole(file)'
  BY <1>1, <1>7, <1>8 DEF IInv, Whole, Exists
<1>11. BackupsInv'
  BY <1>8, Counts, BackupsSame
<1>12. RuntimeInv' /\ JobInv' /\ RestoredInv'
  BY <1>1, <1>4, <1>6, <1>7, NoJobInv
     DEF Checkpoints, others, RuntimeInv, RestoredInv, Serving, Exists
<1>13. LinkedInv'
  BY <1>1, <1>7, <1>8 DEF IInv, LinkedInv, IsRestored, SessionOf, Holds, Exists
<1> QED
  BY <1>9, <1>10, <1>11, <1>12, <1>13 DEF IInv

LEMMA StopsKeeps ==
  ASSUME IInv, Stops
  PROVE  IInv'
<1>1. TypeOK /\ RuntimeInv /\ job = NoJob
  BY DEF IInv, Stops, RuntimeInv
<1>2. TypeOK'
  BY <1>1 DEF Stops, TypeOK, root, counts, others, bounds, Published
<1>3. Whole(file)' /\ BackupsInv' /\ RestoredInv' /\ LinkedInv'
  BY RootSame DEF Stops, root, counts, others
<1>4. RuntimeInv' /\ JobInv'
  BY <1>1, NoJobInv DEF Stops, RuntimeInv, Serving
<1> QED
  BY <1>2, <1>3, <1>4 DEF IInv

LEMMA CreateBackupKeeps ==
  ASSUME IInv, CreateBackup
  PROVE  IInv'
<1>1. TypeOK /\ job = NoJob /\ proc = "off" /\ FilesOK(file)
  BY Counts DEF IInv, CreateBackup, Quiet
<1>2. /\ file' = file /\ receipt' = receipt /\ health' = health
      /\ dirs' = dirs /\ litter' = litter /\ work' = work
      /\ job' = job /\ proc' = proc /\ sessions' = sessions
      /\ updates' = updates /\ stamps' = stamps
      /\ troubles' = troubles /\ losses' = losses
  BY DEF CreateBackup, root, others, counts, bounds
<1> DEFINE now == [file |-> file, dirs |-> dirs]
<1>3. PICK b \in Backup \ Published : backup' = [backup EXCEPT ![b] = now]
  BY DEF CreateBackup
<1>4. backup = [c \in Backup |-> backup[c]]
  BY <1>1 DEF TypeOK
<1> HIDE DEF now
<1>5. /\ backup' = [c \in Backup |-> backup'[c]]
      /\ backup'[b] = now
      /\ \A c \in Backup \ {b} : backup'[c] = backup[c]
  BY <1>3, <1>4
<1>6. /\ Published \subseteq Published'
      /\ Published' \subseteq Published \union {b}
  BY <1>3, <1>5 DEF Published
<1>7. \A c \in Published : backup'[c] = backup[c]
  BY <1>3, <1>5 DEF Published
<1>8. now.file = file /\ now.dirs = dirs
  BY DEF now
<1>9. \A c \in Published' :
        FilesOK(backup'[c].file) /\ backup'[c].dirs \in BOOLEAN
  BY <1>1, <1>5, <1>6, <1>7, <1>8 DEF TypeOK
<1>10. TypeOK'
  BY <1>1, <1>2, <1>5, <1>6, <1>9 DEF TypeOK
<1>11. Whole(file)'
  BY <1>2, FilesKeepWhole DEF IInv
<1>12. BackupsInv'
  <2> SUFFICES ASSUME NEW c \in Published'
               PROVE  /\ backup'[c].file["marker"] # Absent
                      /\ Whole(backup[c].file)'
    BY DEF BackupsInv
  <2>1. CASE c \in Published
    BY <1>2, <1>7, <2>1 DEF IInv, BackupsInv, Whole
  <2>2. CASE c = b
    BY <1>2, <1>5, <1>8, <2>2 DEF IInv, Whole, CreateBackup, Verified
  <2> QED
    BY <1>6, <2>1, <2>2
<1>13. RuntimeInv' /\ JobInv'
  BY <1>1, <1>2, NoJobInv DEF RuntimeInv, Serving
<1>14. receipt # Absent => backup'[receipt.of] = backup[receipt.of]
  BY <1>1, <1>7 DEF TypeOK
<1>15. RestoredInv'
  BY <1>2, <1>14 DEF IInv, RestoredInv, Exists
<1>16. LinkedInv'
  BY <1>2, <1>14 DEF IInv, LinkedInv, Exists, IsRestored, SessionOf, Holds
<1> QED
  BY <1>10, <1>11, <1>12, <1>13, <1>15, <1>16 DEF IInv

LEMMA RestoreBeginsKeeps ==
  ASSUME IInv, RestoreBegins
  PROVE  IInv'
<1>1. TypeOK /\ RuntimeInv /\ proc = "off" /\ FilesOK(file)
  BY Counts DEF IInv, RestoreBegins, Quiet
<1>2. PICK b \in Published :
        \/ TargetIsEmpty /\ job' = [step |-> "prepare", of |-> b, at |-> 1]
        \/ TargetResumes(b) /\ job' = [step |-> "dirs", of |-> b, at |-> 1]
  BY DEF RestoreBegins
<1>3. /\ file' = file /\ receipt' = receipt /\ backup' = backup
      /\ sessions' = sessions /\ health' = health /\ proc' = proc
      /\ dirs' = dirs /\ litter' = litter /\ work' = work
      /\ updates' = updates /\ stamps' = stamps
      /\ troubles' = troubles /\ losses' = losses
  BY DEF RestoreBegins, root, others, counts, bounds
<1>4. job' \in [step : Steps, of : Published, at : 1 .. Len(Order) + 1]
  BY <1>2, OrderIs DEF Steps
<1>5. TypeOK'
  BY <1>1, <1>3, <1>4 DEF TypeOK, Published
<1>6. Whole(file)' /\ BackupsInv' /\ RestoredInv' /\ LinkedInv'
  BY <1>3, RootSame
<1>7. RuntimeInv'
  BY <1>1, <1>3 DEF RuntimeInv, Serving
<1>8. JobInv'
  <2>1. CASE TargetIsEmpty /\ job' = [step |-> "prepare", of |-> b, at |-> 1]
    <3>1. \A f \in Files : file[f] = Absent
      BY <2>1 DEF TargetIsEmpty, HasEntries, Exists
    <3>2. file = NoFiles
      BY <1>1, <3>1, NoFilesOK, FilesSame
    <3> QED
      BY <1>3, <2>1, <3>1, <3>2 DEF JobInv, TargetIsEmpty, Exists
  <2>2. CASE TargetResumes(b) /\ job' = [step |-> "dirs", of |-> b, at |-> 1]
    BY <1>3, <2>2 DEF JobInv, TargetResumes, Source, Exists
  <2> QED
    BY <1>2, <2>1, <2>2
<1> QED
  BY <1>5, <1>6, <1>7, <1>8 DEF IInv

-----------------------------------------------------------------------------
(* The steps of a restore.                                                 *)

\* While nobody has started from it, a root with an anchor is the backup.
LEMMA RestoredHolds ==
  ASSUME TypeOK, RestoredInv, ~health
  PROVE  LinkedInv
<1> SUFFICES ASSUME Exists("session") PROVE Holds(receipt.of)
  BY DEF LinkedInv
<1>1. receipt # Absent /\ file = backup[receipt.of].file /\ FilesOK(file)
  BY DEF RestoredInv, TypeOK
<1>2. file["transcript"] # Absent =>
        IsPrefix(file["transcript"], file["transcript"])
  <2>1. file["transcript"] # Absent => file["transcript"] \in Seq(Turn)
    BY <1>1, FileFits, FourFiles DEF Fits
  <2> QED
    BY <2>1, PrefixOfItself
<1> QED
  BY <1>1, <1>2 DEF Holds, Exists

\* What a restore works with.
LEMMA AtWork ==
  ASSUME IInv, job # NoJob
  PROVE  /\ TypeOK /\ JobInv /\ FilesOK(file) /\ ~health /\ proc = "off"
         /\ job \in [step : Steps, of : Published, at : 1 .. 5]
         /\ FilesOK(Source.file) /\ Source.file["marker"] # Absent
         /\ Whole(Source.file)
<1>1. TypeOK /\ JobInv /\ FilesOK(file) /\ ~health /\ proc = "off"
  BY Counts DEF IInv, JobInv, RuntimeInv, TypeOK
<1>2. job \in [step : Steps, of : Published, at : 1 .. 5]
  BY <1>1, OrderIs DEF TypeOK
<1>3. /\ FilesOK(Source.file) /\ Source.file["marker"] # Absent
      /\ Whole(Source.file)
  BY <1>1, <1>2 DEF Source, IInv, BackupsInv, TypeOK
<1> QED
  BY <1>1, <1>2, <1>3

\* The rest of the invariant after a step that leaves the files alone.
LEMMA StepKeeps ==
  ASSUME IInv, job # NoJob, TypeOK', JobInv',
         file' = file, health' = health, backup' = backup, proc' = proc,
         sessions' = sessions,
         \/ receipt' = receipt
         \/ receipt'.of = job.of /\ receipt' # Absent
  PROVE  IInv'
<1>1. TypeOK /\ JobInv /\ ~health /\ proc = "off"
  BY AtWork
<1>2. RestoredInv'
  <2> SUFFICES ASSUME Exists("session")
               PROVE  receipt' # Absent /\ file = backup[receipt'.of].file
    BY DEF RestoredInv, Exists
  <2>1. receipt # Absent /\ file = backup[receipt.of].file
    BY <1>1 DEF IInv, RestoredInv
  <2>2. file # NoFiles
    BY NoFilesOK, FourFiles DEF Exists
  <2>3. receipt.of = job.of
    BY <1>1, <2>2 DEF JobInv
  <2> QED
    BY <2>1, <2>3
<1>3. LinkedInv'
  <2>1. ~health'
    BY <1>1
  <2> QED
    BY <1>2, <2>1, RestoredHolds, PTL
<1>4. Whole(file)' /\ BackupsInv'
  BY <1>1, Counts, FilesKeepWhole, BackupsSame DEF IInv
<1>5. RuntimeInv'
  BY <1>1 DEF RuntimeInv, Serving
<1> QED
  BY <1>2, <1>3, <1>4, <1>5 DEF IInv

\* The steps that write the receipt.
LEMMA ReceiptKeeps ==
  ASSUME IInv, UNCHANGED <<backup, proc, counts, bounds>>,
         Prepares \/ Finishes
  PROVE  IInv'
<1>1. /\ updates' = updates /\ sessions' = sessions /\ stamps' = stamps
      /\ troubles' = troubles /\ losses' = losses
      /\ backup' = backup /\ proc' = proc
  BY DEF counts, bounds
<1>2. ASSUME NEW from \in Steps, NEW to \in Steps, ReceiptBegins(from, to),
             <<from, to>> \in
               {<<"prepare", "preparing">>, <<"file", "finishing">>},
             to = "finishing" => job.at > Len(Order)
      PROVE  IInv'
  <2>1. job.step = from /\ job # NoJob
    BY <1>2 DEF ReceiptBegins, JobIs, NoJob
  <2>2. /\ TypeOK /\ JobInv /\ ~health
        /\ job \in [step : Steps, of : Published, at : 1 .. 5]
    BY <2>1, AtWork
  <2>3. /\ job' \in [step : Steps, of : Published, at : 1 .. Len(Order) + 1]
        /\ job'.step = to /\ job'.of = job.of /\ job'.at = job.at
        /\ job' # NoJob
    BY <1>2, <2>2, OrderIs DEF ReceiptBegins, GoesTo, NoJob, Steps
  <2>4. /\ litter' = TRUE /\ file' = file /\ dirs' = dirs
        /\ health' = health /\ work' = work /\ receipt' = receipt
    BY <1>2 DEF ReceiptBegins
  <2>5. TypeOK'
    BY <1>1, <2>2, <2>3, <2>4 DEF TypeOK, Published
  <2>6. JobInv'
    BY <1>2, <2>1, <2>2, <2>3, <2>4 DEF JobInv, Source, Exists
  <2> QED
    BY <1>1, <2>1, <2>4, <2>5, <2>6, StepKeeps
<1>3. ASSUME NEW state \in {"prepared", "completed"}, ReceiptEnds(state),
             \/ JobIs("preparing") /\ GoesTo("dirs")
             \/ JobIs("finishing") /\ job' = NoJob
      PROVE  IInv'
  <2>1. job # NoJob
    BY <1>3 DEF JobIs, NoJob
  <2>2. /\ TypeOK /\ JobInv /\ ~health
        /\ job \in [step : Steps, of : Published, at : 1 .. 5]
    BY <2>1, AtWork
  <2>3. /\ litter' = FALSE /\ receipt' = [state |-> state, of |-> job.of]
        /\ file' = file /\ dirs' = dirs /\ health' = health /\ work' = work
    BY <1>3 DEF ReceiptEnds
  <2>4. /\ receipt' \in Receipt /\ receipt' # Absent
        /\ receipt'.of = job.of /\ receipt'.of \in Published
    BY <2>2, <2>3, BackupAssumption DEF Receipt, Published
  <2>5. /\ job' # NoJob =>
             job' \in [step : Steps, of : Published, at : 1 .. Len(Order) + 1]
        /\ job' # NoJob => job'.step = "dirs" /\ job'.of = job.of
        /\ job' # NoJob => job'.at = 1
    <3>1. CASE job' = NoJob
      BY <3>1
    <3>2. CASE JobIs("preparing") /\ GoesTo("dirs")
      <4>1. job.at = 1 /\ job' = [job EXCEPT !.step = "dirs"]
        BY <2>1, <2>2, <3>2 DEF JobInv, JobIs, GoesTo
      <4>2. job' = [step |-> "dirs", of |-> job.of, at |-> 1]
        BY <2>2, <4>1
      <4> QED
        BY <2>2, <4>2, OrderIs DEF Steps
    <3> QED
      BY <1>3, <3>1, <3>2
  <2>6. TypeOK'
    BY <1>1, <2>2, <2>3, <2>4, <2>5 DEF TypeOK, Published
  <2>7. JobInv'
    BY <2>1, <2>2, <2>3, <2>4, <2>5 DEF JobInv, Source, Exists
  <2> QED
    BY <1>1, <2>1, <2>3, <2>4, <2>6, <2>7, StepKeeps
<1>4. CASE Prepares
  BY <1>2, <1>3, <1>4 DEF Prepares, Steps
<1>5. CASE Finishes
  BY <1>2, <1>3, <1>5 DEF Finishes, Steps
<1> QED
  BY <1>4, <1>5

\* The steps that write neither the files nor the receipt.
LEMMA CopyKeeps ==
  ASSUME IInv, UNCHANGED <<backup, proc, counts, bounds>>,
         \/ MakesDirs \/ CopyEnds
         \/ \E f \in Files :
              Skips(f) \/ Discards(f) \/ Copies(f) \/ Ambiguous(f)
  PROVE  IInv'
<1>1. /\ updates' = updates /\ sessions' = sessions /\ stamps' = stamps
      /\ troubles' = troubles /\ losses' = losses
      /\ backup' = backup /\ proc' = proc
      /\ file' = file /\ health' = health /\ litter' = litter
      /\ receipt' = receipt
  BY DEF counts, bounds, MakesDirs, CopyEnds, Skips, Discards, Copies,
         Ambiguous, root, others
<1>2. job # NoJob
  BY DEF MakesDirs, CopyEnds, Skips, Discards, Copies, Ambiguous, Missing,
         AtFile, JobIs, NoJob
<1>3. /\ TypeOK /\ JobInv /\ ~health
      /\ job \in [step : Steps, of : Published, at : 1 .. 5]
      /\ \A b \in Published : backup[b].dirs \in BOOLEAN
  BY <1>2, AtWork DEF TypeOK
<1>4. CASE MakesDirs
  <2>1. /\ job.step = "dirs" /\ job.at = 1
        /\ dirs' = (dirs \/ Source.dirs) /\ work' = work
        /\ job' = [job EXCEPT !.step = "file"]
    BY <1>2, <1>3, <1>4 DEF MakesDirs, JobIs, GoesTo, JobInv
  <2>2. /\ job' \in [step : Steps, of : Published, at : 1 .. Len(Order) + 1]
        /\ job'.step = "file" /\ job'.of = job.of /\ job'.at = 1
    BY <1>3, <2>1, OrderIs DEF Steps
  <2>3. TypeOK'
    BY <1>1, <1>3, <2>1, <2>2 DEF TypeOK, Published, Source
  <2>4. JobInv'
    BY <1>1, <1>2, <1>3, <2>1, <2>2, OrderIs DEF JobInv, Source, Exists
  <2> QED
    BY <1>1, <1>2, <2>3, <2>4, StepKeeps
<1>5. CASE \E f \in Files : Skips(f)
  <2>1. PICK f \in Files : Skips(f)
    BY <1>5
  <2>2. /\ job.step = "file" /\ job.at \in 1 .. 4 /\ f = Order[job.at]
        /\ file[f] = Source.file[f]
        /\ UNCHANGED <<dirs, work>>
        /\ job' = [job EXCEPT !.step = "file", !.at = @ + 1]
    BY <1>3, <2>1, OrderIs DEF Skips, AtFile, JobIs, NextFile, root, others
  <2>3. /\ job' \in [step : Steps, of : Published, at : 1 .. Len(Order) + 1]
        /\ job'.step = "file" /\ job'.of = job.of /\ job'.at = job.at + 1
    <3>1. job' = [step |-> "file", of |-> job.of, at |-> job.at + 1]
      BY <1>3, <2>2
    <3>2. job.at + 1 \in 1 .. Len(Order) + 1
      BY <2>2, OrderIs
    <3> QED
      BY <1>3, <3>1, <3>2 DEF Steps
  <2>4. TypeOK'
    BY <1>1, <1>3, <2>2, <2>3 DEF TypeOK, Published
  <2>5. JobInv'
    BY <1>1, <1>2, <1>3, <2>2, <2>3, OrderIs DEF JobInv, Source, Exists
  <2> QED
    BY <1>1, <1>2, <2>4, <2>5, StepKeeps
<1>6. CASE CopyEnds \/ \E f \in Files : Discards(f) \/ Copies(f) \/ Ambiguous(f)
  <2>1. /\ work' \in {"none", "torn", "whole"} /\ dirs' = dirs
        /\ \/ job' = NoJob \/ job' = job
           \/ /\ job.step = "file" /\ job.at <= Len(Order)
              /\ job' = [job EXCEPT !.step = "copying"]
           \/ job.step = "copying" /\ job' = [job EXCEPT !.step = "file"]
    BY <1>3, <1>6
       DEF CopyEnds, Discards, Copies, Ambiguous, Missing, AtFile, JobIs,
           GoesTo, root, others, TypeOK
  <2>2. job' # NoJob =>
          /\ job' \in [step : Steps, of : Published, at : 1 .. Len(Order) + 1]
          /\ job'.of = job.of /\ job'.at = job.at
          /\ \/ job'.step = job.step
             \/ /\ job.step \in {"file", "copying"}
                /\ \/ job'.step = "file"
                   \/ job'.step = "copying" /\ job.at <= Len(Order)
    BY <1>3, <2>1, OrderIs DEF Steps
  <2>3. TypeOK'
    BY <1>1, <1>3, <2>1, <2>2 DEF TypeOK, Published
  <2>4. JobInv'
    BY <1>1, <1>2, <1>3, <2>1, <2>2 DEF JobInv, Source, Exists
  <2> QED
    BY <1>1, <1>2, <2>3, <2>4, StepKeeps
<1> QED
  BY <1>4, <1>5, <1>6

\* A file is put in its place, the anchor after all the others.
LEMMA PlacesKeeps ==
  ASSUME IInv, UNCHANGED <<backup, proc, counts, bounds>>,
         NEW f \in Files, Places(f)
  PROVE  IInv'
<1>1. /\ updates' = updates /\ sessions' = sessions /\ stamps' = stamps
      /\ troubles' = troubles /\ losses' = losses
      /\ backup' = backup /\ proc' = proc
      /\ health' = health /\ litter' = litter /\ dirs' = dirs
      /\ receipt' = receipt /\ work' = "none"
  BY DEF counts, bounds, Places
<1>2. /\ job.step = "file" /\ job # NoJob /\ job.at <= Len(Order)
      /\ f = Order[job.at] /\ file[f] = Absent
      /\ Source.file[f] # Absent
      /\ job' = [job EXCEPT !.step = "file", !.at = @ + 1]
  BY DEF Places, Missing, AtFile, JobIs, NoJob, NextFile, Exists
<1>3. /\ TypeOK /\ JobInv /\ ~health /\ proc = "off"
      /\ FilesOK(Source.file) /\ Whole(Source.file)
      /\ job \in [step : Steps, of : Published, at : 1 .. 5]
  BY <1>2, AtWork
<1>4. file' = [file EXCEPT ![f] = Source.file[f]]
  BY DEF Places
<1>5. /\ FilesOK(file') /\ file'[f] = Source.file[f]
      /\ \A g \in Files \ {f} : file'[g] = file[g]
  BY <1>3, <1>4, FileFits, WritesOne
<1>6. /\ job' \in [step : Steps, of : Published, at : 1 .. Len(Order) + 1]
      /\ job'.step = "file" /\ job'.of = job.of /\ job'.at = job.at + 1
  <2>1. job' = [step |-> "file", of |-> job.of, at |-> job.at + 1]
    BY <1>2, <1>3
  <2>2. job.at + 1 \in 1 .. Len(Order) + 1
    BY <1>2, <1>3, OrderIs
  <2> QED
    BY <1>3, <2>1, <2>2 DEF Steps
<1>7. TypeOK'
  BY <1>1, <1>3, <1>5, <1>6 DEF TypeOK, Published
<1>8. Source' = Source /\ receipt # Absent /\ receipt.of = job.of
  BY <1>1, <1>2, <1>3, <1>6 DEF Source, JobInv
<1>9. \A i \in 1 .. Len(Order) :
        i < job.at => Order[i] # f /\ file[Order[i]] = Source.file[Order[i]]
  BY <1>2, <1>3, OrderIs DEF JobInv
<1>10. \A i \in 1 .. Len(Order) :
         i < job'.at => file'[Order[i]] = Source.file[Order[i]]
  BY <1>2, <1>3, <1>5, <1>6, <1>9, OrderIs, FourFiles
<1>11. JobInv'
  <2>1. \A g \in Files : file'[g] # Absent => Source.file[g] # Absent
    BY <1>2, <1>3, <1>5 DEF JobInv, Exists
  <2>2. Source.dirs => dirs'
    BY <1>1, <1>2, <1>3 DEF JobInv
  <2> QED
    BY <1>1, <1>3, <1>6, <1>8, <1>10, <2>1, <2>2 DEF JobInv, Exists
<1>12. ASSUME f = "session"
       PROVE  Whole(file)' /\ RestoredInv'
  <2>1. job.at = 4
    <3>1. job.at \in {1, 2, 3, 4}
      BY <1>2, <1>3, OrderIs
    <3>2. Order[job.at] = "session"
      BY <1>2, <1>12
    <3> QED
      BY <3>1, <3>2, OrderIs
  <2>2. \A i \in 1 .. Len(Order) : file'[Order[i]] = Source.file[Order[i]]
    BY <1>6, <1>10, <2>1, OrderIs
  <2>3. \A g \in Files : file'[g] = Source.file[g]
    BY <2>2, FourFiles
  <2>4. file' = Source.file
    BY <1>3, <1>5, <2>3, FilesSame
  <2>5. Whole(file)'
    BY <1>1, <1>3, <2>4 DEF Whole
  <2>6. RestoredInv'
    BY <1>1, <1>8, <2>4 DEF RestoredInv, Source
  <2> QED
    BY <2>5, <2>6
<1>13. ASSUME f # "session"
       PROVE  Whole(file)' /\ RestoredInv'
  <2>1. ~Exists("session")
    BY <1>2, <1>3, <1>8 DEF IInv, RestoredInv, Source, Exists
  <2>2. ~Exists("session")'
    BY <1>5, <1>13, <2>1, FourFiles DEF Exists
  <2> QED
    BY <2>2 DEF RestoredInv, Whole, Exists
<1>14. Whole(file)' /\ RestoredInv'
  BY <1>12, <1>13
<1>15. LinkedInv'
  <2>1. ~health'
    BY <1>1, <1>3
  <2> QED
    BY <1>7, <1>14, <2>1, RestoredHolds, PTL
<1>16. BackupsInv'
  BY <1>1, Counts, BackupsSame
<1>17. RuntimeInv'
  BY <1>1, <1>3 DEF RuntimeInv, Serving
<1> QED
  BY <1>7, <1>11, <1>14, <1>15, <1>16, <1>17 DEF IInv

LEMMA RestoreStepKeeps ==
  ASSUME IInv, RestoreStep
  PROVE  IInv'
BY ReceiptKeeps, CopyKeeps, PlacesKeeps DEF RestoreStep

-----------------------------------------------------------------------------
(* Failures.                                                               *)

LEMMA RestoreFailsKeeps ==
  ASSUME IInv, RestoreFails
  PROVE  IInv'
<1>1. /\ TypeOK /\ proc = "off" /\ job' = NoJob /\ litter' = FALSE
      /\ file' = file /\ dirs' = dirs /\ health' = health /\ work' = work
      /\ receipt' = receipt /\ backup' = backup /\ proc' = proc
      /\ updates' = updates /\ sessions' = sessions /\ stamps' = stamps
      /\ losses' = losses /\ troubles' \in Nat
  BY AtWork DEF RestoreFails, counts, TypeOK
<1>2. TypeOK'
  BY <1>1 DEF TypeOK, Published
<1>3. Whole(file)' /\ BackupsInv' /\ RestoredInv' /\ LinkedInv'
  BY <1>1, RootSame
<1>4. RuntimeInv' /\ JobInv'
  BY <1>1, NoJobInv DEF RuntimeInv, Serving
<1> QED
  BY <1>2, <1>3, <1>4 DEF IInv

LEMMA CrashKeeps ==
  ASSUME IInv, Crash
  PROVE  IInv'
<1>1. /\ TypeOK /\ proc' = "off" /\ job' = NoJob
      /\ litter' = litter /\ dirs' = dirs /\ health' = health /\ work' = work
      /\ receipt' = receipt /\ backup' = backup
      /\ updates' = updates /\ sessions' = sessions /\ stamps' = stamps
      /\ losses' = losses /\ troubles' \in Nat
  BY Counts DEF Crash, counts, others, TypeOK
<1>2. FilesOK(file')
      /\ Whole(file)' /\ BackupsInv' /\ RestoredInv' /\ LinkedInv'
  <2>1. CASE file' = file
    BY <1>1, <2>1, Counts, RootSame
  <2>2. CASE /\ proc = "on"
             /\ file' = [file EXCEPT !["transcript"] = Append(@, Torn)]
    <3>1. Torn \in Turn
      BY DEF Torn, Turn
    <3> QED
      BY <1>1, <2>2, <3>1, AppendKeeps DEF others
  <2> QED
    BY <2>1, <2>2 DEF Crash
<1>3. TypeOK'
  BY <1>1, <1>2 DEF TypeOK, Published
<1>4. RuntimeInv' /\ JobInv'
  BY <1>1, NoJobInv DEF RuntimeInv, Serving
<1> QED
  BY <1>2, <1>3, <1>4 DEF IInv

LEMMA LosesKeeps ==
  ASSUME IInv, Loses
  PROVE  IInv'
<1>1. /\ TypeOK /\ proc = "off" /\ job = NoJob /\ file' = NoFiles
      /\ dirs' = FALSE /\ health' = FALSE /\ litter' = FALSE
      /\ work' = "none" /\ receipt' = Absent /\ backup' = backup
      /\ proc' = proc /\ job' = job /\ updates' = updates
      /\ sessions' = sessions /\ stamps' = stamps
      /\ troubles' = troubles /\ losses' \in Nat
  BY Counts DEF Loses, Quiet, counts, TypeOK
<1>2. ~Exists("session")'
  BY <1>1, NoFilesOK, FourFiles DEF Exists
<1>3. TypeOK'
  BY <1>1, NoFilesOK DEF TypeOK, Published
<1>4. Whole(file)' /\ RestoredInv' /\ LinkedInv'
  BY <1>2 DEF Whole, RestoredInv, LinkedInv, Exists
<1>5. BackupsInv'
  BY <1>1, Counts, BackupsSame
<1>6. RuntimeInv' /\ JobInv'
  BY <1>1, NoJobInv DEF RuntimeInv, Serving
<1> QED
  BY <1>3, <1>4, <1>5, <1>6 DEF IInv

LEMMA StutterKeeps ==
  ASSUME IInv, UNCHANGED vars
  PROVE  IInv'
<1>1. /\ UNCHANGED <<file, dirs, health, litter, work, receipt, backup, proc>>
      /\ UNCHANGED <<job, updates, sessions, stamps, troubles, losses>>
  BY DEF vars, root, others, counts, bounds
<1>2. TypeOK' /\ RuntimeInv' /\ JobInv'
  BY <1>1
     DEF IInv, TypeOK, Published, RuntimeInv, JobInv, Exists, Source, Serving
<1>3. Whole(file)' /\ BackupsInv' /\ RestoredInv' /\ LinkedInv'
  BY <1>1, RootSame
<1> QED
  BY <1>2, <1>3 DEF IInv

-----------------------------------------------------------------------------
(* The theorems.                                                           *)

\* The inductive invariant holds of every behaviour: of the runtime, the
\* migration, the backups and the restores, of crashes and losses.
THEOREM Inductive == Spec => []IInv
<1>1. IInv /\ [Next]_vars => IInv'
  BY MigrateKeeps, BootsKeeps, LoadsKeeps, OpensKeeps, ReceivesKeeps,
     AnswersKeeps, CheckpointsKeeps, StopsKeeps, CreateBackupKeeps,
     RestoreBeginsKeeps, RestoreStepKeeps, RestoreFailsKeeps, CrashKeeps,
     LosesKeeps, StutterKeeps
     DEF Next, Runtime
<1> QED
  BY InitIInv, <1>1, PTL DEF Spec

\* The files, the backups, the receipt and the job keep their shape.
THEOREM BackupTypeCorrect == Spec => []TypeOK
<1>1. IInv => TypeOK
  BY DEF IInv
<1> QED
  BY Inductive, <1>1, PTL

\* A restore about to declare itself complete has made the root's files the
\* backup's, for every number of interruptions, starts and migrations.
THEOREM CompletesWithTheBackup == Spec => []CompletedIsBackup
<1>1. IInv => CompletedIsBackup
  <2> SUFFICES ASSUME IInv, JobIs("finishing")
               PROVE  file = Source.file /\ (Source.dirs => dirs)
    BY DEF CompletedIsBackup
  <2>1. job # NoJob
    BY DEF JobIs, NoJob
  <2>2. /\ JobInv /\ FilesOK(file) /\ FilesOK(Source.file)
        /\ job \in [step : Steps, of : Published, at : 1 .. 5]
    BY <2>1, AtWork
  <2>3. /\ Source.dirs => dirs
        /\ \A i \in 1 .. Len(Order) : file[Order[i]] = Source.file[Order[i]]
    BY <2>1, <2>2, OrderIs DEF JobInv, JobIs
  <2>4. file = Source.file
    BY <2>2, <2>3, FourFiles, FilesSame
  <2> QED
    BY <2>3, <2>4
<1> QED
  BY Inductive, <1>1, PTL

\* A runtime serves one whole history, its session's own or the backup's
\* continued, whatever was restored, interrupted or lost before.
THEOREM ServesWhole == Spec => []RunsWhole
<1>1. IInv => RunsWhole
  BY DEF IInv, RunsWhole, RuntimeInv, Whole, LinkedInv, Exists
<1> QED
  BY Inductive, <1>1, PTL

=============================================================================
