--------------------------- MODULE SemanticProofs ---------------------------
(***************************************************************************)
(* What holds of verified memory.                                          *)
(*                                                                         *)
(* The store, for any records, patches, reviews and failures: the cache is *)
(* what a resolution from nothing would give, nothing in force stands on   *)
(* what is not, and the cursor never points beyond the journals.  The      *)
(* patches are applied one after the other, so what is said of their       *)
(* result is proved by induction over their number.                        *)
(*                                                                         *)
(* The queue, for any packets, batches and failures, with the loop and the *)
(* fold at work on the same records: what is completed is resolved or was  *)
(* extracted twice, and what is stored in part stays pending.              *)
(***************************************************************************)
EXTENDS SemanticStore, SemanticMemory, WellFoundedInduction, TLAPS

-----------------------------------------------------------------------------
(* The store: its inductive invariant.                                     *)

Journal == [Id -> StoredRecord \cup {NoRecord}]

State == [records : Journal, changed : [Id -> Nat]]

Patch ==
  [op : {"correct", "invalidate", "split", "merge"}, target : Id,
   from : SUBSET Id, into : SUBSET Id, at : Nat, period : BOOLEAN, since : Nat]

StoreTypeOK ==
  /\ journal \in Journal
  /\ keys \subseteq Id \X Tx
  /\ patches \in Seq(Patch)
  /\ cursor \in Tx \cup {NoTx}
  /\ cache # NoCache => cache \in Journal
  /\ fresh \subseteq Kinds
  /\ now \in Nat
  /\ promised \in [Tx -> SUBSET (Claim \cup Event)]
  /\ breaks \in 0 .. MaxBreaks

\* What a review appended is in the journal.
KeysAreThere == \A k \in keys : journal[k[1]] # NoRecord

StoreIInv == StoreTypeOK /\ KeysAreThere /\ CursorNeverLeads /\ CacheIsResolution

-----------------------------------------------------------------------------
(* Induction.                                                              *)

\* A set of naturals with zero and the successor of each of its members has all.
LEMMA AllNaturals ==
  ASSUME NEW S, 0 \in S, \A n \in Nat : n \in S => n + 1 \in S
  PROVE  \A n \in Nat : n \in S
<1> SUFFICES ASSUME NEW m \in Nat, m \notin S PROVE FALSE
  OBVIOUS
<1> DEFINE R == OpToRel(<, Nat)
           T == {n \in Nat : n \notin S}
<1>1. IsWellFoundedOn(R, Nat) BY NatLessThanWellFounded
<1>2. \A i, n \in Nat : <<i, n>> \in R <=> i < n BY DEF OpToRel
<1>3. T \in SUBSET Nat /\ T # {} OBVIOUS
<1> HIDE DEF R, T
<1>4. PICK n \in T : \A i \in T : ~(<<i, n>> \in R) BY <1>1, <1>3, WFMin
<1>5. n \in Nat /\ n \notin S BY <1>4 DEF T
<1>6. n # 0 /\ n - 1 \in Nat BY <1>5
<1>7. n - 1 \notin S BY <1>5, <1>6
<1>8. n - 1 \in T /\ <<n - 1, n>> \in R BY <1>2, <1>5, <1>6, <1>7 DEF T
<1> QED BY <1>4, <1>8

-----------------------------------------------------------------------------
(* The patches, one after the other.                                       *)

Bare(j) == [records |-> j, changed |-> [id \in Id |-> 0]]

\* The first m of the patches over j.
IsOverlay(f, m, j, ps) ==
  f = [n \in 0 .. m |-> IF n = 0 THEN Bare(j) ELSE ApplyPatch(f[n - 1], ps[n])]

LEMMA OverlayExists ==
  ASSUME NEW j, NEW ps, NEW m \in Nat
  PROVE  \E f : IsOverlay(f, m, j, ps)
<1> DEFINE S == {n \in Nat : \E f : IsOverlay(f, n, j, ps)}
<1>1. 0 \in S
  <2>1. PICK b : b = Bare(j) OBVIOUS
  <2>2. [n \in 0 .. 0 |-> b]
        = [n \in 0 .. 0 |-> IF n = 0 THEN b
                            ELSE ApplyPatch([i \in 0 .. 0 |-> b][n - 1], ps[n])]
    OBVIOUS
  <2>3. IsOverlay([n \in 0 .. 0 |-> b], 0, j, ps) BY <2>1, <2>2 DEF IsOverlay
  <2> QED BY <2>3
<1>2. ASSUME NEW n \in Nat, n \in S PROVE n + 1 \in S
  <2>1. PICK f : IsOverlay(f, n, j, ps) BY <1>2
  <2>2. PICK last : last = ApplyPatch(f[n], ps[n + 1]) OBVIOUS
  <2> DEFINE g == [i \in 0 .. n + 1 |-> IF i <= n THEN f[i] ELSE last]
  <2>3. \A i \in 0 .. n : f[i] = IF i = 0 THEN Bare(j) ELSE ApplyPatch(f[i - 1], ps[i])
    BY <2>1 DEF IsOverlay
  <2>4. ASSUME NEW i \in 0 .. n + 1
        PROVE  g[i] = IF i = 0 THEN Bare(j) ELSE ApplyPatch(g[i - 1], ps[i])
    <3>1. CASE i = 0 BY <2>3, <3>1
    <3>2. CASE i \in 1 .. n
      <4>1. g[i] = f[i] /\ g[i - 1] = f[i - 1] BY <3>2
      <4> QED BY <2>3, <3>2, <4>1
    <3>3. CASE i = n + 1
      <4>1. g[i] = last /\ g[i - 1] = f[n] BY <3>3
      <4> QED BY <2>2, <3>3, <4>1
    <3> QED BY <3>1, <3>2, <3>3
  <2>5. IsOverlay(g, n + 1, j, ps)
    <3>1. g = [i \in 0 .. n + 1 |-> g[i]] OBVIOUS
    <3> HIDE DEF g
    <3> QED BY <2>4, <3>1 DEF IsOverlay
  <2> QED BY <2>5
<1> HIDE DEF S
<1>3. m \in S BY <1>1, <1>2, AllNaturals
<1> QED BY <1>3 DEF S

\* What the recursion says.
LEMMA OverlayFacts ==
  ASSUME NEW j, NEW ps, Len(ps) \in Nat
  PROVE  /\ Overlays(j, ps)[0] = Bare(j)
         /\ \A n \in 1 .. Len(ps) :
              Overlays(j, ps)[n] = ApplyPatch(Overlays(j, ps)[n - 1], ps[n])
<1>1. Overlays(j, ps) =
        CHOOSE f : f = [n \in 0 .. Len(ps) |->
          IF n = 0 THEN [records |-> j, changed |-> [id \in Id |-> 0]]
          ELSE ApplyPatch(f[n - 1], ps[n])]
  BY DEF Overlays
<1>2. Overlays(j, ps) = CHOOSE f : IsOverlay(f, Len(ps), j, ps)
  BY <1>1, Zenon DEF IsOverlay, Bare
<1>3. IsOverlay(Overlays(j, ps), Len(ps), j, ps)
  BY <1>2, OverlayExists
<1>4. PICK f : f = Overlays(j, ps) OBVIOUS
<1>5. f = [n \in 0 .. Len(ps) |-> IF n = 0 THEN Bare(j) ELSE ApplyPatch(f[n - 1], ps[n])]
  BY <1>3, <1>4 DEF IsOverlay
<1>6. f[0] = Bare(j) BY <1>5
<1>7. \A n \in 1 .. Len(ps) : f[n] = ApplyPatch(f[n - 1], ps[n]) BY <1>5
<1> QED BY <1>4, <1>6, <1>7

-----------------------------------------------------------------------------
(* One patch.                                                              *)

LEMMA Kinded ==
  /\ Claim \subseteq Id /\ Event \subseteq Id /\ Projection \subseteq Id
  /\ \A id \in Id : id \in Claim \/ id \in Event \/ id \in Projection
  /\ \A id \in Claim : id \notin Event /\ id \notin Projection
  /\ \A id \in Event : id \notin Claim /\ id \notin Projection
  /\ \A id \in Projection : id \notin Claim /\ id \notin Event
BY StoreAssumption DEF Id

LEMMA TargetsAre ==
  ASSUME NEW st, NEW p \in Patch
  PROVE  /\ Targets(st, p) \subseteq Id
         /\ \A id \in Targets(st, p) : st.records[id] # NoRecord
         /\ \A id \in Targets(st, p) : id \in Named(p) \/ (p.period /\ id \in Projection)
<1>1. CASE p.period
  <2>1. Targets(st, p) =
          {id \in Present(st, Projection) : id = p.target \/ st.records[id].at >= p.since}
    BY <1>1 DEF Targets
  <2>2. Targets(st, p) \subseteq Present(st, Projection) BY <2>1
  <2>3. \A id \in Present(st, Projection) :
          id \in Id /\ st.records[id] # NoRecord /\ id \in Projection
    BY Kinded DEF Present
  <2> QED BY <1>1, <2>2, <2>3
<1>2. CASE ~p.period
  <2>1. Targets(st, p) = Present(st, {p.target}) BY <1>2 DEF Targets
  <2>2. p.target \in Id /\ p.target \in Named(p) BY DEF Patch, Named
  <2>3. \A id \in Present(st, {p.target}) :
          id = p.target /\ st.records[id] # NoRecord
    BY DEF Present
  <2>4. \A id \in Targets(st, p) :
          id \in Id /\ st.records[id] # NoRecord /\ id \in Named(p)
    BY <2>1, <2>2, <2>3
  <2> QED BY <2>4
<1> QED BY <1>1, <1>2

LEMMA MarkingTyped ==
  ASSUME NEW st \in State, NEW ids \in SUBSET Id, NEW at \in Nat
  PROVE  /\ (\A id \in ids : st.records[id] # NoRecord) =>
              Corrected(st, ids, at) \in State /\ Invalidated(st, ids, at) \in State
         /\ Replaced(st, ids, at) \in State
<1>1. Changed(st, ids, at) \in [Id -> Nat]
  BY DEF Changed, Later, State
<1>2. ASSUME NEW id \in Id, st.records[id] # NoRecord
      PROVE  /\ [st.records[id] EXCEPT !.ok = TRUE, !.human = TRUE] \in StoredRecord
             /\ [st.records[id] EXCEPT !.ok = FALSE] \in StoredRecord
  <2>1. st.records[id] \in StoredRecord BY <1>2 DEF State, Journal
  <2> QED BY <2>1 DEF StoredRecord
<1>3. ASSUME \A id \in ids : st.records[id] # NoRecord
      PROVE  /\ Corrected(st, ids, at).records \in Journal
             /\ Invalidated(st, ids, at).records \in Journal
  BY <1>2, <1>3 DEF Corrected, Invalidated, State, Journal
<1>4. [ok |-> TRUE, human |-> TRUE, at |-> at] \in StoredRecord BY DEF StoredRecord
<1>5. Replaced(st, ids, at).records \in Journal
  BY <1>4 DEF Replaced, State, Journal
<1> QED BY <1>1, <1>3, <1>5 DEF Corrected, Invalidated, Replaced, State

\* A patch of a state is a state.
LEMMA PatchTyped ==
  ASSUME NEW st \in State, NEW p \in Patch
  PROVE  ApplyPatch(st, p) \in State
<1>1. p.at \in Nat /\ p.into \in SUBSET Id /\ p.from \in SUBSET Id BY DEF Patch
<1>2. Corrected(st, Targets(st, p), p.at) \in State
      /\ Invalidated(st, Targets(st, p), p.at) \in State
  BY <1>1, TargetsAre, MarkingTyped
<1>3. Invalidated(st, Present(st, p.from), p.at) \in State
  <2>1. Present(st, p.from) \in SUBSET Id
        /\ \A id \in Present(st, p.from) : st.records[id] # NoRecord
    BY <1>1 DEF Present
  <2> QED BY <1>1, <2>1, MarkingTyped
<1>4. Replaced(Invalidated(st, Present(st, p.from), p.at), p.into, p.at) \in State
  BY <1>1, <1>3, MarkingTyped
<1> QED BY <1>2, <1>4 DEF ApplyPatch

\* A patch changes only what it names, or the projections of its period.
LEMMA PatchElsewhere ==
  ASSUME NEW st \in State, NEW p \in Patch, NEW id \in Id, id \notin Named(p),
         ~(p.period /\ id \in Projection)
  PROVE  /\ ApplyPatch(st, p).records[id] = st.records[id]
         /\ ApplyPatch(st, p).changed[id] = st.changed[id]
<1>1. id \notin Targets(st, p) BY TargetsAre
<1>2. id \notin p.into /\ id \notin Present(st, p.from) BY DEF Named, Present
<1>3. /\ Corrected(st, Targets(st, p), p.at).records[id] = st.records[id]
      /\ Corrected(st, Targets(st, p), p.at).changed[id] = st.changed[id]
  BY <1>1 DEF Corrected, Changed
<1>4. /\ Invalidated(st, Targets(st, p), p.at).records[id] = st.records[id]
      /\ Invalidated(st, Targets(st, p), p.at).changed[id] = st.changed[id]
  BY <1>1 DEF Invalidated, Changed
<1>5. PICK mid : mid = Invalidated(st, Present(st, p.from), p.at) OBVIOUS
<1>6. mid.records[id] = st.records[id] /\ mid.changed[id] = st.changed[id]
  BY <1>2, <1>5 DEF Invalidated, Changed
<1>7. /\ Replaced(mid, p.into, p.at).records[id] = mid.records[id]
      /\ Replaced(mid, p.into, p.at).changed[id] = mid.changed[id]
  BY <1>2 DEF Replaced, Changed
<1> QED BY <1>3, <1>4, <1>5, <1>6, <1>7 DEF ApplyPatch

\* Two states that agree but for some ids.
Agree(a, b, ids) ==
  \A id \in Id \ ids : a.records[id] = b.records[id] /\ a.changed[id] = b.changed[id]

\* Patches that are not about some ids.
Apart(p, ids) == ids \cap Named(p) = {} /\ (p.period => ids \cap Projection = {})

\* A patch that is not about them keeps the agreement on the others.
LEMMA PatchAgrees ==
  ASSUME NEW a \in State, NEW b \in State, NEW p \in Patch, NEW ids \in SUBSET Id,
         Agree(a, b, ids), Apart(p, ids)
  PROVE  Agree(ApplyPatch(a, p), ApplyPatch(b, p), ids)
<1>1. \A S \in SUBSET (Id \ ids) : Present(a, S) = Present(b, S)
  BY DEF Present, Agree
<1>2. p.target \in Id \ ids /\ p.from \in SUBSET (Id \ ids)
      /\ (p.period => Projection \subseteq Id \ ids)
  BY Kinded DEF Apart, Named, Patch
<1>3. Targets(a, p) = Targets(b, p)
  <2>1. CASE p.period
    <3>1. Present(a, Projection) = Present(b, Projection) BY <1>1, <1>2, <2>1
    <3>2. \A id \in Present(a, Projection) : a.records[id] = b.records[id]
      BY <1>2, <2>1 DEF Present, Agree
    <3> QED BY <2>1, <3>1, <3>2 DEF Targets
  <2>2. CASE ~p.period
    <3>1. {p.target} \in SUBSET (Id \ ids) BY <1>2
    <3> QED BY <1>1, <2>2, <3>1 DEF Targets
  <2> QED BY <2>1, <2>2
<1>4. Present(a, p.from) = Present(b, p.from) BY <1>1, <1>2
<1>5. ASSUME NEW c, NEW d, Agree(c, d, ids), NEW S, NEW at
      PROVE  /\ Agree(Corrected(c, S, at), Corrected(d, S, at), ids)
             /\ Agree(Invalidated(c, S, at), Invalidated(d, S, at), ids)
             /\ Agree(Replaced(c, S, at), Replaced(d, S, at), ids)
  <2>1. \A id \in Id \ ids : Changed(c, S, at)[id] = Changed(d, S, at)[id]
    BY <1>5 DEF Agree, Changed
  <2> QED BY <1>5, <2>1 DEF Agree, Corrected, Invalidated, Replaced
<1>6. PICK S : S = Targets(a, p) OBVIOUS
<1>7. Agree(Corrected(a, S, p.at), Corrected(b, S, p.at), ids)
      /\ Agree(Invalidated(a, S, p.at), Invalidated(b, S, p.at), ids)
  BY <1>5
<1>8. PICK F : F = Present(a, p.from) OBVIOUS
<1>9. Agree(Invalidated(a, F, p.at), Invalidated(b, F, p.at), ids) BY <1>5
<1>10. Agree(Replaced(Invalidated(a, F, p.at), p.into, p.at),
             Replaced(Invalidated(b, F, p.at), p.into, p.at), ids)
  BY <1>5, <1>9
<1> QED BY <1>3, <1>4, <1>6, <1>7, <1>8, <1>10 DEF ApplyPatch

-----------------------------------------------------------------------------
(* All the patches.                                                        *)

\* The records under any number of the patches are records again.
LEMMA OverlayTyped ==
  ASSUME NEW j \in Journal, NEW ps \in Seq(Patch)
  PROVE  \A n \in 0 .. Len(ps) : Overlays(j, ps)[n] \in State
<1> DEFINE S == {n \in Nat : n <= Len(ps) => Overlays(j, ps)[n] \in State}
<1>1. Len(ps) \in Nat /\ \A n \in 1 .. Len(ps) : ps[n] \in Patch OBVIOUS
<1>2. 0 \in S
  <2>1. Bare(j) \in State BY DEF Bare, State
  <2> QED BY <1>1, <2>1, OverlayFacts
<1>3. ASSUME NEW n \in Nat, n \in S PROVE n + 1 \in S
  <2> SUFFICES ASSUME n + 1 <= Len(ps) PROVE Overlays(j, ps)[n + 1] \in State
    OBVIOUS
  <2>1. n + 1 \in 1 .. Len(ps) /\ (n + 1) - 1 = n BY <1>1
  <2>2. Overlays(j, ps)[n] \in State BY <1>1, <1>3
  <2>3. Overlays(j, ps)[n + 1] = ApplyPatch(Overlays(j, ps)[n], ps[n + 1])
    BY <1>1, <2>1, OverlayFacts
  <2> QED BY <1>1, <2>1, <2>2, <2>3, PatchTyped
<1> HIDE DEF S
<1>4. \A n \in Nat : n \in S BY <1>2, <1>3, AllNaturals
<1> QED BY <1>1, <1>4 DEF S

\* What no patch is about is as it was written, and never changed.
LEMMA OverlayElsewhere ==
  ASSUME NEW j \in Journal, NEW ps \in Seq(Patch), NEW id \in Id,
         \A n \in 1 .. Len(ps) :
           id \notin Named(ps[n]) /\ ~(ps[n].period /\ id \in Projection)
  PROVE  /\ Overlays(j, ps)[Len(ps)].records[id] = j[id]
         /\ Overlays(j, ps)[Len(ps)].changed[id] = 0
<1> DEFINE S == {n \in Nat : n <= Len(ps) =>
                   /\ Overlays(j, ps)[n].records[id] = j[id]
                   /\ Overlays(j, ps)[n].changed[id] = 0}
<1>1. Len(ps) \in Nat /\ \A n \in 1 .. Len(ps) : ps[n] \in Patch OBVIOUS
<1>2. 0 \in S
  <2>1. Bare(j).records[id] = j[id] /\ Bare(j).changed[id] = 0 BY DEF Bare
  <2> QED BY <1>1, <2>1, OverlayFacts
<1>3. ASSUME NEW n \in Nat, n \in S PROVE n + 1 \in S
  <2> SUFFICES ASSUME n + 1 <= Len(ps)
               PROVE  /\ Overlays(j, ps)[n + 1].records[id] = j[id]
                      /\ Overlays(j, ps)[n + 1].changed[id] = 0
    OBVIOUS
  <2>1. n + 1 \in 1 .. Len(ps) /\ (n + 1) - 1 = n /\ n \in 0 .. Len(ps) BY <1>1
  <2>2. /\ Overlays(j, ps)[n].records[id] = j[id]
        /\ Overlays(j, ps)[n].changed[id] = 0
    BY <1>1, <1>3
  <2>3. Overlays(j, ps)[n + 1] = ApplyPatch(Overlays(j, ps)[n], ps[n + 1])
    BY <1>1, <2>1, OverlayFacts
  <2>4. Overlays(j, ps)[n] \in State /\ ps[n + 1] \in Patch
    BY <1>1, <2>1, OverlayTyped
  <2>5. id \notin Named(ps[n + 1]) /\ ~(ps[n + 1].period /\ id \in Projection)
    BY <2>1
  <2>6. PICK st : st = Overlays(j, ps)[n] OBVIOUS
  <2>7. PICK p : p = ps[n + 1] OBVIOUS
  <2>8. /\ ApplyPatch(st, p).records[id] = st.records[id]
        /\ ApplyPatch(st, p).changed[id] = st.changed[id]
    BY <2>4, <2>5, <2>6, <2>7, PatchElsewhere
  <2> QED BY <2>2, <2>3, <2>6, <2>7, <2>8
<1> HIDE DEF S
<1>4. \A n \in Nat : n \in S BY <1>2, <1>3, AllNaturals
<1>5. Len(ps) \in S /\ Len(ps) <= Len(ps) BY <1>1, <1>4
<1> QED BY <1>5 DEF S

\* Journals that agree but for some ids agree on the others under patches that
\* are not about those.
LEMMA OverlayAgrees ==
  ASSUME NEW j \in Journal, NEW k \in Journal, NEW ps \in Seq(Patch),
         NEW ids \in SUBSET Id,
         \A id \in Id \ ids : j[id] = k[id],
         \A n \in 1 .. Len(ps) : Apart(ps[n], ids)
  PROVE  Agree(Overlays(j, ps)[Len(ps)], Overlays(k, ps)[Len(ps)], ids)
<1> DEFINE S == {n \in Nat : n <= Len(ps) =>
                   Agree(Overlays(j, ps)[n], Overlays(k, ps)[n], ids)}
<1>1. Len(ps) \in Nat /\ \A n \in 1 .. Len(ps) : ps[n] \in Patch OBVIOUS
<1>2. 0 \in S
  <2>1. Agree(Bare(j), Bare(k), ids) BY DEF Agree, Bare
  <2>2. Overlays(j, ps)[0] = Bare(j) /\ Overlays(k, ps)[0] = Bare(k)
    BY <1>1, OverlayFacts
  <2> QED BY <2>1, <2>2
<1>3. ASSUME NEW n \in Nat, n \in S PROVE n + 1 \in S
  <2> SUFFICES ASSUME n + 1 <= Len(ps)
               PROVE  Agree(Overlays(j, ps)[n + 1], Overlays(k, ps)[n + 1], ids)
    OBVIOUS
  <2>1. n + 1 \in 1 .. Len(ps) /\ (n + 1) - 1 = n /\ n \in 0 .. Len(ps) BY <1>1
  <2>2. Agree(Overlays(j, ps)[n], Overlays(k, ps)[n], ids)
    BY <1>1, <1>3
  <2>3. /\ Overlays(j, ps)[n + 1] = ApplyPatch(Overlays(j, ps)[n], ps[n + 1])
        /\ Overlays(k, ps)[n + 1] = ApplyPatch(Overlays(k, ps)[n], ps[n + 1])
    BY <1>1, <2>1, OverlayFacts
  <2>4. Overlays(j, ps)[n] \in State /\ Overlays(k, ps)[n] \in State
        /\ ps[n + 1] \in Patch
    BY <1>1, <2>1, OverlayTyped
  <2>5. Apart(ps[n + 1], ids) BY <2>1
  <2> QED BY <2>2, <2>3, <2>4, <2>5, PatchAgrees
<1> HIDE DEF S
<1>4. \A n \in Nat : n \in S BY <1>2, <1>3, AllNaturals
<1>5. Len(ps) \in S /\ Len(ps) <= Len(ps) BY <1>1, <1>4
<1> QED BY <1>5 DEF S

-----------------------------------------------------------------------------
(* What falls with what it stands on.                                      *)

\* A support that an event or a projection from then cannot stand on, when the
\* claims and events in force are those of r.
Useless(r, changed, s, at) ==
  \/ r[s] = NoRecord
  \/ ~r[s].ok
  \/ changed[s] > 0 /\ at <= changed[s]

\* Claims stay; events fall with claims, projections with what is left of both.
LEMMA FallenFacts ==
  ASSUME NEW st
  PROVE  LET r == Fallen(st) IN
         /\ \A id \in Claim : r[id] = st.records[id]
         /\ \A id \in Event :
              r[id] = IF st.records[id] # NoRecord
                         /\ \E c \in Refs[id] :
                              Useless(r, st.changed, c, st.records[id].at)
                      THEN [st.records[id] EXCEPT !.ok = FALSE] ELSE st.records[id]
         /\ \A id \in Projection :
              r[id] = IF st.records[id] # NoRecord /\ ~st.records[id].human
                         /\ \E s \in Support[id] :
                              Useless(r, st.changed, s, st.records[id].at)
                      THEN [st.records[id] EXCEPT !.ok = FALSE] ELSE st.records[id]
         /\ r = [id \in Id |-> r[id]]
<1> DEFINE events ==
      [id \in Id |->
        IF id \in Event /\ st.records[id] # NoRecord
           /\ \E c \in Refs[id] : Unsound(st, c, st.records[id].at)
        THEN [st.records[id] EXCEPT !.ok = FALSE] ELSE st.records[id]]
<1>1. PICK known : known = [records |-> events, changed |-> st.changed] OBVIOUS
<1>2. PICK r : r = Fallen(st) OBVIOUS
<1>3. PICK ev : ev = events OBVIOUS
<1>4. r = [id \in Id |->
             IF id \in Projection /\ ev[id] # NoRecord /\ ~ev[id].human
                /\ \E s \in Support[id] : Unsound(known, s, ev[id].at)
             THEN [ev[id] EXCEPT !.ok = FALSE] ELSE ev[id]]
  BY <1>1, <1>2, <1>3, Zenon DEF Fallen
<1>5. /\ \A id \in Claim : ev[id] = st.records[id]
      /\ \A id \in Projection : ev[id] = st.records[id]
      /\ \A id \in Event :
           ev[id] = IF st.records[id] # NoRecord
                       /\ \E c \in Refs[id] : Unsound(st, c, st.records[id].at)
                    THEN [st.records[id] EXCEPT !.ok = FALSE] ELSE st.records[id]
  BY <1>3, Kinded
<1>6. known.records = ev /\ known.changed = st.changed BY <1>1, <1>3
<1> HIDE DEF events
<1>7. \A id \in Claim : r[id] = st.records[id] BY <1>4, <1>5, Kinded
<1>8. \A id \in Event : r[id] = ev[id] BY <1>4, Kinded
<1>9. ASSUME NEW id \in Event, NEW c \in Refs[id], NEW at
      PROVE  Unsound(st, c, at) <=> Useless(r, st.changed, c, at)
  <2>1. c \in Claim BY StoreAssumption
  <2> QED BY <1>7, <2>1 DEF Unsound, Useless
<1>10. ASSUME NEW id \in Projection, NEW s \in Support[id], NEW at
       PROVE  Unsound(known, s, at) <=> Useless(r, st.changed, s, at)
  <2>1. s \in Claim \/ s \in Event BY StoreAssumption
  <2>2. r[s] = ev[s] BY <1>5, <1>7, <1>8, <2>1
  <2> QED BY <1>6, <2>2 DEF Unsound, Useless
<1>11. \A id \in Event :
         r[id] = IF st.records[id] # NoRecord
                    /\ \E c \in Refs[id] : Useless(r, st.changed, c, st.records[id].at)
                 THEN [st.records[id] EXCEPT !.ok = FALSE] ELSE st.records[id]
  BY <1>5, <1>8, <1>9
<1>12. \A id \in Projection :
         r[id] = IF st.records[id] # NoRecord /\ ~st.records[id].human
                    /\ \E s \in Support[id] :
                         Useless(r, st.changed, s, st.records[id].at)
                 THEN [st.records[id] EXCEPT !.ok = FALSE] ELSE st.records[id]
  BY <1>4, <1>5, <1>10, Kinded
<1>13. r = [id \in Id |-> r[id]] BY <1>4
<1> QED BY <1>2, <1>7, <1>11, <1>12, <1>13

\* What falls is typed, and as present as it was.
LEMMA FallenTyped ==
  ASSUME NEW st \in State
  PROVE  /\ Fallen(st) \in Journal
         /\ \A id \in Id : Fallen(st)[id] = NoRecord <=> st.records[id] = NoRecord
<1>1. PICK r : r = Fallen(st) OBVIOUS
<1>2. /\ \A id \in Claim : r[id] = st.records[id]
      /\ \A id \in Event \cup Projection :
           \/ r[id] = st.records[id]
           \/ st.records[id] # NoRecord /\ r[id] = [st.records[id] EXCEPT !.ok = FALSE]
      /\ r = [id \in Id |-> r[id]]
  BY <1>1, FallenFacts
<1>3. ASSUME NEW id \in Id
      PROVE  /\ r[id] \in StoredRecord \cup {NoRecord}
             /\ r[id] = NoRecord <=> st.records[id] = NoRecord
  <2>1. CASE r[id] = st.records[id] BY <2>1 DEF State, Journal
  <2>2. CASE st.records[id] # NoRecord /\ r[id] = [st.records[id] EXCEPT !.ok = FALSE]
    <3>1. st.records[id] \in StoredRecord BY <2>2 DEF State, Journal
    <3>2. r[id] \in StoredRecord BY <2>2, <3>1 DEF StoredRecord
    <3> QED BY <2>2, <3>2, StoreAssumption
  <2> QED BY <1>2, <2>1, <2>2, Kinded
<1>4. r \in Journal BY <1>2, <1>3 DEF Journal
<1> QED BY <1>1, <1>3, <1>4

\* What falls is not in force if what it stands on is not.
LEMMA FallenRests ==
  ASSUME NEW st \in State
  PROVE  LET r == Fallen(st)
             Holds(s) == r[s] # NoRecord /\ r[s].ok IN
         /\ \A e \in Event : Holds(e) => \A c \in Refs[e] : Holds(c)
         /\ \A p \in Projection :
              Holds(p) /\ ~r[p].human => \A s \in Support[p] : Holds(s)
<1>1. PICK r : r = Fallen(st) OBVIOUS
<1>2. /\ \A id \in Event :
           r[id] = IF st.records[id] # NoRecord
                      /\ \E c \in Refs[id] :
                           Useless(r, st.changed, c, st.records[id].at)
                   THEN [st.records[id] EXCEPT !.ok = FALSE] ELSE st.records[id]
      /\ \A id \in Projection :
           r[id] = IF st.records[id] # NoRecord /\ ~st.records[id].human
                      /\ \E s \in Support[id] :
                           Useless(r, st.changed, s, st.records[id].at)
                   THEN [st.records[id] EXCEPT !.ok = FALSE] ELSE st.records[id]
  BY <1>1, FallenFacts
<1>3. ASSUME NEW id \in Id, st.records[id] # NoRecord
      PROVE  /\ ~[st.records[id] EXCEPT !.ok = FALSE].ok
             /\ [st.records[id] EXCEPT !.ok = FALSE].human = st.records[id].human
  <2>1. st.records[id] \in StoredRecord BY <1>3 DEF State, Journal
  <2> QED BY <2>1 DEF StoredRecord
<1>4. ASSUME NEW e \in Event, r[e] # NoRecord, r[e].ok, NEW c \in Refs[e]
      PROVE  r[c] # NoRecord /\ r[c].ok
  <2>1. e \in Id BY Kinded
  <2>2. ~Useless(r, st.changed, c, st.records[e].at)
    <3>1. SUFFICES ASSUME Useless(r, st.changed, c, st.records[e].at) PROVE FALSE
      OBVIOUS
    <3>2. st.records[e] # NoRecord BY <1>2, <1>4
    <3>3. r[e] = [st.records[e] EXCEPT !.ok = FALSE] BY <1>2, <3>1, <3>2
    <3> QED BY <1>3, <1>4, <2>1, <3>2, <3>3
  <2> QED BY <2>2 DEF Useless
<1>5. ASSUME NEW p \in Projection, r[p] # NoRecord, r[p].ok, ~r[p].human,
             NEW s \in Support[p]
      PROVE  r[s] # NoRecord /\ r[s].ok
  <2>1. p \in Id BY Kinded
  <2>2. ~Useless(r, st.changed, s, st.records[p].at)
    <3>1. SUFFICES ASSUME Useless(r, st.changed, s, st.records[p].at) PROVE FALSE
      OBVIOUS
    <3>2. st.records[p] # NoRecord BY <1>2, <1>5
    <3>3. ~st.records[p].human BY <1>2, <1>3, <1>5, <2>1, <3>2
    <3>4. r[p] = [st.records[p] EXCEPT !.ok = FALSE] BY <1>2, <3>1, <3>2, <3>3
    <3> QED BY <1>3, <1>5, <2>1, <3>2, <3>4
  <2> QED BY <2>2 DEF Useless
<1> QED BY <1>1, <1>4, <1>5

\* A resolution is a journal.
LEMMA ResolutionTyped ==
  ASSUME NEW j \in Journal, NEW ps \in Seq(Patch)
  PROVE  Resolution(j, ps) \in Journal
<1>1. Len(ps) \in 0 .. Len(ps) OBVIOUS
<1> QED BY <1>1, OverlayTyped, FallenTyped DEF Resolution

-----------------------------------------------------------------------------
(* The cache.                                                              *)

\* Records appended where there was none, by which nothing that is there is
\* concerned: the resolution is extended by them.
LEMMA ExtensionIsResolution ==
  ASSUME NEW j \in Journal, NEW k \in Journal, patches \in Seq(Patch),
         NEW ids \in SUBSET Id,
         ids \subseteq Claim \/ ids \subseteq Event \/ ids \subseteq Projection,
         \A id \in Id \ ids : k[id] = j[id],
         \A id \in ids : j[id] = NoRecord /\ k[id] # NoRecord /\ ~k[id].human,
         MayExtend(Resolution(j, patches), ids)
  PROVE  Resolution(k, patches) = Extended(Resolution(j, patches), ids, k)
<1>1. PICK a : a = Overlays(j, patches)[Len(patches)] OBVIOUS
<1>2. PICK b : b = Overlays(k, patches)[Len(patches)] OBVIOUS
<1>3. PICK r : r = Resolution(j, patches) OBVIOUS
<1>4. PICK q : q = Resolution(k, patches) OBVIOUS
<1>5. /\ Len(patches) \in 0 .. Len(patches)
      /\ \A n \in 1 .. Len(patches) : patches[n] \in Range(patches)
      /\ \A n \in 1 .. Len(patches) : patches[n] \in Patch
  BY DEF Range
<1>6. a \in State /\ b \in State BY <1>1, <1>2, <1>5, OverlayTyped
<1>7. r = Fallen(a) /\ q = Fallen(b)
  BY <1>1, <1>2, <1>3, <1>4 DEF Resolution
<1>8. /\ \A id \in ids : r[id] = NoRecord /\ id \notin Patched
      /\ \A e \in Event : r[e] # NoRecord => ids \cap Refs[e] = {}
      /\ \A p \in Projection : r[p] # NoRecord => ids \cap Support[p] = {}
      /\ \A id \in ids : id \in Event => Refs[id] \cap Patched = {}
      /\ \A id \in ids : id \in Projection =>
           Support[id] \cap Patched = {} /\ ~PatchedPeriod
  BY <1>3 DEF MayExtend
<1>9. \A id \in Id \ Patched : \A n \in 1 .. Len(patches) : id \notin Named(patches[n])
  BY <1>5 DEF Patched
<1>10. \A n \in 1 .. Len(patches) : Apart(patches[n], ids)
  <2> SUFFICES ASSUME NEW n \in 1 .. Len(patches) PROVE Apart(patches[n], ids)
    OBVIOUS
  <2>1. ids \cap Named(patches[n]) = {} BY <1>8, <1>9
  <2>2. ASSUME patches[n].period PROVE ids \cap Projection = {}
    <3>1. PatchedPeriod BY <1>5, <2>2 DEF PatchedPeriod
    <3> QED BY <1>8, <3>1
  <2> QED BY <2>1, <2>2 DEF Apart
<1>11. \A id \in Id \ ids : a.records[id] = b.records[id] /\ a.changed[id] = b.changed[id]
  <2>1. Agree(a, b, ids) BY <1>1, <1>2, <1>10, OverlayAgrees
  <2> QED BY <2>1 DEF Agree
<1>12. ASSUME NEW id \in ids
       PROVE  b.records[id] = k[id] /\ a.records[id] = NoRecord
  <2>1. \A n \in 1 .. Len(patches) :
          id \notin Named(patches[n]) /\ ~(patches[n].period /\ id \in Projection)
    BY <1>10 DEF Apart
  <2>2. b.records[id] = k[id] BY <1>2, <2>1, OverlayElsewhere
  <2>3. a.records[id] = j[id] BY <1>1, <2>1, OverlayElsewhere
  <2> QED BY <2>2, <2>3
<1>13. \A id \in (Claim \cup Event) \ Patched : b.changed[id] = 0
  <2> SUFFICES ASSUME NEW id \in (Claim \cup Event) \ Patched PROVE b.changed[id] = 0
    OBVIOUS
  <2>1. id \in Id /\ id \notin Projection BY Kinded
  <2>2. \A n \in 1 .. Len(patches) :
          id \notin Named(patches[n]) /\ ~(patches[n].period /\ id \in Projection)
    BY <1>9, <2>1
  <2> QED BY <1>2, <2>1, <2>2, OverlayElsewhere
<1>14. /\ \A id \in Claim : r[id] = a.records[id] /\ q[id] = b.records[id]
       /\ \A id \in Event :
            /\ r[id] = IF a.records[id] # NoRecord
                          /\ \E c \in Refs[id] :
                               Useless(r, a.changed, c, a.records[id].at)
                       THEN [a.records[id] EXCEPT !.ok = FALSE] ELSE a.records[id]
            /\ q[id] = IF b.records[id] # NoRecord
                          /\ \E c \in Refs[id] :
                               Useless(q, b.changed, c, b.records[id].at)
                       THEN [b.records[id] EXCEPT !.ok = FALSE] ELSE b.records[id]
       /\ \A id \in Projection :
            /\ r[id] = IF a.records[id] # NoRecord /\ ~a.records[id].human
                          /\ \E s \in Support[id] :
                               Useless(r, a.changed, s, a.records[id].at)
                       THEN [a.records[id] EXCEPT !.ok = FALSE] ELSE a.records[id]
            /\ q[id] = IF b.records[id] # NoRecord /\ ~b.records[id].human
                          /\ \E s \in Support[id] :
                               Useless(q, b.changed, s, b.records[id].at)
                       THEN [b.records[id] EXCEPT !.ok = FALSE] ELSE b.records[id]
       /\ q = [id \in Id |-> q[id]]
  BY <1>7, FallenFacts
<1>15. \A id \in Id : r[id] = NoRecord <=> a.records[id] = NoRecord
  BY <1>6, <1>7, FallenTyped
<1>16. \A c \in Claim \ ids : r[c] = q[c] BY <1>11, <1>14, Kinded
<1>17. ASSUME NEW e \in Event \ ids PROVE r[e] = q[e]
  <2>1. e \in Id \ ids /\ a.records[e] = b.records[e] BY <1>11, Kinded
  <2>2. CASE a.records[e] = NoRecord BY <1>14, <2>1, <2>2
  <2>3. CASE a.records[e] # NoRecord
    <3>1. ids \cap Refs[e] = {} BY <1>8, <1>15, <2>1, <2>3
    <3>2. ASSUME NEW c \in Refs[e], NEW at
          PROVE  Useless(r, a.changed, c, at) <=> Useless(q, b.changed, c, at)
      <4>1. c \in Claim \ ids BY <3>1, StoreAssumption
      <4>2. r[c] = q[c] /\ a.changed[c] = b.changed[c] BY <1>11, <1>16, <4>1, Kinded
      <4> QED BY <4>2 DEF Useless
    <3>3. (\E c \in Refs[e] : Useless(r, a.changed, c, a.records[e].at))
          <=> (\E c \in Refs[e] : Useless(q, b.changed, c, b.records[e].at))
      BY <2>1, <3>2
    <3>4. PICK falls \in BOOLEAN :
            falls = (\E c \in Refs[e] : Useless(r, a.changed, c, a.records[e].at))
      OBVIOUS
    <3>5. r[e] = IF falls THEN [a.records[e] EXCEPT !.ok = FALSE] ELSE a.records[e]
      BY <1>14, <2>3, <3>4
    <3>6. q[e] = IF falls THEN [b.records[e] EXCEPT !.ok = FALSE] ELSE b.records[e]
      BY <1>14, <2>1, <2>3, <3>3, <3>4
    <3> QED BY <2>1, <3>5, <3>6
  <2> QED BY <2>2, <2>3
<1>18. ASSUME NEW p \in Projection \ ids PROVE r[p] = q[p]
  <2>1. p \in Id \ ids /\ a.records[p] = b.records[p] BY <1>11, Kinded
  <2>2. CASE a.records[p] = NoRecord BY <1>14, <2>1, <2>2
  <2>3. CASE a.records[p] # NoRecord
    <3>1. ids \cap Support[p] = {} BY <1>8, <1>15, <2>1, <2>3
    <3>2. ASSUME NEW s \in Support[p], NEW at
          PROVE  Useless(r, a.changed, s, at) <=> Useless(q, b.changed, s, at)
      <4>1. s \in Id \ ids /\ (s \in Claim \ ids \/ s \in Event \ ids)
        BY <3>1, StoreAssumption, Kinded
      <4>2. r[s] = q[s] /\ a.changed[s] = b.changed[s] BY <1>11, <1>16, <1>17, <4>1
      <4> QED BY <4>2 DEF Useless
    <3>3. (\E s \in Support[p] : Useless(r, a.changed, s, a.records[p].at))
          <=> (\E s \in Support[p] : Useless(q, b.changed, s, b.records[p].at))
      BY <2>1, <3>2
    <3>4. PICK falls \in BOOLEAN :
            falls = (~a.records[p].human
                     /\ \E s \in Support[p] : Useless(r, a.changed, s, a.records[p].at))
      OBVIOUS
    <3>5. r[p] = IF falls THEN [a.records[p] EXCEPT !.ok = FALSE] ELSE a.records[p]
      BY <1>14, <2>3, <3>4
    <3>6. q[p] = IF falls THEN [b.records[p] EXCEPT !.ok = FALSE] ELSE b.records[p]
      BY <1>14, <2>1, <2>3, <3>3, <3>4
    <3> QED BY <2>1, <3>5, <3>6
  <2> QED BY <2>2, <2>3
<1> DEFINE Holds(s) == r[s] # NoRecord /\ r[s].ok
<1>19. ASSUME NEW id \in ids
       PROVE  /\ k[id] \in StoredRecord
              /\ [k[id] EXCEPT !.ok = @ /\ TRUE /\ TRUE] = k[id]
  <2>1. k[id] \in StoredRecord BY DEF Journal
  <2> QED BY <2>1 DEF StoredRecord
<1>20. ASSUME NEW id \in ids
       PROVE  q[id] = [k[id] EXCEPT !.ok =
                /\ @
                /\ id \in Event => \A c \in Refs[id] : Holds(c)
                /\ id \in Projection => \A s \in Support[id] : Holds(s)]
  <2>1. CASE id \in Claim
    <3>1. q[id] = k[id] BY <1>12, <1>14, <2>1
    <3>2. id \notin Event /\ id \notin Projection BY <2>1, Kinded
    <3> QED BY <1>19, <3>1, <3>2 DEF StoredRecord
  <2>2. CASE id \in Event
    <3>1. id \notin Projection /\ ids \subseteq Event BY <2>2, Kinded
    <3>2. b.records[id] = k[id] /\ k[id] # NoRecord BY <1>12
    <3>3. ASSUME NEW c \in Refs[id]
          PROVE  Useless(q, b.changed, c, k[id].at) <=> ~Holds(c)
      <4>1. c \in Claim \ ids /\ c \notin Patched
        BY <1>8, <2>2, <3>1, StoreAssumption, Kinded
      <4>2. r[c] = q[c] /\ b.changed[c] = 0 BY <1>13, <1>16, <4>1
      <4> QED BY <4>2 DEF Useless
    <3>4. q[id] = IF \E c \in Refs[id] : ~Holds(c)
                  THEN [k[id] EXCEPT !.ok = FALSE] ELSE k[id]
      BY <1>14, <2>2, <3>2, <3>3
    <3> HIDE DEF Holds
    <3> QED BY <1>19, <2>2, <3>1, <3>4 DEF StoredRecord
  <2>3. CASE id \in Projection
    <3>1. id \notin Event /\ ids \subseteq Projection BY <2>3, Kinded
    <3>2. b.records[id] = k[id] /\ k[id] # NoRecord /\ ~k[id].human BY <1>12
    <3>3. ASSUME NEW s \in Support[id]
          PROVE  Useless(q, b.changed, s, k[id].at) <=> ~Holds(s)
      <4>1. s \in (Claim \cup Event) \ Patched /\ (s \in Claim \ ids \/ s \in Event \ ids)
        BY <1>8, <2>3, <3>1, StoreAssumption, Kinded
      <4>2. r[s] = q[s] /\ b.changed[s] = 0 BY <1>13, <1>16, <1>17, <4>1
      <4> QED BY <4>2 DEF Useless
    <3>4. q[id] = IF \E s \in Support[id] : ~Holds(s)
                  THEN [k[id] EXCEPT !.ok = FALSE] ELSE k[id]
      BY <1>14, <2>3, <3>2, <3>3
    <3> HIDE DEF Holds
    <3> QED BY <1>19, <2>3, <3>1, <3>4 DEF StoredRecord
  <2> QED BY <2>1, <2>2, <2>3, Kinded
<1>21. \A id \in Id \ ids : q[id] = r[id] BY <1>16, <1>17, <1>18, Kinded
<1>22. Extended(r, ids, k) =
         [id \in Id |->
           IF id \notin ids THEN r[id]
           ELSE [k[id] EXCEPT !.ok =
                  /\ @
                  /\ id \in Event => \A c \in Refs[id] : Holds(c)
                  /\ id \in Projection => \A s \in Support[id] : Holds(s)]]
  BY DEF Extended
<1> HIDE DEF Holds
<1>23. \A id \in Id :
         q[id] = IF id \notin ids THEN r[id]
                 ELSE [k[id] EXCEPT !.ok =
                  /\ @
                  /\ id \in Event => \A c \in Refs[id] : Holds(c)
                  /\ id \in Projection => \A s \in Support[id] : Holds(s)]
  BY <1>20, <1>21
<1>24. q = Extended(r, ids, k) BY <1>14, <1>22, <1>23
<1> QED BY <1>3, <1>4, <1>24

\* What the cache becomes when records of one kind were appended to the journal
\* it is the resolution of: nothing, or the resolution with them.
LEMMA CacheAfterAppend ==
  ASSUME NEW j \in Journal, NEW k \in Journal, patches \in Seq(Patch),
         NEW ids \in SUBSET Id,
         ids \subseteq Claim \/ ids \subseteq Event \/ ids \subseteq Projection,
         \A id \in Id \ ids : k[id] = j[id],
         \A id \in ids : j[id] = NoRecord /\ k[id] # NoRecord /\ ~k[id].human,
         NEW records, \A id \in ids : records[id] = k[id],
         NEW state, state # NoCache => state = Resolution(j, patches),
         CacheAfter(state, ids, records) # NoCache
  PROVE  CacheAfter(state, ids, records) = Resolution(k, patches)
<1>1. CASE ids = {}
  <2>1. k = j BY <1>1 DEF Journal
  <2> QED BY <1>1, <2>1 DEF CacheAfter
<1>2. CASE ids # {}
  <2>1. state # NoCache /\ MayExtend(state, ids)
        /\ CacheAfter(state, ids, records) = Extended(state, ids, records)
    BY <1>2 DEF CacheAfter
  <2>2. Extended(state, ids, records) = Extended(state, ids, k) BY DEF Extended
  <2>3. state = Resolution(j, patches) BY <2>1
  <2>4. MayExtend(Resolution(j, patches), ids) BY <2>1, <2>3
  <2>5. Resolution(k, patches) = Extended(Resolution(j, patches), ids, k)
    BY <2>4, ExtensionIsResolution
  <2> QED BY <2>1, <2>2, <2>3, <2>5
<1> QED BY <1>1, <1>2

-----------------------------------------------------------------------------
(* The steps.                                                              *)

LEMMA WrittenFacts ==
  ASSUME journal \in Journal, now \in Nat, NEW ids \in SUBSET Id, NEW supported
  PROVE  /\ Written(ids, supported) \in Journal
         /\ \A id \in Id \ ids : Written(ids, supported)[id] = journal[id]
         /\ \A id \in ids : /\ Written(ids, supported)[id] # NoRecord
                            /\ ~Written(ids, supported)[id].human
         /\ ids = {} => Written(ids, supported) = journal
<1>1. \A id \in Id :
        [ok |-> id \notin Claim \/ id \in supported, human |-> FALSE, at |-> now] \in StoredRecord
  BY DEF StoredRecord
<1>2. PICK w : w = Written(ids, supported) OBVIOUS
<1>3. \A id \in Id \ ids : w[id] = journal[id] BY <1>2 DEF Written
<1>4. \A id \in ids :
        w[id] = [ok |-> id \notin Claim \/ id \in supported, human |-> FALSE, at |-> now]
  BY <1>2 DEF Written
<1>5. w = [id \in Id |-> w[id]] BY <1>2 DEF Written
<1>6. \A id \in Id : w[id] \in StoredRecord \cup {NoRecord}
  BY <1>1, <1>3, <1>4 DEF Journal
<1>7. w \in Journal BY <1>5, <1>6 DEF Journal
<1>8. \A id \in ids : w[id] # NoRecord /\ ~w[id].human
  <2> SUFFICES ASSUME NEW id \in ids PROVE w[id] # NoRecord /\ ~w[id].human OBVIOUS
  <2>1. w[id] \in StoredRecord BY <1>1, <1>4
  <2>2. w[id] # NoRecord BY <2>1, StoreAssumption
  <2>3. PICK ok \in BOOLEAN : ok = (id \notin Claim \/ id \in supported) OBVIOUS
  <2>4. w[id] = [ok |-> ok, human |-> FALSE, at |-> now] BY <1>4, <2>3
  <2>5. ~w[id].human BY <2>4
  <2> QED BY <2>2, <2>5
<1>9. ids = {} => w = journal BY <1>3, <1>5 DEF Journal
<1> QED BY <1>2, <1>3, <1>7, <1>8, <1>9

LEMMA MissingFacts ==
  ASSUME NEW t, NEW ids
  PROVE  /\ Missing(t, ids) \subseteq ids
         /\ t \notin Review => \A id \in Missing(t, ids) : journal[id] = NoRecord
         /\ \A id \in ids \ Missing(t, ids) :
              IF t \in Review THEN <<id, t>> \in keys ELSE journal[id] # NoRecord
BY DEF Missing

LEMMA InitInv == StoreInit => StoreIInv
<1> SUFFICES ASSUME StoreInit PROVE StoreIInv OBVIOUS
<1>1. StoreTypeOK
  <2>1. journal \in Journal BY DEF StoreInit, Journal
  <2>2. patches \in Seq(Patch) BY DEF StoreInit
  <2>3. promised \in [Tx -> SUBSET (Claim \cup Event)] BY DEF StoreInit
  <2>4. now \in Nat /\ breaks \in 0 .. MaxBreaks BY StoreAssumption DEF StoreInit
  <2> QED BY <2>1, <2>2, <2>3, <2>4 DEF StoreInit, StoreTypeOK
<1>2. KeysAreThere BY DEF StoreInit, KeysAreThere
<1>3. CursorNeverLeads BY DEF StoreInit, CursorNeverLeads
<1>4. CacheIsResolution BY DEF StoreInit, CacheIsResolution, CacheIsCurrent
<1> QED BY <1>1, <1>2, <1>3, <1>4 DEF StoreIInv

\* A resolution from nothing becomes the cache.
LEMMA ResolveInv == ASSUME StoreIInv, Resolve PROVE StoreIInv'
<1>1. ResolvedState \in Journal BY ResolutionTyped DEF StoreIInv, StoreTypeOK, ResolvedState
<1>2. StoreTypeOK' BY <1>1 DEF StoreIInv, StoreTypeOK, Resolve, disk
<1>3. KeysAreThere' /\ CursorNeverLeads'
  BY DEF StoreIInv, KeysAreThere, CursorNeverLeads, Resolve, disk
<1>4. CacheIsResolution'
  BY DEF Resolve, disk, CacheIsResolution, ResolvedState
<1> QED BY <1>2, <1>3, <1>4 DEF StoreIInv

\* The ids of a packet.
LEMMA PacketTyped ==
  ASSUME NEW t \in Tx, NEW ids \in Extracted[t]
  PROVE  /\ ids \subseteq Claim \cup Event
         /\ Missing(t, ids \cap Claim) \subseteq Claim
         /\ Missing(t, ids \cap Event) \subseteq Event
         /\ Missing(t, ids \cap Claim) \cup Missing(t, ids \cap Event) \in SUBSET Id
         /\ Missing(t, ids \cap Claim) \cap Missing(t, ids \cap Event) = {}
<1>1. ids \subseteq Claim \cup Event BY StoreAssumption
<1>2. Missing(t, ids \cap Claim) \subseteq Claim /\ Missing(t, ids \cap Event) \subseteq Event
  BY MissingFacts
<1> QED BY <1>1, <1>2, Kinded

\* A commit appends what is missing, claims and then events, so that everything
\* it was committed with is there before the cursor says so.
LEMMA CommitPacketInv ==
  ASSUME StoreIInv, NEW t \in Tx, NEW ids \in Extracted[t], NEW supported,
         CommitPacket(t, ids, supported)
  PROVE  StoreIInv'
<1>1. PICK claims : claims = Missing(t, ids \cap Claim) OBVIOUS
<1>2. PICK events : events = Missing(t, ids \cap Event) OBVIOUS
<1>3. PICK records : records = Written(claims \cup events, supported) OBVIOUS
<1>4. PICK first : first = Written(claims, supported) OBVIOUS
<1>5. /\ journal' = records
      /\ keys' = keys \cup ((claims \cup events) \X ({t} \cap Review))
      /\ cache' = CommitCache(t, claims, events, records)
      /\ fresh' = IF cache' = NoCache THEN {} ELSE fresh
      /\ cursor' = t
      /\ promised' = [promised EXCEPT ![t] = ids]
      /\ UNCHANGED <<patches, now, breaks>>
  BY <1>1, <1>2, <1>3, Zenon DEF CommitPacket
<1>6. /\ ids \subseteq Claim \cup Event /\ claims \subseteq Claim /\ events \subseteq Event
      /\ claims \cup events \in SUBSET Id /\ claims \in SUBSET Id
      /\ events \in SUBSET Id /\ claims \cap events = {}
  BY <1>1, <1>2, PacketTyped
<1>7. journal \in Journal /\ now \in Nat /\ patches \in Seq(Patch)
  BY DEF StoreIInv, StoreTypeOK
<1>8. /\ records \in Journal
      /\ \A id \in Id \ (claims \cup events) : records[id] = journal[id]
      /\ \A id \in claims \cup events : records[id] # NoRecord /\ ~records[id].human
      /\ claims \cup events = {} => records = journal
  BY <1>3, <1>6, <1>7, WrittenFacts
<1>9. /\ first \in Journal
      /\ \A id \in Id \ claims : first[id] = journal[id]
      /\ \A id \in claims : first[id] # NoRecord /\ ~first[id].human
  BY <1>4, <1>6, <1>7, WrittenFacts
<1>10. /\ \A id \in claims : records[id] = first[id]
       /\ \A id \in Id \ events : records[id] = first[id]
  BY <1>3, <1>4, <1>6 DEF Written
<1>11. t \notin Review => \A id \in claims \cup events : journal[id] = NoRecord
  BY <1>1, <1>2, MissingFacts
<1>12. /\ cache' # NoCache => cache' \in Journal
       /\ cache' # NoCache /\ fresh' = Kinds => cache' = ResolvedState'
  <2>1. CASE CacheIsCurrent /\ t \notin Review
    <3>1. cache = Resolution(journal, patches)
      BY <2>1 DEF StoreIInv, CacheIsResolution, ResolvedState
    <3>2. PICK mid : mid = CacheAfter(cache, claims, records) OBVIOUS
    <3>3. mid # NoCache => mid = Resolution(first, patches)
      BY <1>6, <1>7, <1>9, <1>10, <1>11, <2>1, <3>1, <3>2, CacheAfterAppend
    <3>4. \A id \in events : first[id] = NoRecord
      BY <1>6, <1>9, <1>11, <2>1
    <3>5. PICK last : last = CacheAfter(mid, events, records) OBVIOUS
    <3>6. last # NoCache => last = Resolution(records, patches)
      BY <1>6, <1>7, <1>8, <1>9, <1>10, <3>3, <3>4, <3>5, CacheAfterAppend
    <3>7. cache' = last BY <1>5, <2>1, <3>2, <3>5 DEF CommitCache
    <3>8. cache' # NoCache => cache' = ResolvedState'
      BY <1>5, <3>6, <3>7 DEF ResolvedState
    <3> QED BY <1>7, <1>8, <3>6, <3>7, <3>8, ResolutionTyped
  <2>2. CASE ~(CacheIsCurrent /\ t \notin Review)
    <3>1. cache' = (IF claims \cup events = {} THEN cache ELSE NoCache)
      BY <1>5, <2>2 DEF CommitCache
    <3>2. cache' # NoCache => cache' = cache /\ journal' = journal /\ fresh' = fresh
      BY <1>5, <1>8, <3>1
    <3>3. cache' # NoCache => cache' \in Journal BY <3>2 DEF StoreIInv, StoreTypeOK
    <3>4. cache' # NoCache /\ fresh' = Kinds => CacheIsCurrent /\ ResolvedState' = ResolvedState
      BY <1>5, <3>2 DEF CacheIsCurrent, ResolvedState
    <3> QED BY <3>2, <3>3, <3>4 DEF StoreIInv, CacheIsResolution
  <2> QED BY <2>1, <2>2
<1>13. CacheIsResolution' BY <1>12 DEF CacheIsResolution, CacheIsCurrent, Kinds
<1>14. keys' \subseteq Id \X Tx BY <1>5, <1>6 DEF StoreIInv, StoreTypeOK
<1>15. fresh' \subseteq Kinds BY <1>5 DEF StoreIInv, StoreTypeOK
<1>16. promised' \in [Tx -> SUBSET (Claim \cup Event)]
  BY <1>5, <1>6 DEF StoreIInv, StoreTypeOK
<1>17. StoreTypeOK'
  BY <1>5, <1>8, <1>12, <1>14, <1>15, <1>16 DEF StoreIInv, StoreTypeOK
<1>18. \A id \in Id : journal[id] # NoRecord => journal'[id] # NoRecord
  BY <1>5, <1>8
<1>19. KeysAreThere'
  <2> SUFFICES ASSUME NEW k \in keys' PROVE journal'[k[1]] # NoRecord
    BY DEF KeysAreThere
  <2>1. CASE k \in keys
    <3>1. k[1] \in Id BY <2>1 DEF StoreIInv, StoreTypeOK
    <3> QED BY <1>18, <2>1, <3>1 DEF StoreIInv, KeysAreThere
  <2>2. CASE k[1] \in claims \cup events BY <1>5, <1>8, <2>2
  <2> QED BY <1>5, <2>1, <2>2
<1>20. CursorNeverLeads'
  <2> SUFFICES ASSUME NEW u \in Tx, NEW id \in promised'[u]
               PROVE  /\ journal'[id] # NoRecord
                      /\ u \in Review => <<id, u>> \in keys'
    BY DEF CursorNeverLeads
  <2>1. CASE u # t
    <3>1. id \in promised[u] BY <1>5, <2>1 DEF StoreIInv, StoreTypeOK
    <3>2. id \in Id BY <3>1, Kinded DEF StoreIInv, StoreTypeOK
    <3> QED BY <1>5, <1>18, <3>1, <3>2 DEF StoreIInv, CursorNeverLeads
  <2>2. CASE u = t
    <3>1. id \in ids BY <1>5, <2>2 DEF StoreIInv, StoreTypeOK
    <3>2. id \in Id BY <1>6, <3>1, Kinded
    <3>3. CASE id \in claims \cup events
      <4>1. journal'[id] # NoRecord BY <1>5, <1>8, <3>3
      <4>2. t \in Review => <<id, t>> \in keys' BY <1>5, <3>3
      <4> QED BY <2>2, <4>1, <4>2
    <3>4. CASE id \notin claims \cup events
      <4>1. IF t \in Review THEN <<id, t>> \in keys ELSE journal[id] # NoRecord
        BY <1>1, <1>2, <1>6, <3>1, <3>4, MissingFacts
      <4>2. journal[id] # NoRecord BY <4>1 DEF StoreIInv, KeysAreThere
      <4> QED BY <1>5, <1>18, <2>2, <3>2, <4>1, <4>2
    <3> QED BY <3>3, <3>4
  <2> QED BY <2>1, <2>2
<1> QED BY <1>13, <1>17, <1>19, <1>20 DEF StoreIInv

\* A commit that ends early leaves either a cache that still knows the files or
\* one that is not current.
LEMMA CommitBreaksInv ==
  ASSUME StoreIInv, NEW t \in Tx, NEW ids \in Extracted[t], NEW supported,
         NEW died \in BOOLEAN, CommitBreaks(t, ids, supported, died)
  PROVE  StoreIInv'
<1>1. PICK claims : claims = Missing(t, ids \cap Claim) OBVIOUS
<1>2. PICK events : events = Missing(t, ids \cap Event) OBVIOUS
<1>3. PICK done \in SUBSET (claims \cup events) : \E records, entire :
        /\ records = Written(done, supported)
        /\ entire = IF claims \subseteq done THEN claims ELSE {}
        /\ journal' = records
        /\ keys' = keys \cup (done \X ({t} \cap Review))
        /\ cache' = IF died THEN NoCache
                    ELSE IF entire = {} THEN cache
                    ELSE CommitCache(t, entire, {}, records)
        /\ fresh' = IF cache' = NoCache THEN {}
                    ELSE fresh \ {KindOf(id) : id \in done \ entire}
  BY <1>1, <1>2, Zenon DEF CommitBreaks
<1>4. PICK records, entire :
        /\ records = Written(done, supported)
        /\ entire = IF claims \subseteq done THEN claims ELSE {}
        /\ journal' = records
        /\ keys' = keys \cup (done \X ({t} \cap Review))
        /\ cache' = IF died THEN NoCache
                    ELSE IF entire = {} THEN cache
                    ELSE CommitCache(t, entire, {}, records)
        /\ fresh' = IF cache' = NoCache THEN {}
                    ELSE fresh \ {KindOf(id) : id \in done \ entire}
  BY <1>3
<1>5. /\ breaks < MaxBreaks /\ breaks' = breaks + 1
      /\ UNCHANGED <<patches, cursor, now, promised>>
  BY DEF CommitBreaks
<1>6. /\ claims \subseteq Claim /\ done \in SUBSET Id /\ claims \in SUBSET Id
  BY <1>1, <1>2, PacketTyped
<1>7. journal \in Journal /\ now \in Nat /\ patches \in Seq(Patch)
  BY DEF StoreIInv, StoreTypeOK
<1>8. /\ records \in Journal
      /\ \A id \in Id \ done : records[id] = journal[id]
      /\ \A id \in done : records[id] # NoRecord /\ ~records[id].human
      /\ done = {} => records = journal
  BY <1>4, <1>6, <1>7, WrittenFacts
<1>9. t \notin Review => \A id \in done : journal[id] = NoRecord
  BY <1>1, <1>2, <1>4, MissingFacts
<1>10. \A id \in Id : KindOf(id) \in Kinds
  <2> SUFFICES ASSUME NEW id \in Id PROVE KindOf(id) \in Kinds OBVIOUS
  <2>1. \E kind \in Kinds : id \in kind BY Kinded DEF Kinds
  <2> DEFINE c == CHOOSE kind \in Kinds : id \in kind
  <2>2. c \in Kinds BY <2>1
  <2>3. KindOf(id) = c BY DEF KindOf
  <2> QED BY <2>2, <2>3
<1>11. cache' # NoCache => fresh' \subseteq fresh BY <1>4
<1>12. cache' # NoCache /\ fresh' = Kinds => fresh = Kinds /\ done \subseteq entire
  <2> SUFFICES ASSUME cache' # NoCache, fresh' = Kinds
               PROVE  fresh = Kinds /\ done \subseteq entire
    OBVIOUS
  <2>1. fresh = Kinds BY <1>11 DEF StoreIInv, StoreTypeOK
  <2>2. Kinds = fresh \ {KindOf(id) : id \in done \ entire} BY <1>4
  <2>3. done \ entire = {} BY <1>6, <1>10, <2>2
  <2> QED BY <2>1, <2>3
<1>13. /\ cache' # NoCache => cache' \in Journal
       /\ cache' # NoCache /\ fresh' = Kinds => cache' = ResolvedState'
  <2>1. CASE cache' = NoCache BY <2>1
  <2>2. CASE cache' # NoCache /\ entire = {}
    <3>1. cache' = cache BY <1>4, <2>2
    <3>2. cache' \in Journal BY <2>2, <3>1 DEF StoreIInv, StoreTypeOK
    <3>3. ASSUME fresh' = Kinds PROVE cache' = ResolvedState'
      <4>1. CacheIsCurrent BY <1>12, <2>2, <3>1, <3>3 DEF CacheIsCurrent
      <4>2. journal' = journal BY <1>4, <1>8, <1>12, <2>2, <3>3
      <4> QED BY <1>5, <3>1, <4>1, <4>2 DEF StoreIInv, CacheIsResolution, ResolvedState
    <3> QED BY <3>2, <3>3
  <2>3. CASE cache' # NoCache /\ entire # {}
    <3>1. entire = claims /\ claims \subseteq done
          /\ cache' = CommitCache(t, claims, {}, records)
      BY <1>4, <2>3
    <3>2. t \notin Review /\ CacheIsCurrent
          /\ cache' = CacheAfter(CacheAfter(cache, claims, records), {}, records)
      BY <2>3, <3>1 DEF CommitCache
    <3>3. cache' = CacheAfter(cache, claims, records) BY <3>2 DEF CacheAfter
    <3>4. cache = Resolution(journal, patches)
      BY <3>2 DEF StoreIInv, CacheIsResolution, ResolvedState
    <3>5. PICK first : first = Written(claims, supported) OBVIOUS
    <3>6. /\ first \in Journal
          /\ \A id \in Id \ claims : first[id] = journal[id]
          /\ \A id \in claims : first[id] # NoRecord /\ ~first[id].human
      BY <1>6, <1>7, <3>5, WrittenFacts
    <3>7. \A id \in claims : records[id] = first[id]
      BY <1>4, <1>6, <3>1, <3>5 DEF Written
    <3>8. cache' = Resolution(first, patches)
      BY <1>6, <1>7, <1>9, <2>3, <3>1, <3>2, <3>3, <3>4, <3>6, <3>7, CacheAfterAppend
    <3>9. ASSUME fresh' = Kinds PROVE records = first
      <4>1. done = claims BY <1>12, <2>3, <3>1, <3>9
      <4> QED BY <1>4, <3>5, <4>1
    <3>10. fresh' = Kinds => cache' = ResolvedState'
      BY <1>4, <1>5, <3>8, <3>9 DEF ResolvedState
    <3> QED BY <1>7, <3>6, <3>8, <3>10, ResolutionTyped
  <2> QED BY <2>1, <2>2, <2>3
<1>14. CacheIsResolution' BY <1>13 DEF CacheIsResolution, CacheIsCurrent, Kinds
<1>15. keys' \subseteq Id \X Tx BY <1>4, <1>6 DEF StoreIInv, StoreTypeOK
<1>16. fresh' \subseteq Kinds BY <1>4 DEF StoreIInv, StoreTypeOK
<1>17. breaks' \in 0 .. MaxBreaks BY <1>5, StoreAssumption DEF StoreIInv, StoreTypeOK
<1>18. StoreTypeOK'
  BY <1>4, <1>5, <1>8, <1>13, <1>15, <1>16, <1>17 DEF StoreIInv, StoreTypeOK
<1>19. \A id \in Id : journal[id] # NoRecord => journal'[id] # NoRecord
  BY <1>4, <1>8
<1>20. KeysAreThere'
  <2> SUFFICES ASSUME NEW k \in keys' PROVE journal'[k[1]] # NoRecord
    BY DEF KeysAreThere
  <2>1. CASE k \in keys
    <3>1. k[1] \in Id BY <2>1 DEF StoreIInv, StoreTypeOK
    <3> QED BY <1>19, <2>1, <3>1 DEF StoreIInv, KeysAreThere
  <2>2. CASE k[1] \in done BY <1>4, <1>8, <2>2
  <2> QED BY <1>4, <2>1, <2>2
<1>21. CursorNeverLeads'
  <2> SUFFICES ASSUME NEW u \in Tx, NEW id \in promised[u]
               PROVE  /\ journal'[id] # NoRecord
                      /\ u \in Review => <<id, u>> \in keys'
    BY <1>5 DEF CursorNeverLeads
  <2>1. id \in Id BY Kinded DEF StoreIInv, StoreTypeOK
  <2> QED BY <1>4, <1>19, <2>1 DEF StoreIInv, CursorNeverLeads
<1> QED BY <1>14, <1>18, <1>20, <1>21 DEF StoreIInv

\* A projection is appended where there was none.
LEMMA AppendProjectionInv ==
  ASSUME StoreIInv, NEW p \in Projection, AppendProjection(p)
  PROVE  StoreIInv'
<1>1. journal \in Journal /\ now \in Nat /\ patches \in Seq(Patch)
  BY DEF StoreIInv, StoreTypeOK
<1>2. {p} \in SUBSET Id /\ {p} \subseteq Projection BY Kinded
<1>3. PICK records : records = Written({p}, {}) OBVIOUS
<1>4. /\ journal[p] = NoRecord /\ journal' = records
      /\ cache' = IF CacheIsCurrent THEN CacheAfter(cache, {p}, records) ELSE NoCache
      /\ fresh' = IF cache' = NoCache THEN {} ELSE fresh
      /\ UNCHANGED <<keys, patches, cursor, now, promised, breaks>>
  BY <1>3 DEF AppendProjection
<1>5. /\ records \in Journal
      /\ \A id \in Id \ {p} : records[id] = journal[id]
      /\ \A id \in {p} : records[id] # NoRecord /\ ~records[id].human
  BY <1>1, <1>2, <1>3, WrittenFacts
<1>6. cache' # NoCache => cache' = Resolution(records, patches)
  <2> SUFFICES ASSUME cache' # NoCache PROVE cache' = Resolution(records, patches)
    OBVIOUS
  <2>1. CacheIsCurrent /\ cache' = CacheAfter(cache, {p}, records) BY <1>4
  <2>2. cache = Resolution(journal, patches)
    BY <2>1 DEF StoreIInv, CacheIsResolution, ResolvedState
  <2>3. \A id \in {p} : journal[id] = NoRecord BY <1>4
  <2> QED BY <1>1, <1>2, <1>5, <2>1, <2>2, <2>3, CacheAfterAppend
<1>7. CacheIsResolution'
  BY <1>4, <1>6 DEF CacheIsResolution, CacheIsCurrent, ResolvedState
<1>8. cache' # NoCache => cache' \in Journal BY <1>1, <1>5, <1>6, ResolutionTyped
<1>9. StoreTypeOK' BY <1>4, <1>5, <1>8 DEF StoreIInv, StoreTypeOK
<1>10. \A id \in Id : journal[id] # NoRecord => journal'[id] # NoRecord
  BY <1>4, <1>5
<1>11. KeysAreThere'
  <2>1. \A k \in keys : k[1] \in Id BY DEF StoreIInv, StoreTypeOK
  <2> QED BY <1>4, <1>10, <2>1 DEF StoreIInv, KeysAreThere
<1>12. CursorNeverLeads'
  <2>1. \A u \in Tx : promised[u] \subseteq Id BY Kinded DEF StoreIInv, StoreTypeOK
  <2> QED BY <1>4, <1>10, <2>1 DEF StoreIInv, CursorNeverLeads
<1> QED BY <1>7, <1>9, <1>11, <1>12 DEF StoreIInv

\* What a human may decide about a record that is shown.
LEMMA PatchesTyped ==
  ASSUME StoreIInv, NEW id \in Shown, NEW p \in PatchesOf(id)
  PROVE  p \in Patch
<1>1. ResolvedState \in Journal BY ResolutionTyped DEF StoreIInv, StoreTypeOK, ResolvedState
<1>2. id \in Id /\ ResolvedState[id] \in StoredRecord BY <1>1 DEF Shown, Journal
<1>3. ResolvedState[id].at \in Nat BY <1>2 DEF StoredRecord
<1>4. KindOf(id) \subseteq Id
  <2>1. \E kind \in Kinds : id \in kind BY <1>2, Kinded DEF Kinds
  <2> DEFINE c == CHOOSE kind \in Kinds : id \in kind
  <2>2. c \in Kinds BY <2>1
  <2>3. KindOf(id) = c BY DEF KindOf
  <2> HIDE DEF c
  <2> QED BY <2>2, <2>3, Kinded DEF Kinds
<1>5. now \in Nat BY DEF StoreIInv, StoreTypeOK
<1>6. PICK peers : peers = KindOf(id) \ {id} OBVIOUS
<1>7. peers \in SUBSET Id BY <1>4, <1>6
<1>8. PICK since : since = ResolvedState[id].at OBVIOUS
<1>9. \E op \in {"correct", "invalidate", "split", "merge"},
         from \in SUBSET Id, into \in SUBSET Id, period \in BOOLEAN :
        p = [op |-> op, target |-> id, from |-> from, into |-> into, at |-> now,
             period |-> period, since |-> since]
  BY <1>2, <1>6, <1>7, <1>8 DEF PatchesOf
<1> QED BY <1>2, <1>3, <1>5, <1>8, <1>9 DEF Patch

\* A patch discards the cache.
LEMMA AppendPatchInv ==
  ASSUME StoreIInv, NEW p \in Patch, AppendPatch(p)
  PROVE  StoreIInv'
<1>1. patches' \in Seq(Patch) BY DEF StoreIInv, StoreTypeOK, AppendPatch
<1>2. StoreTypeOK' BY <1>1 DEF StoreIInv, StoreTypeOK, AppendPatch
<1>3. KeysAreThere' /\ CursorNeverLeads'
  BY DEF StoreIInv, KeysAreThere, CursorNeverLeads, AppendPatch
<1>4. CacheIsResolution'
  BY DEF AppendPatch, CacheIsResolution, CacheIsCurrent
<1> QED BY <1>2, <1>3, <1>4 DEF StoreIInv

LEMMA QuietInv == ASSUME StoreIInv, Tick \/ UNCHANGED storeVars PROVE StoreIInv'
<1>1. /\ UNCHANGED <<disk, cache, fresh, promised, breaks>>
      /\ now' = now \/ now' = now + 1
  BY DEF Tick, storeVars
<1>2. UNCHANGED <<journal, keys, patches, cursor, cache, fresh, promised, breaks>>
  BY <1>1 DEF disk
<1>3. StoreTypeOK' BY <1>1, <1>2 DEF StoreIInv, StoreTypeOK
<1>4. KeysAreThere' /\ CursorNeverLeads'
  BY <1>2 DEF StoreIInv, KeysAreThere, CursorNeverLeads
<1>5. CacheIsResolution'
  BY <1>2 DEF StoreIInv, CacheIsResolution, CacheIsCurrent, ResolvedState
<1> QED BY <1>3, <1>4, <1>5 DEF StoreIInv

\* The invariant holds in every state.
THEOREM StoreInductive == StoreSpec => []StoreIInv
<1>1. ASSUME StoreIInv, [StoreNext]_storeVars PROVE StoreIInv'
  <2>1. CASE Resolve BY <1>1, <2>1, ResolveInv
  <2>2. ASSUME NEW t \in Tx, NEW ids \in Extracted[t], NEW doubted \in SUBSET Doubtful,
               CommitPacket(t, ids, Claim \ doubted)
        PROVE  StoreIInv'
    BY <1>1, <2>2, CommitPacketInv
  <2>3. ASSUME NEW t \in Tx, NEW ids \in Extracted[t], NEW doubted \in SUBSET Doubtful,
               NEW died \in BOOLEAN, CommitBreaks(t, ids, Claim \ doubted, died)
        PROVE  StoreIInv'
    BY <1>1, <2>3, CommitBreaksInv
  <2>4. ASSUME NEW p \in Projection, AppendProjection(p) PROVE StoreIInv'
    BY <1>1, <2>4, AppendProjectionInv
  <2>5. ASSUME NEW id \in Shown, NEW p \in PatchesOf(id), AppendPatch(p) PROVE StoreIInv'
    BY <1>1, <2>5, PatchesTyped, AppendPatchInv
  <2>6. CASE Tick \/ UNCHANGED storeVars BY <1>1, <2>6, QuietInv
  <2> QED BY <1>1, <2>1, <2>2, <2>3, <2>4, <2>5, <2>6 DEF StoreNext
<1> QED BY InitInv, <1>1, PTL DEF StoreSpec

-----------------------------------------------------------------------------
(* What it is for.                                                         *)

\* The journals, the patches and the cache are always what the store may hold.
THEOREM StoreTypeCorrect == StoreSpec => []StoreTypeOK
BY StoreInductive, PTL DEF StoreIInv

\* What resolvedState answers from its cache is what resolving the journals and
\* the patches from nothing would give.
THEOREM CacheAgrees == StoreSpec => []CacheIsResolution
BY StoreInductive, PTL DEF StoreIInv

\* The cursor names no transaction whose records are not durable.
THEOREM CursorBehindJournals == StoreSpec => []CursorNeverLeads
BY StoreInductive, PTL DEF StoreIInv

\* Nothing resolvedState shows in force stands on what is not in force, whether
\* it answers from the cache or resolves anew.
THEOREM NothingStandsOnFallen == StoreSpec => []NothingRestsOnUnsupported
<1>1. ASSUME StoreIInv PROVE NothingRestsOnUnsupported
  <2>1. Answer = ResolvedState BY <1>1 DEF StoreIInv, CacheIsResolution, Answer
  <2>2. Len(patches) \in 0 .. Len(patches) /\ journal \in Journal
        /\ patches \in Seq(Patch)
    BY <1>1 DEF StoreIInv, StoreTypeOK
  <2>3. PICK st \in State : ResolvedState = Fallen(st)
    BY <2>2, OverlayTyped DEF ResolvedState, Resolution
  <2> QED BY <2>1, <2>3, FallenRests DEF NothingRestsOnUnsupported
<1> QED BY StoreInductive, <1>1, PTL

-----------------------------------------------------------------------------
(* The queue and the folds: their inductive invariant.                     *)

\* A worker that is not idle holds a packet and the record it was taken with;
\* a result is what the commit said, or what the store had.
Busy == [pc : {"ask", "project"}, packet : Packet, record : Record,
         reviewing : BOOLEAN, result : Status \cup {"replayed", None}]

\* Type invariant of all that the theorems are about: the order of the records
\* (age) decides only which is taken.
TypeOK ==
  /\ queue \in [Packet -> Record \cup {None}]
  /\ stored \in [Packet -> Status \cup {None}]
  /\ reviewed \in [Packet -> Status \cup {None}]
  /\ whole \subseteq Packet /\ lastCommit \in (Packet \X BOOLEAN) \cup {None}
  /\ work \in [Worker -> Busy \cup {Idle}]
  /\ fold \subseteq Packet /\ folded \subseteq Packet
  /\ again \subseteq Packet

\* A packet waits for its review only when it is stored whole, in the queue and in
\* the record a worker holds.
ReviewFollows(r, p) == Reviewing(r) => stored[p] # None /\ p \in whole

\* The transaction committed last left a manifest, of the packet or of its review, and
\* the packet's claims.
CursorInv ==
  lastCommit # None =>
    /\ stored[lastCommit[1]] # None /\ lastCommit[1] \in whole
    /\ lastCommit[2] => reviewed[lastCommit[1]] # None

\* A worker's record is one it may have taken; a result that completes the packet
\* is the store's, or the packet was extracted again.
WorkerInv(w) ==
  LET o == work[w] IN
  o # Idle =>
    /\ o.record.status \in Actionable /\ o.reviewing = Reviewing(o.record)
    /\ ReviewFollows(o.record, o.packet) /\ Queued(o.packet)
    /\ o.pc = "project" =>
         /\ stored[o.packet] # None /\ o.packet \in whole
         /\ ~o.reviewing /\ o.result # "partial" => Resolved(o.packet) \/ o.packet \in again
         /\ o.reviewing /\ o.result = "committed" => Resolved(o.packet) \/ o.packet \in again
WorkInv == \A w \in Worker : WorkerInv(w)

\* What the queue says of a packet.
RecordInv(p) ==
  Queued(p) =>
    /\ ReviewFollows(queue[p], p)
    /\ queue[p].status = "completed" => Resolved(p) \/ p \in again
    /\ queue[p].status # "pending" => p \in whole
QueueInv == \A p \in Packet : RecordInv(p)

\* The packets that have a manifest are those of the queue.
StoreInv == \A p \in Packet : stored[p] # None => Queued(p)

IInv == TypeOK /\ CursorInv /\ WorkInv /\ QueueInv /\ StoreInv

-----------------------------------------------------------------------------
(* What only grows.                                                        *)

\* Manifests and reviews are written once, and histories are not unwritten.
Grows ==
  /\ \A p \in Packet : stored[p] # None => stored'[p] = stored[p]
  /\ \A p \in Packet : reviewed[p] # None => reviewed'[p] = reviewed[p]
  /\ again \subseteq again' /\ whole \subseteq whole'

\* A record is replaced, never taken out of the queue.
QueueGrows == \A p \in Packet : Queued(p) => queue'[p] # None

LEMMA StatusIs == Status = {"partial", "committed"} /\ None \notin Status
<1>1. Status \subseteq {"partial", "committed"} BY DEF Status
<1>2. "partial" \in Status
  <2>1. {"rejected"} \in SUBSET Verdict BY DEF Verdict
  <2> QED BY <2>1 DEF Status
<1>3. "committed" \in Status
  <2>1. {"verified"} \in SUBSET Verdict BY DEF Verdict
  <2>2. "rejected" \notin {"verified"} OBVIOUS
  <2> QED BY <2>1, <2>2 DEF Status
<1> QED BY <1>1, <1>2, <1>3, MemoryAssumption

\* What is resolved stays resolved.
LEMMA ResolvedStays ==
  ASSUME Grows, NEW p \in Packet
  PROVE  /\ stored[p] # None => stored'[p] # None
         /\ reviewed[p] # None => reviewed'[p] # None
         /\ Resolved(p) => Resolved(p)'
<1>1. "committed" # None BY StatusIs
<1> QED BY <1>1 DEF Grows, Resolved

\* A worker that does nothing in a step is as right as before.
LEMMA WorkerKept ==
  ASSUME TypeOK, Grows, QueueGrows, NEW w \in Worker, WorkerInv(w), work'[w] = work[w]
  PROVE  WorkerInv(w)'
<1> SUFFICES ASSUME work[w] # Idle PROVE WorkerInv(w)'
  BY DEF WorkerInv
<1> DEFINE o == work[w]
<1>1. o.packet \in Packet BY DEF TypeOK, Busy
<1>2. /\ stored[o.packet] # None => stored'[o.packet] # None
      /\ Resolved(o.packet) => Resolved(o.packet)'
  BY <1>1, ResolvedStays
<1>3. again \subseteq again' /\ whole \subseteq whole' BY DEF Grows
<1>4. Queued(o.packet) => Queued(o.packet)' BY <1>1 DEF QueueGrows, Queued
<1> QED BY <1>2, <1>3, <1>4 DEF WorkerInv, ReviewFollows

\* So is a record that is not written.
LEMMA RecordKept ==
  ASSUME Grows, NEW p \in Packet, RecordInv(p), queue'[p] = queue[p]
  PROVE  RecordInv(p)'
<1>1. /\ stored[p] # None => stored'[p] # None
      /\ Resolved(p) => Resolved(p)'
  BY ResolvedStays
<1>2. again \subseteq again' /\ whole \subseteq whole' BY DEF Grows
<1> QED BY <1>1, <1>2 DEF RecordInv, ReviewFollows, Queued

\* The store is left alone by most steps.
LEMMA StoreSame ==
  ASSUME UNCHANGED <<stored, reviewed, whole, lastCommit, folded, again>>,
         QueueGrows, CursorInv, StoreInv
  PROVE  Grows /\ CursorInv' /\ StoreInv'
  BY DEF Grows, QueueGrows, Queued, CursorInv, StoreInv

\* An idle worker is not a busy one.
LEMMA IdleIsNot == Idle \notin Busy /\ Idle.pc = "idle"
  BY DEF Idle, Busy

-----------------------------------------------------------------------------
(* The steps that only queue.                                              *)

LEMMA PutWrites ==
  ASSUME NEW p, NEW r, Put(p, r)
  PROVE  queue' = [queue EXCEPT ![p] = r]
  BY Zenon DEF Put

LEMMA InitIInv == Init => IInv
<1> SUFFICES ASSUME Init PROVE IInv
  OBVIOUS
<1>1. /\ queue = [p \in Packet |-> None] /\ stored = [p \in Packet |-> None]
      /\ reviewed = [p \in Packet |-> None]
      /\ whole = {} /\ lastCommit = None /\ work = [w \in Worker |-> Idle]
      /\ fold = {} /\ folded = {} /\ again = {}
  BY DEF Init
<1>2. TypeOK BY <1>1 DEF TypeOK
<1>3. CursorInv /\ StoreInv BY <1>1 DEF CursorInv, StoreInv
<1>4. WorkInv BY <1>1 DEF WorkInv, WorkerInv
<1>5. QueueInv BY <1>1 DEF QueueInv, RecordInv, Queued
<1> QED BY <1>2, <1>3, <1>4, <1>5 DEF IInv

\* Records are written new, promoted to another class, or become due.
LEMMA QueueingKeeps ==
  ASSUME IInv, queue' \in [Packet -> Record \cup {None}],
         \A p \in Packet : queue'[p] # queue[p] =>
           /\ queue'[p] # None
           /\ \/ queue'[p].status = "pending"
              \/ Queued(p) /\ queue'[p].status = queue[p].status,
         UNCHANGED <<stored, reviewed, whole, lastCommit, work, fold, folded, again>>
  PROVE  IInv'
<1>1. TypeOK /\ CursorInv /\ WorkInv /\ QueueInv /\ StoreInv
  BY DEF IInv
<1>0. QueueGrows BY DEF QueueGrows, Queued
<1>2. Grows /\ CursorInv' /\ StoreInv' BY <1>0, <1>1, StoreSame
<1>3. TypeOK' BY <1>1 DEF TypeOK
<1>4. WorkInv' BY <1>0, <1>1, <1>2, WorkerKept DEF WorkInv
<1>5. QueueInv'
  <2> SUFFICES ASSUME NEW p \in Packet PROVE RecordInv(p)'
    BY DEF QueueInv
  <2>1. RecordInv(p) BY <1>1 DEF QueueInv
  <2>2. CASE queue'[p] = queue[p] BY <1>2, <2>1, <2>2, RecordKept
  <2>3. CASE queue'[p] # queue[p] /\ queue'[p].status = "pending"
    BY <2>3 DEF RecordInv, ReviewFollows, Reviewing
  <2>4. CASE Queued(p) /\ queue'[p].status = queue[p].status
    <3>1. /\ stored'[p] = stored[p] /\ again' = again /\ whole' = whole
          /\ Resolved(p) => Resolved(p)'
      BY <1>2, ResolvedStays
    <3> QED BY <2>1, <2>4, <3>1 DEF RecordInv, ReviewFollows, Reviewing
  <2> QED BY <2>2, <2>3, <2>4
<1> QED BY <1>2, <1>3, <1>4, <1>5 DEF IInv

LEMMA EnsureTurnKeeps ==
  ASSUME IInv, NEW p \in Packet, EnsureTurn(p)
  PROVE  IInv'
<1>1. /\ Put(p, Pending(Live))
      /\ UNCHANGED <<stored, reviewed, whole, lastCommit, work, fold, folded, again>>
  BY Zenon DEF EnsureTurn
<1>2. queue' = [queue EXCEPT ![p] = Pending(Live)] BY <1>1, PutWrites
<1>3. Pending(Live) \in Record /\ Pending(Live).status = "pending"
  BY DEF Pending, Record
<1>4. queue \in [Packet -> Record \cup {None}] BY DEF IInv, TypeOK
<1>5. None \notin Record BY MemoryAssumption
<1> HIDE DEF IInv
<1> QED BY <1>1, <1>2, <1>3, <1>4, <1>5, QueueingKeeps

LEMMA RebuildKeeps ==
  ASSUME IInv, NEW batch, NEW class \in Rebuilt, Rebuild(batch, class)
  PROVE  IInv'
<1>1. PICK new, promoted :
        /\ \A p \in promoted : Queued(p)
        /\ queue' = [p \in Packet |-> IF p \in new THEN Pending(class)
                                     ELSE IF p \in promoted THEN [queue[p] EXCEPT !.class = class]
                                     ELSE queue[p]]
  <2> DEFINE n == {p \in batch : ~Queued(p) /\ Covered(p) = "none"}
             m == {p \in batch : Queued(p) /\ queue[p].status # "completed"
                                           /\ class < queue[p].class}
  <2>1. queue' = [p \in Packet |-> IF p \in n THEN Pending(class)
                                  ELSE IF p \in m THEN [queue[p] EXCEPT !.class = class]
                                  ELSE queue[p]]
    BY Zenon DEF Rebuild, EnqueueMany
  <2>2. \A p \in m : Queued(p) OBVIOUS
  <2> HIDE DEF n, m
  <2> QED BY <2>1, <2>2
<1>2. UNCHANGED <<stored, reviewed, whole, lastCommit, work, fold, folded, again>>
  BY Zenon DEF Rebuild, EnqueueMany
<1>3. class \in {Live, Priority, Historical} BY MemoryAssumption
<1>4. Pending(class) \in Record /\ Pending(class).status = "pending"
  BY <1>3 DEF Pending, Record
<1>5. queue \in [Packet -> Record \cup {None}] BY DEF IInv, TypeOK
<1>6. \A p \in Packet : Queued(p) =>
        /\ [queue[p] EXCEPT !.class = class] \in Record
        /\ [queue[p] EXCEPT !.class = class].status = queue[p].status
  BY <1>3, <1>5 DEF Queued, Record
<1>7. queue' \in [Packet -> Record \cup {None}]
  BY <1>1, <1>4, <1>5, <1>6
<1>9. None \notin Record BY MemoryAssumption
<1>8. \A p \in Packet : queue'[p] # queue[p] =>
           /\ queue'[p] # None
           /\ \/ queue'[p].status = "pending"
              \/ Queued(p) /\ queue'[p].status = queue[p].status
  BY <1>1, <1>4, <1>6, <1>9
<1> QED BY <1>2, <1>7, <1>8, QueueingKeeps

LEMMA BackoffKeeps ==
  ASSUME IInv, NEW p \in Packet, BackoffElapses(p)
  PROVE  IInv'
<1>1. /\ Queued(p) /\ queue' = [queue EXCEPT ![p].due = TRUE]
      /\ UNCHANGED <<stored, reviewed, whole, lastCommit, work, fold, folded, again>>
  BY DEF BackoffElapses
<1>2. queue \in [Packet -> Record \cup {None}] BY DEF IInv, TypeOK
<1>3. queue[p] \in Record BY <1>1, <1>2 DEF Queued
<1>4. queue'[p] \in Record /\ queue'[p].status = queue[p].status
  BY <1>1, <1>2, <1>3 DEF Record
<1>5. \A q \in Packet \ {p} : queue'[q] = queue[q] BY <1>1, <1>2
<1>6. queue' \in [Packet -> Record \cup {None}]
  <2>1. DOMAIN queue' = Packet /\ queue' = [q \in Packet |-> queue'[q]] BY <1>1, <1>2
  <2> QED BY <1>2, <1>4, <1>5, <2>1
<1>7. None \notin Record BY MemoryAssumption
<1> QED BY <1>1, <1>4, <1>5, <1>6, <1>7, QueueingKeeps

-----------------------------------------------------------------------------
(* The steps that take a packet or let it go.                              *)

\* A packet that is due is taken with its record; when its transaction was the
\* last one committed, the result is the store's.
LEMMA TakenIsRight ==
  ASSUME TypeOK, CursorInv, QueueInv, NEW p \in Packet, Due(p),
         NEW o, o = Taken(p)
  PROVE  /\ o \in Busy /\ o.packet = p /\ o.record = queue[p]
         /\ o.record.status \in Actionable /\ o.reviewing = Reviewing(o.record)
         /\ ReviewFollows(o.record, p) /\ Queued(p)
         /\ o.pc = "project" =>
              /\ stored[p] # None /\ p \in whole
              /\ ~o.reviewing /\ o.result # "partial" => Resolved(p)
              /\ o.reviewing /\ o.result = "committed" => Resolved(p)
<1> DEFINE reviewing == Reviewing(queue[p])
<1>1. queue[p] \in Record /\ queue[p].status \in Actionable
  BY DEF TypeOK, Due, Queued
<1>2. reviewing \in BOOLEAN BY DEF Reviewing
<1>3. ReviewFollows(queue[p], p) /\ Queued(p)
  BY DEF QueueInv, RecordInv, Due
<1>4. stored[p] \in Status \cup {None} /\ reviewed[p] \in Status \cup {None}
  BY DEF TypeOK
<1>5. CASE lastCommit # Transaction(p, reviewing)
  <2>1. o = [pc |-> "ask", packet |-> p, record |-> queue[p],
             reviewing |-> reviewing, result |-> None]
    BY <1>5 DEF Taken
  <2> HIDE DEF reviewing
  <2>2. /\ o.pc = "ask" /\ o.packet = p /\ o.record = queue[p] /\ o.reviewing = reviewing
        /\ o \in Busy
    BY <1>1, <1>2, <2>1 DEF Busy
  <2> QED BY <1>1, <1>3, <2>2 DEF reviewing
<1>6. CASE lastCommit = Transaction(p, reviewing)
  <2>1. o = [pc |-> "project", packet |-> p, record |-> queue[p], reviewing |-> reviewing,
             result |-> IF reviewing THEN reviewed[p] ELSE stored[p]]
    BY <1>6 DEF Taken
  <2>2. lastCommit # None /\ lastCommit[1] = p /\ lastCommit[2] = reviewing
    <3>1. Transaction(p, reviewing) = <<p, reviewing>> BY DEF Transaction
    <3>2. Transaction(p, reviewing) \in Packet \X BOOLEAN BY <1>2, <3>1
    <3> QED BY <1>6, <3>1, <3>2, MemoryAssumption
  <2>3. stored[p] # None /\ p \in whole /\ (reviewing => reviewed[p] # None)
    BY <2>2 DEF CursorInv
  <2> HIDE DEF reviewing
  <2>4. /\ o.pc = "project" /\ o.packet = p /\ o.record = queue[p] /\ o.reviewing = reviewing
        /\ o.result = IF reviewing THEN reviewed[p] ELSE stored[p]
        /\ o \in Busy
    BY <1>1, <1>2, <1>4, <2>1 DEF Busy
  <2>5. ~reviewing /\ o.result # "partial" => Resolved(p)
    BY <1>4, <2>3, <2>4, StatusIs DEF Resolved
  <2>6. reviewing /\ o.result = "committed" => Resolved(p)
    BY <2>3, <2>4 DEF Resolved
  <2> QED BY <1>1, <1>3, <2>3, <2>4, <2>5, <2>6 DEF reviewing
<1> QED BY <1>5, <1>6

LEMMA TakingKeeps ==
  ASSUME IInv, work' \in [Worker -> Busy \cup {Idle}], fold' \subseteq Packet,
         \A w \in Worker : \/ work'[w] = work[w]
                           \/ work'[w] = Idle
                           \/ \E p \in Packet : Due(p) /\ work'[w] = Taken(p),
         UNCHANGED <<queue, stored, reviewed, whole, lastCommit, folded, again>>
  PROVE  IInv'
<1>1. TypeOK /\ CursorInv /\ WorkInv /\ QueueInv /\ StoreInv
  BY DEF IInv
<1>0. QueueGrows BY DEF QueueGrows, Queued
<1>2. Grows /\ CursorInv' /\ StoreInv' BY <1>0, <1>1, StoreSame
<1>3. TypeOK' BY <1>1 DEF TypeOK
<1>4. QueueInv' BY <1>1, <1>2, RecordKept DEF QueueInv
<1>5. WorkInv'
  <2> SUFFICES ASSUME NEW w \in Worker PROVE WorkerInv(w)'
    BY DEF WorkInv
  <2>1. CASE work'[w] = work[w] BY <1>0, <1>1, <1>2, <2>1, WorkerKept DEF WorkInv
  <2>2. CASE work'[w] = Idle BY <2>2 DEF WorkerInv, Idle
  <2>3. CASE \E p \in Packet : Due(p) /\ work'[w] = Taken(p)
    <3>1. PICK p \in Packet : Due(p) /\ work'[w] = Taken(p) BY <2>3
    <3> DEFINE o == work'[w]
    <3>2. o = Taken(p) BY <3>1
    <3> HIDE DEF o
    <3>3. /\ o \in Busy /\ o.packet = p /\ o.record = queue[p]
          /\ o.record.status \in Actionable /\ o.reviewing = Reviewing(o.record)
          /\ ReviewFollows(o.record, p) /\ Queued(p)
          /\ o.pc = "project" =>
               /\ stored[p] # None /\ p \in whole
               /\ ~o.reviewing /\ o.result # "partial" => Resolved(p)
               /\ o.reviewing /\ o.result = "committed" => Resolved(p)
      BY <1>1, <3>1, <3>2, TakenIsRight
    <3>4. Resolved(p) => Resolved(p)' BY <1>2, ResolvedStays
    <3>5. Reviewing(o.record) => stored'[p] # None /\ p \in whole'
      BY <3>3 DEF ReviewFollows
    <3>6. Queued(p)' /\ whole' = whole /\ again' = again BY <3>3 DEF Queued
    <3> QED BY <3>3, <3>4, <3>5, <3>6 DEF WorkerInv, ReviewFollows, o
  <2> QED BY <2>1, <2>2, <2>3
<1> QED BY <1>2, <1>3, <1>4, <1>5 DEF IInv

LEMMA OthersKeep ==
  ASSUME IInv,
         \/ \E batch \in Batch : FoldBegins(batch)
         \/ FullMode /\ EnsurePackets
         \/ CycleBegins \/ Die \/ Boot \/ UNCHANGED vars
  PROVE  IInv'
<1>1. TypeOK /\ CursorInv /\ QueueInv BY DEF IInv
<1>2. work \in [Worker -> Busy \cup {Idle}] /\ fold \subseteq Packet
  BY <1>1 DEF TypeOK
<1>3. UNCHANGED <<queue, stored, reviewed, whole, lastCommit, folded, again>>
  BY DEF FoldBegins, EnsurePackets, CycleBegins, Die, Boot, vars, durable
<1>4. ASSUME NEW w \in Worker, NEW p \in Packet, Due(p),
             work' = [work EXCEPT ![w] = Taken(p)], fold' = fold
      PROVE  IInv'
  <2>1. Taken(p) \in Busy BY <1>1, <1>4, TakenIsRight
  <2>2. work' \in [Worker -> Busy \cup {Idle}] BY <1>2, <1>4, <2>1
  <2>3. \A v \in Worker : work'[v] = work[v] \/ (\E q \in Packet : Due(q) /\ work'[v] = Taken(q))
    BY <1>2, <1>4
  <2>4. fold' \subseteq Packet BY <1>2, <1>4
  <2> QED BY <1>3, <2>2, <2>3, <2>4, TakingKeeps
<1>5. ASSUME work' = work, fold' \subseteq Packet PROVE IInv'
  BY <1>2, <1>3, <1>5, TakingKeeps
<1>6. CASE \E batch \in Batch : FoldBegins(batch)
  <2>1. PICK batch \in Batch : FoldBegins(batch) BY <1>6
  <2>2. work' = work /\ fold' = batch BY <2>1 DEF FoldBegins
  <2>3. batch \subseteq Packet BY MemoryAssumption
  <2> QED BY <1>5, <2>2, <2>3
<1>7. CASE FullMode /\ EnsurePackets
  <2>1. PICK p \in fold : IF Due(p) THEN work' = [work EXCEPT ![Fold] = Taken(p)] /\ fold' = fold
                          ELSE work' = work /\ fold' = {}
    BY <1>7 DEF EnsurePackets
  <2>2. p \in Packet /\ Fold \in Worker BY <1>2, <1>7 DEF Worker
  <2>3. CASE Due(p) BY <1>4, <2>1, <2>2, <2>3
  <2>4. CASE ~Due(p) BY <1>5, <2>1, <2>4
  <2> QED BY <2>3, <2>4
<1>8. CASE CycleBegins
  <2>1. PICK p \in NextPending(Packet) : work' = [work EXCEPT ![Loop] = Taken(p)]
    BY <1>8 DEF CycleBegins
  <2>2. p \in Packet /\ Due(p) BY DEF NextPending
  <2>3. Loop \in Worker /\ fold' = fold BY <1>8 DEF Worker, CycleBegins
  <2> QED BY <1>4, <2>1, <2>2, <2>3
<1>9. CASE Die
  <2>1. work' = [w \in Worker |-> Idle] /\ fold' = {} BY <1>9 DEF Die, Gone
  <2>2. work' \in [Worker -> Busy \cup {Idle}] /\ \A w \in Worker : work'[w] = Idle BY <2>1
  <2>3. fold' \subseteq Packet BY <2>1
  <2> QED BY <1>3, <2>2, <2>3, TakingKeeps
<1>10. CASE Boot \/ UNCHANGED vars
  <2>1. work' = work /\ fold' = fold BY <1>10 DEF Boot, vars
  <2> QED BY <1>2, <1>5, <2>1
<1> QED BY <1>6, <1>7, <1>8, <1>9, <1>10

-----------------------------------------------------------------------------
(* The steps of a worker at its packet.                                    *)

\* What a worker that is not idle holds.
LEMMA Held ==
  ASSUME TypeOK, WorkInv, NEW w \in Worker, work[w].pc \in {"ask", "project"}
  PROVE  /\ work[w] \in Busy /\ work[w] # Idle
         /\ work[w].packet \in Packet /\ work[w].record \in Record
         /\ work[w].record.status \in Actionable
         /\ work[w].reviewing = Reviewing(work[w].record)
         /\ work[w].reviewing => stored[work[w].packet] # None /\ work[w].packet \in whole
         /\ Queued(work[w].packet)
<1>1. work[w] # Idle BY IdleIsNot
<1>2. work[w] \in Busy BY <1>1 DEF TypeOK
<1>3. WorkerInv(w) BY DEF WorkInv
<1> QED BY <1>1, <1>2, <1>3 DEF WorkerInv, Busy, ReviewFollows

\* The record that goes back is the one that was taken: it is not completed, and
\* waits for a review only if its manifest is stored.
LEMMA PutBackWrites ==
  ASSUME IInv, Grows, NEW w \in Worker, work[w].pc \in {"ask", "project"}, PutBack(w)
  PROVE  /\ queue' \in [Packet -> Record \cup {None}]
         /\ work' = [work EXCEPT ![w] = Idle] /\ fold' \subseteq Packet
         /\ QueueInv' /\ QueueGrows
<1> DEFINE o == work[w]
           r == [o.record EXCEPT !.due = FALSE]
<1>1. TypeOK /\ WorkInv /\ QueueInv BY DEF IInv
<1>2. /\ o.packet \in Packet /\ o.record \in Record /\ o.record.status \in Actionable
      /\ o.reviewing = Reviewing(o.record)
      /\ (o.reviewing => stored[o.packet] # None /\ o.packet \in whole)
  BY <1>1, Held
<1>3. r \in Record /\ r.status = o.record.status BY <1>2 DEF Record
<1>4. Put(o.packet, r) /\ Leaves(w, TRUE) BY DEF PutBack
<1> HIDE DEF r
<1>5. queue' = [queue EXCEPT ![o.packet] = r] BY <1>4, PutWrites
<1>6. queue \in [Packet -> Record \cup {None}] /\ fold \subseteq Packet BY <1>1 DEF TypeOK
<1>7. queue' \in [Packet -> Record \cup {None}] BY <1>2, <1>3, <1>5, <1>6
<1>8. work' = [work EXCEPT ![w] = Idle] /\ fold' \in {fold, {}} BY <1>4 DEF Leaves
<1>9. QueueInv'
  <2> SUFFICES ASSUME NEW p \in Packet PROVE RecordInv(p)'
    BY DEF QueueInv
  <2>1. CASE p # o.packet
    <3>1. queue'[p] = queue[p] BY <1>5, <1>6, <2>1
    <3> QED BY <1>1, <3>1, RecordKept DEF QueueInv
  <2>2. CASE p = o.packet
    <3>1. queue'[p] = r BY <1>2, <1>5, <1>6, <2>2
    <3>2. r.status # "completed" /\ (r.status = "pending" \/ Reviewing(r))
      BY <1>2, <1>3 DEF Actionable, Reviewing
    <3>3. Reviewing(r) => stored[p] # None /\ p \in whole
      BY <1>2, <1>3, <2>2 DEF Reviewing
    <3>4. (stored[p] # None => stored'[p] # None) /\ whole \subseteq whole'
      BY ResolvedStays DEF Grows
    <3> QED BY <3>1, <3>2, <3>3, <3>4 DEF RecordInv, ReviewFollows
  <2> QED BY <2>1, <2>2
<1>10. QueueGrows
  <2>1. None \notin Record BY MemoryAssumption
  <2> QED BY <1>3, <1>5, <1>6, <2>1 DEF QueueGrows, Queued
<1> QED BY <1>6, <1>7, <1>8, <1>9, <1>10

\* A worker that let its packet go, and the others.
LEMMA LeavingKeeps ==
  ASSUME TypeOK, WorkInv, Grows, QueueGrows, NEW w \in Worker, work' = [work EXCEPT ![w] = Idle]
  PROVE  work' \in [Worker -> Busy \cup {Idle}] /\ WorkInv'
<1>1. work \in [Worker -> Busy \cup {Idle}] BY DEF TypeOK
<1>2. work' \in [Worker -> Busy \cup {Idle}] BY <1>1
<1>3. ASSUME NEW v \in Worker PROVE WorkerInv(v)'
  <2>1. CASE v = w
    <3>1. work'[v] = Idle BY <1>1, <2>1
    <3> QED BY <3>1 DEF WorkerInv, Idle
  <2>2. CASE v # w
    <3>1. work'[v] = work[v] BY <1>1, <2>2
    <3> QED BY <3>1, WorkerKept DEF WorkInv
  <2> QED BY <2>1, <2>2
<1> QED BY <1>2, <1>3 DEF WorkInv

\* A manifest is written where there is none; what it adds agrees with the
\* worker's result, or the packet was extracted again.
LEMMA ManifestWrites ==
  ASSUME IInv, NEW w \in Worker, work[w].pc = "ask", NEW status \in Status,
         Manifest(w, status), whole \subseteq whole', NEW p, p = work[w].packet
  PROVE  LET o == work[w] IN
         /\ Grows /\ stored' \in [Packet -> Status \cup {None}]
         /\ reviewed' \in [Packet -> Status \cup {None}] /\ again' \subseteq Packet
         /\ stored'[p] # None /\ (o.reviewing => reviewed'[p] # None)
         /\ \A q \in Packet : stored'[q] # None => stored[q] # None \/ q = p
         /\ status = "committed" => Resolved(p)' \/ p \in again'
<1> DEFINE o == work[w]
<1>1. /\ stored \in [Packet -> Status \cup {None}] /\ reviewed \in [Packet -> Status \cup {None}]
      /\ again \subseteq Packet /\ None \notin Status
  BY StatusIs DEF IInv, TypeOK
<1>2. p \in Packet /\ o.reviewing \in BOOLEAN /\ (o.reviewing => stored[p] # None)
  <2>1. TypeOK /\ WorkInv BY DEF IInv
  <2> QED BY <2>1, Held DEF Busy
<1>3. /\ stored' = IF o.reviewing \/ stored[p] # None THEN stored
                   ELSE [stored EXCEPT ![p] = status]
      /\ reviewed' = IF ~o.reviewing \/ reviewed[p] # None THEN reviewed
                     ELSE [reviewed EXCEPT ![p] = status]
      /\ again' = IF (IF o.reviewing THEN reviewed ELSE stored)[p] # None
                  THEN again \cup {p} ELSE again
  BY DEF Manifest
<1> HIDE DEF o
<1>4. CASE o.reviewing /\ reviewed[p] # None
  <2>1. stored' = stored /\ reviewed' = reviewed /\ again' = again \cup {p}
    BY <1>3, <1>4
  <2> QED BY <1>1, <1>2, <1>4, <2>1 DEF Grows, o
<1>5. CASE o.reviewing /\ reviewed[p] = None
  <2>1. stored' = stored /\ reviewed' = [reviewed EXCEPT ![p] = status] /\ again' = again
    BY <1>3, <1>5
  <2>2. reviewed'[p] = status /\ \A q \in Packet \ {p} : reviewed'[q] = reviewed[q]
    BY <1>1, <1>2, <2>1
  <2>3. Grows BY <1>5, <2>1, <2>2 DEF Grows
  <2>4. reviewed' \in [Packet -> Status \cup {None}] BY <1>1, <1>2, <2>1
  <2>5. status = "committed" => Resolved(p)'
    BY <1>2, <1>5, <2>1, <2>2 DEF Resolved
  <2> QED BY <1>1, <1>2, <1>5, <2>1, <2>2, <2>3, <2>4, <2>5 DEF o
<1>6. CASE ~o.reviewing /\ stored[p] # None
  <2>1. stored' = stored /\ reviewed' = reviewed /\ again' = again \cup {p}
    BY <1>3, <1>6
  <2> QED BY <1>1, <1>2, <1>6, <2>1 DEF Grows, o
<1>7. CASE ~o.reviewing /\ stored[p] = None
  <2>1. reviewed' = reviewed /\ stored' = [stored EXCEPT ![p] = status] /\ again' = again
    BY <1>3, <1>7
  <2>2. stored'[p] = status /\ \A q \in Packet \ {p} : stored'[q] = stored[q]
    BY <1>1, <1>2, <2>1
  <2>3. Grows BY <1>7, <2>1, <2>2 DEF Grows
  <2>4. stored' \in [Packet -> Status \cup {None}] BY <1>1, <1>2, <2>1
  <2>5. status = "committed" => Resolved(p)' BY <2>2 DEF Resolved
  <2> QED BY <1>1, <1>2, <1>7, <2>1, <2>2, <2>3, <2>4, <2>5 DEF o
<1> QED BY <1>2, <1>4, <1>5, <1>6, <1>7

LEMMA FailsKeeps ==
  ASSUME IInv, NEW w \in Worker, Fails(w)
  PROVE  IInv'
<1>1. /\ work[w].pc \in {"ask", "project"} /\ PutBack(w)
      /\ UNCHANGED <<stored, reviewed, whole, lastCommit, folded, again>>
  BY DEF Fails
<1>2. TypeOK /\ CursorInv /\ WorkInv /\ QueueInv /\ StoreInv
  BY DEF IInv
<1>0. Grows BY <1>1 DEF Grows
<1>4. /\ queue' \in [Packet -> Record \cup {None}]
      /\ work' = [work EXCEPT ![w] = Idle] /\ fold' \subseteq Packet /\ QueueInv' /\ QueueGrows
  BY <1>0, <1>1, PutBackWrites
<1>3. Grows /\ CursorInv' /\ StoreInv' BY <1>1, <1>2, <1>4, StoreSame
<1>5. work' \in [Worker -> Busy \cup {Idle}] /\ WorkInv'
  BY <1>2, <1>3, <1>4, LeavingKeeps
<1>6. TypeOK' BY <1>1, <1>2, <1>4, <1>5 DEF TypeOK
<1> QED BY <1>3, <1>4, <1>5, <1>6 DEF IInv

LEMMA CommitPacketKeeps ==
  ASSUME IInv, NEW w \in Worker, Commits(w)
  PROVE  IInv'
<1> DEFINE o == work[w]
<1>0. PICK p : p = o.packet OBVIOUS
<1> DEFINE tx == Transaction(p, o.reviewing)
<1>1. TypeOK /\ CursorInv /\ WorkInv /\ QueueInv /\ StoreInv
  BY DEF IInv
<1>2. o.pc = "ask" /\ UNCHANGED <<queue, fold, folded>>
  BY DEF Commits
<1>3. /\ o \in Busy /\ o # Idle /\ p \in Packet /\ o.record \in Record
      /\ o.record.status \in Actionable /\ o.reviewing = Reviewing(o.record)
      /\ o.reviewing \in BOOLEAN /\ (o.reviewing => stored[p] # None /\ p \in whole)
      /\ Queued(p)
  <2>1. o.pc \in {"ask", "project"} BY <1>2
  <2> QED BY <1>0, <1>1, <2>1, Held DEF Busy
<1>4. tx \in Packet \X BOOLEAN /\ tx[1] = p /\ tx[2] = o.reviewing /\ tx # None
  <2>1. tx = <<p, o.reviewing>> BY DEF Transaction
  <2>2. <<p, o.reviewing>> \in Packet \X BOOLEAN BY <1>3
  <2> QED BY <2>1, <2>2, MemoryAssumption
<1>9. QueueGrows /\ Queued(p)' BY <1>2, <1>3 DEF QueueGrows, Queued
<1>5. ASSUME NEW result \in Status \cup {"replayed"}, Grows, stored'[p] # None, p \in whole',
             Projecting(w, result),
             ~o.reviewing /\ result # "partial" => Resolved(p)' \/ p \in again',
             o.reviewing /\ result = "committed" => Resolved(p)' \/ p \in again'
      PROVE  work' \in [Worker -> Busy \cup {Idle}] /\ WorkInv'
  <2> DEFINE n == [o EXCEPT !.pc = "project", !.result = result]
  <2>1. work' = [work EXCEPT ![w] = n] BY <1>5 DEF Projecting
  <2>2. /\ n \in Busy /\ n.pc = "project" /\ n.result = result /\ n.packet = p
        /\ n.record = o.record /\ n.reviewing = o.reviewing
    BY <1>0, <1>3 DEF Busy
  <2> HIDE DEF n
  <2>3. work \in [Worker -> Busy \cup {Idle}] BY <1>1 DEF TypeOK
  <2>4. work'[w] = n /\ work' \in [Worker -> Busy \cup {Idle}] BY <2>1, <2>2, <2>3
  <2>5. WorkerInv(w)'
    BY <1>3, <1>5, <1>9, <2>2, <2>4 DEF WorkerInv, ReviewFollows
  <2>6. ASSUME NEW v \in Worker \ {w} PROVE WorkerInv(v)'
    <3>1. work'[v] = work[v] BY <2>1, <2>3
    <3> QED BY <1>1, <1>5, <1>9, <3>1, WorkerKept DEF WorkInv
  <2> QED BY <2>4, <2>5, <2>6 DEF WorkInv
<1>6. PICK status \in Status :
        IF lastCommit = tx
        THEN /\ Projecting(w, "replayed")
             /\ again' = again \cup {p}
             /\ UNCHANGED <<stored, reviewed, whole, lastCommit>>
        ELSE /\ Manifest(w, status)
             /\ whole' = whole \cup {p}
             /\ lastCommit' = tx
             /\ Projecting(w, status)
  BY <1>0 DEF Commits
<1>7. CASE lastCommit = tx
  <2>1. /\ Projecting(w, "replayed") /\ again' = again \cup {p}
        /\ UNCHANGED <<stored, reviewed, whole, lastCommit>>
    BY <1>6, <1>7
  <2>2. Grows BY <2>1 DEF Grows
  <2>3. stored'[p] # None /\ p \in whole' BY <1>1, <1>4, <1>7, <2>1 DEF CursorInv
  <2>4. work' \in [Worker -> Busy \cup {Idle}] /\ WorkInv'
    BY <1>5, <2>1, <2>2, <2>3
  <2>5. CursorInv' /\ StoreInv'
    BY <1>1, <1>2, <2>1 DEF CursorInv, StoreInv, Queued
  <2>6. QueueInv' BY <1>1, <1>2, <2>2, RecordKept DEF QueueInv
  <2>7. TypeOK' BY <1>1, <1>2, <1>3, <2>1, <2>4 DEF TypeOK
  <2> QED BY <2>4, <2>5, <2>6, <2>7 DEF IInv
<1>8. CASE lastCommit # tx
  <2>1. /\ Manifest(w, status) /\ whole' = whole \cup {p} /\ lastCommit' = tx
        /\ Projecting(w, status)
    BY <1>6, <1>8
  <2>2. /\ Grows /\ stored' \in [Packet -> Status \cup {None}]
        /\ reviewed' \in [Packet -> Status \cup {None}] /\ again' \subseteq Packet
        /\ stored'[p] # None /\ (o.reviewing => reviewed'[p] # None)
        /\ \A q \in Packet : stored'[q] # None => stored[q] # None \/ q = p
        /\ status = "committed" => Resolved(p)' \/ p \in again'
    BY <1>0, <1>2, <2>1, ManifestWrites
  <2>3. status \in {"partial", "committed"} BY StatusIs
  <2>4. work' \in [Worker -> Busy \cup {Idle}] /\ WorkInv'
    BY <1>5, <2>1, <2>2, <2>3
  <2>5. CursorInv' BY <1>4, <2>1, <2>2 DEF CursorInv
  <2>6. StoreInv' BY <1>1, <1>2, <1>3, <2>2 DEF StoreInv, Queued
  <2>8. QueueInv' BY <1>1, <1>2, <2>2, RecordKept DEF QueueInv
  <2>9. TypeOK' BY <1>1, <1>2, <1>3, <1>4, <2>1, <2>2, <2>4 DEF TypeOK
  <2> QED BY <2>4, <2>5, <2>6, <2>8, <2>9 DEF IInv
<1> QED BY <1>7, <1>8

\* A commit that breaks off, by an error or with the process.
LEMMA BrokenCommit ==
  ASSUME IInv, NEW w \in Worker, work[w].pc = "ask", NEW status \in Status,
         Manifest(w, status), whole' \in {whole, whole \cup {work[w].packet}},
         UNCHANGED <<lastCommit, folded>>, QueueGrows,
         queue' \in [Packet -> Record \cup {None}], fold' \subseteq Packet, QueueInv',
         work' \in [Worker -> Busy \cup {Idle}], WorkInv'
  PROVE  IInv'
<1>0. PICK p : p = work[w].packet OBVIOUS
<1>1. TypeOK /\ CursorInv /\ WorkInv /\ QueueInv /\ StoreInv
  BY DEF IInv
<1>2. p \in Packet /\ Queued(p)
  <2>1. work[w].pc \in {"ask", "project"} OBVIOUS
  <2> QED BY <1>0, <1>1, <2>1, Held
<1>3. /\ Grows /\ stored' \in [Packet -> Status \cup {None}]
      /\ reviewed' \in [Packet -> Status \cup {None}] /\ again' \subseteq Packet
      /\ \A q \in Packet : stored'[q] # None => stored[q] # None \/ q = p
  BY <1>0, ManifestWrites
<1>4. CursorInv'
  <2> SUFFICES ASSUME lastCommit # None
               PROVE  /\ stored'[lastCommit[1]] # None /\ lastCommit[1] \in whole'
                      /\ lastCommit[2] => reviewed'[lastCommit[1]] # None
    BY DEF CursorInv
  <2>1. lastCommit[1] \in Packet BY <1>1 DEF TypeOK
  <2> QED BY <1>1, <1>3, <2>1, ResolvedStays DEF CursorInv
<1>5. StoreInv' BY <1>1, <1>2, <1>3 DEF StoreInv, QueueGrows, Queued
<1>7. TypeOK' BY <1>0, <1>1, <1>2, <1>3 DEF TypeOK
<1> QED BY <1>4, <1>5, <1>7 DEF IInv

LEMMA CommitBreaksKeeps ==
  ASSUME IInv, NEW w \in Worker, CommitStops(w)
  PROVE  IInv'
<1>1. /\ work[w].pc = "ask" /\ PutBack(w) /\ UNCHANGED <<lastCommit, folded>>
  BY DEF CommitStops, StopsAt
<1>2. PICK status \in Status : /\ Manifest(w, status)
                               /\ whole' \in {whole, whole \cup {work[w].packet}}
  BY DEF CommitStops, StopsAt
<1>3. Grows BY <1>1, <1>2, ManifestWrites
<1>4. /\ queue' \in [Packet -> Record \cup {None}]
      /\ work' = [work EXCEPT ![w] = Idle] /\ fold' \subseteq Packet /\ QueueInv'
      /\ QueueGrows
  <2>1. work[w].pc \in {"ask", "project"} BY <1>1
  <2> QED BY <1>1, <1>3, <2>1, PutBackWrites
<1>5. work' \in [Worker -> Busy \cup {Idle}] /\ WorkInv'
  BY <1>3, <1>4, LeavingKeeps DEF IInv
<1> QED BY <1>1, <1>2, <1>4, <1>5, BrokenCommit

LEMMA DieCommittingKeeps ==
  ASSUME IInv, NEW w \in Worker, DieCommitting(w)
  PROVE  IInv'
<1>1. /\ work[w].pc = "ask"
      /\ work' = [v \in Worker |-> Idle] /\ fold' = {}
      /\ UNCHANGED <<queue, lastCommit, folded>>
  BY DEF DieCommitting, Gone
<1>2. PICK status \in Status : /\ Manifest(w, status)
                               /\ whole' \in {whole, whole \cup {work[w].packet}}
  BY DEF DieCommitting
<1>3. Grows BY <1>1, <1>2, ManifestWrites
<1>4. queue' \in [Packet -> Record \cup {None}] /\ fold' \subseteq Packet
  BY <1>1 DEF IInv, TypeOK
<1>5. QueueInv' BY <1>1, <1>3, RecordKept DEF IInv, QueueInv
<1>6. work' \in [Worker -> Busy \cup {Idle}] /\ WorkInv'
  BY <1>1 DEF WorkInv, WorkerInv
<1>7. QueueGrows BY <1>1 DEF QueueGrows, Queued
<1> QED BY <1>1, <1>2, <1>4, <1>5, <1>6, <1>7, BrokenCommit

\* The outcome completes the packet only on a result that resolved it, or after
\* it was extracted again.
LEMMA FinishesKeeps ==
  ASSUME IInv, NEW w \in Worker, Finishes(w)
  PROVE  IInv'
<1> DEFINE o == work[w]
<1>0. PICK p : p = o.packet OBVIOUS
<1> DEFINE r == [o.record EXCEPT !.status = Outcome(w), !.due = TRUE]
<1>1. TypeOK /\ CursorInv /\ WorkInv /\ QueueInv /\ StoreInv
  BY DEF IInv
<1>2. /\ o.pc = "project" /\ Put(p, r) /\ Leaves(w, FALSE)
      /\ UNCHANGED <<stored, reviewed, whole, lastCommit, folded, again>>
  BY <1>0 DEF Finishes
<1>3. /\ o # Idle /\ p \in Packet /\ o.record \in Record
  <2>1. o.pc \in {"ask", "project"} BY <1>2
  <2> QED BY <1>0, <1>1, <2>1, Held
<1>4. /\ stored[p] # None /\ p \in whole
      /\ ~o.reviewing /\ o.result # "partial" => Resolved(p) \/ p \in again
      /\ o.reviewing /\ o.result = "committed" => Resolved(p) \/ p \in again
  BY <1>0, <1>1, <1>2, <1>3 DEF WorkInv, WorkerInv
<1>5. Outcome(w) \in {"partial_review_pending", "needs_human_review", "completed"}
      /\ (Outcome(w) = "completed" => Resolved(p) \/ p \in again)
  BY <1>4 DEF Outcome
<1>6. r \in Record /\ r.status = Outcome(w) BY <1>3, <1>5 DEF Record
<1> HIDE DEF r
<1>7. queue' = [queue EXCEPT ![p] = r] BY <1>2, PutWrites
<1>8. queue \in [Packet -> Record \cup {None}] BY <1>1 DEF TypeOK
<1>15. QueueGrows
  <2>1. None \notin Record BY MemoryAssumption
  <2> QED BY <1>6, <1>7, <1>8, <2>1 DEF QueueGrows, Queued
<1>9. Grows /\ CursorInv' /\ StoreInv' BY <1>1, <1>2, <1>15, StoreSame
<1>10. QueueInv'
  <2> SUFFICES ASSUME NEW q \in Packet PROVE RecordInv(q)'
    BY DEF QueueInv
  <2>1. CASE q # p
    <3>1. queue'[q] = queue[q] BY <1>7, <1>8, <2>1
    <3> QED BY <1>1, <1>9, <3>1, RecordKept DEF QueueInv
  <2>2. CASE q = p
    <3>1. queue'[q] = r BY <1>3, <1>7, <1>8, <2>2
    <3>2. stored'[q] # None /\ q \in whole' BY <1>2, <1>4, <2>2
    <3>3. Resolved(p) => Resolved(p)' BY <1>3, <1>9, ResolvedStays
    <3>4. r.status = "completed" => Resolved(q)' \/ q \in again'
      BY <1>2, <1>5, <1>6, <2>2, <3>3
    <3> QED BY <3>1, <3>2, <3>4 DEF RecordInv, ReviewFollows
  <2> QED BY <2>1, <2>2
<1>11. work' = [work EXCEPT ![w] = Idle] /\ fold' \subseteq Packet
  BY <1>1, <1>2 DEF Leaves, TypeOK
<1>12. work' \in [Worker -> Busy \cup {Idle}] /\ WorkInv'
  BY <1>1, <1>9, <1>11, <1>15, LeavingKeeps
<1>13. queue' \in [Packet -> Record \cup {None}] BY <1>3, <1>6, <1>7, <1>8
<1>14. TypeOK' BY <1>1, <1>2, <1>11, <1>12, <1>13 DEF TypeOK
<1> QED BY <1>9, <1>10, <1>12, <1>14 DEF IInv

LEMMA FoldBuiltKeeps ==
  ASSUME IInv, FoldBuilt
  PROVE  IInv'
<1>1. TypeOK /\ CursorInv /\ WorkInv /\ QueueInv /\ StoreInv
  BY DEF IInv
<1>2. /\ folded' = folded \cup fold /\ fold' = {}
      /\ UNCHANGED <<queue, stored, reviewed, whole, lastCommit, work, again>>
  BY DEF FoldBuilt, durable
<1>3. Grows BY <1>2 DEF Grows
<1>5. QueueGrows BY <1>2 DEF QueueGrows, Queued
<1>4. CursorInv' /\ StoreInv' BY <1>1, <1>2 DEF CursorInv, StoreInv, Queued
<1>6. WorkInv' BY <1>1, <1>2, <1>3, <1>5, WorkerKept DEF WorkInv
<1>7. QueueInv' BY <1>1, <1>2, <1>3, RecordKept DEF QueueInv
<1>8. TypeOK' BY <1>1, <1>2 DEF TypeOK
<1> QED BY <1>4, <1>6, <1>7, <1>8 DEF IInv

-----------------------------------------------------------------------------
(* The theorems.                                                           *)

\* The inductive invariant holds of every behaviour: of the loop, the folds and
\* the rebuilds, of failures, broken commits, crashes and restarts.
THEOREM SemanticInductive == Spec => []IInv
<1>1. IInv /\ [Next]_vars => IInv'
  BY EnsureTurnKeeps, BackoffKeeps, RebuildKeeps, FailsKeeps, CommitPacketKeeps,
     CommitBreaksKeeps, FinishesKeeps, DieCommittingKeeps, OthersKeep, FoldBuiltKeeps
     DEF Next, Step
<1> QED
  BY InitIInv, <1>1, PTL DEF Spec

\* The queue's records, the manifests, the reviews and what the workers hold keep
\* their shape; the order of the records is left out.
THEOREM SemanticTypeCorrect == Spec => []TypeOK
<1>1. IInv => TypeOK
  BY DEF IInv
<1> QED
  BY SemanticInductive, <1>1, PTL

\* What the queue calls completed is resolved in the store, or was extracted a
\* second time, for any packets and any number of failures
\* (_processQueueRecord, processPacket).
THEOREM CompletedAreResolved == Spec => []CompletedIsResolved
<1>1. IInv => CompletedIsResolved
  BY DEF IInv, QueueInv, RecordInv, CompletedIsResolved
<1> QED
  BY SemanticInductive, <1>1, PTL

\* A packet of which a commit broke off is pending in the queue until it is stored
\* whole, for any workers' interleaving, fold, rebuild and restart (commitPacket,
\* _processQueueRecord, ensurePackets).
THEOREM HalfStoredStaysPending == Spec => []HalfStoredIsRetried
<1>1. IInv => HalfStoredIsRetried
  BY DEF IInv, StoreInv, QueueInv, RecordInv, HalfStoredIsRetried
<1> QED
  BY SemanticInductive, <1>1, PTL

=============================================================================
