--------------------------- MODULE CheckpointProofs ---------------------------
(***************************************************************************)
(* Proofs about GuestCapture for all journals, keys, limits, builds,       *)
(* versions, outputs and environment manifests.  The scan and the cut are  *)
(* related to what a replayable journal is.  The invariant of the life of  *)
(* a checkpoint says what the artifact's tag covers in every phase, so     *)
(* that a changed artifact either fails to open or opens as what was       *)
(* sealed.  The invariant of the output says where each byte is that the   *)
(* guest wrote, so that a captured guest has lost none.  The facts about   *)
(* manifests are in ManifestProofs.                                        *)
(***************************************************************************)
EXTENDS GuestCapture, ManifestProofs

-----------------------------------------------------------------------------
(* The scan.                                                               *)

ScanState ==
  [ok : BOOLEAN, records : Nat, inits : Nat, threads : Nat, snapshots : Nat]

LEMMA ScanRecordType ==
  ASSUME NEW s \in ScanState, NEW r, NEW l \in BOOLEAN
  PROVE  ScanRecord(s, r, l) \in ScanState
  BY DEF ScanRecord, ScanState, Kind

ScanRuns(js, g, n) ==
  /\ DOMAIN g = 0 .. n
  /\ g[0] = ScanStart
  /\ \A i \in 1 .. n : g[i] = ScanRecord(g[i - 1], js[i], i = Len(js))

(* The scan of a journal can be carried to every record. *)
LEMMA ScanRunsOn ==
  ASSUME NEW js, Len(js) \in Nat
  PROVE  \E g : ScanRuns(js, g, Len(js))
<1> DEFINE S == {n \in Nat : \E g : ScanRuns(js, g, n)}
<1>1. 0 \in S
  <2>1. ScanRuns(js, [i \in 0 .. 0 |-> ScanStart], 0)
    BY DEF ScanRuns
  <2> QED BY <2>1
<1>2. ASSUME NEW n \in 1 .. Len(js), n - 1 \in S PROVE n \in S
  <2>1. PICK g : ScanRuns(js, g, n - 1)
    BY <1>2
  <2> DEFINE h == [i \in 0 .. n |->
                     IF i = n THEN ScanRecord(g[n - 1], js[n], n = Len(js)) ELSE g[i]]
  <2>2. h[0] = ScanStart
    BY <2>1 DEF ScanRuns
  <2>3. ASSUME NEW i \in 1 .. n
        PROVE  h[i] = ScanRecord(h[i - 1], js[i], i = Len(js))
    <3>1. h[i - 1] = g[i - 1]
      OBVIOUS
    <3>2. CASE i = n
      BY <3>1, <3>2
    <3>3. CASE i # n
      <4>1. i \in 1 .. (n - 1)
        BY <3>3
      <4>2. h[i] = g[i]
        BY <3>3
      <4> QED BY <2>1, <3>1, <4>1, <4>2, Zenon DEF ScanRuns
    <3> QED BY <3>2, <3>3, Zenon
  <2>4. ScanRuns(js, h, n)
    BY <2>2, <2>3, Zenon DEF ScanRuns
  <2> QED BY <2>4
<1> HIDE DEF S
<1>3. \A n \in 1 .. Len(js) : n - 1 \in S => n \in S
  BY <1>2
<1>4. 0 .. Len(js) \subseteq S
  BY <1>1, <1>3, Climb, Zenon
<1> QED
  BY <1>4 DEF S

LEMMA ScanStatesRun ==
  ASSUME NEW js, Len(js) \in Nat
  PROVE  ScanRuns(js, ScanStates(js), Len(js))
<1> DEFINE P(f) == f = [i \in 0 .. Len(js) |->
                         IF i = 0 THEN ScanStart
                         ELSE ScanRecord(f[i - 1], js[i], i = Len(js))]
<1>1. ScanStates(js) = CHOOSE f : P(f)
  BY DEF ScanStates
<1>2. PICK g : ScanRuns(js, g, Len(js))
  BY ScanRunsOn
<1>3. P([i \in 0 .. Len(js) |-> g[i]])
  BY <1>2 DEF ScanRuns
<1>4. P(ScanStates(js))
  <2> HIDE DEF P
  <2> QED BY <1>1, <1>3, Zenon
<1> QED
  BY <1>4 DEF ScanRuns

(* Where the scan is after i records of a journal. *)
Scanned(js, s, i) ==
  /\ s \in ScanState
  /\ s.records = i
  /\ s.ok <=> \A k \in 1 .. i :
                /\ Kind(js[k]) # "junk"
                /\ Kind(js[k]) = "init" => k = 1
                /\ Kind(js[k]) \in Snapshots => k = Len(js)
  /\ s.ok /\ i > 0 => s.inits = IF Kind(js[1]) = "init" THEN 1 ELSE 0
  /\ i = 0 => s.inits = 0
  /\ s.threads > 0 <=> \E k \in 1 .. i : Kind(js[k]) = "thread"
  /\ s.ok => s.snapshots = IF i = Len(js) /\ i > 0 /\ Kind(js[i]) \in Snapshots THEN 1 ELSE 0

LEMMA ScannedStep ==
  ASSUME NEW js, Len(js) \in Nat, NEW i \in 1 .. Len(js),
         NEW s, Scanned(js, s, i - 1)
  PROVE  Scanned(js, ScanRecord(s, js[i], i = Len(js)), i)
<1> DEFINE t == ScanRecord(s, js[i], i = Len(js))
           k == Kind(js[i])
<1>1. s \in ScanState /\ t \in ScanState
  BY ScanRecordType, Zenon DEF Scanned
<1>2. /\ t.ok <=> /\ s.ok /\ k # "junk"
                  /\ k = "init" => s.records = 0 /\ s.inits = 0
                  /\ k \in Snapshots => i = Len(js)
      /\ t.records = s.records + 1
      /\ t.inits = s.inits + (IF k = "init" THEN 1 ELSE 0)
      /\ t.threads = s.threads + (IF k = "thread" THEN 1 ELSE 0)
      /\ t.snapshots = s.snapshots + (IF k \in Snapshots THEN 1 ELSE 0)
  BY <1>1 DEF ScanRecord, ScanState
<1>3. /\ s.records \in Nat /\ s.inits \in Nat /\ s.threads \in Nat /\ s.snapshots \in Nat
      /\ t.ok \in BOOLEAN /\ s.ok \in BOOLEAN
  BY <1>1 DEF ScanState
<1>4. \A q \in 1 .. i : q \in 1 .. (i - 1) \/ q = i
  OBVIOUS
<1> HIDE DEF t
<1>5. t.records = i
  BY <1>2 DEF Scanned
<1>6. t.ok <=> \A q \in 1 .. i :
                /\ Kind(js[q]) # "junk"
                /\ Kind(js[q]) = "init" => q = 1
                /\ Kind(js[q]) \in Snapshots => q = Len(js)
  BY <1>2, <1>3, <1>4 DEF Scanned
<1>7. t.ok => t.inits = IF Kind(js[1]) = "init" THEN 1 ELSE 0
  <2>1. CASE i = 1
    BY <1>2, <1>3, <2>1 DEF Scanned
  <2>2. CASE i # 1
    BY <1>2, <1>3, <2>2 DEF Scanned
  <2> QED BY <2>1, <2>2, Zenon
<1>8. t.threads > 0 <=> \E q \in 1 .. i : Kind(js[q]) = "thread"
  BY <1>2, <1>3, <1>4 DEF Scanned
<1>9. t.ok => t.snapshots = IF i = Len(js) /\ Kind(js[i]) \in Snapshots THEN 1 ELSE 0
  BY <1>2, <1>3 DEF Scanned
<1> QED
  BY <1>1, <1>5, <1>6, <1>7, <1>8, <1>9 DEF Scanned, t

(* The one pass of scan_journal accepts exactly the well framed journals. *)
LEMMA ScanIsFraming ==
  ASSUME NEW js, js \in Seq(Records)
  PROVE  Scan(js) <=> WellFramed(js)
<1> DEFINE g == ScanStates(js)
           n == Len(js)
           S == {i \in 0 .. n : Scanned(js, g[i], i)}
<1>1. n \in Nat /\ DOMAIN js = 1 .. n
  OBVIOUS
<1>2. ScanRuns(js, g, n)
  BY <1>1, ScanStatesRun
<1>3. 0 \in S
  <2>1. g[0] = ScanStart
    BY <1>2 DEF ScanRuns
  <2>2. Scanned(js, ScanStart, 0)
    BY <1>1 DEF Scanned, ScanStart, ScanState
  <2> QED BY <1>1, <2>1, <2>2
<1>4. ASSUME NEW i \in 1 .. n, i - 1 \in S PROVE i \in S
  <2>1. g[i] = ScanRecord(g[i - 1], js[i], i = Len(js))
    BY <1>2, Zenon DEF ScanRuns
  <2>2. Scanned(js, g[i - 1], i - 1)
    BY <1>4
  <2> HIDE DEF g
  <2>3. Scanned(js, ScanRecord(g[i - 1], js[i], i = Len(js)), i)
    BY <1>1, <2>2, ScannedStep, Zenon
  <2> QED BY <2>1, <2>3
<1>5. Scanned(js, g[n], n)
  <2> HIDE DEF S
  <2>1. \A i \in 1 .. n : i - 1 \in S => i \in S
    BY <1>4, Zenon
  <2>2. 0 .. n \subseteq S
    BY <1>1, <1>3, <2>1, Climb, Zenon
  <2> QED BY <1>1, <2>2 DEF S
<1>6. Scan(js) <=> /\ g[n].ok /\ g[n].inits = 1 /\ g[n].threads > 0 /\ g[n].snapshots = 1
                   /\ Kind(js[n]) \in Snapshots
  BY DEF Scan
<1> HIDE DEF g
<1>7. js # <<>> <=> n > 0
  OBVIOUS
<1>8. CASE n = 0
  BY <1>5, <1>6, <1>7, <1>8 DEF Scanned, WellFramed
<1>9. CASE n > 0
  <2>1. /\ g[n].ok <=> \A k \in 1 .. n :
                         /\ Kind(js[k]) # "junk"
                         /\ Kind(js[k]) = "init" => k = 1
                         /\ Kind(js[k]) \in Snapshots => k = n
        /\ g[n].ok => (g[n].inits = 1 <=> Kind(js[1]) = "init")
        /\ g[n].threads > 0 <=> \E k \in 1 .. n : Kind(js[k]) = "thread"
        /\ g[n].ok => (g[n].snapshots = 1 <=> Kind(js[n]) \in Snapshots)
    BY <1>5, <1>9 DEF Scanned
  <2>2. 1 \in 1 .. n /\ n \in 1 .. n
    BY <1>1, <1>9
  <2> HIDE DEF n
  <2>3. ASSUME Scan(js) PROVE WellFramed(js)
    BY <1>1, <1>6, <1>7, <1>9, <2>1, <2>2, <2>3, Zenon DEF WellFramed, n
  <2>4. ASSUME WellFramed(js) PROVE Scan(js)
    BY <1>1, <1>6, <1>7, <1>9, <2>1, <2>2, <2>4, Zenon DEF WellFramed, n
  <2> QED BY <2>3, <2>4, Zenon
<1> QED
  BY <1>1, <1>8, <1>9

-----------------------------------------------------------------------------
(* The cut, and what the restore worker finds.                             *)

Explicit(js, m) ==
  /\ js \in Seq(Records) /\ Len(js) > 0
  /\ Kind(js[Len(js)]) = "explicit"
  /\ \A i \in DOMAIN js : Kind(js[i]) = "init" => js[i].module = m

LEMMA CountFacts ==
  ASSUME NEW js \in Seq(Records), NEW kinds
  PROVE  LET K == {i \in DOMAIN js : Kind(js[i]) \in kinds}
         IN  IsFiniteSet(K) /\ CountKind(js, kinds) = Cardinality(K)
<1>1. DOMAIN js = 1 .. Len(js) /\ Len(js) \in Nat
  OBVIOUS
<1>2. IsFiniteSet(1 .. Len(js))
  BY <1>1, FS_Interval
<1>3. IsFiniteSet({i \in DOMAIN js : Kind(js[i]) \in kinds})
  BY <1>1, <1>2, FS_Subset, Zenon
<1> QED
  BY <1>3, Zenon DEF CountKind

(* The journal a worker cuts ends with its explicit snapshot, and its        *)
(* initializations name the captured module.                                 *)
LEMMA CutIsExplicit ==
  ASSUME NEW js \in Seq(Records), NEW m, CheckpointEnd(js, m) # 0
  PROVE  Explicit(SubSeq(js, 1, CheckpointEnd(js, m)), m)
<1> DEFINE e == CheckpointEnd(js, m)
           K == {i \in DOMAIN js : Kind(js[i]) \in {"explicit"}}
<1>1. /\ CountKind(js, {"explicit"}) = 1
      /\ e = CHOOSE i \in DOMAIN js : Kind(js[i]) = "explicit"
      /\ \A i \in DOMAIN js : Kind(js[i]) = "init" => js[i].module = m
  BY DEF CheckpointEnd
<1>2. IsFiniteSet(K) /\ Cardinality(K) = 1
  BY <1>1, CountFacts
<1>3. K # {}
  BY <1>2, FS_EmptySet
<1>4. \E i \in DOMAIN js : Kind(js[i]) = "explicit"
  BY <1>3
<1>5. e \in DOMAIN js /\ Kind(js[e]) = "explicit"
  BY <1>1, <1>4
<1> HIDE DEF e
<1>6. e \in 1 .. Len(js)
  BY <1>5
<1> DEFINE c == SubSeq(js, 1, e)
<1>7. /\ c \in Seq(Records) /\ Len(c) = e
      /\ \A i \in 1 .. e : c[i] = js[i]
  BY <1>6
<1> HIDE DEF c
<1>8. DOMAIN c = 1 .. e
  BY <1>7
<1>9. Explicit(c, m)
  BY <1>1, <1>5, <1>6, <1>7, <1>8 DEF Explicit
<1> QED
  BY <1>9 DEF c, e

(* A well framed journal of a module is one the restore worker takes. *)
LEMMA FramedRestores ==
  ASSUME NEW js, NEW m, Explicit(js, m), WellFramed(js)
  PROVE  RestoreAccepts(js, m)
<1>1. js \in Seq(Records) /\ DOMAIN js = 1 .. Len(js) /\ Len(js) \in Nat /\ Len(js) > 0
  BY DEF Explicit
<1>2. {i \in DOMAIN js : Kind(js[i]) \in {"junk"}} = {}
  BY DEF WellFramed
<1>3. {i \in DOMAIN js : Kind(js[i]) \in {"init"}} = {1}
  BY <1>1 DEF WellFramed
<1>4. CountKind(js, {"junk"}) = 0
  BY <1>2, FS_EmptySet DEF CountKind
<1>5. CountKind(js, {"init"}) = 1
  BY <1>3, FS_Singleton, Zenon DEF CountKind
<1> QED
  BY <1>4, <1>5 DEF RestoreAccepts, Explicit

-----------------------------------------------------------------------------
(* The life of a checkpoint.                                               *)

Stored == {"sealed", "unopened", "opened", "replaying", "unreplayed"}

SealedArtifact == WritePrepared(Metadata(binding, SourceBuild))

Opened ==
  [binding |-> artifact.metadata.binding, journal |-> artifact.journal,
   build |-> artifact.metadata.build]

(* Whatever becomes of the artifact, its tag is the one that was sealed; and *)
(* the destination's verdicts are the ones it came to.                       *)
Life ==
  /\ document \in Documents
  /\ phase = "read" => from_json(document)
  /\ journal \in Seq(Records)
  /\ phase \in Stored \cup {"cut", "captured"} => Explicit(journal, binding.module)
  /\ phase \in Stored \cup {"captured"} => Scan(journal)
  /\ phase \in Stored =>
       /\ artifact.tag = SealedArtifact.tag
       /\ ~changed => artifact = SealedArtifact
  /\ phase \in Stored \ {"sealed"} => dest \in Destinations
  /\ phase = "unopened" => ~Verifies(artifact, dest)
  /\ phase \in {"opened", "replaying", "unreplayed"} =>
       Verifies(artifact, dest) /\ verified = Opened
  /\ phase = "replaying" =>
       dest.build = verified.build /\ replayed = {verified.binding.module}
  /\ phase = "unreplayed" =>
       \E m \in Modules :
         /\ replayed = {m}
         /\ ~(/\ dest.build = verified.build /\ m = verified.binding.module
              /\ RestoreAccepts(verified.journal, m))

LEMMA LifeInit == Init => Life
  BY DEF Init, Life, Stored

LEMMA ReadLife ==
  ASSUME Life, ReadEnvironment PROVE Life'
  BY DEF Life, ReadEnvironment, Stored

LEMMA StartLife ==
  ASSUME Life, NEW m \in Modules, StartCapture(m) PROVE Life'
  BY DEF Life, StartCapture, Stored

LEMMA WriteLife ==
  ASSUME Life, NEW r \in Records, WriteRecord(r) PROVE Life'
<1>1. journal' \in Seq(Records)
  BY DEF Life, WriteRecord
<1> QED
  BY <1>1, Zenon DEF Life, WriteRecord, Stored

LEMMA FinalizeLife ==
  ASSUME Life, FinalizeCapture PROVE Life'
<1> DEFINE end == CheckpointEnd(journal, binding.module)
<1>1. journal \in Seq(Records)
  BY DEF Life
<1>2. CASE end = 0
  <2>1. phase' = "refused" /\ journal' = journal /\ document' = document
    BY <1>2, Zenon DEF FinalizeCapture
  <2> QED BY <1>1, <2>1 DEF Life, Stored
<1>3. CASE end # 0
  <2>1. phase' = "cut" /\ journal' = SubSeq(journal, 1, end)
    BY <1>3 DEF FinalizeCapture
  <2>2. document' = document /\ binding' = binding
    BY DEF FinalizeCapture
  <2>3. Explicit(SubSeq(journal, 1, end), binding.module)
    BY <1>1, <1>3, CutIsExplicit, Zenon
  <2>4. Explicit(journal', binding'.module)
    BY <2>1, <2>2, <2>3
  <2>5. journal' \in Seq(Records)
    BY <2>4, Zenon DEF Explicit
  <2> QED BY <2>1, <2>2, <2>4, <2>5, Zenon DEF Life, Stored, Explicit
<1> QED
  BY <1>2, <1>3, Zenon

LEMMA AttestLife ==
  ASSUME Life, Attest PROVE Life'
<1>1. journal' = journal /\ binding' = binding /\ document' = document
  BY DEF Attest
<1>2. phase = "cut" /\ phase' = IF Scan(journal) THEN "captured" ELSE "refused"
  BY DEF Attest
<1>3. Scan(journal)' <=> Scan(journal)
  BY <1>1 DEF Scan, ScanStates
<1>4. Explicit(journal, binding.module)' <=> Explicit(journal, binding.module)
  BY <1>1 DEF Explicit
<1> QED
  BY <1>1, <1>2, <1>3, <1>4, Zenon DEF Life, Stored

(* What a step that leaves the capture alone leaves with it. *)
LEMMA CaptureStays ==
  ASSUME UNCHANGED <<document, binding, journal>>
  PROVE  /\ Scan(journal)' = Scan(journal)
         /\ Explicit(journal, binding.module)' = Explicit(journal, binding.module)
         /\ SealedArtifact' = SealedArtifact
<1>1. Scan(journal)' = Scan(journal)
  BY DEF Scan, ScanStates
<1>2. Explicit(journal, binding.module)' = Explicit(journal, binding.module)
  BY Zenon DEF Explicit
<1>3. SealedArtifact' = SealedArtifact
  BY DEF SealedArtifact, WritePrepared, Metadata, Tag
<1> QED
  BY <1>1, <1>2, <1>3, Zenon

LEMMA SealLife ==
  ASSUME Life, NEW b \in Bindings, NEW limit \in Limits, Seal(b, limit) PROVE Life'
<1>1. UNCHANGED <<document, binding, journal>> /\ phase = "captured"
  BY Zenon DEF Seal
<1>2. /\ Scan(journal) /\ Scan(journal)' = Scan(journal)
      /\ Explicit(journal, binding.module)
      /\ Explicit(journal, binding.module)' = Explicit(journal, binding.module)
      /\ SealedArtifact' = SealedArtifact
      /\ journal' \in Seq(Records) /\ document' \in Documents
  BY <1>1, CaptureStays, Zenon DEF Life
<1>3. CASE b = binding /\ prepare_seal(limit)
  <2>1. phase' = "sealed" /\ artifact' = SealedArtifact
    BY <1>3, Zenon DEF Seal, SealedArtifact
  <2> QED BY <1>2, <2>1, Zenon DEF Life, Stored
<1>4. CASE ~(b = binding /\ prepare_seal(limit))
  <2>1. phase' = "refused"
    BY <1>4 DEF Seal
  <2> QED BY <1>2, <2>1, Zenon DEF Life, Stored
<1> QED
  BY <1>3, <1>4, Zenon

(* No damage makes a new tag. *)
LEMMA DamageKeepsTag ==
  ASSUME artifact = SealedArtifact, NEW other \in Damaged
  PROVE  other.tag = SealedArtifact.tag
<1>1. /\ "tag" \in DOMAIN artifact /\ "journal" \in DOMAIN artifact
      /\ "length" \in DOMAIN artifact /\ "metadata" \in DOMAIN artifact
  BY Zenon DEF SealedArtifact, WritePrepared
<1>2. \/ other = [artifact EXCEPT !.version = 1]
      \/ other = [artifact EXCEPT !.length = @ - 1]
      \/ other = [artifact EXCEPT !.journal = SubSeq(@, 1, Len(@) - 1)]
      \/ other = [artifact EXCEPT !.journal = Append(@, [kind |-> "data"])]
      \/ other = [artifact EXCEPT !.length = @ + 1,
                                  !.journal = <<[kind |-> "thread"]>> \o @]
      \/ other = [artifact EXCEPT !.trailing = TRUE]
      \/ \E b \in Bindings : other = [artifact EXCEPT !.metadata.binding = b]
      \/ \E build \in Builds : other = [artifact EXCEPT !.metadata.build = build]
  BY DEF Damaged
<1>3. other.tag = artifact.tag
  BY <1>1, <1>2, Zenon
<1> QED
  BY <1>3, Zenon

LEMMA DamageLife ==
  ASSUME Life, Damage PROVE Life'
<1>1. UNCHANGED <<document, binding, journal>> /\ phase = "sealed" /\ phase' = "sealed"
  BY Zenon DEF Damage
<1>2. /\ Scan(journal) /\ Scan(journal)' = Scan(journal)
      /\ Explicit(journal, binding.module)
      /\ Explicit(journal, binding.module)' = Explicit(journal, binding.module)
      /\ SealedArtifact' = SealedArtifact
      /\ journal' \in Seq(Records) /\ document' \in Documents
  BY <1>1, CaptureStays, Zenon DEF Life, Stored
<1>3. artifact = SealedArtifact
  BY <1>1 DEF Life, Stored, Damage
<1>4. artifact'.tag = SealedArtifact.tag
  BY <1>3, DamageKeepsTag, Zenon DEF Damage
<1>5. changed' = TRUE
  BY DEF Damage
<1> QED
  BY <1>1, <1>2, <1>4, <1>5, Zenon DEF Life, Stored

LEMMA OpenLife ==
  ASSUME Life, NEW d \in Destinations, Open(d) PROVE Life'
<1>1. /\ UNCHANGED <<document, binding, journal>> /\ UNCHANGED <<artifact, changed>>
      /\ phase = "sealed" /\ dest' = d
  BY Zenon DEF Open
<1>2. /\ Scan(journal) /\ Scan(journal)' = Scan(journal)
      /\ Explicit(journal, binding.module)
      /\ Explicit(journal, binding.module)' = Explicit(journal, binding.module)
      /\ SealedArtifact' = SealedArtifact
      /\ journal' \in Seq(Records) /\ document' \in Documents
  BY <1>1, CaptureStays, Zenon DEF Life, Stored
<1>3. artifact'.tag = SealedArtifact'.tag /\ (~changed' => artifact' = SealedArtifact')
  BY <1>1, <1>2, Zenon DEF Life, Stored
<1>4. dest' \in Destinations'
  BY <1>1, Zenon DEF Destinations, Bindings
<1>5. Verifies(artifact, dest)' <=> Verifies(artifact, d)
  BY <1>1 DEF Verifies, Scan, ScanStates
<1>6. Opened' = Opened
  BY <1>1, Zenon DEF Opened
<1>7. CASE Verifies(artifact, d)
  <2>1. phase' = "opened" /\ verified' = Opened
    BY <1>7, Zenon DEF Open, Opened
  <2> QED BY <1>2, <1>3, <1>4, <1>5, <1>6, <1>7, <2>1, Zenon DEF Life, Stored
<1>8. CASE ~Verifies(artifact, d)
  <2>1. phase' = "unopened"
    BY <1>8 DEF Open
  <2> QED BY <1>2, <1>3, <1>4, <1>5, <1>8, <2>1, Zenon DEF Life, Stored
<1> QED
  BY <1>7, <1>8, Zenon

LEMMA RestoreLife ==
  ASSUME Life, NEW m \in Modules, Restore(m) PROVE Life'
<1>1. /\ UNCHANGED <<document, binding, journal>> /\ UNCHANGED <<artifact, changed>>
      /\ UNCHANGED <<dest, verified>>
      /\ phase = "opened" /\ replayed' = {m}
  BY Zenon DEF Restore
<1>2. /\ Scan(journal) /\ Scan(journal)' = Scan(journal)
      /\ Explicit(journal, binding.module)
      /\ Explicit(journal, binding.module)' = Explicit(journal, binding.module)
      /\ SealedArtifact' = SealedArtifact
      /\ journal' \in Seq(Records) /\ document' \in Documents
  BY <1>1, CaptureStays, Zenon DEF Life, Stored
<1>3. artifact'.tag = SealedArtifact'.tag /\ (~changed' => artifact' = SealedArtifact')
  BY <1>1, <1>2, Zenon DEF Life, Stored
<1>4. dest' \in Destinations'
  BY <1>1, Zenon DEF Destinations, Bindings, Life, Stored
<1>5. Verifies(artifact, dest)'
  <2>1. Verifies(artifact, dest)' <=> Verifies(artifact, dest)
    BY <1>1 DEF Verifies, Scan, ScanStates
  <2> QED BY <1>1, <2>1, Zenon DEF Life
<1>6. verified' = Opened'
  BY <1>1, Zenon DEF Opened, Life
<1> DEFINE Taken == /\ dest.build = verified.build /\ m = verified.binding.module
                    /\ RestoreAccepts(verified.journal, m)
<1>7. CASE Taken
  <2>1. phase' = "replaying"
    BY <1>7 DEF Restore
  <2>2. dest'.build = verified'.build /\ replayed' = {verified'.binding.module}
    BY <1>1, <1>7, Zenon
  <2> QED BY <1>2, <1>3, <1>4, <1>5, <1>6, <2>1, <2>2, Zenon DEF Life, Stored
<1>8. CASE ~Taken
  <2>1. phase' = "unreplayed"
    BY <1>8, Zenon DEF Restore
  <2>2. ~(/\ dest'.build = verified'.build /\ m = verified'.binding.module
          /\ RestoreAccepts(verified.journal, m)')
    BY <1>1, <1>8 DEF RestoreAccepts, CountKind
  <2> QED BY <1>1, <1>2, <1>3, <1>4, <1>5, <1>6, <2>1, <2>2, Zenon DEF Life, Stored
<1> QED
  BY <1>7, <1>8, Zenon

LEMMA LifeInductive == Life /\ [Next]_vars => Life'
<1> SUFFICES ASSUME Life, [Next]_vars PROVE Life'
  OBVIOUS
<1>1. CASE Next
  BY Zenon, <1>1, ReadLife, StartLife, WriteLife, FinalizeLife, AttestLife, SealLife, DamageLife,
     OpenLife, RestoreLife DEF Next
<1>2. CASE UNCHANGED vars
  <2>1. UNCHANGED <<document, binding, journal>> /\ UNCHANGED <<artifact, changed>>
        /\ UNCHANGED <<phase, dest, verified, replayed>>
    BY <1>2 DEF vars
  <2>2. /\ Scan(journal)' = Scan(journal)
        /\ Explicit(journal, binding.module)' = Explicit(journal, binding.module)
        /\ SealedArtifact' = SealedArtifact
    BY <2>1, CaptureStays, Zenon
  <2>3. Verifies(artifact, dest)' = Verifies(artifact, dest)
    BY <2>1 DEF Verifies, Scan, ScanStates
  <2>4. Opened' = Opened /\ Destinations' = Destinations
    BY <2>1 DEF Opened, Destinations, Bindings
  <2>5. \A m : RestoreAccepts(verified.journal, m)' = RestoreAccepts(verified.journal, m)
    BY <2>1, Zenon DEF RestoreAccepts, CountKind
  <2> QED BY <2>1, <2>2, <2>3, <2>4, <2>5, Zenon DEF Life
<1> QED
  BY <1>1, <1>2

LEMMA TakeOutputLife ==
  ASSUME Life, TakeOutput PROVE Life'
<1>1. /\ UNCHANGED <<document, journal>>
      /\ phase' \in {"running", "refused"}
  BY DEF TakeOutput
<1> QED
  BY <1>1 DEF Life, Stored

LEMMA LifeOfCapture == CaptureSpec => []Life
<1>1. CaptureInit => Life
  BY LifeInit DEF CaptureInit
<1>2. Life /\ [CaptureNext]_<<vars, output, taken>> => Life'
  <2> SUFFICES ASSUME Life, [CaptureNext]_<<vars, output, taken>> PROVE Life'
    OBVIOUS
  <2>1. CASE OutputStep
    BY <2>1, LifeInductive DEF OutputStep
  <2>2. CASE TakeOutput
    BY <2>2, TakeOutputLife
  <2>3. CASE CheckpointStep
    BY <2>3, LifeInductive DEF CheckpointStep
  <2>4. CASE UNCHANGED <<vars, output, taken>>
    BY <2>4, LifeInductive, Zenon
  <2> QED BY <2>1, <2>2, <2>3, <2>4, Zenon DEF CaptureNext
<1> QED
  BY <1>1, <1>2, PTL DEF CaptureSpec

(* What a destination opens is what was sealed, whatever was done to it. *)
LEMMA OpensTheSealed ==
  ASSUME Life, phase \in {"opened", "replaying", "unreplayed"}
  PROVE  /\ verified.journal = journal /\ verified.binding = binding
         /\ verified.build = SourceBuild
         /\ dest.key = SourceKey /\ Len(journal) <= dest.limit
<1>1. /\ Verifies(artifact, dest) /\ verified = Opened
      /\ artifact.tag = SealedArtifact.tag
  BY Zenon DEF Life, Stored
<1>2. artifact.tag = <<dest.key, artifact.version, artifact.length, artifact.metadata,
                       artifact.journal>>
  BY <1>1, Zenon DEF Verifies, Tag
<1>3. SealedArtifact.tag =
        <<SourceKey, 2, Len(journal), Metadata(binding, SourceBuild), journal>>
  BY DEF SealedArtifact, WritePrepared, Tag
<1>4. /\ dest.key = SourceKey /\ artifact.length = Len(journal) /\ artifact.journal = journal
      /\ artifact.metadata = Metadata(binding, SourceBuild)
  <2>1. \A k, v, l, m, b, k2, v2, l2, m2, b2 :
          <<k, v, l, m, b>> = <<k2, v2, l2, m2, b2>> => k = k2 /\ l = l2 /\ m = m2 /\ b = b2
    OBVIOUS
  <2>2. <<dest.key, artifact.version, artifact.length, artifact.metadata, artifact.journal>>
          = <<SourceKey, 2, Len(journal), Metadata(binding, SourceBuild), journal>>
    BY <1>1, <1>2, <1>3, Zenon
  <2> QED BY <2>1, <2>2, Zenon
<1>5. artifact.length <= dest.limit
  BY <1>1, Zenon DEF Verifies, ValidHeader, ValidLength
<1> QED
  BY <1>1, <1>4, <1>5 DEF Opened, Metadata

LEMMA FramedWhenCaptured ==
  ASSUME Life, phase \in Stored \cup {"captured"}
  PROVE  WellFramed(journal) /\ Explicit(journal, binding.module)
  BY ScanIsFraming DEF Life

(* An unchanged artifact opens at a destination with the source's key,       *)
(* version, binding and room for it, unless its own limit overflows.         *)
LEMMA UnchangedOpens ==
  ASSUME Life, phase \in Stored \ {"sealed"}, ~changed,
         dest.key = SourceKey, dest.version = SourceVersion, dest.binding = binding,
         ~(dest.limit < Len(journal)), ~(Overhead + dest.limit > USIZE_MAX)
  PROVE  Verifies(artifact, dest)
<1>1. /\ artifact = SealedArtifact /\ dest \in Destinations
      /\ Scan(journal) /\ Explicit(journal, binding.module)
  BY DEF Life, Stored
<1>2. dest.limit \in Nat /\ Len(journal) \in Nat /\ Len(journal) > 0
  <2>1. dest.limit \in Limits
    BY <1>1 DEF Destinations
  <2>2. Limits \subseteq Nat
    <3>1. Limits \subseteq 0 .. USIZE_MAX /\ USIZE_MAX \in Nat
      BY CheckpointConstants
    <3> QED BY <3>1
  <2>3. journal \in Seq(Records) /\ Len(journal) > 0
    BY <1>1 DEF Explicit
  <2>4. Len(journal) \in Nat
    BY <2>3
  <2>5. dest.limit \in Nat
    BY <2>1, <2>2, Zenon
  <2> QED BY <2>3, <2>4, <2>5, Zenon
<1>3. /\ validate_limit(dest.limit) /\ ValidLength(Len(journal), dest.limit)
      /\ maximum_artifact_bytes(dest.limit)
  <2>1. USIZE_MAX \in Nat /\ Overhead \in Nat
    BY CheckpointConstants
  <2> QED BY <1>2, <2>1 DEF validate_limit, ValidLength, maximum_artifact_bytes
<1>4. /\ artifact.version = 2 /\ artifact.length = Len(journal)
      /\ artifact.metadata = Metadata(binding, SourceBuild)
      /\ artifact.journal = journal /\ artifact.trailing = FALSE
      /\ artifact.tag = Tag(SourceKey, 2, Len(journal), Metadata(binding, SourceBuild), journal)
  BY <1>1, Zenon DEF SealedArtifact, WritePrepared
<1>5. Compatible(artifact.metadata, dest) /\ artifact.metadata.digest = journal
  BY <1>4 DEF Compatible, Metadata
<1>6. ValidHeader(artifact, dest) /\ ReadsWhole(artifact) /\ Scan(artifact.journal)
  BY <1>1, <1>3, <1>4, Zenon DEF ValidHeader, ReadsWhole
<1>7. artifact.tag = Tag(dest.key, artifact.version, artifact.length, artifact.metadata,
                         artifact.journal)
  BY <1>4, Zenon
<1>8. artifact.metadata.digest = artifact.journal
  BY <1>4, <1>5
<1> QED
  BY <1>3, <1>5, <1>6, <1>7, <1>8, Zenon DEF Verifies

-----------------------------------------------------------------------------
(* The codec of WasixCheckpointCodec and the two workers: a destination      *)
(* replays exactly the cut journal, with the module and the identity of the  *)
(* capture, in the worker build that made it and within its own limit.       *)
THEOREM ReplayIsTheCapture == CaptureSpec => []ReplaysTheCapture
<1>1. Life => ReplaysTheCapture
  <2> SUFFICES ASSUME Life, phase = "replaying"
               PROVE  /\ verified.journal = journal /\ Len(journal) <= dest.limit
                      /\ verified.binding = binding
                      /\ replayed = {binding.module}
                      /\ dest.build = SourceBuild /\ dest.key = SourceKey
    BY Zenon DEF ReplaysTheCapture
  <2>1. dest.build = verified.build /\ replayed = {verified.binding.module}
    BY Zenon DEF Life
  <2> QED BY <2>1, OpensTheSealed, Zenon
<1> QED
  BY <1>1, LifeOfCapture, PTL

(* scan_journal and the cut of finalize_capture_journal together: what is    *)
(* captured, sealed and replayed is one whole checkpoint of its module.      *)
THEOREM CheckpointIsWhole == CaptureSpec => []WholeCheckpoint
<1>1. Life => WholeCheckpoint
  <2> SUFFICES ASSUME Life, phase \in {"captured", "sealed", "opened", "replaying"}
               PROVE  /\ WellFramed(journal)
                      /\ Kind(journal[Len(journal)]) = "explicit"
                      /\ Head(journal).module = binding.module
    BY DEF WholeCheckpoint
  <2>1. WellFramed(journal) /\ Explicit(journal, binding.module)
    BY FramedWhenCaptured DEF Stored
  <2>2. journal \in Seq(Records) /\ Len(journal) > 0
    BY <2>1 DEF Explicit
  <2>3. 1 \in DOMAIN journal /\ Head(journal) = journal[1]
    BY <2>2
  <2>4. Kind(journal[1]) = "init"
    BY <2>1, <2>3, Zenon DEF WellFramed
  <2> QED BY <2>1, <2>3, <2>4, Zenon DEF Explicit
<1> QED
  BY <1>1, LifeOfCapture, PTL

(* The one pass of scan_journal with its counters decides framing, for every *)
(* journal a capture can hold.                                               *)
THEOREM ScanDecidesFraming == CaptureSpec => []ScanDecides
<1>1. Life => ScanDecides
  BY ScanIsFraming, Zenon DEF Life, ScanDecides
<1> QED
  BY <1>1, LifeOfCapture, PTL

(* open_reader and restore_wasix_checkpoint refuse a checkpoint only for a   *)
(* reason: it was changed, the destination or its request differs, or the    *)
(* destination's limit is too small or overflows (maximum_artifact_bytes).   *)
THEOREM SealedIsOpened == CaptureSpec => []SealedOpens
<1>1. Life => SealedOpens
  <2>1. ASSUME Life, phase = "unopened"
        PROVE  \/ changed
               \/ dest.key # SourceKey \/ dest.version # SourceVersion
               \/ dest.binding # binding
               \/ dest.limit < Len(journal) \/ Overhead + dest.limit > USIZE_MAX
    <3>1. ~Verifies(artifact, dest)
      BY <2>1 DEF Life
    <3> QED BY <2>1, <3>1, UnchangedOpens, Zenon DEF Stored
  <2>2. ASSUME Life, phase = "unreplayed"
        PROVE  dest.build # SourceBuild \/ replayed # {binding.module}
    <3>1. PICK m \in Modules :
            /\ replayed = {m}
            /\ ~(/\ dest.build = verified.build /\ m = verified.binding.module
                 /\ RestoreAccepts(verified.journal, m))
      BY <2>2 DEF Life
    <3>2. /\ verified.journal = journal /\ verified.binding = binding
          /\ verified.build = SourceBuild
      BY <2>2, OpensTheSealed, Zenon
    <3>3. RestoreAccepts(journal, binding.module)
      BY <2>2, FramedWhenCaptured, FramedRestores, Zenon DEF Stored
    <3>4. ASSUME replayed = {binding.module} PROVE m = binding.module
      BY <3>1, <3>4, Zenon
    <3> QED BY <3>1, <3>2, <3>3, <3>4, Zenon
  <2> QED BY <2>1, <2>2, Zenon DEF SealedOpens
<1> QED
  BY <1>1, LifeOfCapture, PTL

-----------------------------------------------------------------------------
(* The guest's output.                                                     *)

(* The sink remembers every refusal until it is taken, and a phase behind    *)
(* the guest's is reached only with its output taken whole.                  *)
Sink ==
  /\ bytes \in Seq(Writers) /\ Len(bytes) <= OutputLimit
  /\ overflowed \in BOOLEAN /\ closed \in BOOLEAN /\ lost \in BOOLEAN /\ taken \in BOOLEAN
  /\ pending \in [Writers -> Seq(Nat)]
  /\ claimed \in [Writers -> Nat]
  /\ result \in {"none", "ok", "limit"}
  /\ \A w \in Writers : Out!BytesOf(w) = claimed[w]
  /\ ~taken /\ lost => overflowed
  /\ result # "none" => \A w \in Writers : pending[w] = <<>>
  /\ result = "ok" => ~lost

Joined ==
  /\ phase \in {"reading", "read"} => ~taken
  /\ taken /\ phase = "running" => result = "ok"
  /\ phase \in Stored \cup {"cut", "captured"} => result = "ok"

Count(s, w) == Cardinality({i \in DOMAIN s : s[i] = w})

LEMMA BytesCounted ==
  \A w : Out!BytesOf(w) = Count(bytes, w) /\ Out!BytesOf(w)' = Count(bytes', w)
<1>1. \A S : Out!Cardinality(S) = Cardinality(S)
  BY DEF Out!Cardinality, Cardinality, Out!IsFiniteSet, IsFiniteSet
<1> QED
  BY <1>1, Zenon DEF Out!BytesOf, Count

(* An accepted buffer adds its bytes to its writer's, and to no other's. *)
LEMMA CountAppended ==
  ASSUME NEW s \in Seq(Writers), NEW w \in Writers, NEW n \in Nat, NEW v \in Writers
  PROVE  /\ s \o Out!Run(w, n) \in Seq(Writers)
         /\ Len(s \o Out!Run(w, n)) = Len(s) + n
         /\ Count(s, v) \in Nat
         /\ Count(s \o Out!Run(w, n), v) = Count(s, v) + (IF v = w THEN n ELSE 0)
<1> DEFINE r == Out!Run(w, n)
           t == s \o r
           A == {i \in DOMAIN s : s[i] = v}
           B == {i \in (Len(s) + 1) .. (Len(s) + n) : v = w}
<1>1. r \in Seq(Writers) /\ Len(r) = n /\ \A i \in 1 .. n : r[i] = w
  BY DEF Out!Run
<1> HIDE DEF r
<1>2. /\ t \in Seq(Writers) /\ Len(t) = Len(s) + n
      /\ \A i \in 1 .. Len(s) : t[i] = s[i]
      /\ \A i \in (Len(s) + 1) .. (Len(s) + n) : t[i] = r[i - Len(s)]
  BY <1>1
<1>3. \A i \in (Len(s) + 1) .. (Len(s) + n) : t[i] = w
  BY <1>1, <1>2
<1>4. DOMAIN t = 1 .. (Len(s) + n) /\ DOMAIN s = 1 .. Len(s) /\ Len(s) \in Nat
  BY <1>2
<1> HIDE DEF t
<1>5. {i \in DOMAIN t : t[i] = v} = A \cup B
  <2>1. ASSUME NEW i \in DOMAIN t
        PROVE  i \in 1 .. Len(s) \/ i \in (Len(s) + 1) .. (Len(s) + n)
    BY <1>4
  <2>2. ASSUME NEW i \in A \cup B PROVE i \in DOMAIN t
    BY <1>4
  <2> QED BY <1>2, <1>3, <1>4, <2>1, <2>2, Zenon
<1>6. A \cap B = {}
  BY <1>4
<1>7. IsFiniteSet(A) /\ Cardinality(A) \in Nat
  <2>1. A \in SUBSET (1 .. Len(s))
    BY <1>4
  <2>2. IsFiniteSet(1 .. Len(s))
    BY <1>4, FS_Interval
  <2>3. IsFiniteSet(A)
    BY <2>1, <2>2, FS_Subset, Zenon
  <2> QED BY <2>3, FS_CardinalityType, Zenon
<1>8. IsFiniteSet(B) /\ Cardinality(B) = IF v = w THEN n ELSE 0
  <2>1. CASE v = w
    <3> DEFINE lo == Len(s) + 1
               hi == Len(s) + n
    <3>1. B = lo .. hi
      BY <2>1
    <3>2. lo \in Int /\ hi \in Int /\ (lo > hi <=> n = 0) /\ hi - lo + 1 = n
      BY <1>4
    <3> HIDE DEF B, lo, hi
    <3>3. IsFiniteSet(lo .. hi) /\ Cardinality(lo .. hi) = IF lo > hi THEN 0 ELSE hi - lo + 1
      BY <3>2, FS_Interval
    <3> QED BY <2>1, <3>1, <3>2, <3>3, Zenon
  <2>2. CASE v # w
    <3>1. B = {}
      BY <2>2
    <3> QED BY <2>2, <3>1, FS_EmptySet, Zenon
  <2> QED BY <2>1, <2>2, Zenon
<1>9. Cardinality(A \cup B) = Cardinality(A) + Cardinality(B)
  <2> HIDE DEF A, B
  <2>1. Cardinality(A \cup B) = Cardinality(A) + Cardinality(B) - Cardinality(A \cap B)
    BY <1>7, <1>8, FS_Union, Zenon
  <2>2. Cardinality(A \cap B) = 0
    BY <1>6, FS_EmptySet, Zenon
  <2> QED BY <1>7, <1>8, <2>1, <2>2
<1>10. Count(s, v) = Cardinality(A) /\ Count(t, v) = Cardinality(A \cup B)
  BY <1>5, Zenon DEF Count
<1> HIDE DEF A, B
<1>11. /\ t \in Seq(Writers) /\ Len(t) = Len(s) + n
       /\ Count(s, v) \in Nat
       /\ Count(t, v) = Count(s, v) + (IF v = w THEN n ELSE 0)
  BY <1>2, <1>7, <1>8, <1>9, <1>10
<1> QED
  BY <1>11 DEF t, r

(* What the sink holds. *)
Held ==
  /\ bytes \in Seq(Writers) /\ Len(bytes) <= OutputLimit
  /\ overflowed \in BOOLEAN /\ lost \in BOOLEAN
  /\ claimed \in [Writers -> Nat]
  /\ \A w \in Writers : Out!BytesOf(w) = claimed[w]
  /\ lost => overflowed

LEMMA HeldStays ==
  ASSUME Held, UNCHANGED <<bytes, overflowed, claimed, lost>> PROVE Held'
<1>1. \A w : Out!BytesOf(w)' = Out!BytesOf(w)
  BY BytesCounted DEF Out!BytesOf
<1> QED
  BY <1>1, Zenon DEF Held

LEMMA AcceptHeld ==
  ASSUME Held, NEW w \in Writers, NEW n \in Nat, Out!Accept(w, n) PROVE Held'
<1>1. CASE n = 0 \/ closed
  BY <1>1, HeldStays, Zenon DEF Out!Accept
<1>2. CASE ~(n = 0 \/ closed) /\ (overflowed \/ Len(bytes) + n > OutputLimit)
  <2>1. overflowed' = TRUE /\ lost' = TRUE /\ UNCHANGED <<bytes, claimed>>
    BY <1>2 DEF Out!Accept
  <2>2. \A v : Out!BytesOf(v)' = Out!BytesOf(v)
    BY <2>1, Zenon DEF Out!BytesOf
  <2> QED BY <2>1, <2>2, Zenon DEF Held
<1>3. CASE ~(n = 0 \/ closed) /\ ~(overflowed \/ Len(bytes) + n > OutputLimit)
  <2>1. /\ bytes' = bytes \o Out!Run(w, n)
        /\ claimed' = [claimed EXCEPT ![w] = @ + n]
        /\ UNCHANGED <<overflowed, lost>>
    BY <1>3 DEF Out!Accept
  <2>2. bytes \in Seq(Writers) /\ Len(bytes) \in Nat /\ claimed \in [Writers -> Nat]
    BY DEF Held
  <2>3. bytes' \in Seq(Writers) /\ Len(bytes') = Len(bytes) + n
    BY <2>1, <2>2, CountAppended, Zenon
  <2>4. Len(bytes') <= OutputLimit
    BY <1>3, <2>2, <2>3, OutputConstants
  <2>5. claimed' \in [Writers -> Nat]
    BY <2>1, <2>2
  <2>6. ASSUME NEW v \in Writers PROVE Out!BytesOf(v)' = claimed'[v]
    <3>1. Out!BytesOf(v)' = Count(bytes', v)
      BY BytesCounted, Zenon
    <3>2. Count(bytes', v) = Count(bytes, v) + (IF v = w THEN n ELSE 0)
      BY <2>1, <2>2, CountAppended
    <3>3. Count(bytes, v) = claimed[v]
      BY BytesCounted, Zenon DEF Held
    <3>4. claimed'[v] = claimed[v] + (IF v = w THEN n ELSE 0)
      BY <2>1, <2>2
    <3> QED BY <3>1, <3>2, <3>3, <3>4, Zenon
  <2> QED BY <2>1, <2>3, <2>4, <2>5, <2>6, Zenon DEF Held
<1> QED
  BY <1>1, <1>2, <1>3, Zenon

LEMMA SinkInit == CaptureInit => Sink /\ Joined
<1> SUFFICES ASSUME CaptureInit PROVE Sink /\ Joined
  OBVIOUS
<1>1. /\ bytes = <<>> /\ overflowed = FALSE /\ closed = FALSE /\ lost = FALSE /\ taken = FALSE
      /\ pending = [w \in Writers |-> <<>>] /\ claimed = [w \in Writers |-> 0]
      /\ result = "none" /\ phase = "reading"
  BY DEF CaptureInit, Init, Out!Init
<1>2. ASSUME NEW w \in Writers PROVE Out!BytesOf(w) = claimed[w]
  <2>1. {i \in DOMAIN bytes : bytes[i] = w} = {}
    BY <1>1
  <2>2. Count(bytes, w) = 0
    BY <2>1, FS_EmptySet, Zenon DEF Count
  <2> QED BY <1>1, <2>2, BytesCounted
<1>3. bytes \in Seq(Writers) /\ Len(bytes) <= OutputLimit
  BY <1>1, OutputConstants
<1>4. pending \in [Writers -> Seq(Nat)] /\ claimed \in [Writers -> Nat]
  BY <1>1
<1> QED
  BY <1>1, <1>2, <1>3, <1>4, Zenon DEF Sink, Joined, Stored

LEMMA OutputSink ==
  ASSUME Sink, OutputStep PROVE Sink'
<1>1. ~taken /\ taken' = taken /\ Out!Next
  BY DEF OutputStep
<1>2. Held
  BY <1>1, Zenon DEF Sink, Held
<1>3. ASSUME NEW w \in Writers, NEW k \in 1 .. MaxBuffers, NEW b \in [1 .. k -> Sizes],
             Out!Call(w, b)
      PROVE  Sink'
  <2>1. UNCHANGED <<bytes, overflowed, claimed, lost>> /\ UNCHANGED <<closed, result>>
        /\ pending' = [pending EXCEPT ![w] = b] /\ result = "none"
    BY <1>3 DEF Out!Call
  <2>2. b \in Seq(Nat)
    <3>1. k \in Nat
      BY OutputConstants
    <3>2. Sizes \subseteq Nat
      BY OutputConstants
    <3>3. \A i \in 1 .. k : b[i] \in Nat
      BY <3>2, Zenon
    <3>4. b = [i \in 1 .. k |-> b[i]]
      OBVIOUS
    <3>5. b \in [1 .. k -> Nat]
      BY <3>3, <3>4, Zenon
    <3> QED BY <3>1, <3>5
  <2>3. Held'
    BY <1>2, <2>1, HeldStays
  <2>4. pending' \in [Writers -> Seq(Nat)]
    BY <2>1, <2>2, Zenon DEF Sink
  <2> QED BY <1>1, <2>1, <2>3, <2>4, Zenon DEF Held, Sink
<1>4. ASSUME NEW w \in Writers, Out!PollWrite(w) PROVE Sink'
  <2>1. /\ pending[w] # <<>> /\ Out!Accept(w, Head(pending[w]))
        /\ pending' = [pending EXCEPT ![w] = IF Out!Refuses(Head(@)) THEN <<>> ELSE Tail(@)]
        /\ UNCHANGED <<closed, result>>
    BY <1>4, Zenon DEF Out!PollWrite
  <2>2. pending[w] \in Seq(Nat) /\ Head(pending[w]) \in Nat /\ Tail(pending[w]) \in Seq(Nat)
    BY <2>1 DEF Sink
  <2>3. Held'
    BY <1>2, <2>1, <2>2, AcceptHeld, Zenon
  <2>4. pending' \in [Writers -> Seq(Nat)]
    BY <2>1, <2>2 DEF Sink
  <2>5. result = "none"
    BY <2>1, Zenon DEF Sink
  <2> QED BY <1>1, <2>1, <2>3, <2>4, <2>5, Zenon DEF Held, Sink
<1>5. ASSUME NEW w \in Writers, Out!PollWriteVectored(w) PROVE Sink'
  <2>1. /\ pending[w] # <<>> /\ Out!Accept(w, Out!Total(pending[w]))
        /\ pending' = [pending EXCEPT ![w] = <<>>]
        /\ UNCHANGED <<closed, result>>
    BY <1>5, Zenon DEF Out!PollWriteVectored
  <2>2. Out!Total(pending[w]) \in Nat
    BY SumType, Zenon DEF Sink, Sum, Out!Total
  <2>3. Held'
    BY <1>2, <2>1, <2>2, AcceptHeld, Zenon
  <2>4. pending' \in [Writers -> Seq(Nat)]
    BY <2>1 DEF Sink
  <2>5. result = "none"
    BY <2>1 DEF Sink
  <2> QED BY <1>1, <2>1, <2>3, <2>4, <2>5, Zenon DEF Held, Sink
<1>6. ASSUME Out!PollShutdown \/ Out!Finish PROVE Sink'
  <2>1. /\ UNCHANGED <<bytes, overflowed, claimed, lost>> /\ pending' = pending
        /\ closed' \in BOOLEAN
    BY <1>6, Zenon DEF Out!PollShutdown, Out!Finish, Sink
  <2>2. Held'
    BY <1>2, <2>1, HeldStays
  <2>3. CASE Out!PollShutdown
    <3>1. result' = result
      BY <2>3, Zenon DEF Out!PollShutdown
    <3> QED BY <1>1, <2>1, <2>2, <3>1 DEF Held, Sink
  <2>4. CASE Out!Finish
    <3>1. /\ \A w \in Writers : pending[w] = <<>>
          /\ result' = IF overflowed THEN "limit" ELSE "ok"
      BY <2>4, Zenon DEF Out!Finish
    <3> QED BY <1>1, <2>1, <2>2, <3>1, Zenon DEF Held, Sink
  <2> QED BY <1>6, <2>3, <2>4, Zenon
<1> QED
  BY <1>1, <1>3, <1>4, <1>5, <1>6, Zenon DEF Out!Next

LEMMA TakeSink ==
  ASSUME Sink, TakeOutput PROVE Sink'
<1>1. /\ taken' = TRUE /\ bytes' = <<>> /\ overflowed' = FALSE /\ closed' = FALSE
      /\ pending' = [w \in Writers |-> <<>>] /\ claimed' = [w \in Writers |-> 0]
      /\ UNCHANGED <<lost, result>>
  BY DEF TakeOutput
<1>2. ASSUME NEW w \in Writers PROVE Out!BytesOf(w)' = claimed'[w]
  <2>1. {i \in DOMAIN bytes' : bytes'[i] = w} = {}
    BY <1>1
  <2>2. Count(bytes', w) = 0
    BY <2>1, FS_EmptySet, Zenon DEF Count
  <2> QED BY <1>1, <2>2, BytesCounted
<1>3. bytes' \in Seq(Writers) /\ Len(bytes') <= OutputLimit
  BY <1>1, OutputConstants
<1>4. pending' \in [Writers -> Seq(Nat)] /\ claimed' \in [Writers -> Nat]
  BY <1>1
<1> QED
  BY <1>1, <1>2, <1>3, <1>4, Zenon DEF Sink

LEMMA SinkStays ==
  ASSUME Sink, UNCHANGED <<output, taken>> PROVE Sink'
<1>1. /\ UNCHANGED <<bytes, overflowed, claimed, lost>> /\ UNCHANGED <<closed, pending, result>>
      /\ taken' = taken
  BY DEF output
<1>2. \A w : Out!BytesOf(w)' = Out!BytesOf(w)
  BY <1>1, Zenon DEF Out!BytesOf
<1> QED
  BY <1>1, <1>2 DEF Sink

(* Only a guest whose output was taken whole gets its journal cut. *)
LEMMA CheckpointJoined ==
  ASSUME Joined, CheckpointStep PROVE Joined'
<1>1. UNCHANGED <<result, taken>> /\ (phase = "running" => taken) /\ Next
  BY Zenon DEF CheckpointStep, output
<1>2. \/ phase = "reading" /\ phase' \in {"read", "refused"}
      \/ phase = "read" /\ phase' = "running"
      \/ phase = "running" /\ phase' \in {"running", "cut", "refused"}
      \/ phase \in Stored \cup {"cut", "captured"}
            /\ phase' \in Stored \cup {"captured", "refused"}
  BY <1>1, Zenon DEF Next, Stored, ReadEnvironment, StartCapture, WriteRecord, FinalizeCapture, Attest,
              Seal, Damage, Open, Restore
<1> QED
  BY <1>1, <1>2, Zenon DEF Joined, Stored

(* wasix_output.rs and the capture worker: every writer's bytes are held as  *)
(* it was told, within the limit, and a checkpoint is captured only of a     *)
(* guest none of whose output was turned away for want of room.              *)
THEOREM CaptureIsAlwaysWhole == CaptureSpec => []CaptureIsWhole
<1>1. CaptureInit => Sink /\ Joined
  BY SinkInit
<1>2. Sink /\ Joined /\ [CaptureNext]_<<vars, output, taken>> => Sink' /\ Joined'
  <2> SUFFICES ASSUME Sink, Joined, [CaptureNext]_<<vars, output, taken>>
               PROVE  Sink' /\ Joined'
    OBVIOUS
  <2>1. CASE OutputStep
    <3>1. Sink'
      BY <2>1, OutputSink, Zenon
    <3>2. phase' = phase /\ phase = "running" /\ ~taken /\ taken' = taken
      BY <2>1, Zenon DEF OutputStep, vars
    <3> QED BY <3>1, <3>2 DEF Joined, Stored
  <2>2. CASE TakeOutput
    <3>1. /\ result' = result
          /\ phase' = IF result = "ok" THEN "running" ELSE "refused"
      BY <2>2 DEF TakeOutput
    <3> QED BY <2>2, <3>1, TakeSink, Zenon DEF Joined, Stored
  <2>3. CASE CheckpointStep
    BY <2>3, CheckpointJoined, SinkStays, Zenon DEF CheckpointStep
  <2>4. CASE UNCHANGED <<vars, output, taken>>
    BY <2>4, SinkStays, Zenon DEF Joined, vars, output
  <2> QED BY <2>1, <2>2, <2>3, <2>4, Zenon DEF CaptureNext
<1>3. Sink /\ Joined => CaptureIsWhole
  BY Zenon DEF Sink, Joined, Stored, CaptureIsWhole, Out!ClaimsHeld
<1> QED
  BY <1>1, <1>2, <1>3, PTL DEF CaptureSpec

(* EnvironmentManifest::from_json accepts only coherent manifests, whatever  *)
(* its lists hold: the neighbours it compares put a whole list in order, and *)
(* with the comparisons against every later path no path is inside another.  *)
THEOREM AcceptedCoherent == CaptureSpec => []AcceptedIsCoherent
<1>1. Life => AcceptedIsCoherent
  BY AcceptedCoheres, CheckpointConstants, Zenon DEF Life, AcceptedIsCoherent
<1> QED
  BY <1>1, LifeOfCapture, PTL

(* calculate_environment_id loses nothing that from_json accepts: the length *)
(* prefixes let the hashed fields be read back one after the other, and the  *)
(* validators fix every field that is not hashed.                            *)
THEOREM OneEnvironment == CaptureSpec => []IdentityNamesOneEnvironment
<1>1. Life => IdentityNamesOneEnvironment
  <2> SUFFICES ASSUME Life, phase = "read", NEW other \in Documents,
                      other.manifest.environment_id = document.manifest.environment_id,
                      from_json(other)
               PROVE  other.manifest = document.manifest
    BY Zenon DEF IdentityNamesOneEnvironment
  <2>1. from_json(document) /\ document \in Documents
    BY DEF Life
  <2>2. validate(other.manifest) /\ validate(document.manifest)
    BY <2>1, Zenon DEF from_json
  <2>3. /\ other.manifest \in EnvironmentManifests
        /\ document.manifest \in EnvironmentManifests
    BY <2>1, CheckpointConstants, Zenon
  <2> QED BY <2>2, <2>3, IdentityNamesOne, Zenon
<1> QED
  BY <1>1, LifeOfCapture, PTL
=============================================================================
