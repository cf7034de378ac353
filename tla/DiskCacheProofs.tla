--------------------------- MODULE DiskCacheProofs ---------------------------
(***************************************************************************)
(* Proofs about the disk cache, for any runtimes, processes and            *)
(* configurations and any number of faults: what loads was published by    *)
(* the engine and under the key that load it, nobody overwrites a foreign  *)
(* entry, the entry a running process sees only improves, and without a    *)
(* fault concurrent publishers leave a pair that loads.                    *)
(***************************************************************************)
EXTENDS DiskCache, TLAPS

Labels ==
  {"idle", "stat_artifact", "stat_metadata", "read_metadata", "read_artifact", "compile",
   "write_artifact", "rename_artifact", "write_metadata", "rename_metadata"}

Published == {Metadata(c) : c \in Configs}

Artifacts == Engines \cup {None, Truncated}
Metadatas == Published \cup {None, Truncated}

\* A runtime that has seen the entry absent and may go on to publish it.
Missing(r) ==
  pc[r] \in {"stat_metadata", "compile", "write_artifact", "rename_artifact",
             "write_metadata", "rename_metadata"}

\* The artifact of this publication is in place.
HalfDone(r) == pc[r] \in {"write_metadata", "rename_metadata"}

Types ==
  /\ disk \in [artifact : Artifacts, metadata : Metadatas]
  /\ config \in [Processes -> Configs \cup {None}]
  /\ pc \in [Runtimes -> Labels]
  /\ DOMAIN local = Runtimes /\ DOMAIN result = Runtimes
  /\ failures \in [Runtimes -> BOOLEAN]
  /\ faults \in Nat

\* Running processes agree, and a process that does not run does nothing.
Agreement ==
  /\ \A p, q \in Running : config[p] = config[q]
  /\ \A r \in Runtimes :
       Config(r) = None => pc[r] = "idle" /\ result[r] = None /\ failures[r] = FALSE

\* Metadata never stands without an artifact, so that a runtime that has missed
\* both files meets only what its own configuration has published since.
Order ==
  /\ disk.artifact = None => disk.metadata = None
  /\ \A r \in Runtimes : Missing(r) => ~Foreign(Config(r))
  /\ \A r \in Runtimes : HalfDone(r) => disk.artifact = Config(r).engine

\* What the steps of prepare have established for the next ones.
Checked ==
  /\ \A r \in Runtimes : pc[r] = "read_artifact" => local[r].metadata \in Published
  /\ \A r \in Runtimes :
       Publishing(r) => ArtifactLength[Config(r).engine] <= Config(r).max_entry_bytes

Inv == Types /\ Agreement /\ Order /\ Checked /\ LoadsOnlyOwnPublication

-----------------------------------------------------------------------------
LEMMA Initially == Init => Inv
<1> SUFFICES ASSUME Init PROVE Inv
    OBVIOUS
<1>1. \A r \in Runtimes : Config(r) = None /\ pc[r] = "idle"
    BY ProcessAssumption DEF Init, Config
<1>2. Running = {}
    BY DEF Init, Running
<1> QED
    BY <1>1, <1>2, Zenon DEF Init, Inv, Types, Agreement, Order, Checked, LoadsOnlyOwnPublication,
       Artifacts, Metadatas, Labels, Missing, HalfDone, Publishing

\* A step of one runtime that leaves the files and the configurations alone: only
\* what holds at its new label has to be shown.
LEMMA LabelKeeps ==
  ASSUME Inv, NEW r \in Runtimes, NEW l \in Labels, Config(r) # None,
         pc' = [pc EXCEPT ![r] = l], UNCHANGED <<disk, config>>,
         DOMAIN local' = Runtimes, \A q \in Runtimes \ {r} : local'[q] = local[q],
         DOMAIN result' = Runtimes, \A q \in Runtimes \ {r} : result'[q] = result[q],
         failures' \in [Runtimes -> BOOLEAN],
         \A q \in Runtimes \ {r} : failures'[q] = failures[q],
         faults' \in Nat,
         Missing(r)' => ~Foreign(Config(r)),
         HalfDone(r)' => disk.artifact = Config(r).engine,
         l = "read_artifact" => local'[r].metadata \in Published,
         Publishing(r)' => ArtifactLength[Config(r).engine] <= Config(r).max_entry_bytes,
         result'[r] \in {None, Failed, Compiled,
                         Loaded(Config(r).engine, Tag(Config(r), Config(r).engine))}
  PROVE  Inv'
<1>1. \A q \in Runtimes : Config(q)' = Config(q)
    BY DEF Config
<1>2. \A q \in Runtimes \ {r} : pc'[q] = pc[q]
    BY DEF Inv, Types
<1>3. pc'[r] = l
    BY DEF Inv, Types
<1>4. Types'
    BY Zenon DEF Inv, Types
<1>5. Agreement'
    BY <1>1, <1>2 DEF Inv, Agreement, Running
<1>6. \A c : Foreign(c)' <=> Foreign(c)
    BY DEF Foreign, Metadata, Tag
<1>7. Order'
    BY <1>1, <1>2, <1>6 DEF Inv, Order, Missing, HalfDone
<1>8. Checked'
    BY <1>1, <1>2, <1>3 DEF Inv, Checked, Publishing
<1>9. LoadsOnlyOwnPublication'
    BY <1>1 DEF Inv, LoadsOnlyOwnPublication
<1> QED
    BY <1>4, <1>5, <1>7, <1>8, <1>9 DEF Inv

LEMMA AtWork ==
  ASSUME Inv, NEW r \in Runtimes, pc[r] # "idle"
  PROVE  Config(r) # None /\ Config(r) \in Configs
BY ProcessAssumption DEF Inv, Types, Agreement, Config

LEMMA BeginKeeps ==
  ASSUME Inv, NEW r \in Runtimes, Begin(r)
  PROVE  Inv'
<1>1. /\ pc' = [pc EXCEPT ![r] = "stat_artifact"] /\ result' = [result EXCEPT ![r] = None]
      /\ Config(r) # None /\ UNCHANGED <<disk, config, local, failures, faults>>
    BY DEF Begin, Goto
<1>2. pc'[r] = "stat_artifact" /\ "stat_artifact" \in Labels
    BY <1>1 DEF Inv, Types, Labels
<1> QED
    BY <1>1, <1>2, LabelKeeps, Zenon DEF Inv, Types, Missing, HalfDone, Publishing

LEMMA StatArtifactKeeps ==
  ASSUME Inv, NEW r \in Runtimes, StatArtifact(r)
  PROVE  Inv'
<1> DEFINE l == IF disk.artifact = None THEN "stat_metadata" ELSE "read_metadata"
<1>1. /\ pc' = [pc EXCEPT ![r] = l]
      /\ Config(r) # None /\ UNCHANGED <<disk, config, local, result, failures, faults>>
    BY AtWork DEF StatArtifact, Goto
<1>2. pc'[r] = l /\ l \in Labels
    BY <1>1 DEF Inv, Types, Labels
<1>3. Missing(r)' => ~Foreign(Config(r))
    BY <1>2 DEF Missing, Foreign, Inv, Order
<1>4. ~HalfDone(r)' /\ ~Publishing(r)' /\ l # "read_artifact"
    BY <1>2 DEF HalfDone, Publishing
<1>5. result'[r] \in {None, Failed, Compiled,
                      Loaded(Config(r).engine, Tag(Config(r), Config(r).engine))}
    BY <1>1 DEF Inv, LoadsOnlyOwnPublication
<1> HIDE DEF l
<1> QED
    BY <1>1, <1>2, <1>3, <1>4, <1>5, LabelKeeps, Zenon DEF Inv, Types

LEMMA StatMetadataKeeps ==
  ASSUME Inv, NEW r \in Runtimes, StatMetadata(r)
  PROVE  Inv'
<1> DEFINE l == IF disk.metadata = None THEN "compile" ELSE "read_metadata"
<1>1. /\ pc' = [pc EXCEPT ![r] = l]
      /\ Config(r) # None /\ UNCHANGED <<disk, config, local, result, failures, faults>>
    BY AtWork DEF StatMetadata, Goto
<1>2. pc'[r] = l /\ l \in Labels
    BY <1>1 DEF Inv, Types, Labels
<1>3. Missing(r)' => ~Foreign(Config(r))
    BY DEF StatMetadata, Missing, Inv, Order
<1>4. ~HalfDone(r)' /\ ~Publishing(r)' /\ l # "read_artifact"
    BY <1>2 DEF HalfDone, Publishing
<1>5. result'[r] \in {None, Failed, Compiled,
                      Loaded(Config(r).engine, Tag(Config(r), Config(r).engine))}
    BY <1>1 DEF Inv, LoadsOnlyOwnPublication
<1> HIDE DEF l
<1> QED
    BY <1>1, <1>2, <1>3, <1>4, <1>5, LabelKeeps, Zenon DEF Inv, Types

\* prepare returns: with an error, the compiled component, or what it may load.
LEMMA FinishKeeps ==
  ASSUME Inv, NEW r \in Runtimes, Config(r) # None, NEW outcome, Finish(r, outcome),
         outcome \in {Failed, Compiled,
                      Loaded(Config(r).engine, Tag(Config(r), Config(r).engine))},
         UNCHANGED <<disk, config>>, faults' \in Nat, failures' \in [Runtimes -> BOOLEAN],
         \A q \in Runtimes \ {r} : failures'[q] = failures[q]
  PROVE  Inv'
<1>1. /\ pc' = [pc EXCEPT ![r] = "idle"] /\ result' = [result EXCEPT ![r] = outcome]
      /\ local' = [local EXCEPT ![r] = NoLocals]
    BY DEF Finish, Goto
<1>2. pc'[r] = "idle" /\ "idle" \in Labels /\ result'[r] = outcome
    BY <1>1 DEF Inv, Types, Labels
<1>3. ~Missing(r)' /\ ~HalfDone(r)' /\ ~Publishing(r)'
    BY <1>2 DEF Missing, HalfDone, Publishing
<1>4. /\ DOMAIN local' = Runtimes /\ DOMAIN result' = Runtimes
      /\ \A q \in Runtimes \ {r} : local'[q] = local[q] /\ result'[q] = result[q]
    BY <1>1 DEF Inv, Types
<1> QED
    BY <1>1, <1>2, <1>3, <1>4, LabelKeeps, Zenon

LEMMA ReadMetadataKeeps ==
  ASSUME Inv, NEW r \in Runtimes, ReadMetadata(r)
  PROVE  Inv'
<1>1. Config(r) # None /\ UNCHANGED <<disk, config, failures, faults>>
    BY AtWork DEF ReadMetadata
<1>2. CASE AcceptsMetadata(Config(r), disk.metadata)
  <2>1. /\ pc' = [pc EXCEPT ![r] = "read_artifact"] /\ UNCHANGED result
        /\ local' = [local EXCEPT ![r].metadata = disk.metadata]
    BY <1>2 DEF ReadMetadata, Goto
  <2>2. pc'[r] = "read_artifact" /\ "read_artifact" \in Labels
    BY <2>1 DEF Inv, Types, Labels
  <2>3. disk.metadata \in Published
    BY <1>2 DEF AcceptsMetadata, Inv, Types, Metadatas
  <2>4. result'[r] \in {None, Failed, Compiled,
                        Loaded(Config(r).engine, Tag(Config(r), Config(r).engine))}
    BY <2>1 DEF Inv, LoadsOnlyOwnPublication
  <2>5. ~Missing(r)' /\ ~HalfDone(r)' /\ ~Publishing(r)'
    BY <2>2 DEF Missing, HalfDone, Publishing
  <2>6. /\ DOMAIN local' = Runtimes /\ \A q \in Runtimes \ {r} : local'[q] = local[q]
        /\ local'[r].metadata \in Published
    BY <2>1, <2>3 DEF Inv, Types
  <2> QED
    BY <1>1, <2>1, <2>2, <2>4, <2>5, <2>6, LabelKeeps, Zenon DEF Inv, Types
<1>3. CASE ~AcceptsMetadata(Config(r), disk.metadata)
    BY <1>1, <1>3, FinishKeeps DEF ReadMetadata, Inv, Types
<1> QED
    BY <1>2, <1>3

\* A tag of a published artifact names the engine that made it: whatever metadata
\* was read, and whenever, an artifact that fits it is the engine's own.
LEMMA ReadArtifactKeeps ==
  ASSUME Inv, NEW r \in Runtimes, ReadArtifact(r)
  PROVE  Inv'
<1> DEFINE outcome == IF AcceptsArtifact(Config(r), local[r].metadata, disk.artifact)
                      THEN Loaded(disk.artifact, local[r].metadata.tag) ELSE Failed
<1>1. /\ Config(r) # None /\ Finish(r, outcome)
      /\ UNCHANGED <<disk, config, failures, faults>>
    BY AtWork DEF ReadArtifact
<1>2. PICK c \in Configs : local[r].metadata = Metadata(c)
    BY DEF ReadArtifact, Inv, Checked, Published
<1>3. ASSUME AcceptsArtifact(Config(r), local[r].metadata, disk.artifact)
      PROVE  disk.artifact = Config(r).engine
    BY <1>2, <1>3 DEF AcceptsArtifact, Metadata, Tag
<1>4. outcome \in {Failed, Compiled,
                   Loaded(Config(r).engine, Tag(Config(r), Config(r).engine))}
    BY <1>3 DEF AcceptsArtifact
<1> HIDE DEF outcome
<1> QED
    BY <1>1, <1>4, FinishKeeps DEF Inv, Types


\* publish fails and is counted; prepare returns the compiled component.
LEMMA PublishFailsKeeps ==
  ASSUME Inv, NEW r \in Runtimes, Config(r) # None, PublishFails(r),
         UNCHANGED <<disk, config>>, faults' \in Nat
  PROVE  Inv'
<1>1. Finish(r, Compiled) /\ failures' = [failures EXCEPT ![r] = TRUE]
    BY DEF PublishFails
<1>2. /\ failures' \in [Runtimes -> BOOLEAN]
      /\ \A q \in Runtimes \ {r} : failures'[q] = failures[q]
    BY <1>1 DEF Inv, Types
<1> HIDE DEF Compiled
<1> QED
    BY <1>1, <1>2, FinishKeeps, Zenon

LEMMA CompileKeeps ==
  ASSUME Inv, NEW r \in Runtimes, Compile(r)
  PROVE  Inv'
<1>1. /\ Config(r) # None /\ Config(r) \in Configs /\ UNCHANGED <<disk, config, faults>>
      /\ faults' \in Nat
    BY AtWork DEF Compile, Inv, Types
<1>2. CASE ArtifactLength[Config(r).engine] > Config(r).max_entry_bytes
    BY <1>1, <1>2, PublishFailsKeeps DEF Compile
<1>3. CASE ~(ArtifactLength[Config(r).engine] > Config(r).max_entry_bytes)
  <2>1. /\ pc' = [pc EXCEPT ![r] = "write_artifact"] /\ UNCHANGED <<local, result, failures>>
    BY <1>3 DEF Compile, Goto
  <2>2. pc'[r] = "write_artifact" /\ "write_artifact" \in Labels
    BY <2>1 DEF Inv, Types, Labels
  <2>3. ~Foreign(Config(r))
    BY DEF Compile, Missing, Inv, Order
  <2>4. ArtifactLength[Config(r).engine] <= Config(r).max_entry_bytes
    BY <1>1, <1>3, ConfigAssumption
  <2>5. ~HalfDone(r)'
    BY <2>2 DEF HalfDone
  <2>6. result'[r] \in {None, Failed, Compiled,
                        Loaded(Config(r).engine, Tag(Config(r), Config(r).engine))}
    BY <2>1 DEF Inv, LoadsOnlyOwnPublication
  <2> QED
    BY <1>1, <2>1, <2>2, <2>3, <2>4, <2>5, <2>6, LabelKeeps, Zenon DEF Inv, Types
<1> QED
    BY <1>2, <1>3

LEMMA WriteKeeps ==
  ASSUME Inv, NEW r \in Runtimes, WriteArtifact(r) \/ WriteMetadata(r)
  PROVE  Inv'
<1>1. PICK here \in Labels, next \in Labels, kind \in {"artifact", "metadata"} :
        /\ WriteTemporary(r, kind, here, next)
        /\ \/ here = "write_artifact" /\ next = "rename_artifact"
           \/ here = "write_metadata" /\ next = "rename_metadata"
    BY DEF WriteArtifact, WriteMetadata, Labels
<1>2. /\ pc[r] = here /\ UNCHANGED <<disk, config>>
      /\ \/ /\ pc' = [pc EXCEPT ![r] = next] /\ UNCHANGED <<result, failures, faults>>
            /\ local' = [local EXCEPT ![r].temporary = TemporaryName(r, kind)]
         \/ faults' = faults + 1 /\ PublishFails(r)
    BY <1>1 DEF WriteTemporary, Goto
<1>3. Config(r) # None
    BY <1>1, <1>2, AtWork
<1>4. CASE faults' = faults + 1 /\ PublishFails(r)
    BY <1>2, <1>3, <1>4, PublishFailsKeeps DEF Inv, Types
<1>5. CASE /\ pc' = [pc EXCEPT ![r] = next] /\ UNCHANGED <<result, failures, faults>>
           /\ local' = [local EXCEPT ![r].temporary = TemporaryName(r, kind)]
  <2>1. pc'[r] = next
    BY <1>5 DEF Inv, Types
  <2>2. /\ ~Foreign(Config(r)) /\ (HalfDone(r)' => disk.artifact = Config(r).engine)
        /\ ArtifactLength[Config(r).engine] <= Config(r).max_entry_bytes
    BY <1>1, <1>2, <2>1 DEF Missing, HalfDone, Publishing, Inv, Order, Checked
  <2>3. result'[r] \in {None, Failed, Compiled,
                        Loaded(Config(r).engine, Tag(Config(r), Config(r).engine))}
    BY <1>5 DEF Inv, LoadsOnlyOwnPublication
  <2>4. /\ DOMAIN local' = Runtimes /\ next # "read_artifact"
        /\ \A q \in Runtimes \ {r} : local'[q] = local[q]
    BY <1>1, <1>5 DEF Inv, Types
  <2> QED
    BY <1>2, <1>3, <1>5, <2>1, <2>2, <2>3, <2>4, LabelKeeps, Zenon DEF Inv, Types
<1> QED
    BY <1>2, <1>4, <1>5

\* Publishers share one configuration: another one's rename puts in place what a
\* publication would have put there itself.
LEMMA OneConfiguration ==
  ASSUME Inv, NEW r \in Runtimes, NEW q \in Runtimes, pc[r] # "idle", pc[q] # "idle"
  PROVE  Config(q) = Config(r)
BY AtWork, ProcessAssumption DEF Inv, Agreement, Running, Config

\* A rename by a publisher.
LEMMA RenameKeeps ==
  ASSUME Inv, NEW r \in Runtimes, Missing(r), NEW l \in {"write_metadata", "idle"},
         \/ disk' = [disk EXCEPT !.artifact = Config(r).engine]
         \/ disk' = [disk EXCEPT !.metadata = Metadata(Config(r))] /\ HalfDone(r) /\ l = "idle",
         l = "write_metadata" =>
           /\ disk' = [disk EXCEPT !.artifact = Config(r).engine]
           /\ ArtifactLength[Config(r).engine] <= Config(r).max_entry_bytes,
         pc' = [pc EXCEPT ![r] = l], UNCHANGED <<config, failures, faults>>,
         DOMAIN local' = Runtimes, \A q \in Runtimes \ {r} : local'[q] = local[q],
         DOMAIN result' = Runtimes, \A q \in Runtimes \ {r} : result'[q] = result[q],
         result'[r] \in {result[r], Compiled}
  PROVE  Inv'
<1>0. Config(r) # None /\ Config(r) \in Configs /\ pc[r] # "idle"
    BY AtWork DEF Missing
<1>1. \A q \in Runtimes : Config(q)' = Config(q)
    BY DEF Config
<1>2. \A q \in Runtimes \ {r} : pc'[q] = pc[q]
    BY DEF Inv, Types
<1>3. pc'[r] = l
    BY DEF Inv, Types
<1>4. Config(r).engine \in Artifacts /\ Metadata(Config(r)) \in Metadatas /\ l \in Labels
    BY <1>0 DEF Artifacts, Engines, Metadatas, Published, Labels
<1>5. disk' \in [artifact : Artifacts, metadata : Metadatas]
    BY <1>4, Zenon DEF Inv, Types
<1>6. Types'
    BY <1>4, <1>5 DEF Inv, Types
<1>7. Agreement'
    BY <1>0, <1>1, <1>2 DEF Inv, Agreement, Running
<1>8. /\ disk'.artifact \in {disk.artifact, Config(r).engine}
      /\ disk'.metadata \in {disk.metadata, Metadata(Config(r))}
      /\ disk'.artifact = disk.artifact \/ disk'.artifact = Config(r).engine
      /\ HalfDone(r) \/ disk'.artifact = Config(r).engine
    BY <1>4 DEF Inv, Types
<1>9. Config(r).engine # None
    BY <1>0, ConfigAssumption
<1>10. disk'.artifact = Config(r).engine
    BY <1>8 DEF Inv, Order
<1>11. \A q \in Runtimes : Missing(q) => ~Foreign(Config(q))'
  <2> SUFFICES ASSUME NEW q \in Runtimes, Missing(q) PROVE ~Foreign(Config(q))'
    OBVIOUS
  <2>1. Config(q) = Config(r) /\ Config(q)' = Config(r)
    BY <1>0, <1>1, OneConfiguration DEF Missing
  <2>2. ~Foreign(Config(r))
    BY DEF Inv, Order
  <2>3. disk'.metadata \in {None, Metadata(Config(r))}
    BY <1>8, <2>2 DEF Foreign
  <2> QED
    BY <2>1, <2>3, <1>10 DEF Foreign, Metadata, Tag
<1>12. \A q \in Runtimes : Missing(q)' => Missing(q)
    BY <1>2 DEF Missing
<1>13. \A q \in Runtimes : HalfDone(q)' => disk'.artifact = Config(q)'.engine
  <2> SUFFICES ASSUME NEW q \in Runtimes, HalfDone(q)' PROVE disk'.artifact = Config(q)'.engine
    OBVIOUS
  <2>1. Missing(q)
    BY <1>12 DEF HalfDone, Missing
  <2> QED
    BY <2>1, <1>0, <1>1, <1>10, OneConfiguration DEF Missing
<1>14. Order'
    BY <1>9, <1>10, <1>11, <1>12, <1>13 DEF Order
<1>15. Checked'
    BY <1>1, <1>2, <1>3 DEF Inv, Checked, Publishing
<1>16. LoadsOnlyOwnPublication'
    BY <1>1 DEF Inv, LoadsOnlyOwnPublication
<1> QED
    BY <1>6, <1>7, <1>14, <1>15, <1>16 DEF Inv


LEMMA RenameFailsKeeps ==
  ASSUME Inv, NEW r \in Runtimes, pc[r] # "idle", RenameFails(r), UNCHANGED config
  PROVE  Inv'
<1>1. PublishFails(r) /\ UNCHANGED disk /\ faults' \in {faults, faults + 1}
    BY DEF RenameFails
<1>2. Config(r) # None /\ faults' \in Nat
    BY <1>1, AtWork DEF Inv, Types
<1> QED
    BY <1>1, <1>2, PublishFailsKeeps

LEMMA RenameArtifactKeeps ==
  ASSUME Inv, NEW r \in Runtimes, RenameArtifact(r)
  PROVE  Inv'
<1>1. pc[r] = "rename_artifact" /\ UNCHANGED config
    BY DEF RenameArtifact
<1>2. CASE RenameFails(r)
    BY <1>1, <1>2, RenameFailsKeeps
<1>3. CASE ~RenameFails(r)
  <2>1. /\ disk' = [disk EXCEPT !.artifact = Config(r).engine]
        /\ pc' = [pc EXCEPT ![r] = "write_metadata"]
        /\ UNCHANGED <<local, result, failures, faults>>
    BY <1>3 DEF RenameArtifact, Goto
  <2>2. Missing(r) /\ ArtifactLength[Config(r).engine] <= Config(r).max_entry_bytes
    BY <1>1 DEF Missing, Publishing, Inv, Checked
  <2> QED
    BY <1>1, <2>1, <2>2, RenameKeeps, Zenon DEF Inv, Types
<1> QED
    BY <1>2, <1>3

LEMMA RenameMetadataKeeps ==
  ASSUME Inv, NEW r \in Runtimes, RenameMetadata(r)
  PROVE  Inv'
<1>1. pc[r] = "rename_metadata" /\ UNCHANGED config
    BY DEF RenameMetadata
<1>2. CASE RenameFails(r)
    BY <1>1, <1>2, RenameFailsKeeps
<1>3. CASE ~RenameFails(r)
  <2>1. /\ disk' = [disk EXCEPT !.metadata = Metadata(Config(r))]
        /\ pc' = [pc EXCEPT ![r] = "idle"]
        /\ result' = [result EXCEPT ![r] = Compiled]
        /\ local' = [local EXCEPT ![r] = NoLocals]
        /\ UNCHANGED <<failures, faults>>
    BY <1>3 DEF RenameMetadata, Finish, Goto
  <2>2. Missing(r) /\ HalfDone(r)
    BY <1>1 DEF Missing, HalfDone
  <2>3. /\ DOMAIN local' = Runtimes /\ DOMAIN result' = Runtimes /\ result'[r] = Compiled
        /\ \A q \in Runtimes \ {r} : local'[q] = local[q] /\ result'[q] = result[q]
    BY <2>1 DEF Inv, Types
  <2> QED
    BY <1>1, <2>1, <2>2, <2>3, RenameKeeps, Zenon
<1> QED
    BY <1>2, <1>3

LEMMA StartKeeps ==
  ASSUME Inv, NEW p \in Processes, Start(p)
  PROVE  Inv'
<1>1. PICK c \in Configs :
        (\A q \in Running : config[q] = c) /\ config' = [config EXCEPT ![p] = c]
    BY Zenon DEF Start
<1>2. config[p] = None /\ UNCHANGED <<disk, pc, local, result, failures, faults>>
    BY DEF Start
<1>3. config' \in [Processes -> Configs \cup {None}]
    BY <1>1 DEF Inv, Types
<1>4. \A q \in Processes : config'[q] = IF q = p THEN c ELSE config[q]
    BY <1>1 DEF Inv, Types
<1>5. \A q \in Running' : config'[q] = c
    BY <1>1, <1>4 DEF Running
<1>6. \A r \in Runtimes : Config(r) # None => Config(r)' = Config(r)
    BY <1>2, <1>4, ProcessAssumption DEF Config
<1>7. \A r \in Runtimes : Config(r) = None => pc[r] = "idle" /\ result[r] = None /\ failures[r] = FALSE
    BY DEF Inv, Agreement
<1>8. Types'
    BY <1>2, <1>3 DEF Inv, Types
<1>9. Agreement'
    BY <1>2, <1>5, <1>6, <1>7 DEF Agreement
<1>10. \A e : Foreign(e)' <=> Foreign(e)
    BY <1>2 DEF Foreign, Metadata, Tag
<1>11. Order'
    BY <1>2, <1>6, <1>7, <1>10 DEF Inv, Order, Missing, HalfDone
<1>12. Checked'
    BY <1>2, <1>6, <1>7 DEF Inv, Checked, Publishing
<1>13. LoadsOnlyOwnPublication'
    BY <1>2, <1>6, <1>7 DEF Inv, LoadsOnlyOwnPublication
<1> QED
    BY <1>8, <1>9, <1>11, <1>12, <1>13 DEF Inv

\* Some processes stop; the files stay, or all processes have stopped.
LEMMA StoppedKeeps ==
  ASSUME Inv, NEW S \in SUBSET Processes, Stopped(S), faults' \in Nat,
         UNCHANGED disk \/
           (/\ S = Processes
            /\ disk' \in [artifact : Artifacts, metadata : Metadatas]
            /\ disk'.artifact = None => disk'.metadata = None)
  PROVE  Inv'
<1> DEFINE inside == {r \in Runtimes : ProcessOf[r] \in S}
<1>1. /\ config' = [p \in Processes |-> IF p \in S THEN None ELSE config[p]]
      /\ pc' = [r \in Runtimes |-> IF r \in inside THEN "idle" ELSE pc[r]]
      /\ local' = [r \in Runtimes |-> IF r \in inside THEN NoLocals ELSE local[r]]
      /\ result' = [r \in Runtimes |-> IF r \in inside THEN None ELSE result[r]]
      /\ failures' = [r \in Runtimes |-> IF r \in inside THEN FALSE ELSE failures[r]]
    BY DEF Stopped
<1>2. /\ config' \in [Processes -> Configs \cup {None}] /\ pc' \in [Runtimes -> Labels]
      /\ failures' \in [Runtimes -> BOOLEAN]
    BY <1>1, Zenon DEF Inv, Types, Labels
<1>3. Types'
    BY <1>1, <1>2, Zenon DEF Inv, Types
<1>4. \A r \in inside : Config(r)' = None /\ pc'[r] = "idle" /\ result'[r] = None /\ failures'[r] = FALSE
    BY <1>1 DEF Config
<1>5. \A r \in Runtimes \ inside :
        /\ Config(r)' = Config(r) /\ pc'[r] = pc[r] /\ local'[r] = local[r]
        /\ result'[r] = result[r] /\ failures'[r] = failures[r]
    BY <1>1, ProcessAssumption, Zenon DEF Config
<1>6. Running' \subseteq Running /\ \A p \in Running' : config'[p] = config[p]
    BY <1>1 DEF Running
<1>7. Agreement'
    BY <1>4, <1>5, <1>6 DEF Inv, Agreement
<1>8. inside = Runtimes \/ UNCHANGED disk
    BY ProcessAssumption
<1> HIDE DEF inside
<1>9. disk'.artifact = None => disk'.metadata = None
    BY DEF Inv, Order
<1>10. \A r \in Runtimes : Missing(r)' => ~Foreign(Config(r))'
    BY <1>4, <1>5, <1>8 DEF Inv, Order, Missing, Foreign, Metadata, Tag
<1>11. \A r \in Runtimes : HalfDone(r)' => disk'.artifact = Config(r)'.engine
    BY <1>4, <1>5, <1>8 DEF Inv, Order, HalfDone
<1>12. Checked'
    BY <1>4, <1>5 DEF Inv, Checked, Publishing
<1>13. LoadsOnlyOwnPublication'
    BY <1>4, <1>5 DEF Inv, LoadsOnlyOwnPublication
<1> QED
    BY <1>3, <1>7, <1>9, <1>10, <1>11, <1>12, <1>13 DEF Inv, Order


LEMMA ExitKeeps ==
  ASSUME Inv, NEW p \in Processes, Exit(p)
  PROVE  Inv'
<1>1. Stopped({p}) /\ UNCHANGED disk /\ faults' \in {faults, faults + 1}
    BY DEF Exit
<1>2. faults' \in Nat
    BY <1>1 DEF Inv, Types
<1> QED
    BY <1>1, <1>2, StoppedKeeps

LEMMA PowerLossKeeps ==
  ASSUME Inv, PowerLoss
  PROVE  Inv'
<1>1. /\ Stopped(Processes) /\ faults' \in Nat
      /\ disk' \in [artifact : CutShort(disk.artifact), metadata : CutShort(disk.metadata)]
    BY DEF PowerLoss, Inv, Types
<1>2. /\ disk'.artifact \in CutShort(disk.artifact) /\ disk'.metadata \in CutShort(disk.metadata)
      /\ CutShort(disk.artifact) \subseteq Artifacts /\ CutShort(disk.metadata) \subseteq Metadatas
    BY <1>1 DEF CutShort, Inv, Types, Artifacts, Metadatas
<1>3. disk' \in [artifact : Artifacts, metadata : Metadatas]
    BY <1>1, <1>2
<1>4. disk'.artifact = None => disk'.metadata = None
    BY <1>2, ConfigAssumption DEF CutShort, Inv, Order
<1> QED
    BY <1>1, <1>3, <1>4, StoppedKeeps

\* Clearing meets no runtime at work.
LEMMA ClearKeeps ==
  ASSUME Inv, Clear
  PROVE  Inv'
<1>1. /\ disk' = [artifact |-> None, metadata |-> None]
      /\ UNCHANGED <<config, pc, local, result, failures, faults>>
    BY DEF Clear
<1>2. \A r \in Runtimes : Config(r) = None /\ pc'[r] = "idle"
    BY <1>1, ProcessAssumption DEF Clear, Running, Config, Inv, Agreement
<1>3. disk' \in [artifact : Artifacts, metadata : Metadatas]
    BY <1>1 DEF Artifacts, Metadatas
<1>4. Types' /\ Agreement'
    BY <1>1, <1>3, Zenon DEF Inv, Types, Agreement, Running, Config
<1>5. Order' /\ Checked'
    BY <1>1, <1>2, Zenon DEF Order, Checked, Missing, HalfDone, Publishing
<1>6. LoadsOnlyOwnPublication'
    BY <1>1 DEF Inv, LoadsOnlyOwnPublication, Config
<1> QED
    BY <1>4, <1>5, <1>6 DEF Inv

LEMMA StutterKeeps ==
  ASSUME Inv, UNCHANGED vars
  PROVE  Inv'
<1>1. UNCHANGED <<disk, config, pc, local, result, failures, faults>>
    BY DEF vars
<1>2. Types' /\ Agreement'
    BY <1>1, Zenon DEF Inv, Types, Agreement, Running, Config
<1>3. Order'
    BY <1>1, Zenon DEF Inv, Order, Missing, HalfDone, Foreign, Config, Metadata, Tag
<1>4. Checked' /\ LoadsOnlyOwnPublication'
    BY <1>1 DEF Inv, Checked, Publishing, LoadsOnlyOwnPublication, Config
<1> QED
    BY <1>2, <1>3, <1>4 DEF Inv

LEMMA Inductive == Inv /\ [Next]_vars => Inv'
<1> SUFFICES ASSUME Inv, [Next]_vars PROVE Inv'
    OBVIOUS
<1>1. ASSUME NEW r \in Runtimes, Step(r) PROVE Inv'
    BY <1>1, BeginKeeps, StatArtifactKeeps, StatMetadataKeeps, ReadMetadataKeeps,
       ReadArtifactKeeps, CompileKeeps, WriteKeeps, RenameArtifactKeeps, RenameMetadataKeeps
       DEF Step
<1> QED
    BY <1>1, StartKeeps, ExitKeeps, PowerLossKeeps, ClearKeeps, StutterKeeps DEF Next

(***************************************************************************)
(* Every reachable state satisfies the inductive invariant: running        *)
(* processes agree on key and version, a runtime on its way to publish has *)
(* nothing foreign before it, and metadata never stands alone.             *)
(***************************************************************************)
THEOREM Invariance == Spec => []Inv
BY Initially, Inductive, PTL DEF Spec

(***************************************************************************)
(* load hands deserialize_component only bytes that the loading engine     *)
(* serialized and published under its own key, for any runtimes and        *)
(* configurations and whatever crashes, power losses and foreign entries   *)
(* come between the reads of the two files.                                *)
(***************************************************************************)
THEOREM OwnPublication == Spec => []LoadsOnlyOwnPublication
<1>1. Inv => LoadsOnlyOwnPublication
    BY DEF Inv
<1> QED
    BY Invariance, <1>1, PTL

-----------------------------------------------------------------------------
\* What may change the files while a process keeps running: the rename of a
\* publisher, to whom the entry was not foreign.
DiskSteps ==
  \/ UNCHANGED disk
  \/ Running = {}
  \/ \A p \in Processes : config'[p] = None
  \/ \E r \in Runtimes :
       /\ Missing(r) /\ UNCHANGED config
       /\ \/ disk' = [disk EXCEPT !.artifact = Config(r).engine]
          \/ HalfDone(r) /\ disk' = [disk EXCEPT !.metadata = Metadata(Config(r))]

LEMMA FilesChange ==
  ASSUME Inv, [Next]_vars
  PROVE  DiskSteps
<1>1. ASSUME NEW r \in Runtimes, Step(r), ~UNCHANGED disk
      PROVE  DiskSteps
  <2>1. RenameArtifact(r) \/ RenameMetadata(r)
    BY <1>1 DEF Step, Begin, StatArtifact, StatMetadata, ReadMetadata, ReadArtifact, Compile,
       WriteArtifact, WriteMetadata, WriteTemporary
  <2>2. ~RenameFails(r)
    BY <1>1 DEF RenameFails
  <2> QED
    BY <2>1, <2>2 DEF RenameArtifact, RenameMetadata, Missing, HalfDone, DiskSteps
<1>2. ASSUME PowerLoss PROVE DiskSteps
    BY <1>2 DEF PowerLoss, Stopped, DiskSteps
<1>3. ASSUME Clear PROVE DiskSteps
    BY <1>3 DEF Clear, DiskSteps
<1>4. ASSUME NEW p \in Processes, Start(p) \/ Exit(p) PROVE DiskSteps
    BY <1>4 DEF Start, Exit, DiskSteps
<1>5. ASSUME UNCHANGED vars PROVE DiskSteps
    BY <1>5 DEF vars, DiskSteps
<1> QED
    BY <1>1, <1>2, <1>3, <1>4, <1>5 DEF Next, DiskSteps

\* A running process shares the publisher's configuration.
LEMMA RunningConfiguration ==
  ASSUME Inv, NEW p \in Running, NEW r \in Runtimes, pc[r] # "idle"
  PROVE  Config(r) = config[p] /\ config[p] \in Configs
BY AtWork, ProcessAssumption DEF Inv, Types, Agreement, Running, Config

(***************************************************************************)
(* While a process runs that cannot use what is in the directory, no       *)
(* publication replaces it: publish only ever follows a load that found    *)
(* neither file, and concurrent publishers share key and version.          *)
(***************************************************************************)
THEOREM ForeignStays == Spec => ForeignEntryStays
<1>1. ASSUME Inv, [Next]_vars, NEW p \in Running, Foreign(config[p])
      PROVE  disk' = disk \/ config'[p] = None
  <2>1. ASSUME NEW r \in Runtimes, Missing(r) PROVE FALSE
    BY <1>1, <2>1, RunningConfiguration DEF Missing, Inv, Order
  <2> QED
    BY <1>1, <2>1, FilesChange, Zenon DEF DiskSteps, Running
<1>2. Inv /\ [Next]_vars =>
        [\A p \in Running : Foreign(config[p]) => (disk' = disk \/ config'[p] = None)]_vars
    BY <1>1
<1> QED
    BY Invariance, <1>2, PTL DEF Spec, ForeignEntryStays


-----------------------------------------------------------------------------
\* While some process stays, or another has come, the configuration stays.
LEMMA ConfigurationStays ==
  ASSUME Inv, [Next]_vars, Running # {}, Running' # {}
  PROVE  \E c \in Configs : /\ \A p \in Running : config[p] = c
                            /\ \A p \in Running' : config'[p] = c
<1>1. PICK c \in Configs : \A p \in Running : config[p] = c
    BY DEF Inv, Types, Agreement, Running
<1>2. ASSUME NEW p \in Processes, Start(p) PROVE \A q \in Running' : config'[q] = c
  <2>1. PICK d \in Configs :
          (\A q \in Running : config[q] = d) /\ config' = [config EXCEPT ![p] = d]
    BY <1>2, Zenon DEF Start
  <2>2. c = d
    BY <1>1, <2>1
  <2> QED
    BY <1>1, <2>1, <2>2 DEF Running, Inv, Types
<1>3. ASSUME NEW S \in SUBSET Processes, Stopped(S) PROVE \A q \in Running' : config'[q] = c
    BY <1>1, <1>3 DEF Stopped, Running
<1>4. ASSUME UNCHANGED config PROVE \A q \in Running' : config'[q] = c
    BY <1>1, <1>4 DEF Running
<1>5. ASSUME NEW r \in Runtimes, Step(r) PROVE UNCHANGED config
    BY <1>5 DEF Step, Begin, StatArtifact, StatMetadata, ReadMetadata, ReadArtifact, Compile,
       WriteArtifact, WriteMetadata, WriteTemporary, RenameArtifact, RenameMetadata
<1>6. ASSUME NEW p \in Processes, Exit(p) PROVE \A q \in Running' : config'[q] = c
    BY <1>6, <1>3 DEF Exit
<1>7. ASSUME PowerLoss PROVE \A q \in Running' : config'[q] = c
    BY <1>7, <1>3 DEF PowerLoss
<1>8. ASSUME Clear \/ UNCHANGED vars PROVE UNCHANGED config
    BY <1>8 DEF Clear, vars
<1> QED
    BY <1>1, <1>2, <1>4, <1>5, <1>6, <1>7, <1>8 DEF Next

\* What the running processes see depends on the files and their configuration.
LEMMA SeenSame ==
  ASSUME Inv, Running # {}, Running' # {}, NEW c \in Configs,
         \A p \in Running : config[p] = c, \A p \in Running' : config'[p] = c,
         UNCHANGED disk
  PROVE  SeenState' = SeenState
<1>1. Loadable(c)' <=> Loadable(c)
    BY DEF Loadable, AcceptsMetadata, AcceptsArtifact, FileLength, Tag
<1>2. (\E p \in Running : Loadable(config[p])) <=> Loadable(c)
    OBVIOUS
<1>3. (\E p \in Running : Loadable(config[p]))' <=> Loadable(c)'
    BY DEF Loadable
<1> QED
    BY <1>1, <1>2, <1>3 DEF SeenState, Loadable

LEMMA SeenIsAState == SeenState \in Entry!EntryStates /\ SeenState' \in Entry!EntryStates
BY DEF SeenState, Entry!EntryStates

\* The artifact of a publication makes an absent entry unusable and changes no
\* other.
LEMMA ArtifactSeen ==
  ASSUME Inv, NEW r \in Runtimes, Missing(r), UNCHANGED config, Running # {},
         disk' = [disk EXCEPT !.artifact = Config(r).engine]
  PROVE  SeenState' = IF SeenState = "absent" THEN "unusable" ELSE SeenState
<1>1. Config(r) \in Configs /\ Config(r).engine # None /\ Running' = Running
    BY AtWork, ConfigAssumption DEF Missing, Running
<1>2. /\ disk' = [artifact |-> Config(r).engine, metadata |-> disk.metadata]
      /\ disk = [artifact |-> disk.artifact, metadata |-> disk.metadata]
    BY DEF Inv, Types
<1>3. ~Foreign(Config(r))
    BY DEF Inv, Order
<1>4. CASE disk.artifact = None
  <2>1. disk.metadata = None /\ SeenState = "absent"
    BY <1>4 DEF Inv, Order, SeenState
  <2>2. \A c : ~Loadable(c)'
    BY <1>2, <2>1 DEF Loadable, AcceptsMetadata
  <2> QED
    BY <1>1, <1>2, <2>1, <2>2 DEF SeenState
<1>5. CASE disk.artifact # None
  <2>1. UNCHANGED disk /\ SeenState # "absent"
    BY <1>2, <1>3, <1>5 DEF Foreign, SeenState
  <2> QED
    BY <1>1, <2>1, SeenSame, RunningConfiguration DEF Missing
<1> QED
    BY <1>4, <1>5

\* The metadata of a publication completes a pair that loads.
LEMMA MetadataLoads ==
  ASSUME Inv, NEW r \in Runtimes, HalfDone(r),
         disk' = [disk EXCEPT !.metadata = Metadata(Config(r))]
  PROVE  /\ AcceptsMetadata(Config(r), disk'.metadata)
         /\ AcceptsArtifact(Config(r), disk'.metadata, disk'.artifact)
         /\ disk'.artifact # None
<1>1. Config(r) \in Configs /\ Config(r).engine \notin {None, Truncated}
    BY AtWork, ConfigAssumption DEF HalfDone
<1>2. disk'.artifact = Config(r).engine /\ disk'.metadata = Metadata(Config(r))
    BY DEF Inv, Types, Order
<1>3. ArtifactLength[Config(r).engine] <= Config(r).max_entry_bytes
    BY DEF HalfDone, Publishing, Inv, Checked
<1>4. AcceptsMetadata(Config(r), disk'.metadata)
    BY <1>1, <1>2, <1>3, ConfigAssumption DEF AcceptsMetadata, Metadata
<1>5. AcceptsArtifact(Config(r), disk'.metadata, disk'.artifact)
    BY <1>1, <1>2 DEF AcceptsArtifact, Metadata, FileLength
<1> QED
    BY <1>1, <1>2, <1>4, <1>5

LEMMA EntryStep ==
  ASSUME Inv, [Next]_vars
  PROVE  [Entry!Next]_<<SeenState, Running # {}>>
<1>1. CASE Running = {} \/ Running' = {}
    BY <1>1, SeenIsAState DEF Entry!Next, Entry!Offline
<1>2. CASE Running # {} /\ Running' # {}
  <2>1. CASE UNCHANGED disk
    BY <1>2, <2>1, ConfigurationStays, SeenSame
  <2>2. ASSUME NEW r \in Runtimes, Missing(r), UNCHANGED config,
               disk' = [disk EXCEPT !.artifact = Config(r).engine]
        PROVE  Entry!Next
    BY <1>2, <2>2, ArtifactSeen DEF Entry!Next, Entry!Publish, Entry!PublishArtifact
  <2>3. ASSUME NEW r \in Runtimes, HalfDone(r), UNCHANGED config,
               disk' = [disk EXCEPT !.metadata = Metadata(Config(r))]
        PROVE  Entry!Next
    <3>1. PICK p \in Running : config[p] = Config(r) /\ p \in Running' /\ config'[p] = Config(r)
      BY <1>2, <2>3, RunningConfiguration DEF HalfDone, Running
    <3>2. SeenState' = "whole"
      BY <2>3, <3>1, MetadataLoads DEF SeenState, Loadable
    <3>3. disk.artifact # None
      BY <2>3, AtWork, ConfigAssumption DEF HalfDone, Inv, Order
    <3> QED
      BY <1>2, <3>2, <3>3 DEF SeenState, Entry!Next, Entry!Publish, Entry!PublishMetadata
  <2>4. Running' # {} => ~(\A p \in Processes : config'[p] = None)
    BY DEF Running
  <2> QED
    BY <1>2, <2>1, <2>2, <2>3, <2>4, FilesChange DEF DiskSteps
<1> QED
    BY <1>1, <1>2

(***************************************************************************)
(* The directory implements DiskEntry, the specification Preparation is    *)
(* built on: while a process runs, the entry it sees goes from absent to   *)
(* unusable to whole and never back, whatever other runtimes and processes *)
(* publish, and however processes come and go.                             *)
(***************************************************************************)
THEOREM EntryImplemented == Spec => ImplementsDiskEntry
<1>1. Init => Entry!Init
    BY DEF Init, Entry!Init, SeenState, Running
<1> QED
    BY <1>1, Invariance, EntryStep, PTL DEF Spec, ImplementsDiskEntry, Entry!Spec


-----------------------------------------------------------------------------
\* No two processes on the directory have one process id (they are not in
\* different PID namespaces).
OnePidPerProcess == \A p, q \in Processes : Pid[p] = Pid[q] => p = q

Renaming(r) == pc[r] \in {"rename_artifact", "rename_metadata"}

\* A temporary file name that a process has given out.
NameOf(name, p) ==
  \E kind \in {"artifact", "metadata"}, n \in Nat :
    n < sequence[p] /\ name = <<kind, Pid[p], n>>

\* The temporary files are those of the runtimes about to rename one, one each.
OwnTemporaries ==
  /\ sequence \in [Processes -> Nat]
  /\ temps = {local[r].temporary : r \in {q \in Runtimes : Renaming(q)}}
  /\ \A r \in Runtimes : Renaming(r) => NameOf(local[r].temporary, ProcessOf[r])
  /\ \A r, q \in Runtimes :
       Renaming(r) /\ Renaming(q) /\ local[r].temporary = local[q].temporary => r = q

Oversized(r) == ArtifactLength[Config(r).engine] > Config(r).max_entry_bytes

\* Metadata completes a pair, and an artifact without metadata has a publisher
\* that is about to write it.
Pairs ==
  /\ \A r \in Runtimes : failures[r] => Oversized(r)
  /\ disk.metadata # None => \E c \in Configs : Loadable(c)
  /\ disk.artifact # None /\ disk.metadata = None => \E r \in Runtimes : HalfDone(r)

Quiet == OwnTemporaries /\ Pairs

\* A step of one runtime that neither renames nor is about to.
LEMMA AsideKeeps ==
  ASSUME Inv, Quiet, NEW r \in Runtimes, NEW l \in Labels, pc' = [pc EXCEPT ![r] = l],
         ~Renaming(r), ~HalfDone(r), ~Renaming(r)', UNCHANGED <<disk, config, temps, sequence>>,
         \A q \in Runtimes \ {r} : local'[q] = local[q] /\ failures'[q] = failures[q],
         failures'[r] => failures[r] \/ Oversized(r)
  PROVE  Quiet'
<1>1. \A q \in Runtimes \ {r} : pc'[q] = pc[q]
    BY DEF Inv, Types
<1>2. \A q \in Runtimes : Renaming(q)' <=> Renaming(q)
    BY <1>1, Zenon DEF Renaming
<1>3. \A q \in Runtimes : Renaming(q) => local'[q] = local[q]
    BY Zenon
<1>4. \A q \in Runtimes : Renaming(q)' => NameOf(local[q].temporary, ProcessOf[q])'
    BY <1>2, <1>3 DEF Quiet, OwnTemporaries, NameOf
<1>5. temps' = {local'[q].temporary : q \in {w \in Runtimes : Renaming(w)'}}
    BY <1>2, <1>3 DEF Quiet, OwnTemporaries
<1>6. OwnTemporaries'
    BY <1>2, <1>3, <1>4, <1>5, Zenon DEF Quiet, OwnTemporaries
<1>7. \A q \in Runtimes : (Oversized(q)' <=> Oversized(q)) /\ (HalfDone(q) => HalfDone(q)')
    BY <1>1, Zenon DEF Oversized, Config, HalfDone
<1>8. \A c : Loadable(c)' <=> Loadable(c)
    BY Zenon DEF Loadable, AcceptsMetadata, AcceptsArtifact, FileLength, Tag
<1>9. Pairs'
    BY <1>7, <1>8 DEF Quiet, Pairs
<1> QED
    BY <1>6, <1>9 DEF Quiet

LEMMA QuietAside ==
  ASSUME Inv, Quiet, NEW r \in Runtimes,
         \/ Begin(r) \/ StatArtifact(r) \/ StatMetadata(r)
         \/ ReadMetadata(r) \/ ReadArtifact(r) \/ Compile(r)
  PROVE  Quiet'
<1>1. UNCHANGED <<disk, config, temps, sequence>> /\ ~Renaming(r) /\ ~HalfDone(r)
    BY DEF Begin, StatArtifact, StatMetadata, ReadMetadata, ReadArtifact, Compile,
       Renaming, HalfDone
<1>2. PICK l \in Labels \ {"rename_artifact", "rename_metadata"} : pc' = [pc EXCEPT ![r] = l]
    BY DEF Begin, StatArtifact, StatMetadata, ReadMetadata, ReadArtifact, Compile,
       PublishFails, Finish, Goto, Labels
<1>3. ~Renaming(r)'
    BY <1>2 DEF Renaming, Inv, Types
<1>4. \A q \in Runtimes \ {r} : local'[q] = local[q]
    BY DEF Begin, StatArtifact, StatMetadata, ReadMetadata, ReadArtifact, Compile,
       PublishFails, Finish, Inv, Types
<1>5. /\ \A q \in Runtimes \ {r} : failures'[q] = failures[q]
      /\ failures'[r] => failures[r] \/ Oversized(r)
    BY DEF Begin, StatArtifact, StatMetadata, ReadMetadata, ReadArtifact, Compile,
       PublishFails, Oversized, Inv, Types
<1> QED
    BY <1>1, <1>2, <1>3, <1>4, <1>5, AsideKeeps, Zenon

\* A name the counter of the process gives is not that of any file there is.
LEMMA QuietWrite ==
  ASSUME OnePidPerProcess, Inv, Quiet, NEW r \in Runtimes, UNCHANGED faults,
         WriteArtifact(r) \/ WriteMetadata(r)
  PROVE  Quiet'
<1>1. PICK here \in Labels, next \in Labels, kind \in {"artifact", "metadata"} :
        /\ WriteTemporary(r, kind, here, next)
        /\ \/ here = "write_artifact" /\ next = "rename_artifact"
           \/ here = "write_metadata" /\ next = "rename_metadata"
    BY DEF WriteArtifact, WriteMetadata, Labels
<1> DEFINE p == ProcessOf[r]
<1> DEFINE name == <<kind, Pid[p], sequence[p]>>
<1>2. /\ pc[r] = here /\ UNCHANGED <<disk, config, result, failures>>
      /\ sequence' = [sequence EXCEPT ![p] = @ + 1] /\ temps' = temps \cup {name}
      /\ pc' = [pc EXCEPT ![r] = next] /\ local' = [local EXCEPT ![r].temporary = name]
    BY <1>1 DEF WriteTemporary, TemporaryName, Goto, Inv, Types
<1>3. p \in Processes /\ sequence \in [Processes -> Nat]
    BY ProcessAssumption DEF Quiet, OwnTemporaries
<1>4. \A q \in Runtimes \ {r} : pc'[q] = pc[q] /\ local'[q] = local[q]
    BY <1>2 DEF Inv, Types
<1>5. ~Renaming(r) /\ Renaming(r)'
    BY <1>1, <1>2 DEF Renaming, Inv, Types
<1>6. \A q \in Runtimes \ {r} : Renaming(q)' <=> Renaming(q)
    BY <1>4 DEF Renaming

<1>7. local'[r].temporary = name
    BY <1>2 DEF Inv, Types
<1>8. \A q \in Runtimes : Renaming(q) => local[q].temporary # name
  <2> SUFFICES ASSUME NEW q \in Runtimes, Renaming(q), local[q].temporary = name PROVE FALSE
    BY Zenon
  <2>1. PICK k \in {"artifact", "metadata"}, n \in Nat :
          n < sequence[ProcessOf[q]] /\ name = <<k, Pid[ProcessOf[q]], n>>
    BY DEF Quiet, OwnTemporaries, NameOf
  <2>2. Pid[ProcessOf[q]] = Pid[p] /\ n = sequence[p]
    BY <2>1
  <2>3. ProcessOf[q] = p
    BY <2>2, ProcessAssumption DEF OnePidPerProcess
  <2> QED
    BY <1>3, <2>1, <2>2, <2>3
<1>9. \A q \in Processes : sequence'[q] \in Nat /\ sequence[q] <= sequence'[q]
    BY <1>2, <1>3
<1>10. sequence' \in [Processes -> Nat] /\ sequence'[p] = sequence[p] + 1
    BY <1>2, <1>3
<1>11. ASSUME NEW q \in Runtimes, Renaming(q)' PROVE NameOf(local[q].temporary, ProcessOf[q])'
  <2>1. CASE q = r
    BY <1>3, <1>7, <1>10, <2>1 DEF NameOf
  <2>2. CASE q # r
    <3>1. PICK k \in {"artifact", "metadata"}, n \in Nat :
            n < sequence[ProcessOf[q]] /\ local[q].temporary = <<k, Pid[ProcessOf[q]], n>>
      BY <1>6, <1>11, <2>2 DEF Quiet, OwnTemporaries, NameOf
    <3>2. n < sequence'[ProcessOf[q]]
      BY <1>3, <1>9, <3>1, ProcessAssumption
    <3> QED
      BY <1>4, <2>2, <3>1, <3>2, Zenon DEF NameOf
  <2> QED
    BY <2>1, <2>2
<1> HIDE DEF name, p
<1>12. temps' = {local'[q].temporary : q \in {w \in Runtimes : Renaming(w)'}}
    BY <1>2, <1>4, <1>5, <1>6, <1>7 DEF Quiet, OwnTemporaries
<1>13. \A q, w \in Runtimes :
         Renaming(q)' /\ Renaming(w)' /\ local'[q].temporary = local'[w].temporary => q = w
    BY <1>4, <1>6, <1>7, <1>8, Zenon DEF Quiet, OwnTemporaries
<1>14. OwnTemporaries'
    BY <1>10, <1>11, <1>12, <1>13 DEF OwnTemporaries
<1>15. \A q \in Runtimes : (Oversized(q)' <=> Oversized(q)) /\ (HalfDone(q) => HalfDone(q)')
    BY <1>1, <1>2, <1>4 DEF Oversized, Config, HalfDone, Inv, Types
<1>16. \A c : Loadable(c)' <=> Loadable(c)
    BY <1>2 DEF Loadable, AcceptsMetadata, AcceptsArtifact, FileLength, Tag
<1>17. Pairs'
    BY <1>2, <1>15, <1>16, Zenon DEF Quiet, Pairs
<1> QED
    BY <1>14, <1>17 DEF Quiet

\* A rename takes the runtime's own temporary away, and that one only.
LEMMA QuietRename ==
  ASSUME Inv, Quiet, NEW r \in Runtimes, Renaming(r), NEW l \in Labels,
         pc' = [pc EXCEPT ![r] = l], ~Renaming(r)',
         temps' = temps \ {local[r].temporary}, UNCHANGED sequence,
         \A q \in Runtimes \ {r} : local'[q] = local[q]
  PROVE  OwnTemporaries'
<1>1. \A q \in Runtimes \ {r} : Renaming(q)' <=> Renaming(q)
    BY DEF Renaming, Inv, Types
<1>2. \A q \in Runtimes : Renaming(q)' => NameOf(local[q].temporary, ProcessOf[q])'
    BY <1>1, Zenon DEF Quiet, OwnTemporaries, NameOf
<1>3. temps' = {local'[q].temporary : q \in {w \in Runtimes : Renaming(w)'}}
    BY <1>1 DEF Quiet, OwnTemporaries
<1> QED
    BY <1>1, <1>2, <1>3 DEF Quiet, OwnTemporaries

\* The file that is renamed is there: a rename fails for a fault only.
LEMMA TemporaryIsThere ==
  ASSUME Quiet, NEW r \in Runtimes, Renaming(r), UNCHANGED faults, faults \in Nat
  PROVE  ~RenameFails(r)
<1>1. local[r].temporary \in temps
    BY DEF Quiet, OwnTemporaries
<1> QED
    BY <1>1 DEF RenameFails

LEMMA QuietRenameArtifact ==
  ASSUME Inv, Quiet, NEW r \in Runtimes, RenameArtifact(r), UNCHANGED faults
  PROVE  Quiet'
<1>1. ~RenameFails(r) /\ Renaming(r) /\ Missing(r)
    BY TemporaryIsThere DEF RenameArtifact, Renaming, Missing, Inv, Types
<1>2. /\ temps' = temps \ {local[r].temporary}
      /\ disk' = [disk EXCEPT !.artifact = Config(r).engine]
      /\ pc' = [pc EXCEPT ![r] = "write_metadata"]
      /\ UNCHANGED <<sequence, config, local, failures>>
    BY <1>1 DEF RenameArtifact, Goto
<1>3. pc'[r] = "write_metadata" /\ \A q \in Runtimes \ {r} : pc'[q] = pc[q]
    BY <1>2 DEF Inv, Types
<1>4. HalfDone(r)' /\ ~Renaming(r)' /\ "write_metadata" \in Labels
    BY <1>3 DEF HalfDone, Renaming, Labels
<1>5. OwnTemporaries'
    BY <1>1, <1>2, <1>4, QuietRename, Zenon
<1>6. \A q \in Runtimes : Oversized(q)' <=> Oversized(q)
    BY <1>2 DEF Oversized, Config
<1>7. /\ disk' = [artifact |-> Config(r).engine, metadata |-> disk.metadata]
      /\ disk = [artifact |-> disk.artifact, metadata |-> disk.metadata]
    BY <1>2 DEF Inv, Types
<1>8. disk.metadata # None => UNCHANGED disk
    BY <1>1, <1>7 DEF Inv, Order, Foreign
<1>9. disk'.metadata # None => \E c \in Configs : Loadable(c)'
    BY <1>7, <1>8 DEF Quiet, Pairs, Loadable, AcceptsMetadata, AcceptsArtifact, FileLength, Tag
<1>10. Pairs'
    BY <1>2, <1>4, <1>6, <1>9 DEF Quiet, Pairs
<1> QED
    BY <1>5, <1>10 DEF Quiet

LEMMA QuietRenameMetadata ==
  ASSUME Inv, Quiet, NEW r \in Runtimes, RenameMetadata(r), UNCHANGED faults
  PROVE  Quiet'
<1>1. ~RenameFails(r) /\ Renaming(r) /\ HalfDone(r)
    BY TemporaryIsThere DEF RenameMetadata, Renaming, HalfDone, Inv, Types
<1>2. /\ temps' = temps \ {local[r].temporary}
      /\ disk' = [disk EXCEPT !.metadata = Metadata(Config(r))]
      /\ pc' = [pc EXCEPT ![r] = "idle"] /\ local' = [local EXCEPT ![r] = NoLocals]
      /\ UNCHANGED <<sequence, config, failures>>
    BY <1>1 DEF RenameMetadata, Finish, Goto
<1>3. ~Renaming(r)' /\ "idle" \in Labels /\ \A q \in Runtimes \ {r} : local'[q] = local[q]
    BY <1>2 DEF Renaming, Labels, Inv, Types
<1>4. OwnTemporaries'
    BY <1>1, <1>2, <1>3, QuietRename, Zenon
<1>5. \A q \in Runtimes : Oversized(q)' <=> Oversized(q)
    BY <1>2 DEF Oversized, Config
<1>6. Config(r) \in Configs /\ Loadable(Config(r))'
    BY <1>1, <1>2, MetadataLoads, AtWork DEF Loadable, HalfDone, Config
<1>7. disk'.metadata # None
    BY <1>6 DEF Loadable, AcceptsMetadata
<1>8. Pairs'
    BY <1>2, <1>5, <1>6, <1>7 DEF Quiet, Pairs, Loadable, Config
<1> QED
    BY <1>4, <1>8 DEF Quiet


LEMMA QuietStart ==
  ASSUME Inv, Quiet, NEW p \in Processes, Start(p)
  PROVE  Quiet'
<1>1. UNCHANGED <<disk, temps, sequence, pc, local, failures>>
    BY Zenon DEF Start
<1>2. OwnTemporaries'
    BY <1>1, Zenon DEF Quiet, OwnTemporaries, Renaming, NameOf
<1>3. \A r \in Runtimes : failures[r] => Config(r)' = Config(r)
    BY ProcessAssumption, Zenon DEF Start, Config, Inv, Types, Agreement
<1>4. Pairs'
    BY <1>1, <1>3, Zenon DEF Quiet, Pairs, Oversized, HalfDone, Loadable, AcceptsMetadata,
       AcceptsArtifact, FileLength, Tag
<1> QED
    BY <1>2, <1>4 DEF Quiet

\* A process that ends between two calls has no temporary file.
LEMMA QuietExit ==
  ASSUME Inv, Quiet, NEW p \in Processes, Exit(p), UNCHANGED faults
  PROVE  Quiet'
<1> DEFINE inside == {r \in Runtimes : ProcessOf[r] \in {p}}
<1>1. Busy(p) = {} /\ Stopped({p}) /\ UNCHANGED <<disk, temps>>
    BY DEF Exit, Inv, Types
<1>2. \A r \in inside : pc[r] = "idle"
    BY <1>1, Zenon DEF Busy
<1>3. /\ config' = [q \in Processes |-> IF q \in {p} THEN None ELSE config[q]]
      /\ sequence' = [q \in Processes |-> IF q \in {p} THEN 0 ELSE sequence[q]]
      /\ pc' = [r \in Runtimes |-> IF r \in inside THEN "idle" ELSE pc[r]]
      /\ local' = [r \in Runtimes |-> IF r \in inside THEN NoLocals ELSE local[r]]
      /\ failures' = [r \in Runtimes |-> IF r \in inside THEN FALSE ELSE failures[r]]
    BY <1>1, Zenon DEF Stopped
<1>4. \A r \in Runtimes \ inside :
        /\ Config(r)' = Config(r) /\ local'[r] = local[r] /\ failures'[r] = failures[r]
        /\ sequence'[ProcessOf[r]] = sequence[ProcessOf[r]]
    BY <1>3, ProcessAssumption, Zenon DEF Config
<1>5. \A r \in Runtimes : pc'[r] = pc[r]
    BY <1>2, <1>3
<1>6. \A r \in Runtimes : Renaming(r) => r \notin inside
    BY <1>2, Zenon DEF Renaming
<1>7. \A r \in inside : ~failures'[r]
    BY <1>3
<1>8. sequence' \in [Processes -> Nat]
    BY <1>3 DEF Quiet, OwnTemporaries
<1> HIDE DEF inside
<1>9. \A r \in Runtimes : (Renaming(r)' <=> Renaming(r)) /\ (HalfDone(r)' <=> HalfDone(r))
    BY <1>5, Zenon DEF Renaming, HalfDone
<1>10. \A r \in Runtimes : Renaming(r)' => NameOf(local[r].temporary, ProcessOf[r])'
    BY <1>4, <1>6, <1>9 DEF Quiet, OwnTemporaries, NameOf
<1>11. temps' = {local'[r].temporary : r \in {q \in Runtimes : Renaming(q)'}}
    BY <1>1, <1>4, <1>6, <1>9 DEF Quiet, OwnTemporaries
<1>12. OwnTemporaries'
    BY <1>4, <1>6, <1>8, <1>9, <1>10, <1>11 DEF Quiet, OwnTemporaries
<1>13. \A c : Loadable(c)' <=> Loadable(c)
    BY <1>1, Zenon DEF Loadable, AcceptsMetadata, AcceptsArtifact, FileLength, Tag
<1>14. Pairs'
    BY <1>1, <1>4, <1>7, <1>9, <1>13 DEF Quiet, Pairs, Oversized
<1> QED
    BY <1>12, <1>14 DEF Quiet

LEMMA QuietClear ==
  ASSUME Inv, Quiet, Clear
  PROVE  Quiet'
<1>1. /\ disk' = [artifact |-> None, metadata |-> None] /\ temps' = {}
      /\ UNCHANGED <<sequence, config, pc, local, failures>>
    BY Zenon DEF Clear
<1>2. \A r \in Runtimes : ~Renaming(r)'
    BY <1>1, ProcessAssumption, Zenon DEF Clear, Running, Config, Inv, Agreement, Renaming
<1>3. OwnTemporaries'
    BY <1>1, <1>2, Zenon DEF Quiet, OwnTemporaries
<1>4. Pairs'
    BY <1>1 DEF Quiet, Pairs, Oversized, Config
<1> QED
    BY <1>3, <1>4 DEF Quiet

LEMMA QuietStep ==
  ASSUME OnePidPerProcess, Inv, [Next]_vars, faults = 0 => Quiet
  PROVE  faults' = 0 => Quiet'
<1> SUFFICES ASSUME faults' = 0 PROVE Quiet'
    BY Zenon
<1>1. faults' \in {faults, faults + 1}
    BY Zenon DEF Next, Step, Begin, StatArtifact, StatMetadata, ReadMetadata, ReadArtifact, Compile,
       WriteArtifact, WriteMetadata, WriteTemporary, RenameArtifact, RenameMetadata, RenameFails,
       Start, Exit, PowerLoss, Clear, vars
<1>2. UNCHANGED faults /\ Quiet /\ ~PowerLoss
    BY <1>1 DEF Inv, Types, PowerLoss
<1>3. ASSUME UNCHANGED vars PROVE Quiet'
  <2>1. UNCHANGED <<disk, temps, sequence, config, pc, local, failures>>
    BY <1>3, Zenon DEF vars
  <2>2. OwnTemporaries'
    BY <1>2, <2>1, Zenon DEF Quiet, OwnTemporaries, Renaming, NameOf
  <2>3. Pairs'
    BY <1>2, <2>1 DEF Quiet, Pairs, Oversized, HalfDone, Config, Loadable, AcceptsMetadata,
       AcceptsArtifact, FileLength, Tag
  <2> QED
    BY <2>2, <2>3 DEF Quiet
<1>4. ASSUME NEW r \in Runtimes, Step(r) PROVE Quiet'
    BY <1>2, <1>4, QuietAside, QuietWrite, QuietRenameArtifact, QuietRenameMetadata DEF Step
<1> QED
    BY <1>2, <1>3, <1>4, QuietStart, QuietExit, QuietClear DEF Next

(***************************************************************************)
(* docs/cache-operations.md: concurrent publishers leave a loadable final  *)
(* pair.  However many runtimes of however many processes publish the      *)
(* entry at once, as long as process ids tell the processes apart: without *)
(* a fault no publication fails but that of an oversized artifact, and     *)
(* when nobody is publishing no temporary is left and the pair is absent   *)
(* or loads.                                                               *)
(***************************************************************************)
THEOREM FinalPair == OnePidPerProcess => (Spec => []FinalPairLoads)
<1> SUFFICES ASSUME OnePidPerProcess PROVE Spec => []FinalPairLoads
    OBVIOUS
<1> DEFINE I == Inv /\ (faults = 0 => Quiet)
<1>1. Init => I
  <2> SUFFICES ASSUME Init PROVE Quiet
    BY Initially
  <2>1. \A r \in Runtimes : ~Renaming(r)
    BY Zenon DEF Init, Renaming
  <2>2. OwnTemporaries
    BY <2>1 DEF Init, OwnTemporaries
  <2>3. Pairs
    BY DEF Init, Pairs
  <2> QED
    BY <2>2, <2>3 DEF Quiet
<1>2. I /\ [Next]_vars => I'
    BY Inductive, QuietStep, Zenon
<1>3. I => FinalPairLoads
  <2> SUFFICES ASSUME Inv, Quiet PROVE FinalPairLoads
    BY DEF FinalPairLoads
  <2>1. ASSUME \A r \in Runtimes : ~Publishing(r)
        PROVE  \A r \in Runtimes : ~Renaming(r) /\ ~HalfDone(r)
    BY <2>1 DEF Publishing, Renaming, HalfDone
  <2>2. ASSUME \A r \in Runtimes : ~Publishing(r) PROVE temps = {}
    BY <2>1, <2>2, Zenon DEF Quiet, OwnTemporaries
  <2>3. ASSUME \A r \in Runtimes : ~Publishing(r)
        PROVE  (disk.artifact = None /\ disk.metadata = None) \/ \E c \in Configs : Loadable(c)
    BY <2>1, <2>3, Zenon DEF Quiet, Pairs
  <2>4. \A r \in Runtimes :
            failures[r] => ArtifactLength[Config(r).engine] > Config(r).max_entry_bytes
    BY DEF Quiet, Pairs, Oversized
  <2> QED
    BY <2>2, <2>3, <2>4, Zenon DEF FinalPairLoads
<1> QED
    BY <1>1, <1>2, <1>3, PTL DEF Spec
=============================================================================
