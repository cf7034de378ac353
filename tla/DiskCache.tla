------------------------------ MODULE DiskCache ------------------------------
(***************************************************************************)
(* One entry (digest and WASI profile) of the authenticated AOT directory, *)
(* shared by the runtimes of several processes: DiskCache::load and        *)
(* ::publish file operation by file operation, as RuntimeInner::prepare    *)
(* calls them, with failing writes, process crashes, power loss and the    *)
(* offline clear of scripts/cache-admin.sh.                                *)
(*                                                                         *)
(* Compilation is taken to be a function of the engine: an artifact is     *)
(* represented by the engine that serialized it.                           *)
(***************************************************************************)
EXTENDS Naturals, FiniteSets

CONSTANTS Runtimes,        \* Runtime values, each with its own DiskCache
          Processes,       \* operating-system processes
          ProcessOf,       \* the process a runtime lives in
          Pid,             \* what std::process::id() answers in a process
          Configs,         \* records [key, engine, max_entry_bytes]
          ArtifactLength,  \* serialized length, by engine
          Truncated,       \* contents of a file cut short by a power loss
          None,
          MaxFaults,       \* bound: failed operations and crashes together
          MaxSequence      \* bound: temporary files per process

ASSUME ProcessAssumption == ProcessOf \in [Runtimes -> Processes]

VARIABLES disk,      \* the two files of the entry
          temps,     \* temporary files present, as <<kind, pid, sequence>>
          sequence,  \* TEMP_SEQUENCE of each process
          config,    \* configuration of each process, None when not running
          pc,        \* where each runtime is in prepare
          local,     \* metadata read, temporary name: prepare's locals
          result,    \* how the last prepare of a runtime ended
          failures,  \* has disk_publish_failures of a runtime moved?
          faults     \* faults that have happened

vars == <<disk, temps, sequence, config, pc, local, result, failures, faults>>

Config(r) == config[ProcessOf[r]]

Running == {p \in Processes : config[p] # None}

NoLocals == [metadata |-> None, temporary |-> None]

(* HMAC over the identity and the bytes: equal only for equal arguments. *)
Tag(c, artifact) == <<c.key, c.engine, artifact>>

Metadata(c) ==
  [identity     |-> c.engine,
   artifact_len |-> ArtifactLength[c.engine],
   tag          |-> Tag(c, c.engine)]

(* None and Truncated are neither configurations nor contents of a file. *)
ASSUME ConfigAssumption ==
  /\ None \notin Configs /\ None # Truncated
  /\ \A c \in Configs :
       /\ c.engine \notin {None, Truncated}
       /\ ArtifactLength[c.engine] \in Nat /\ c.max_entry_bytes \in Nat
       /\ Metadata(c) \notin {None, Truncated}

ASSUME FaultsAssumption == MaxFaults \in Nat

(* How a prepare that went to the disk can end. *)
Failed == <<"error">>
Compiled == <<"compiled">>
Loaded(artifact, tag) == <<"loaded", artifact, tag>>

FileLength(artifact) == IF artifact = Truncated THEN 0 ELSE ArtifactLength[artifact]

-----------------------------------------------------------------------------
Init ==
  /\ disk = [artifact |-> None, metadata |-> None]
  /\ temps = {}
  /\ sequence = [p \in Processes |-> 0]
  /\ config = [p \in Processes |-> None]
  /\ pc = [r \in Runtimes |-> "idle"]
  /\ local = [r \in Runtimes |-> NoLocals]
  /\ result = [r \in Runtimes |-> None]
  /\ failures = [r \in Runtimes |-> FALSE]
  /\ faults = 0

(***************************************************************************)
(* A process starts.  Processes that share a directory share one identity  *)
(* and key; a directory with other entries may still be handed to them.    *)
(***************************************************************************)
Start(p) ==
  /\ config[p] = None
  /\ \E c \in Configs :
       /\ \A q \in Running : config[q] = c
       /\ config' = [config EXCEPT ![p] = c]
  /\ UNCHANGED <<disk, temps, sequence, pc, local, result, failures, faults>>

Goto(r, label) == pc' = [pc EXCEPT ![r] = label]

Finish(r, outcome) ==
  /\ Goto(r, "idle")
  /\ result' = [result EXCEPT ![r] = outcome]
  /\ local' = [local EXCEPT ![r] = NoLocals]

Busy(p) == {r \in Runtimes : ProcessOf[r] = p /\ pc[r] # "idle"}

(* prepare misses both memory tiers and asks the disk. *)
Begin(r) ==
  /\ Config(r) # None /\ pc[r] = "idle"
  /\ sequence[ProcessOf[r]] + 2 * Cardinality(Busy(ProcessOf[r])) + 2 <= MaxSequence
  /\ Goto(r, "stat_artifact")
  /\ result' = [result EXCEPT ![r] = None]
  /\ UNCHANGED <<disk, temps, sequence, config, local, failures, faults>>

StatArtifact(r) ==
  /\ pc[r] = "stat_artifact"
  /\ Goto(r, IF disk.artifact = None THEN "stat_metadata" ELSE "read_metadata")
  /\ UNCHANGED <<disk, temps, sequence, config, local, result, failures, faults>>

StatMetadata(r) ==
  /\ pc[r] = "stat_metadata"
  /\ Goto(r, IF disk.metadata = None THEN "compile" ELSE "read_metadata")
  /\ UNCHANGED <<disk, temps, sequence, config, local, result, failures, faults>>

AcceptsMetadata(c, metadata) ==
  /\ metadata \notin {None, Truncated}
  /\ metadata.identity = c.engine
  /\ metadata.artifact_len <= c.max_entry_bytes

(* Mutant: metadata that is not accepted counts as a miss. *)
ReadMetadataOrMiss(r) ==
  /\ pc[r] = "read_metadata"
  /\ IF AcceptsMetadata(Config(r), disk.metadata)
     THEN /\ Goto(r, "read_artifact")
          /\ local' = [local EXCEPT ![r].metadata = disk.metadata]
     ELSE Goto(r, "compile") /\ UNCHANGED local
  /\ UNCHANGED <<disk, temps, sequence, config, result, failures, faults>>

ReadMetadata(r) ==
  /\ pc[r] = "read_metadata"
  /\ IF AcceptsMetadata(Config(r), disk.metadata)
     THEN /\ Goto(r, "read_artifact")
          /\ local' = [local EXCEPT ![r].metadata = disk.metadata]
          /\ UNCHANGED result
     ELSE Finish(r, Failed)
  /\ UNCHANGED <<disk, temps, sequence, config, failures, faults>>

(* Mutant: the authentication tag is not compared. *)
AcceptsArtifactUnauthenticated(c, metadata, artifact) ==
  artifact # None /\ FileLength(artifact) = metadata.artifact_len

AcceptsArtifact(c, metadata, artifact) ==
  /\ artifact # None
  /\ FileLength(artifact) = metadata.artifact_len
  /\ metadata.tag = Tag(c, artifact)

ReadArtifact(r) ==
  /\ pc[r] = "read_artifact"
  /\ Finish(r, IF AcceptsArtifact(Config(r), local[r].metadata, disk.artifact)
               THEN Loaded(disk.artifact, local[r].metadata.tag) ELSE Failed)
  /\ UNCHANGED <<disk, temps, sequence, config, failures, faults>>

(* The publication error is counted, the compiled component is used. *)
PublishFails(r) ==
  /\ Finish(r, Compiled)
  /\ failures' = [failures EXCEPT ![r] = TRUE]

(* The compiler returns, and publish looks at the length. *)
Compile(r) ==
  /\ pc[r] = "compile"
  /\ IF ArtifactLength[Config(r).engine] > Config(r).max_entry_bytes
     THEN PublishFails(r)
     ELSE Goto(r, "write_artifact") /\ UNCHANGED <<local, result, failures>>
  /\ UNCHANGED <<disk, temps, sequence, config, faults>>

(* Mutant: the name lacks the counter. *)
TemporaryNameByPid(r, kind) == <<kind, Pid[ProcessOf[r]], 0>>

TemporaryName(r, kind) ==
  <<kind, Pid[ProcessOf[r]], sequence[ProcessOf[r]]>>

(***************************************************************************)
(* atomic_publish: a write to a temporary file, then a rename.  A write    *)
(* that fails may have created the file; a rename that fails leaves it.    *)
(* One step stands for fs::write, exact as long as names do not collide.   *)
(***************************************************************************)
WriteTemporary(r, kind, here, next) ==
  LET name == TemporaryName(r, kind)
  IN  /\ pc[r] = here
      /\ sequence' = [sequence EXCEPT ![ProcessOf[r]] = @ + 1]
      /\ \/ /\ temps' = temps \cup {name}
            /\ Goto(r, next)
            /\ local' = [local EXCEPT ![r].temporary = name]
            /\ UNCHANGED <<result, failures, faults>>
         \/ /\ faults < MaxFaults
            /\ faults' = faults + 1
            /\ temps' \in {temps, temps \cup {name}}
            /\ PublishFails(r)
      /\ UNCHANGED <<disk, config>>

WriteArtifact(r) ==
  WriteTemporary(r, "artifact", "write_artifact", "rename_artifact")

WriteMetadata(r) ==
  WriteTemporary(r, "metadata", "write_metadata", "rename_metadata")

RenameFails(r) ==
  /\ \/ local[r].temporary \notin temps /\ UNCHANGED faults
     \/ faults < MaxFaults /\ faults' = faults + 1
  /\ PublishFails(r)
  /\ UNCHANGED <<disk, temps>>

RenameArtifact(r) ==
  /\ pc[r] = "rename_artifact"
  /\ \/ /\ local[r].temporary \in temps
        /\ temps' = temps \ {local[r].temporary}
        /\ disk' = [disk EXCEPT !.artifact = Config(r).engine]
        /\ Goto(r, "write_metadata")
        /\ UNCHANGED <<local, result, failures, faults>>
     \/ RenameFails(r)
  /\ UNCHANGED <<sequence, config>>

(* Mutant: the rename removes the other file. *)
RenameMetadataLosesArtifact(r) ==
  /\ pc[r] = "rename_metadata"
  /\ temps' = temps \ {local[r].temporary}
  /\ disk' = [artifact |-> None, metadata |-> Metadata(Config(r))]
  /\ Finish(r, Compiled)
  /\ UNCHANGED <<sequence, config, failures, faults>>

RenameMetadata(r) ==
  /\ pc[r] = "rename_metadata"
  /\ \/ /\ local[r].temporary \in temps
        /\ temps' = temps \ {local[r].temporary}
        /\ disk' = [disk EXCEPT !.metadata = Metadata(Config(r))]
        /\ Finish(r, Compiled)
        /\ UNCHANGED <<failures, faults>>
     \/ RenameFails(r)
  /\ UNCHANGED <<sequence, config>>

(***************************************************************************)
(* The process ends, between two calls or in the middle of one; its static *)
(* counter and its runtimes go with it, its temporary files stay.          *)
(***************************************************************************)
Stopped(S) ==
  LET inside == {r \in Runtimes : ProcessOf[r] \in S}
  IN  /\ config' = [p \in Processes |-> IF p \in S THEN None ELSE config[p]]
      /\ sequence' = [p \in Processes |-> IF p \in S THEN 0 ELSE sequence[p]]
      /\ pc' = [r \in Runtimes |-> IF r \in inside THEN "idle" ELSE pc[r]]
      /\ local' = [r \in Runtimes |-> IF r \in inside THEN NoLocals ELSE local[r]]
      /\ result' = [r \in Runtimes |-> IF r \in inside THEN None ELSE result[r]]
      /\ failures' = [r \in Runtimes |-> IF r \in inside THEN FALSE ELSE failures[r]]

Exit(p) ==
  /\ config[p] # None
  /\ \/ Busy(p) = {} /\ UNCHANGED faults
     \/ faults < MaxFaults /\ faults' = faults + 1
  /\ Stopped({p})
  /\ UNCHANGED <<disk, temps>>

(* Nothing is synced: a power loss may cut either file short. *)
CutShort(file) == IF file = None THEN {None} ELSE {file, Truncated}

PowerLoss ==
  /\ faults < MaxFaults
  /\ faults' = faults + 1
  /\ Stopped(Processes)
  /\ disk' \in [artifact : CutShort(disk.artifact), metadata : CutShort(disk.metadata)]
  /\ UNCHANGED temps

(* cache-admin.sh clear, with every runtime stopped. *)
Clear ==
  /\ Running = {}
  /\ disk' = [artifact |-> None, metadata |-> None]
  /\ temps' = {}
  /\ UNCHANGED <<sequence, config, pc, local, result, failures, faults>>

Step(r) ==
  \/ Begin(r) \/ StatArtifact(r) \/ StatMetadata(r)
  \/ ReadMetadata(r) \/ ReadArtifact(r) \/ Compile(r)
  \/ WriteArtifact(r) \/ RenameArtifact(r)
  \/ WriteMetadata(r) \/ RenameMetadata(r)

Next ==
  \/ \E r \in Runtimes : Step(r)
  \/ \E p \in Processes : Start(p) \/ Exit(p)
  \/ PowerLoss
  \/ Clear

Spec == Init /\ [][Next]_vars

-----------------------------------------------------------------------------
Engines == {c.engine : c \in Configs}

(***************************************************************************)
(* Bytes load hands to deserialize_component were serialized by the engine *)
(* that will run them and published under its own key, whatever another    *)
(* key or version, a crash or a power loss left in the directory, and      *)
(* although load reads the two files at different times.                   *)
(***************************************************************************)
LoadsOnlyOwnPublication ==
  \A r \in Runtimes :
    result[r] \notin {None, Failed, Compiled} =>
      result[r] = Loaded(Config(r).engine, Tag(Config(r), Config(r).engine))

Loadable(c) ==
  /\ AcceptsMetadata(c, disk.metadata)
  /\ AcceptsArtifact(c, disk.metadata, disk.artifact)

Publishing(r) ==
  pc[r] \in {"write_artifact", "rename_artifact", "write_metadata", "rename_metadata"}

(***************************************************************************)
(* docs/cache-operations.md: concurrent publishers "leave a loadable final *)
(* pair".  Without a fault no publication fails, however many runtimes     *)
(* publish the entry at once (unique temporary names), except of an        *)
(* artifact above the limit; and once nobody is publishing, the entry is   *)
(* absent or loads under the configuration that wrote it, and no temporary *)
(* is left.                                                                *)
(***************************************************************************)
FinalPairLoads ==
  faults = 0 =>
    /\ \A r \in Runtimes :
         failures[r] => ArtifactLength[Config(r).engine] > Config(r).max_entry_bytes
    /\ (\A r \in Runtimes : ~Publishing(r)) =>
         /\ temps = {}
         /\ \/ disk.artifact = None /\ disk.metadata = None
            \/ \E c \in Configs : Loadable(c)

Foreign(c) ==
  \/ disk.artifact \notin {None, c.engine}
  \/ disk.metadata \notin {None, Metadata(c)}

(***************************************************************************)
(* docs/cache-operations.md: an entry of another key or version "is not    *)
(* silently treated as trusted input or overwritten".  While a process     *)
(* runs that cannot use what is in the directory, nothing replaces it.     *)
(***************************************************************************)
ForeignEntryStays ==
  [][ \A p \in Running : Foreign(config[p]) => (disk' = disk \/ config'[p] = None) ]_vars

SeenState ==
  IF disk.artifact = None /\ disk.metadata = None THEN "absent"
  ELSE IF \E p \in Running : Loadable(config[p]) THEN "whole"
  ELSE "unusable"

Entry == INSTANCE DiskEntry WITH entry <- SeenState, live <- Running # {}

(***************************************************************************)
(* DiskEntry: while a process runs, the entry it sees goes from absent to  *)
(* unusable to whole and never back, whoever publishes.                    *)
(***************************************************************************)
ImplementsDiskEntry == Entry!Spec

(***************************************************************************)
(* docs/cache-operations.md on a publication that failed: "A fresh runtime *)
(* will compile again because there is no durable cache hit".  Once nobody *)
(* is publishing, load finds no entry (and compiles) or one that loads.    *)
(***************************************************************************)
FailedPublicationIsAMiss ==
  \A r \in Runtimes :
    (failures[r] /\ \A q \in Runtimes : ~Publishing(q)) =>
      \/ disk.artifact = None /\ disk.metadata = None
      \/ Loadable(Config(r))
=============================================================================
