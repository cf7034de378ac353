----------------------------- MODULE Checkpoint -----------------------------
(***************************************************************************)
(* The life of one checkpoint: the source reads the manifest of an         *)
(* environment and starts a capture bound to its identity, the worker      *)
(* appends to its journal, cuts it at the explicit snapshot, the source    *)
(* runtime attests and seals it, the artifact is stored and carried,       *)
(* possibly changed on the way, and a destination with its own key, limit, *)
(* version, worker build and expected identity opens and replays it.       *)
(*                                                                         *)
(* A digest is the value it is taken of.  An authentication tag is its key *)
(* with the content it covers: only a holder of the key makes a new one.   *)
(***************************************************************************)
EXTENDS Journal, EnvironmentManifest

CONSTANTS
    Documents,   \* environment manifests a source may be given
    Followed,    \* those of them with which a capture is started
    MaxRecords,  \* records a source writes at most
    Keys,        \* authentication keys; the source holds one of them
    SourceKey,
    Builds,      \* worker executables
    SourceBuild,
    Versions,    \* runtime versions; they fix every other compatibility field
    SourceVersion,
    Limits,      \* journal limits a codec may be configured with
    USIZE_MAX,   \* the largest length
    Overhead     \* header, largest metadata and tag of an artifact

ASSUME CheckpointConstants ==
    /\ MaxRecords \in Nat /\ MaxRecords + Overhead <= USIZE_MAX
    /\ SourceKey \in Keys /\ SourceBuild \in Builds /\ SourceVersion \in Versions
    /\ USIZE_MAX \in Nat /\ Overhead \in Nat
    /\ Limits \subseteq 0 .. USIZE_MAX
    /\ Followed \subseteq Documents
    /\ \A d \in Documents : d.manifest \in EnvironmentManifests /\ d.slack \in Nat

\* The identity of a checkpoint.  The command, the instance and the positive
\* generation are compared as the environment is.
Bindings ==
    [environment : {d.manifest.environment_id : d \in Followed}, module : Modules]

NoArtifact == [version |-> "none"]
NoCheckpoint == [build |-> "none"]
NoDestination == [limit |-> 0]
NoBinding == [module |-> "none"]

VARIABLES
    document,  \* the manifest the source was given
    phase,     \* where the checkpoint is
    binding,   \* the identity the capture was asked for
    journal,   \* the source worker's journal
    artifact,  \* the sealed bytes, as they now are
    changed,   \* they are no longer what was sealed
    dest,      \* the destination: key, build, version, limit, expected binding
    verified,  \* the checkpoint it opened
    replayed   \* the modules it was asked to replay the checkpoint with

vars == <<document, phase, binding, journal, artifact, changed, dest, verified, replayed>>

Destinations ==
    [key : Keys, build : Builds, version : Versions, limit : Limits, binding : Bindings]

Init ==
    /\ document \in Documents
    /\ phase = "reading"
    /\ binding = NoBinding
    /\ journal = <<>>
    /\ artifact = NoArtifact
    /\ changed = FALSE
    /\ dest = NoDestination
    /\ verified = NoCheckpoint
    /\ replayed = {}

-----------------------------------------------------------------------------
(* The source.                                                             *)

ReadEnvironment ==
    /\ phase = "reading"
    /\ phase' = IF from_json(document) THEN "read" ELSE "refused"
    /\ UNCHANGED <<document, binding, journal, artifact, changed, dest, verified, replayed>>

\* The embedder starts the capture of a module in the environment, bound to
\* its identity.
StartCapture(module) ==
    /\ phase = "read" /\ document \in Followed
    /\ phase' = "running"
    /\ binding' = [environment |-> document.manifest.environment_id, module |-> module]
    /\ UNCHANGED <<document, journal, artifact, changed, dest, verified, replayed>>

WriteRecord(record) ==
    /\ phase = "running"
    /\ Len(journal) < MaxRecords
    /\ journal' = Append(journal, record)
    /\ UNCHANGED <<document, phase, binding, artifact, changed, dest, verified, replayed>>

\* The guest has stopped: the worker cuts the journal at its checkpoint.
FinalizeCapture ==
    /\ phase = "running"
    /\ LET end == CheckpointEnd(journal, binding.module)
       IN  IF end = 0
           THEN phase' = "refused" /\ UNCHANGED journal
           ELSE phase' = "cut" /\ journal' = SubSeq(journal, 1, end)
    /\ UNCHANGED <<document, binding, artifact, changed, dest, verified, replayed>>

\* The parent scans what its worker returned before it trusts it.
Attest ==
    /\ phase = "cut"
    /\ phase' = IF Scan(journal) THEN "captured" ELSE "refused"
    /\ UNCHANGED <<document, binding, journal, artifact, changed, dest, verified, replayed>>

validate_limit(limit) == limit > 0
ValidLength(length, limit) == length > 0 /\ length <= limit

\* The largest artifact a codec reads must have a length; only opening asks.
maximum_artifact_bytes(limit) == Overhead + limit <= USIZE_MAX

\* Fault: the digest leaves the last record out.
MetadataShort(b, build) ==
    [binding |-> b, build |-> build, version |-> SourceVersion,
     digest |-> SubSeq(journal, 1, Len(journal) - 1)]

Metadata(b, build) ==
    [binding |-> b, build |-> build, version |-> SourceVersion, digest |-> journal]

Tag(key, version, length, metadata, bytes) == <<key, version, length, metadata, bytes>>

\* Header, metadata and journal are written and authenticated piece by piece.
WritePrepared(metadata) ==
    [version |-> 2, length |-> Len(journal), metadata |-> metadata, journal |-> journal,
     trailing |-> FALSE,
     tag |-> Tag(SourceKey, 2, Len(journal), metadata, journal)]

\* The journal is in memory, and so the length of its artifact cannot overflow.
prepare_seal(limit) ==
    validate_limit(limit) /\ ValidLength(Len(journal), limit) /\ Scan(journal)

\* Seal with a codec of this limit, for a caller that expects the identity b.
Seal(b, limit) ==
    /\ phase = "captured"
    /\ IF b = binding /\ prepare_seal(limit)
       THEN phase' = "sealed" /\ artifact' = WritePrepared(Metadata(b, SourceBuild))
       ELSE phase' = "refused" /\ UNCHANGED artifact
    /\ UNCHANGED <<document, binding, journal, changed, dest, verified, replayed>>

-----------------------------------------------------------------------------
(* Storage and transfer: a partial write, damage, or other bytes.          *)

Damaged ==
    {[artifact EXCEPT !.version = 1],
     [artifact EXCEPT !.length = @ - 1],
     [artifact EXCEPT !.journal = SubSeq(@, 1, Len(@) - 1)],
     [artifact EXCEPT !.journal = Append(@, [kind |-> "data"])],
     [artifact EXCEPT !.length = @ + 1,
                      !.journal = <<[kind |-> "thread"]>> \o @],
     [artifact EXCEPT !.trailing = TRUE]}
        \cup {[artifact EXCEPT !.metadata.binding = b] : b \in Bindings}
        \cup {[artifact EXCEPT !.metadata.build = build] : build \in Builds}

Damage ==
    /\ phase = "sealed" /\ ~changed
    /\ \E other \in Damaged \ {artifact} : artifact' = other
    /\ changed' = TRUE
    /\ UNCHANGED <<document, phase, binding, journal, dest, verified, replayed>>

-----------------------------------------------------------------------------
(* The destination.                                                        *)

ValidHeader(a, d) == a.version = 2 /\ ValidLength(a.length, d.limit)

\* Every part is there to its length, and no byte behind the last.
ReadsWhole(a) == Len(a.journal) = a.length /\ ~a.trailing

Compatible(metadata, d) ==
    metadata.binding = d.binding /\ metadata.version = d.version

\* Fault: the checkpoint is taken without its tag being verified.
VerifiesUnauthenticated(a, d) ==
    /\ validate_limit(d.limit) /\ maximum_artifact_bytes(d.limit)
    /\ ValidHeader(a, d)
    /\ ReadsWhole(a)
    /\ Compatible(a.metadata, d)
    /\ Scan(a.journal)

Verifies(a, d) ==
    /\ validate_limit(d.limit) /\ maximum_artifact_bytes(d.limit)
    /\ ValidHeader(a, d)
    /\ ReadsWhole(a)
    /\ a.tag = Tag(d.key, a.version, a.length, a.metadata, a.journal)
    /\ Compatible(a.metadata, d)
    /\ a.metadata.digest = a.journal
    /\ Scan(a.journal)

Open(d) ==
    /\ phase = "sealed"
    /\ dest' = d
    /\ IF Verifies(artifact, d)
       THEN /\ phase' = "opened"
            /\ verified' = [binding |-> artifact.metadata.binding,
                            journal |-> artifact.journal,
                            build |-> artifact.metadata.build]
       ELSE phase' = "unopened" /\ UNCHANGED verified
    /\ UNCHANGED <<document, binding, journal, artifact, changed, replayed>>

\* Restore with a module: the build first, then the module's digest, then, in
\* the worker, the journal's own module record.
Restore(module) ==
    /\ phase = "opened"
    /\ replayed' = {module}
    /\ phase' = IF /\ dest.build = verified.build
                   /\ module = verified.binding.module
                   /\ RestoreAccepts(verified.journal, module)
                THEN "replaying"
                ELSE "unreplayed"
    /\ UNCHANGED <<document, binding, journal, artifact, changed, dest, verified>>

Next ==
    \/ ReadEnvironment
    \/ \E module \in Modules : StartCapture(module)
    \/ \E record \in Records : WriteRecord(record)
    \/ FinalizeCapture \/ Attest
    \/ \E b \in Bindings, limit \in Limits : Seal(b, limit)
    \/ Damage
    \/ \E d \in Destinations : Open(d)
    \/ \E module \in Modules : Restore(module)

Spec == Init /\ [][Next]_vars

-----------------------------------------------------------------------------
(* A manifest is accepted only if it is a coherent description: its guest    *)
(* paths, immutable and writable, lie apart from each other however the     *)
(* order of bytes and the order of directories differ, every set has one    *)
(* spelling, the default command can be called, and what was accepted is    *)
(* accepted again when it is written out.                                   *)
AcceptedIsCoherent == phase = "read" => Coherent(document.manifest)

(* An identity names one environment: no two different manifests that are   *)
(* accepted have the same one, so that a checkpoint bound to it resumes in  *)
(* the environment it was captured in.                                      *)
IdentityNamesOneEnvironment ==
    phase = "read" =>
        \A other \in Documents :
            other.manifest.environment_id = document.manifest.environment_id
                /\ from_json(other)
            => other.manifest = document.manifest

(* A destination replays exactly what the source captured: the cut journal, *)
(* with the module and the identity of the capture, in the worker build     *)
(* that made it and within its own limit, whatever happened to the artifact *)
(* in between.                                                              *)
ReplaysTheCapture ==
    phase = "replaying" =>
        /\ verified.journal = journal /\ Len(journal) <= dest.limit
        /\ verified.binding = binding
        /\ replayed = {binding.module}
        /\ dest.build = SourceBuild /\ dest.key = SourceKey

(* What is captured and replayed is one whole checkpoint: it starts with    *)
(* the initialization of its module, has a thread to resume and ends with   *)
(* an explicit snapshot, its only one.  The codec cannot see the trigger:   *)
(* it relies on the cut the worker has made.                               *)
WholeCheckpoint ==
    phase \in {"captured", "sealed", "opened", "replaying"} =>
        /\ WellFramed(journal)
        /\ Kind(journal[Len(journal)]) = "explicit"
        /\ Head(journal).module = binding.module

(* The one-pass scan accepts exactly the well framed journals.             *)
ScanDecides == Scan(journal) <=> WellFramed(journal)

(* A checkpoint is refused on opening only for a reason: it was changed,    *)
(* the destination's key, version or expected identity differs, its limit   *)
(* is too small, or its limit is so large that the length of the largest    *)
(* artifact overflows, which the codec that sealed it need not have met.    *)
(* An opened one is replayable with its module in its own worker build.     *)
SealedOpens ==
    /\ phase = "unopened" =>
           \/ changed
           \/ dest.key # SourceKey \/ dest.version # SourceVersion
           \/ dest.binding # binding
           \/ dest.limit < Len(journal) \/ Overhead + dest.limit > USIZE_MAX
    /\ phase = "unreplayed" =>
           dest.build # SourceBuild \/ replayed # {binding.module}
=============================================================================
