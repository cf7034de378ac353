--------------------------- MODULE WorkerIsolation ---------------------------
(***************************************************************************)
(* What a WASIX worker is started from and what it makes of itself: the    *)
(* deployment checks that pin the executable, the isolation the worker     *)
(* enters before its Ready frame, and the parent's validation of that      *)
(* frame.  Operators only; WasixWorker takes the steps.                    *)
(*                                                                         *)
(* A process is the record of what Linux keeps for it: the real,           *)
(* effective, saved and filesystem identifiers, the supplementary groups,  *)
(* the four capability sets (empty or not), the limits as soft/hard pairs  *)
(* and the open descriptors.                                               *)
(***************************************************************************)
EXTENDS Integers, Sequences, FiniteSets, FiniteSetsExt, TLC

Unlimited == -1
Nobody == 65534

WASIX_WORKER_MAX_SUPPLEMENTARY_GROUPS == 64
MAX_HANDSHAKE_TIMEOUT == 30
\* The limits of the profile; sizes in MiB.
Profile == [core |-> 0, fsize |-> 512, as |-> 2048, nofile |-> 64]

Sorted(s) == SortSeq(s, <)

Identifiers == Nat \X Nat \X Nat \X Nat
ProcessRecords ==
    [uid : Identifiers, gid : Identifiers, groups : Seq(Nat),
     capabilities : {0, 1} \X {0, 1} \X {0, 1} \X {0, 1},
     no_new_privileges : BOOLEAN, dumpable : BOOLEAN,
     limits : [DOMAIN Profile -> (Nat \cup {Unlimited}) \X (Nat \cup {Unlimited})],
     descriptors : SUBSET Nat]

\* A worker inherits the three standard descriptors; and sorting its groups
\* keeps them, which no prover can know of the library's SortSeq.
Inherited(p) ==
    /\ p \in ProcessRecords
    /\ {0, 1, 2} \subseteq p.descriptors
    /\ Range(Sorted(p.groups)) = Range(p.groups) /\ Len(Sorted(p.groups)) = Len(p.groups)

-----------------------------------------------------------------------------
(* The deployment.  "groups" is what the builder makes of its argument,     *)
(* sorted and without duplicates; "ancestors" are the directories above     *)
(* the executable, the root first.                                          *)

with_allowed_supplementary_groups(groups) ==
    [i \in 1 .. Cardinality(groups) |->
        CHOOSE g \in groups : Cardinality({h \in groups : h < g}) = i - 1]

validate_common(config) ==
    /\ config.absolute
    /\ config.timeout # 0 /\ config.timeout <= MAX_HANDSHAKE_TIMEOUT
    /\ Len(config.groups) <= WASIX_WORKER_MAX_SUPPLEMENTARY_GROUPS
    /\ 0 \notin Range(config.groups)

trusted_worker_owner(owner, euid) == owner \in {0, euid}

\* "writers" are the permission classes besides the owner that may write.
validate_worker_ancestor(directory, euid) ==
    /\ directory.kind = "directory"
    /\ trusted_worker_owner(directory.owner, euid)
    /\ directory.writers = {}

\* A component that is not a plain name is refused before it is looked up.
validate_worker_ancestors(ancestors, euid) ==
    \A i \in DOMAIN ancestors : validate_worker_ancestor(ancestors[i], euid)

validate_worker_file_stat(file, euid) ==
    /\ file.kind = "regular"
    /\ file.size > 0
    /\ trusted_worker_owner(file.owner, euid)
    /\ file.executable
    /\ ~file.setid /\ file.writers = {}

\* The extended attribute is absent, empty, present, not supported by the
\* file system, or cannot be read.
validate_worker_file_capabilities(file) ==
    file.capabilities \in {"absent", "empty", "unsupported"}

\* The descriptor is read to the size the stat has given, and once more
\* behind it: a file that shrank or grew in between is refused.
sha256_descriptor(size, length) == length >= size /\ ~(length > size)

OpenPinned(deployment, euid) ==
    /\ validate_worker_ancestors(deployment.ancestors, euid)
    /\ validate_worker_file_stat(deployment.file, euid)
    /\ validate_worker_file_capabilities(deployment.file)
    /\ sha256_descriptor(deployment.file.size, deployment.file.length)

pin_executable(deployment, euid) ==
    validate_common(deployment.config) /\ OpenPinned(deployment, euid)

-----------------------------------------------------------------------------
(* Linux: what the calls do to the process.                                *)

\* The process an exec without set-id bits and file capabilities leaves:
\* saved and filesystem identifiers follow the effective ones; a root user
\* gets every capability, anyone else those of the ambient set.
Exec(uid, gid, groups, inheritable, ambient, limits, descriptors) ==
    [uid |-> <<uid[1], uid[2], uid[2], uid[2]>>,
     gid |-> <<gid[1], gid[2], gid[2], gid[2]>>,
     groups |-> groups,
     capabilities |-> <<IF uid[2] = 0 THEN 1 ELSE ambient,
                        IF 0 \in {uid[1], uid[2]} THEN 1 ELSE ambient,
                        inheritable, ambient>>,
     no_new_privileges |-> FALSE, dumpable |-> TRUE,
     limits |-> limits, descriptors |-> {0, 1, 2} \cup descriptors]

\* A descriptor below the soft limit is free.
CanOpen(p) ==
    \/ p.limits.nofile[1] = Unlimited
    \/ \E fd \in 0 .. p.limits.nofile[1] - 1 : fd \notin p.descriptors

Privileged(p) == p.capabilities[1] = 1

setresgid(p, id) == [p EXCEPT !.gid = <<id, id, id, id>>]

\* Leaving the last root identifier empties all but the inheritable set.
setresuid(p, id) ==
    [p EXCEPT !.uid = <<id, id, id, id>>,
              !.capabilities = IF 0 \in {p.uid[1], p.uid[2], p.uid[3]}
                               THEN <<0, 0, p.capabilities[3], 0>>
                               ELSE p.capabilities]

\* A change of an effective or filesystem identifier clears the signal that
\* the death of the parent would send.
ClearsDeathSignal(p, q) ==
    \E i \in {2, 4} : p.uid[i] # q.uid[i] \/ p.gid[i] # q.gid[i]

-----------------------------------------------------------------------------
(* The worker's isolation, in the order of the code.                       *)

close_inherited_worker_descriptors(p) ==
    [p EXCEPT !.descriptors = {fd \in p.descriptors : fd <= 2}]

\* The least of the profile's maximum and the limits inherited, both of which
\* may be unlimited, becomes soft and hard limit.
lower_worker_limit(inherited, profile_maximum) ==
    LET maximum == Min({profile_maximum}
                       \cup ({inherited[1], inherited[2]} \ {Unlimited}))
    IN <<maximum, maximum>>

\* The limits, and the ambient set with them.
LowerLimits(p) ==
    [p EXCEPT !.limits =
        [r \in DOMAIN Profile |-> lower_worker_limit(p.limits[r], Profile[r])],
              !.capabilities[4] = 0]

\* Fault: only the user identifiers are looked at.
HasRootUser(p) == 0 \in {p.uid[1], p.uid[2], p.uid[3]}

HasRootCredentials(p) ==
    0 \in {p.uid[1], p.uid[2], p.uid[3], p.gid[1], p.gid[2], p.gid[3]}

FollowEffective(p) == [p EXCEPT !.gid[4] = p.gid[2], !.uid[4] = p.uid[2]]

\* The three calls of the drop need the capabilities of the process.
MayDrop(p) == HasRootCredentials(p) => Privileged(p)

Drop(p) ==
    FollowEffective(
        IF HasRootCredentials(p)
        THEN setresuid(setresgid([p EXCEPT !.groups = <<>>], Nobody), Nobody)
        ELSE p)

Confine(p) ==
    [p EXCEPT !.capabilities = <<0, 0, 0, 0>>,
              !.no_new_privileges = TRUE,
              !.dumpable = FALSE]

-----------------------------------------------------------------------------
(* The Ready frame.                                                        *)

WithinProfile(limit, maximum) ==
    limit[1] = limit[2] /\ limit[1] # 0 /\ limit[1] <= maximum

IsolationValid(p, allowed_groups) ==
    /\ 0 \notin Range(p.uid) \cup Range(p.gid)
    /\ p.uid[4] = p.uid[2] /\ p.gid[4] = p.gid[2]
    /\ 0 \notin Range(p.groups)
    /\ Len(p.groups) <= WASIX_WORKER_MAX_SUPPLEMENTARY_GROUPS
    /\ Sorted(p.groups) = allowed_groups
    /\ p.no_new_privileges /\ ~p.dumpable
    /\ p.capabilities = <<0, 0, 0, 0>>
    /\ p.limits.core = <<0, 0>>
    /\ \A r \in {"fsize", "as", "nofile"} : WithinProfile(p.limits[r], Profile[r])

\* The read-back opens the process's status file; the worker then validates
\* its own report against its own groups.
IsolationVerified(p) == CanOpen(p) /\ IsolationValid(p, Sorted(p.groups))

\* What the runtime and each worker image were built as.
Release(content) ==
    IF content = "older"
    THEN [protocol_version |-> 7, runtime_version |-> "before", cohort_id |-> "before"]
    ELSE [protocol_version |-> 8, runtime_version |-> "this", cohort_id |-> "this"]

\* Fault: the build is not compared.
MetadataUnpinned(content, pinned, p, allowed_groups) ==
    /\ Release(content) = Release("this")
    /\ IsolationValid(p, allowed_groups)

\* The worker reports its release, the digest of its image, its process
\* identifier (which only a false report gets wrong) and its isolation.
MetadataValid(content, pinned, p, allowed_groups) ==
    /\ Release(content) = Release("this")
    /\ content = pinned
    /\ IsolationValid(p, allowed_groups)
=============================================================================
