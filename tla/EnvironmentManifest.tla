------------------------- MODULE EnvironmentManifest -------------------------
(***************************************************************************)
(* The version 1 environment manifest: its validation and the content      *)
(* identity calculated from it.  Operators only; Checkpoint reads one and  *)
(* binds a checkpoint to its identity.                                     *)
(*                                                                         *)
(* Names and paths are sequences of bytes, since order, ancestry and the   *)
(* length prefixes of the identity depend on them.  A SHA-256 digest is a  *)
(* record: a "sha256:" prefix is there, the rest is canonical, and what    *)
(* it is the digest of.  A document is a manifest as JSON with bytes that  *)
(* carry no meaning; those of field names and fixed values are not         *)
(* counted.                                                                *)
(***************************************************************************)
EXTENDS Integers, Sequences, FiniteSets

CONSTANTS
    MAX_MANIFEST_BYTES,
    MAX_LIST_ENTRIES,
    MAX_TOKEN_BYTES

Slash == 47
Dot == 46
Backslash == 92
Alphanumeric == (48 .. 57) \cup (65 .. 90) \cup (97 .. 122)
Tmp == <<47, 116, 109, 112>>
Work == <<47, 119, 111, 114, 107>>

Strings == Seq(0 .. 255)
Digests == [prefixed : BOOLEAN, canonical : BOOLEAN, of : Seq(Nat)]
EnvironmentManifests ==
    [schema_version : Nat, environment_id : Digests, execution_profile : STRING,
     language : [name : Strings, version : Strings, implementation : Strings],
     artifact : [format : STRING, path : STRING, sha256 : Digests],
     required_wasm_features : Seq(Strings),
     commands : [default : Strings, available : Seq(Strings)],
     filesystem : [immutable : Seq(Strings), writable : Seq(Strings)],
     build : [toolchain_id : Strings, source_digest : Digests, lock_digest : Digests]]

\* SequencesExt has this operator, and with it so many others that every
\* proof step about a manifest takes several times as long.
IsPrefix(s, t) == Len(s) <= Len(t) /\ SubSeq(t, 1, Len(s)) = s

\* The order of byte strings.
Before(a, b) ==
    \/ IsPrefix(a, b) /\ a # b
    \/ \E i \in DOMAIN a \cap DOMAIN b :
           a[i] < b[i] /\ \A j \in 1 .. i - 1 : a[j] = b[j]

StrictlySorted(values) ==
    \A i \in 1 .. Len(values) - 1 : Before(values[i], values[i + 1])

-----------------------------------------------------------------------------
(* The validators.                                                         *)

validate_hex_sha256(digest) == ~digest.prefixed /\ digest.canonical
validate_prefixed_sha256(digest) ==
    digest.prefixed /\ validate_hex_sha256([digest EXCEPT !.prefixed = FALSE])

validate_text(value) ==
    Len(value) \in 1 .. MAX_TOKEN_BYTES /\ \A i \in DOMAIN value : value[i] \in 32 .. 126

validate_token(value) ==
    /\ Len(value) \in 1 .. MAX_TOKEN_BYTES
    /\ \A i \in DOMAIN value : value[i] \in Alphanumeric \cup {46, 95, 45, 43, 58}

validate_sorted_tokens(values) ==
    /\ Len(values) <= MAX_LIST_ENTRIES
    /\ \A i \in DOMAIN values : validate_token(values[i])
    /\ StrictlySorted(values)

\* The slashes and the end of a path, the k-th of them, and the pieces between.
Cuts(path) == {i \in DOMAIN path : path[i] = Slash} \cup {Len(path) + 1}
Rank(path, i) == Cardinality({j \in Cuts(path) : j < i})
Cut(path, k) == CHOOSE i \in Cuts(path) : Rank(path, i) = k - 1
Segments(path) ==
    [k \in 1 .. Cardinality(Cuts(path)) - 1 |->
        SubSeq(path, Cut(path, k) + 1, Cut(path, k + 1) - 1)]

validate_guest_path(path) ==
    /\ Len(path) \in 2 .. MAX_TOKEN_BYTES
    /\ path[1] = Slash /\ path[Len(path)] # Slash
    /\ \A k \in DOMAIN Segments(path) :
           LET segment == Segments(path)[k]
           IN  /\ segment \notin {<<>>, <<Dot>>, <<Dot, Dot>>}
               /\ \A i \in DOMAIN segment : segment[i] \in Alphanumeric \cup {46, 95, 45, 43}

Below(path, ancestor) == IsPrefix(Append(ancestor, Slash), path)

\* Fault: only neighbours are compared.
NeighboursApart(values) ==
    \A i \in 1 .. Len(values) - 1 : ~Below(values[i + 1], values[i])

\* The list is in order, so only later paths can be below an earlier one.
AncestorsApart(values) ==
    \A i \in DOMAIN values : \A j \in i + 1 .. Len(values) : ~Below(values[j], values[i])

validate_sorted_guest_paths(values) ==
    /\ Len(values) <= MAX_LIST_ENTRIES
    /\ \A i \in DOMAIN values : validate_guest_path(values[i])
    /\ StrictlySorted(values)
    /\ AncestorsApart(values)

\* The length of the compact encoding: every string quoted, quotes and
\* backslashes escaped.
JsonLength(value) ==
    2 + Len(value) + Cardinality({i \in DOMAIN value : value[i] \in {34, Backslash}})
EncodedLength(m) ==
    LET strings == <<m.language.name, m.language.version, m.language.implementation,
                     m.build.toolchain_id, m.commands.default>>
                   \o m.required_wasm_features \o m.commands.available
                   \o m.filesystem.immutable \o m.filesystem.writable
        lengths == [i \in DOMAIN strings |-> JsonLength(strings[i])]
        total[i \in 0 .. Len(lengths)] == IF i = 0 THEN 0 ELSE total[i - 1] + lengths[i]
    IN  total[Len(lengths)]

validate_identity_fields(m) ==
    /\ m.schema_version = 1
    /\ m.execution_profile = "wasix32-v1"
    /\ m.artifact.format = "webc" /\ m.artifact.path = "environment.webc"
    /\ validate_hex_sha256(m.artifact.sha256)
    /\ validate_text(m.language.name) /\ validate_text(m.language.version)
    /\ validate_text(m.language.implementation)
    /\ validate_token(m.build.toolchain_id)
    /\ validate_prefixed_sha256(m.build.source_digest)
    /\ validate_prefixed_sha256(m.build.lock_digest)
    /\ validate_sorted_tokens(m.required_wasm_features)
    /\ validate_token(m.commands.default)
    /\ validate_sorted_tokens(m.commands.available)
    /\ m.commands.default \in {m.commands.available[i] : i \in DOMAIN m.commands.available}
    /\ validate_sorted_guest_paths(m.filesystem.immutable)
    /\ m.filesystem.writable = <<Tmp, Work>>
    /\ \A i \in DOMAIN m.filesystem.immutable :
           LET path == m.filesystem.immutable[i]
           IN  ~(path \in {Tmp, Work} \/ Below(path, Tmp) \/ Below(path, Work))
    /\ EncodedLength(m) <= MAX_MANIFEST_BYTES

-----------------------------------------------------------------------------
(* The identity: the digest of the fields in their fixed order, so here     *)
(* that very sequence.                                                      *)

\* Fault: strings follow each other without their lengths.
hash_bare_string(value) == value

hash_string(value) == <<Len(value)>> \o value
hash_strings(values) ==
    LET hash[i \in 0 .. Len(values)] ==
            IF i = 0 THEN <<Len(values)>> ELSE hash[i - 1] \o hash_string(values[i])
    IN  hash[Len(values)]

calculate_environment_id(m) ==
    [prefixed |-> TRUE, canonical |-> TRUE,
     of |-> <<m.schema_version>>
            \o hash_string(m.language.name) \o hash_string(m.language.version)
            \o hash_string(m.language.implementation)
            \o hash_string(m.artifact.sha256.of)
            \o hash_strings(m.required_wasm_features)
            \o hash_string(m.commands.default)
            \o hash_strings(m.commands.available)
            \o hash_strings(m.filesystem.immutable)
            \o hash_strings(m.filesystem.writable)
            \o hash_string(m.build.toolchain_id)
            \o hash_string(m.build.source_digest.of)
            \o hash_string(m.build.lock_digest.of)]

with_calculated_environment_id(m) ==
    [m EXCEPT !.environment_id = calculate_environment_id(m)]

validate(m) ==
    /\ validate_identity_fields(m)
    /\ validate_prefixed_sha256(m.environment_id)
    /\ m.environment_id = calculate_environment_id(m)

\* The schema version is looked at before the rest is parsed.
from_json(document) ==
    /\ EncodedLength(document.manifest) + document.slack <= MAX_MANIFEST_BYTES
    /\ document.parses
    /\ document.manifest.schema_version = 1
    /\ ~document.unknown_field
    /\ validate(document.manifest)

-----------------------------------------------------------------------------
(* What the validation is for.                                             *)

\* One path is the other, or leads to it.
Overlap(p, q) ==
    IsPrefix(Segments(p), Segments(q)) \/ IsPrefix(Segments(q), Segments(p))

\* No two of the paths, immutable or writable, overlap; the lists are sets
\* with one spelling; the default command exists; and the manifest written
\* out again is accepted.
Coherent(m) ==
    LET paths == m.filesystem.immutable \o m.filesystem.writable
        Canonical(list) ==
            \A i, j \in DOMAIN list : i < j => list[i] # list[j] /\ ~Before(list[j], list[i])
    IN  /\ \A i, j \in DOMAIN paths : i # j => ~Overlap(paths[i], paths[j])
        /\ Canonical(m.filesystem.immutable)
        /\ Canonical(m.commands.available) /\ Canonical(m.required_wasm_features)
        /\ \E i \in DOMAIN m.commands.available : m.commands.available[i] = m.commands.default
        /\ from_json([manifest |-> m, slack |-> 0, parses |-> TRUE, unknown_field |-> FALSE])
=============================================================================
