---------------------------- MODULE MCGuestCapture ----------------------------
(***************************************************************************)
(* GuestCapture on small inputs: manifests that differ from a valid one in *)
(* one part, over names and paths of a few bytes.                          *)
(***************************************************************************)
EXTENDS GuestCapture

CONSTANTS m1, m2, k1, k2, b1, b2, v1, v2, w1, w2

MCModules == {m1, m2}
MCKeys == {k1, k2}
MCBuilds == {b1, b2}
MCVersions == {v1, v2}
\* Zero, too small for most journals, the last that does not overflow, one more.
MCLimits == {0, 3, 7, 8}
MCWriters == {w1, w2}
MCSizes == 0 .. 3

\* "a", "-", a double quote and a control character.
a == 97
dash == 45
quote == 34
control == 10

Digest(v) == [prefixed |-> TRUE, canonical |-> TRUE, of |-> <<v>>]
Bare(digest) == [digest EXCEPT !.prefixed = FALSE]
Base ==
    with_calculated_environment_id(
        [schema_version |-> 1, environment_id |-> Digest(0),
         execution_profile |-> "wasix32-v1",
         language |-> [name |-> <<a>>, version |-> <<a>>, implementation |-> <<a>>],
         artifact |-> [format |-> "webc", path |-> "environment.webc", sha256 |-> Bare(Digest(1))],
         required_wasm_features |-> <<>>,
         commands |-> [default |-> <<a>>, available |-> <<<<a>>>>],
         filesystem |-> [immutable |-> <<>>, writable |-> <<Tmp, Work>>],
         build |-> [toolchain_id |-> <<a>>, source_digest |-> Digest(2),
                    lock_digest |-> Digest(3)]])

Lists(values, n) == UNION {[1 .. k -> values] : k \in 0 .. n}

\* /a, /a-, /a-/a, /a/a, /a/-, /tmp, /tmp/a, /tmpa, /work/a
Paths ==
    {<<Slash, a>>, <<Slash, a, dash>>, <<Slash, a, dash, Slash, a>>, <<Slash, a, Slash, a>>,
     <<Slash, a, Slash, dash>>, Tmp, Tmp \o <<Slash, a>>, Append(Tmp, a), Work \o <<Slash, a>>}
\* Not absolute, too short, too long, empty or dotted segments, other bytes.
BadPaths ==
    {<<a, Slash, a>>, <<Slash>>, [i \in 1 .. 8 |-> IF i = 1 THEN Slash ELSE a],
     <<Slash, a, Slash>>, <<Slash, Slash, a>>, <<Slash, Dot>>, <<Slash, a, Slash, Dot, Dot>>,
     <<Slash, Backslash>>, <<Slash, quote>>}
Tokens == {<<a>>, <<a, a>>, <<a, dash>>}
BadTokens == {<<>>, <<quote>>, [i \in 1 .. 8 |-> a]}
Texts == {<<a>>, <<a, a>>, <<quote>>}
BadTexts == {<<>>, <<control>>, <<200>>, [i \in 1 .. 8 |-> a]}
BadDigests ==
    {[prefixed |-> FALSE, canonical |-> TRUE, of |-> <<2>>],
     [prefixed |-> TRUE, canonical |-> FALSE, of |-> <<2>>]}

Manifests ==
    {[Base EXCEPT !.filesystem.immutable = l] : l \in Lists(Paths, 3)}
    \cup {[Base EXCEPT !.filesystem.immutable = <<p>>] : p \in BadPaths}
    \cup {[Base EXCEPT !.filesystem.immutable = [i \in 1 .. 4 |-> <<Slash, a + i>>]]}
    \cup {[Base EXCEPT !.filesystem.writable = w] : w \in {<<>>, <<Tmp>>, <<Work, Tmp>>}}
    \cup {[Base EXCEPT !.required_wasm_features = f, !.commands.default = d,
                       !.commands.available = l] :
             f \in Lists(Tokens, 1), d \in Tokens, l \in Lists(Tokens, 2)}
    \cup {[Base EXCEPT !.required_wasm_features = <<t>>] : t \in BadTokens}
    \cup {[Base EXCEPT !.required_wasm_features = [i \in 1 .. 4 |-> <<a + i>>]]}
    \cup {[Base EXCEPT !.commands.default = t, !.commands.available = <<t>>] : t \in BadTokens}
    \cup {[Base EXCEPT !.build.toolchain_id = t] : t \in BadTokens}
    \cup {[Base EXCEPT !.language.name = n, !.language.version = v,
                       !.language.implementation = i] : n \in Texts, v \in Texts, i \in Texts}
    \cup {[Base EXCEPT !.language.version = t] : t \in BadTexts}
    \cup {[Base EXCEPT !.build.source_digest = d] : d \in BadDigests \cup {Digest(3)}}
    \cup {[Base EXCEPT !.build.lock_digest = d] : d \in BadDigests \cup {Digest(2)}}
    \cup {[Base EXCEPT !.artifact.sha256 = d] :
             d \in {Digest(1), Bare(Digest(2)),
                    [prefixed |-> FALSE, canonical |-> FALSE, of |-> <<2>>]}}
    \cup {[Base EXCEPT !.artifact.format = "zip"], [Base EXCEPT !.artifact.path = "other"],
          [Base EXCEPT !.execution_profile = "other"], [Base EXCEPT !.schema_version = 2]}

Document(m) == [manifest |-> m, slack |-> 0, parses |-> TRUE, unknown_field |-> FALSE]
Calculated == {with_calculated_environment_id(m) : m \in Manifests}
Second == with_calculated_environment_id([Base EXCEPT !.language.version = <<a, a>>])

MCDocuments ==
    {Document(m) : m \in Calculated}
    \cup {Document([Base EXCEPT !.environment_id = d]) : d \in BadDigests \cup {Digest(4)}}
    \cup {[Document(Base) EXCEPT !.slack = n] : n \in {1, 17, 18}}
    \cup {[Document(Base) EXCEPT !.parses = FALSE], [Document(Base) EXCEPT !.unknown_field = TRUE]}
MCFollowed == {Document(Base), Document(Second)}
=============================================================================
