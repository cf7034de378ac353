------------------------------ MODULE TierCache ------------------------------
(***************************************************************************)
(* What the in-memory code cache of one Runtime promises its callers,      *)
(* without saying how entries are aged: which packages are warm (compiled  *)
(* component retained) and which are warmish (AOT bytes retained).         *)
(* MemoryCache implements this specification.                              *)
(***************************************************************************)
EXTENDS Naturals, FiniteSets

CONSTANTS Digests,      \* component digests
          max_warm,     \* RuntimeConfig::max_warm_components
          max_warmish   \* RuntimeConfig::max_warmish_entries

VARIABLES warm,         \* digests with a compiled component in memory
          warmish       \* digests with AOT bytes in memory

tierVars == <<warm, warmish>>

Init == warm = {} /\ warmish = {}

(***************************************************************************)
(* Inserting makes d warm, and costs another package its place only when   *)
(* the tier is full, and then exactly one.                                 *)
(***************************************************************************)
MakeWarm(d) ==
  \E lost \in SUBSET (warm \ {d}) :
    /\ Cardinality(lost) = IF Cardinality(warm \cup {d}) > max_warm THEN 1 ELSE 0
    /\ warm' = (warm \cup {d}) \ lost

(***************************************************************************)
(* AOT bytes over the byte budget are not retained; retaining bytes may    *)
(* push out other packages, never the one inserted.                        *)
(***************************************************************************)
MakeWarmish(d) ==
  \/ UNCHANGED warmish
  \/ \E lost \in SUBSET (warmish \ {d}) :
       /\ warmish' = (warmish \cup {d}) \ lost
       /\ Cardinality(warmish') <= max_warmish

Promote(d) == MakeWarm(d) /\ UNCHANGED warmish

Admit(d) == MakeWarm(d) /\ MakeWarmish(d)

Demote(d) == warm' = warm \ {d} /\ UNCHANGED warmish

Next == \E d \in Digests : Promote(d) \/ Admit(d) \/ Demote(d)

Spec == Init /\ [][Next]_tierVars
=============================================================================
