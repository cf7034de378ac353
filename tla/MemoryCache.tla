----------------------------- MODULE MemoryCache -----------------------------
(***************************************************************************)
(* The two in-memory tiers of a Runtime (struct MemoryCache): compiled     *)
(* components ("warm") and AOT bytes ("warmish"), each evicted in least    *)
(* recently used order.  Every method runs under RuntimeInner::memory, so  *)
(* each call, or pair of calls made under one lock, is one action.         *)
(*                                                                         *)
(* A tier is a function from digests to the last_used tick of the entry;   *)
(* ticks start at 1, and 0 stands for "no entry".  Digests are numbered in *)
(* the string order least_recent breaks ties with.                         *)
(***************************************************************************)
EXTENDS Naturals, FiniteSets

CONSTANTS DigestCount,        \* how many packages there are
          Sizes,              \* lengths of serialized artifacts
          max_warm,           \* RuntimeConfig::max_warm_components
          max_warmish,        \* RuntimeConfig::max_warmish_entries
          max_warmish_bytes,  \* RuntimeConfig::max_warmish_bytes
          SequenceModulus     \* the counter's range, 2^64 in the code

ASSUME DigestAssumption == DigestCount \in Nat
ASSUME SizeAssumption == Sizes \subseteq Nat \ {0}
ASSUME ConfigAssumption ==      \* runtime::validate_config
  /\ max_warm \in Nat /\ max_warmish \in Nat /\ max_warmish_bytes \in Nat
  /\ max_warm # 0 /\ max_warmish >= max_warm /\ max_warmish_bytes # 0
ASSUME ModulusAssumption == SequenceModulus \in Nat /\ SequenceModulus > 1

VARIABLE memory

Digests == 1 .. DigestCount

-----------------------------------------------------------------------------
Monus(a, b) == IF a > b THEN a - b ELSE 0

(* MemoryCache::tick: wrapping_add(1).max(1) *)
Tick(m) ==
  LET next == (m.sequence + 1) % SequenceModulus
  IN  IF next = 0 THEN 1 ELSE next

(* The bytes of the artifacts in S. *)
ByteSum(size, S) ==
  LET upTo[k \in Nat] ==
        IF k = 0 THEN 0 ELSE upTo[k - 1] + (IF k \in S THEN size[k] ELSE 0)
  IN  upTo[DigestCount]

Cached(used) == {d \in Digests : used[d] # 0}

(* Mutant: entries are ordered by key only. *)
AsRecentByKey(used, d) == {e \in Cached(used) : e >= d}

(* The entries least_recent would choose no earlier than d, d included. *)
AsRecent(used, d) ==
  {e \in Cached(used) : used[e] > used[d] \/ (used[e] = used[d] /\ e >= d)}

Keep(f, kept) == [d \in Digests |-> IF d \in kept THEN f[d] ELSE 0]

NewCache ==
  [warm          |-> [d \in Digests |-> 0],
   warmish       |-> [d \in Digests |-> 0],
   size          |-> [d \in Digests |-> 0],
   warmish_bytes |-> 0,
   sequence      |-> 0]

(* MemoryCache::warm and ::warmish tick on a miss too. *)
Warm(m, d) ==
  [m EXCEPT !.sequence = Tick(m),
            !.warm[d]  = IF @ = 0 THEN 0 ELSE Tick(m)]

Warmish(m, d) ==
  [m EXCEPT !.sequence   = Tick(m),
            !.warmish[d] = IF @ = 0 THEN 0 ELSE Tick(m)]

(* Mutant: the loop runs one turn too many. *)
InsertWarmKeepsOneLess(m, d) ==
  LET used == [m.warm EXCEPT ![d] = Tick(m)]
      kept == {e \in Cached(used) : Cardinality(AsRecent(used, e)) < max_warm}
  IN  [m EXCEPT !.sequence = Tick(m), !.warm = Keep(used, kept)]

(***************************************************************************)
(* insert_warm removes least recent entries until max_warm remain: the     *)
(* entries kept are those with at most max_warm entries as recent.         *)
(***************************************************************************)
InsertWarm(m, d) ==
  LET used == [m.warm EXCEPT ![d] = Tick(m)]
      kept == {e \in Cached(used) : Cardinality(AsRecent(used, e)) <= max_warm}
  IN  [m EXCEPT !.sequence = Tick(m), !.warm = Keep(used, kept)]

(* Mutants: the replaced entry's bytes stay counted; bytes are not limited. *)
InsertWarmishForgetsPrevious(m, d, n) ==
  LET used == [m.warmish EXCEPT ![d] = Tick(m)]
      size == [m.size EXCEPT ![d] = n]
      held == m.warmish_bytes + n
      kept == {e \in Cached(used) : Cardinality(AsRecent(used, e)) <= max_warmish}
  IN  IF n > max_warmish_bytes
      THEN m
      ELSE [m EXCEPT !.sequence      = Tick(m),
                     !.warmish       = Keep(used, kept),
                     !.size          = Keep(size, kept),
                     !.warmish_bytes = Monus(held, ByteSum(size, Cached(used) \ kept))]

InsertWarmishCountsEntries(m, d, n) ==
  InsertWarmishForgetsPrevious(
    [m EXCEPT !.warmish_bytes = Monus(@, m.size[d])], d, n)

(***************************************************************************)
(* insert_warmish refuses an artifact larger than the whole budget, and    *)
(* otherwise evicts from the old end until both the entry count and the    *)
(* byte counter fit.  Freed(e) is what the loop has subtracted once every  *)
(* entry older than e is gone; e is kept if the loop has stopped by then.  *)
(***************************************************************************)
InsertWarmish(m, d, n) ==
  LET used     == [m.warmish EXCEPT ![d] = Tick(m)]
      size     == [m.size EXCEPT ![d] = n]
      held     == Monus(m.warmish_bytes, m.size[d]) + n
      Freed(S) == ByteSum(size, Cached(used) \ S)
      kept     == {e \in Cached(used) :
                     LET rest == AsRecent(used, e)
                     IN  /\ Cardinality(rest) <= max_warmish
                         /\ Monus(held, Freed(rest)) <= max_warmish_bytes}
  IN  IF n > max_warmish_bytes
      THEN m
      ELSE [m EXCEPT !.sequence      = Tick(m),
                     !.warmish       = Keep(used, kept),
                     !.size          = Keep(size, kept),
                     !.warmish_bytes = Monus(held, Freed(kept))]

DemoteEntry(m, d) == [m EXCEPT !.warm[d] = 0]

-----------------------------------------------------------------------------
Init == memory = NewCache

(* The lookup at the head of RuntimeInner::prepare. *)
LookUpWarm(d) == memory' = Warm(memory, d)

(* The lookup prepare makes when the warm tier missed. *)
LookUpWarmish(d) == memory' = Warmish(memory, d)

(* RuntimeInner::tier: both lookups under one lock, the second on a miss. *)
Tier(d) ==
  LET probed == Warm(memory, d)
  IN  memory' = IF memory.warm[d] # 0 THEN probed ELSE Warmish(probed, d)

(* prepare, after deserializing warmish bytes. *)
Promote(d) == memory' = InsertWarm(memory, d)

(* prepare, after a disk load or a compilation: both inserts, one lock. *)
Admit(d, n) == memory' = InsertWarm(InsertWarmish(memory, d, n), d)

Demote(d) == memory' = DemoteEntry(memory, d)

Next ==
  \E d \in Digests :
    \/ LookUpWarm(d)
    \/ LookUpWarmish(d)
    \/ Tier(d)
    \/ Promote(d)
    \/ \E n \in Sizes : Admit(d, n)
    \/ Demote(d)

Spec == Init /\ [][Next]_memory

(* Executions in which the 64-bit counter has not wrapped. *)
NextBeforeWrap == memory.sequence + 2 < SequenceModulus /\ Next

SpecBeforeWrap == Init /\ [][NextBeforeWrap]_memory

-----------------------------------------------------------------------------
Ticks == 0 .. SequenceModulus - 1

(* Every field of the cache has its type. *)
TypeOK ==
  memory \in [warm          : [Digests -> Ticks],
              warmish       : [Digests -> Ticks],
              size          : [Digests -> Nat],
              warmish_bytes : Nat,
              sequence      : Ticks]

(***************************************************************************)
(* RuntimeConfig's two entry limits and its byte limit hold between any    *)
(* two calls, whatever the order of lookups, inserts and demotions, and    *)
(* across a wrap of the counter (the eviction loops of insert_warm and     *)
(* insert_warmish).                                                        *)
(***************************************************************************)
Capacity ==
  /\ Cardinality(Cached(memory.warm)) <= max_warm
  /\ Cardinality(Cached(memory.warmish)) <= max_warmish
  /\ memory.warmish_bytes <= max_warmish_bytes

(***************************************************************************)
(* The running byte counter is the sum of the retained artifacts, so the   *)
(* saturating subtractions of insert_warmish never hide a drift: replacing *)
(* an entry by one of another size, and evicting several, keep it exact.   *)
(***************************************************************************)
ByteAccounting ==
  /\ memory.warmish_bytes = ByteSum(memory.size, Cached(memory.warmish))
  /\ \A d \in Digests : memory.size[d] # 0 <=> memory.warmish[d] # 0

LosesOldest(used, usedNext) ==
  \A a, b \in Cached(used) :
    (usedNext[a] = 0 /\ usedNext[b] = used[b]) => used[a] < used[b]

(***************************************************************************)
(* An insert evicts in least recently used order: what a tier loses was    *)
(* last used before everything the tier keeps, except an entry the same    *)
(* call has just refreshed.                                                *)
(***************************************************************************)
EvictsOldestFirst ==
  [][ memory'.sequence # memory.sequence =>
        /\ LosesOldest(memory.warm, memory'.warm)
        /\ LosesOldest(memory.warmish, memory'.warmish) ]_memory

Tiers == INSTANCE TierCache WITH warm <- Cached(memory.warm),
                                 warmish <- Cached(memory.warmish)

(***************************************************************************)
(* The cache as its callers see it: Promote and Admit leave the digest     *)
(* warm and take at most one other package's place, lookups move nothing   *)
(* between tiers, Demote touches only the digest it is given.              *)
(***************************************************************************)
ImplementsTierCache == Tiers!Spec
=============================================================================
