---------------------------- MODULE MCMemoryCache ----------------------------
(***************************************************************************)
(* MemoryCache on a small instance.  The eviction loops are also written   *)
(* the way the code runs them, one least_recent removal per turn, and      *)
(* compared with the closed forms the specification and its proofs use.    *)
(***************************************************************************)
EXTENDS MemoryCache

LeastRecent(used) ==
  CHOOSE d \in Cached(used) : AsRecent(used, d) = Cached(used)

RECURSIVE WarmLoop(_)
WarmLoop(used) ==
  IF Cardinality(Cached(used)) > max_warm
  THEN WarmLoop([used EXCEPT ![LeastRecent(used)] = 0])
  ELSE used

RECURSIVE WarmishLoop(_, _, _)
WarmishLoop(used, size, bytes) ==
  LET key == LeastRecent(used)
  IN  IF /\ \/ Cardinality(Cached(used)) > max_warmish
            \/ bytes > max_warmish_bytes
         /\ Cached(used) # {}
      THEN WarmishLoop([used EXCEPT ![key] = 0], [size EXCEPT ![key] = 0],
                       Monus(bytes, size[key]))
      ELSE [warmish |-> used, size |-> size, bytes |-> bytes]

(* What a cache may look like after wraps of the counter: its ticks reduced  *)
(* to few values, so that entries tie and newer ones look older.             *)
Wrapped(m, k) ==
  LET wrap(used) == [d \in Digests |-> IF used[d] = 0 THEN 0 ELSE 1 + (used[d] % k)]
  IN  [m EXCEPT !.warm = wrap(@), !.warmish = wrap(@), !.sequence = @ % k]

LoopsAgreeOn(m) ==
  \A d \in Digests :
    /\ InsertWarm(m, d).warm = WarmLoop([m.warm EXCEPT ![d] = Tick(m)])
    /\ \A n \in {k \in Sizes : k <= max_warmish_bytes} :
         LET after == InsertWarmish(m, d, n)
             loop  == WarmishLoop([m.warmish EXCEPT ![d] = Tick(m)],
                                  [m.size EXCEPT ![d] = n],
                                  Monus(m.warmish_bytes, m.size[d]) + n)
         IN  /\ after.warmish = loop.warmish
             /\ after.size = loop.size
             /\ after.warmish_bytes = loop.bytes

(***************************************************************************)
(* The while loops of insert_warm and insert_warmish, one least_recent     *)
(* removal per turn, remove exactly the entries the closed forms remove,   *)
(* also when a wrap of the counter makes last_used values tie or swaps     *)
(* their order.                                                            *)
(***************************************************************************)
LoopsAgree == \A m \in {memory} \cup {Wrapped(memory, k) : k \in 1 .. 3} : LoopsAgreeOn(m)
=============================================================================
