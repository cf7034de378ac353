----------------------------- MODULE Preparation -----------------------------
(***************************************************************************)
(* RuntimeInner::prepare as concurrent tasks run it: the memory tiers (the *)
(* promise TierCache makes), the disk entry of each digest (the promise    *)
(* DiskEntry makes), one fair Tokio mutex per digest, the compiler thread, *)
(* the semaphore of background promotion, futures dropped at an await, and *)
(* demotion by command and HTTP eviction.                                  *)
(*                                                                         *)
(* A fair Tokio lock is the sequence of its holder and waiters: the first  *)
(* one holds the mutex, the first background_workers hold a permit.        *)
(***************************************************************************)
EXTENDS Integers, Sequences, FiniteSets

CONSTANTS Tasks,               \* callers of prepare
          Background,          \* the promotion tasks load_bytes spawns
          Digests,
          max_warm, max_warmish,
          background_workers,  \* RuntimeConfig::background_workers
          MaxDetached          \* bound: compilations whose caller is gone

ASSUME BackgroundAssumption == Background \subseteq Tasks
ASSUME WorkersAssumption == background_workers \in Nat \ {0}
ASSUME DetachedAssumption == MaxDetached \in Nat

VARIABLES warm, warmish,   \* the memory tiers
          entry,           \* the disk entry of each digest
          pc,              \* where each task is in prepare
          digest,          \* the package a task prepares
          result,          \* what its last call returned
          lock,            \* preparation_locks: holder and waiters per digest
          background,      \* permit holders and waiters
          detached         \* compilations per digest that nobody awaits

vars == <<warm, warmish, entry, pc, digest, result, lock, background, detached>>

Memory == INSTANCE TierCache

Holds(t) == lock[digest[t]] # <<>> /\ Head(lock[digest[t]]) = t

HasPermit(t) ==
  \E i \in 1 .. Len(background) : i <= background_workers /\ background[i] = t

(* The queue once t, which is in it at most once, has left. *)
Without(queue, t) ==
  IF \A i \in 1 .. Len(queue) : queue[i] # t THEN queue
  ELSE LET at == CHOOSE i \in 1 .. Len(queue) : queue[i] = t
       IN  [i \in 1 .. Len(queue) - 1 |-> queue[IF i < at THEN i ELSE i + 1]]

-----------------------------------------------------------------------------
Init ==
  /\ warm = {} /\ warmish = {}
  /\ entry \in [Digests -> {"absent", "unusable", "whole"}]
  /\ pc = [t \in Tasks |-> "idle"]
  /\ digest \in {[t \in Tasks |-> d] : d \in Digests}
  /\ result = [t \in Tasks |-> "none"]
  /\ lock = [d \in Digests |-> <<>>]
  /\ background = <<>>
  /\ detached = [d \in Digests |-> 0]

Goto(t, label) == pc' = [pc EXCEPT ![t] = label]

(* Mutant: the permit stays with a task that is gone. *)
LeaveWithPermit(t, outcome) ==
  /\ Goto(t, "idle")
  /\ result' = [result EXCEPT ![t] = outcome]
  /\ lock' = [lock EXCEPT ![digest[t]] = Without(@, t)]
  /\ UNCHANGED background

(* The call returns: the guard, and a promotion's permit, are dropped. *)
Leave(t, outcome) ==
  /\ Goto(t, "idle")
  /\ result' = [result EXCEPT ![t] = outcome]
  /\ lock' = [lock EXCEPT ![digest[t]] = Without(@, t)]
  /\ background' = Without(background, t)

(***************************************************************************)
(* A caller enters prepare; load_bytes spawns a task that first waits for  *)
(* a permit.                                                               *)
(***************************************************************************)
Call(t) ==
  /\ pc[t] = "idle"
  /\ \E d \in Digests : digest' = [digest EXCEPT ![t] = d]
  /\ result' = [result EXCEPT ![t] = "none"]
  /\ IF t \in Background
     THEN Goto(t, "permit") /\ background' = Append(background, t)
     ELSE Goto(t, "lookup") /\ UNCHANGED background
  /\ UNCHANGED <<warm, warmish, entry, lock, detached>>

Permitted(t) ==
  /\ pc[t] = "permit" /\ HasPermit(t)
  /\ Goto(t, "lookup")
  /\ UNCHANGED <<warm, warmish, entry, digest, result, lock, background, detached>>

Lookup(t) ==
  /\ pc[t] = "lookup"
  /\ IF digest[t] \in warm
     THEN Leave(t, "ok")
     ELSE Goto(t, "enqueue") /\ UNCHANGED <<result, lock, background>>
  /\ UNCHANGED <<warm, warmish, entry, digest, detached>>

Enqueue(t) ==
  /\ pc[t] = "enqueue"
  /\ Goto(t, "wait")
  /\ lock' = [lock EXCEPT ![digest[t]] = Append(@, t)]
  /\ UNCHANGED <<warm, warmish, entry, digest, result, background, detached>>

(* Mutant: the warm tier is not looked at again. *)
RecheckSkipped(t) ==
  /\ pc[t] = "wait" /\ Holds(t)
  /\ Goto(t, "warmish")
  /\ UNCHANGED <<warm, warmish, entry, digest, result, lock, background, detached>>

(* Mutant: the mutex is not awaited. *)
RecheckUnlocked(t) ==
  /\ pc[t] = "wait"
  /\ IF digest[t] \in warm
     THEN Leave(t, "ok")
     ELSE Goto(t, "warmish") /\ UNCHANGED <<result, lock, background>>
  /\ UNCHANGED <<warm, warmish, entry, digest, detached>>

(* The mutex is acquired and the warm tier is looked at again. *)
Recheck(t) ==
  /\ pc[t] = "wait" /\ Holds(t)
  /\ IF digest[t] \in warm
     THEN Leave(t, "ok")
     ELSE Goto(t, "warmish") /\ UNCHANGED <<result, lock, background>>
  /\ UNCHANGED <<warm, warmish, entry, digest, detached>>

LookupWarmish(t) ==
  /\ pc[t] = "warmish"
  /\ Goto(t, IF digest[t] \in warmish THEN "deserialize" ELSE "load")
  /\ UNCHANGED <<warm, warmish, entry, digest, result, lock, background, detached>>

(* Warmish bytes are deserialized, outside the memory lock, and inserted. *)
Deserialize(t) ==
  /\ pc[t] = "deserialize"
  /\ \/ Memory!Promote(digest[t]) /\ Leave(t, "ok")
     \/ Leave(t, "error") /\ UNCHANGED <<warm, warmish>>
  /\ UNCHANGED <<entry, digest, detached>>

(***************************************************************************)
(* DiskCache::load and the deserialization of what it found; without an    *)
(* entry the compiler is started on a blocking thread.                     *)
(***************************************************************************)
Load(t) ==
  /\ pc[t] = "load"
  /\ \/ /\ entry[digest[t]] = "whole"
        /\ Goto(t, "admit") /\ UNCHANGED <<result, lock, background>>
     \/ /\ entry[digest[t]] # "absent"
        /\ Leave(t, "error")
     \/ /\ entry[digest[t]] = "absent"
        /\ Goto(t, "compile") /\ UNCHANGED <<result, lock, background>>
  /\ UNCHANGED <<warm, warmish, entry, digest, detached>>

Compiled(t) ==
  /\ pc[t] = "compile"
  /\ \/ Goto(t, "publish_artifact") /\ UNCHANGED <<result, lock, background>>
     \/ Leave(t, "error")
  /\ UNCHANGED <<warm, warmish, entry, digest, detached>>

(* Mutant: a failed publication fails the call. *)
PublishArtifactOrFail(t) ==
  /\ pc[t] = "publish_artifact"
  /\ \/ /\ entry' = [entry EXCEPT ![digest[t]] = IF @ = "absent" THEN "unusable" ELSE @]
        /\ Goto(t, "publish_metadata") /\ UNCHANGED <<result, lock, background>>
     \/ Leave(t, "error") /\ UNCHANGED entry
  /\ UNCHANGED <<warm, warmish, digest, detached>>

(* DiskCache::publish, either half of which may fail. *)
PublishArtifact(t) ==
  /\ pc[t] = "publish_artifact"
  /\ \/ /\ entry' = [entry EXCEPT ![digest[t]] = IF @ = "absent" THEN "unusable" ELSE @]
        /\ Goto(t, "publish_metadata")
     \/ Goto(t, "admit") /\ UNCHANGED entry
  /\ UNCHANGED <<warm, warmish, digest, result, lock, background, detached>>

PublishMetadata(t) ==
  /\ pc[t] = "publish_metadata"
  /\ \/ entry' = [entry EXCEPT ![digest[t]] = "whole"]
     \/ UNCHANGED entry
  /\ Goto(t, "admit")
  /\ UNCHANGED <<warm, warmish, digest, result, lock, background, detached>>

Admit(t) ==
  /\ pc[t] = "admit"
  /\ Memory!Admit(digest[t])
  /\ Leave(t, "ok")
  /\ UNCHANGED <<entry, digest, detached>>

(***************************************************************************)
(* The caller drops its future at one of prepare's two awaits.  A blocking *)
(* compilation cannot be stopped: it runs on and its result is discarded.  *)
(***************************************************************************)
Drop(t) ==
  /\ t \notin Background
  /\ pc[t] \in {"wait", "compile"}
  /\ detached[digest[t]] < MaxDetached
  /\ detached' = [detached EXCEPT ![digest[t]] = @ + (IF pc[t] = "compile" THEN 1 ELSE 0)]
  /\ Leave(t, "dropped")
  /\ UNCHANGED <<warm, warmish, entry, digest>>

DetachedEnds(d) ==
  /\ detached[d] > 0
  /\ detached' = [detached EXCEPT ![d] = @ - 1]
  /\ UNCHANGED <<warm, warmish, entry, pc, digest, result, lock, background>>

(* IdleEvicted commands and idle HTTP services demote their package. *)
Demote(d) ==
  /\ Memory!Demote(d)
  /\ UNCHANGED <<entry, pc, digest, result, lock, background, detached>>

(* Another process publishes the same entry. *)
PublishElsewhere(d) ==
  /\ entry' = [entry EXCEPT ![d] = IF @ = "absent" THEN "unusable" ELSE "whole"]
  /\ UNCHANGED <<warm, warmish, pc, digest, result, lock, background, detached>>

Step(t) ==
  \/ Permitted(t) \/ Lookup(t) \/ Enqueue(t) \/ Recheck(t)
  \/ LookupWarmish(t) \/ Deserialize(t) \/ Load(t) \/ Compiled(t)
  \/ PublishArtifact(t) \/ PublishMetadata(t) \/ Admit(t)

Next ==
  \/ \E t \in Tasks : Call(t) \/ Step(t) \/ Drop(t)
  \/ \E d \in Digests : DetachedEnds(d) \/ Demote(d) \/ PublishElsewhere(d)

Spec == Init /\ [][Next]_vars

(* Tokio polls every woken task, and every compilation ends. *)
FairSpec == Spec /\ \A t \in Tasks : WF_vars(Step(t))

-----------------------------------------------------------------------------
(* Past the mutex, looking for or making a component. *)
Inside == {"warmish", "deserialize", "load", "compile",
           "publish_artifact", "publish_metadata", "admit"}

PastCompile == {"publish_artifact", "publish_metadata"}

(* Every variable has its type: results, places and queues of tasks. *)
TypeOK ==
  /\ warm \subseteq Digests /\ warmish \subseteq Digests
  /\ entry \in [Digests -> {"absent", "unusable", "whole"}]
  /\ pc \in [Tasks -> {"idle", "permit", "lookup", "enqueue", "wait"} \cup Inside]
  /\ digest \in [Tasks -> Digests]
  /\ result \in [Tasks -> {"none", "ok", "error", "dropped"}]
  /\ lock \in [Digests -> Seq(Tasks)]
  /\ background \in Seq(Tasks)
  /\ detached \in [Digests -> 0 .. MaxDetached]

(***************************************************************************)
(* Callers of one digest join one preparation: at most one of them is past *)
(* the mutex, and it is the one at the head of the queue.                  *)
(***************************************************************************)
OnePreparer == \A t \in Tasks : pc[t] \in Inside => Holds(t)

(***************************************************************************)
(* What a preparer found missing is still missing when it acts on it: no   *)
(* interleaving makes it compile, publish or replace a component that      *)
(* another caller has already retained.                                    *)
(***************************************************************************)
MissIsStillAMiss ==
  \A t \in Tasks :
    /\ pc[t] \in Inside => digest[t] \notin warm
    /\ pc[t] \in Inside \ {"warmish", "deserialize"} => digest[t] \notin warmish

(***************************************************************************)
(* Once the source has compiled the call succeeds, whatever happens to the *)
(* publication (the comment in prepare: a failure "must not discard the    *)
(* usable in-memory result").                                              *)
(***************************************************************************)
CompiledIsReturned ==
  [][ \A t \in Tasks :
        pc[t] \in PastCompile \cup {"admit"} /\ pc'[t] = "idle" =>
          result'[t] = "ok" /\ digest[t] \in warm' ]_vars

(***************************************************************************)
(* Every call returns: nobody waits forever for a mutex or a permit,       *)
(* although callers are dropped at any await and packages are demoted.     *)
(***************************************************************************)
EveryCallReturns == \A t \in Tasks : pc[t] # "idle" ~> pc[t] = "idle"
=============================================================================
