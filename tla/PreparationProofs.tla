-------------------------- MODULE PreparationProofs --------------------------
(***************************************************************************)
(* Proofs about Preparation for any set of tasks and digests.  The         *)
(* invariant is TypeOK together with OnePreparer and MissIsStillAMiss:     *)
(* that a miss stays one needs that nobody else inserts the digest, which  *)
(* is what the mutex gives.                                                *)
(***************************************************************************)
EXTENDS Preparation, SequenceTheorems, TLAPS

Inv == TypeOK /\ OnePreparer /\ MissIsStillAMiss

(* Removing a task from a queue leaves a queue of tasks. *)
LEMMA WithoutType ==
  ASSUME NEW queue \in Seq(Tasks), NEW t
  PROVE  Without(queue, t) \in Seq(Tasks)
<1>1. CASE \A i \in 1 .. Len(queue) : queue[i] # t
  BY <1>1 DEF Without
<1>2. CASE \E i \in 1 .. Len(queue) : queue[i] = t
  <2> DEFINE at == CHOOSE i \in 1 .. Len(queue) : queue[i] = t
  <2>1. at \in 1 .. Len(queue)
    BY <1>2
  <2>2. Len(queue) \in Nat /\ Len(queue) - 1 \in Nat
    BY <2>1
  <2>3. Without(queue, t) = [i \in 1 .. Len(queue) - 1 |-> queue[IF i < at THEN i ELSE i + 1]]
    BY <1>2 DEF Without
  <2>4. \A i \in 1 .. Len(queue) - 1 : queue[IF i < at THEN i ELSE i + 1] \in Tasks
    BY <2>1, <2>2
  <2> QED
    BY <2>2, <2>3, <2>4, SeqDef
<1> QED
  BY <1>1, <1>2

(* Removing somebody else leaves the holder of a mutex at its head. *)
LEMMA WithoutHead ==
  ASSUME NEW queue \in Seq(Tasks), NEW t, queue # <<>>, Head(queue) # t
  PROVE  Without(queue, t) # <<>> /\ Head(Without(queue, t)) = Head(queue)
<1>1. Len(queue) \in Nat \ {0} /\ Head(queue) = queue[1]
  OBVIOUS
<1>2. CASE \A i \in 1 .. Len(queue) : queue[i] # t
  BY <1>2 DEF Without
<1>3. CASE \E i \in 1 .. Len(queue) : queue[i] = t
  <2> DEFINE at == CHOOSE i \in 1 .. Len(queue) : queue[i] = t
  <2>1. at \in 1 .. Len(queue) /\ queue[at] = t
    BY <1>3
  <2>2. at > 1
    BY <2>1, <1>1
  <2>3. Without(queue, t) = [i \in 1 .. Len(queue) - 1 |-> queue[IF i < at THEN i ELSE i + 1]]
    BY <1>3 DEF Without
  <2>4. Without(queue, t) \in Seq(Tasks)
    BY WithoutType
  <2>5. 1 \in 1 .. Len(queue) - 1 /\ Without(queue, t)[1] = queue[1]
    BY <1>1, <2>1, <2>2, <2>3
  <2>6. Len(Without(queue, t)) = Len(queue) - 1
    BY <1>1, <2>3, <2>4
  <2> QED
    BY <1>1, <2>4, <2>5, <2>6
<1> QED
  BY <1>2, <1>3

(* Inserting into a memory tier adds no digest but the one inserted. *)
LEMMA MakeWarmAdds ==
  ASSUME NEW d, Memory!MakeWarm(d)
  PROVE  warm' \subseteq warm \cup {d} /\ d \in warm'
  BY DEF Memory!MakeWarm

LEMMA MakeWarmishAdds ==
  ASSUME NEW d, Memory!MakeWarmish(d)
  PROVE  warmish' \subseteq warmish \cup {d}
  BY DEF Memory!MakeWarmish

(* A call that returns keeps the types, and takes nobody else's mutex. *)
LEMMA LeaveKeeps ==
  ASSUME TypeOK, OnePreparer, UNCHANGED digest,
         NEW t \in Tasks, NEW outcome \in {"none", "ok", "error", "dropped"}, Leave(t, outcome)
  PROVE  /\ pc' \in [Tasks -> {"idle", "permit", "lookup", "enqueue", "wait"} \cup Inside]
         /\ result' \in [Tasks -> {"none", "ok", "error", "dropped"}]
         /\ lock' \in [Digests -> Seq(Tasks)]
         /\ background' \in Seq(Tasks)
         /\ pc'[t] = "idle" /\ \A u \in Tasks \ {t} : pc'[u] = pc[u]
         /\ OnePreparer'
<1>1. /\ pc' \in [Tasks -> {"idle", "permit", "lookup", "enqueue", "wait"} \cup Inside]
      /\ result' \in [Tasks -> {"none", "ok", "error", "dropped"}]
      /\ pc'[t] = "idle" /\ \A u \in Tasks \ {t} : pc'[u] = pc[u]
  BY DEF TypeOK, Leave, Goto
<1>2. background' \in Seq(Tasks)
  BY WithoutType DEF TypeOK, Leave
<1>3. lock[digest[t]] \in Seq(Tasks) /\ Without(lock[digest[t]], t) \in Seq(Tasks)
  BY WithoutType DEF TypeOK
<1>4. /\ lock' \in [Digests -> Seq(Tasks)]
      /\ lock'[digest[t]] = Without(lock[digest[t]], t)
      /\ \A d \in Digests \ {digest[t]} : lock'[d] = lock[d]
  BY <1>3 DEF TypeOK, Leave
<1>5. OnePreparer'
  <2> SUFFICES ASSUME NEW u \in Tasks, pc'[u] \in Inside
               PROVE  lock'[digest[u]] # <<>> /\ Head(lock'[digest[u]]) = u
    BY DEF OnePreparer, Holds
  <2>1. u # t /\ pc[u] \in Inside
    BY <1>1 DEF Inside
  <2>2. lock[digest[u]] # <<>> /\ Head(lock[digest[u]]) = u
    BY <2>1 DEF OnePreparer, Holds
  <2>3. CASE digest[u] = digest[t]
    BY <1>3, <1>4, <2>1, <2>2, <2>3, WithoutHead
  <2>4. CASE digest[u] # digest[t]
    BY <1>4, <2>2, <2>4, Zenon DEF TypeOK
  <2> QED
    BY <2>3, <2>4
<1> QED
  BY <1>1, <1>2, <1>4, <1>5

(* Two callers past the mutex of one package are the same caller. *)
LEMMA Exclusive ==
  ASSUME OnePreparer, NEW t \in Tasks, NEW u \in Tasks,
         pc[t] \in Inside, pc[u] \in Inside, digest[t] = digest[u]
  PROVE  t = u
  BY DEF OnePreparer, Holds

(* A caller that moves on without touching a queue. *)
LEMMA GotoKeeps ==
  ASSUME TypeOK, OnePreparer, UNCHANGED <<digest, lock>>, NEW t \in Tasks,
         NEW label \in {"permit", "lookup", "enqueue", "wait"} \cup Inside,
         label \in Inside => Holds(t), Goto(t, label)
  PROVE  /\ pc' \in [Tasks -> {"idle", "permit", "lookup", "enqueue", "wait"} \cup Inside]
         /\ pc'[t] = label /\ \A u \in Tasks \ {t} : pc'[u] = pc[u]
         /\ OnePreparer'
  BY DEF TypeOK, Goto, OnePreparer, Holds

(* A digest that nobody but t, who leaves or is the only one, inserts. *)
LEMMA MissKeeps ==
  ASSUME TypeOK, OnePreparer, MissIsStillAMiss, UNCHANGED digest,
         NEW t \in Tasks, pc[t] \in Inside, pc'[t] = "idle",
         \A u \in Tasks \ {t} : pc'[u] = pc[u],
         warm' \subseteq warm \cup {digest[t]},
         warmish' \subseteq warmish \cup {digest[t]}
  PROVE  MissIsStillAMiss'
<1> SUFFICES ASSUME NEW u \in Tasks
             PROVE  /\ pc'[u] \in Inside => digest[u] \notin warm'
                    /\ pc'[u] \in Inside \ {"warmish", "deserialize"} => digest[u] \notin warmish'
  BY DEF MissIsStillAMiss
<1>1. CASE u = t
  BY <1>1 DEF Inside
<1>2. CASE u # t /\ pc[u] \in Inside
  <2>1. digest[u] # digest[t]
    BY <1>2, Exclusive
  <2> QED
    BY <1>2, <2>1 DEF MissIsStillAMiss
<1>3. CASE u # t /\ pc[u] \notin Inside
  BY <1>3
<1> QED
  BY <1>1, <1>2, <1>3

LEMMA InitInv == Init => Inv
<1> SUFFICES ASSUME Init PROVE Inv
  OBVIOUS
<1>1. TypeOK
  <2>1. lock \in [Digests -> Seq(Tasks)] /\ background \in Seq(Tasks)
    BY DEF Init
  <2>2. detached \in [Digests -> 0 .. MaxDetached]
    BY DetachedAssumption DEF Init
  <2> QED
    BY <2>1, <2>2 DEF Init, TypeOK
<1>2. OnePreparer /\ MissIsStillAMiss
  BY DEF Init, OnePreparer, MissIsStillAMiss, Inside
<1> QED
  BY <1>1, <1>2 DEF Inv

(* What the invariant says of a caller past the mutex. *)
LEMMA InsideFacts ==
  ASSUME Inv, NEW t \in Tasks, pc[t] \in Inside
  PROVE  /\ Holds(t) /\ digest[t] \notin warm
         /\ pc[t] \notin {"warmish", "deserialize"} => digest[t] \notin warmish
  BY DEF Inv, OnePreparer, MissIsStillAMiss

(* Moving on keeps the invariant if the mutex and the misses allow the place. *)
LEMMA GotoInv ==
  ASSUME Inv, NEW t \in Tasks,
         NEW label \in {"permit", "lookup", "enqueue", "wait"} \cup Inside, Goto(t, label),
         UNCHANGED <<warm, warmish, digest, result, lock, background, detached>>,
         entry' \in [Digests -> {"absent", "unusable", "whole"}],
         label \in Inside => Holds(t) /\ digest[t] \notin warm,
         label \in Inside \ {"warmish", "deserialize"} => digest[t] \notin warmish
  PROVE  Inv'
<1>1. TypeOK /\ OnePreparer /\ MissIsStillAMiss
  BY DEF Inv
<1>2. /\ pc' \in [Tasks -> {"idle", "permit", "lookup", "enqueue", "wait"} \cup Inside]
      /\ pc'[t] = label /\ \A u \in Tasks \ {t} : pc'[u] = pc[u]
      /\ OnePreparer'
  BY <1>1, GotoKeeps, Zenon
<1>3. TypeOK'
  BY <1>1, <1>2 DEF TypeOK
<1>4. MissIsStillAMiss'
  BY <1>1, <1>2 DEF MissIsStillAMiss
<1> QED
  BY <1>2, <1>3, <1>4 DEF Inv

(* Returning keeps it, also for a caller past the mutex that has inserted. *)
LEMMA LeaveInv ==
  ASSUME Inv, NEW t \in Tasks, NEW outcome \in {"none", "ok", "error", "dropped"},
         Leave(t, outcome), UNCHANGED <<entry, digest>>,
         detached' \in [Digests -> 0 .. MaxDetached],
         \/ UNCHANGED <<warm, warmish>>
         \/ /\ pc[t] \in Inside
            /\ warm' \subseteq warm \cup {digest[t]}
            /\ warmish' \subseteq warmish \cup {digest[t]}
  PROVE  Inv'
<1>1. TypeOK /\ OnePreparer /\ MissIsStillAMiss
  BY DEF Inv
<1>2. /\ pc' \in [Tasks -> {"idle", "permit", "lookup", "enqueue", "wait"} \cup Inside]
      /\ result' \in [Tasks -> {"none", "ok", "error", "dropped"}]
      /\ lock' \in [Digests -> Seq(Tasks)]
      /\ background' \in Seq(Tasks)
      /\ pc'[t] = "idle" /\ \A u \in Tasks \ {t} : pc'[u] = pc[u]
      /\ OnePreparer'
  BY <1>1, LeaveKeeps
<1>3. warm' \subseteq Digests /\ warmish' \subseteq Digests
  <2>1. digest[t] \in Digests /\ warm \subseteq Digests /\ warmish \subseteq Digests
    BY <1>1 DEF TypeOK
  <2> QED
    BY <2>1
<1>4. TypeOK'
  BY <1>1, <1>2, <1>3 DEF TypeOK
<1>5. MissIsStillAMiss'
  <2>1. CASE UNCHANGED <<warm, warmish>>
    <3>1. "idle" \notin Inside
      BY DEF Inside
    <3> QED
      BY <1>1, <1>2, <2>1, <3>1, Zenon DEF MissIsStillAMiss
  <2>2. CASE /\ pc[t] \in Inside
             /\ warm' \subseteq warm \cup {digest[t]}
             /\ warmish' \subseteq warmish \cup {digest[t]}
    BY <1>1, <1>2, <2>2, MissKeeps, Zenon
  <2> QED
    BY <2>1, <2>2
<1> QED
  BY <1>2, <1>4, <1>5 DEF Inv

(***************************************************************************)
(* Every step keeps the invariant.  The steps of one task move on          *)
(* (GotoInv) or return, possibly after an insert (LeaveInv).               *)
(***************************************************************************)
LEMMA StepInv == Inv /\ [Next]_vars => Inv'
<1> SUFFICES ASSUME Inv, [Next]_vars PROVE Inv'
  OBVIOUS
<1>t. /\ TypeOK /\ OnePreparer /\ MissIsStillAMiss
      /\ entry \in [Digests -> {"absent", "unusable", "whole"}]
      /\ detached \in [Digests -> 0 .. MaxDetached]
  BY DEF Inv, TypeOK
<1>1. ASSUME NEW t \in Tasks, Call(t) PROVE Inv'
  <2>1. /\ pc' \in [Tasks -> {"idle", "permit", "lookup", "enqueue", "wait"} \cup Inside]
        /\ pc'[t] \notin Inside
        /\ \A u \in Tasks \ {t} : pc'[u] = pc[u] /\ digest'[u] = digest[u]
        /\ digest' \in [Tasks -> Digests]
        /\ result' \in [Tasks -> {"none", "ok", "error", "dropped"}]
    <3>1. PICK label \in {"permit", "lookup"} : pc' = [pc EXCEPT ![t] = label]
      BY <1>1 DEF Call, Goto
    <3>2. label \notin Inside
      BY DEF Inside
    <3>3. /\ pc' \in [Tasks -> {"idle", "permit", "lookup", "enqueue", "wait"} \cup Inside]
          /\ pc'[t] \notin Inside /\ \A u \in Tasks \ {t} : pc'[u] = pc[u]
      BY <1>t, <3>1, <3>2 DEF TypeOK
    <3>4. /\ digest' \in [Tasks -> Digests] /\ \A u \in Tasks \ {t} : digest'[u] = digest[u]
          /\ result' \in [Tasks -> {"none", "ok", "error", "dropped"}]
      BY <1>t, <1>1 DEF Call, TypeOK
    <3> QED
      BY <3>3, <3>4
  <2>2. background' \in Seq(Tasks)
    <3>1. background \in Seq(Tasks) /\ background' \in {background, Append(background, t)}
      BY <1>t, <1>1 DEF Call, TypeOK
    <3> QED
      BY <3>1
  <2>3. UNCHANGED <<warm, warmish, entry, lock, detached>>
    BY <1>1 DEF Call
  <2>4. TypeOK'
    BY <1>t, <2>1, <2>2, <2>3 DEF TypeOK
  <2>5. OnePreparer' /\ MissIsStillAMiss'
    BY <1>t, <2>1, <2>3, Zenon DEF OnePreparer, MissIsStillAMiss, Holds
  <2> QED
    BY <2>4, <2>5 DEF Inv
<1>2. ASSUME NEW t \in Tasks, Permitted(t) PROVE Inv'
  <2>1. Goto(t, "lookup") /\ "lookup" \notin Inside
        /\ UNCHANGED <<warm, warmish, entry, digest, result, lock, background, detached>>
    BY <1>2 DEF Permitted, Inside
  <2> QED
    BY <1>t, <2>1, GotoInv
<1>3. ASSUME NEW t \in Tasks, Lookup(t) PROVE Inv'
  <2>1. UNCHANGED <<warm, warmish, entry, digest, detached>> /\ "enqueue" \notin Inside
    BY <1>3 DEF Lookup, Inside
  <2>2. CASE Leave(t, "ok")
    BY <1>t, <2>1, <2>2, LeaveInv
  <2>3. CASE Goto(t, "enqueue") /\ UNCHANGED <<result, lock, background>>
    BY <1>t, <2>1, <2>3, GotoInv
  <2> QED
    BY <1>3, <2>2, <2>3 DEF Lookup
<1>4. ASSUME NEW t \in Tasks, Enqueue(t) PROVE Inv'
  <2>1. /\ pc' \in [Tasks -> {"idle", "permit", "lookup", "enqueue", "wait"} \cup Inside]
        /\ pc'[t] \notin Inside /\ \A u \in Tasks \ {t} : pc'[u] = pc[u]
    BY <1>t, <1>4 DEF Enqueue, Goto, TypeOK, Inside
  <2>2. UNCHANGED <<warm, warmish, entry, digest, result, background, detached>>
    BY <1>4 DEF Enqueue
  <2>3. /\ lock' \in [Digests -> Seq(Tasks)]
        /\ \A d \in Digests : lock'[d] \in {lock[d], Append(lock[d], t)}
    BY <1>t, <1>4 DEF Enqueue, TypeOK
  <2>4. \A d \in Digests : lock[d] # <<>> => lock'[d] # <<>> /\ Head(lock'[d]) = Head(lock[d])
    <3> SUFFICES ASSUME NEW d \in Digests, lock[d] # <<>>
                 PROVE  lock'[d] # <<>> /\ Head(lock'[d]) = Head(lock[d])
      OBVIOUS
    <3>1. lock[d] \in Seq(Tasks)
      BY <1>t DEF TypeOK
    <3>2. Append(lock[d], t) # <<>> /\ Head(Append(lock[d], t)) = Head(lock[d])
      BY <3>1
    <3> QED
      BY <2>3, <3>2, Zenon
  <2>5. TypeOK'
    BY <1>t, <2>1, <2>2, <2>3 DEF TypeOK
  <2>6. OnePreparer' /\ MissIsStillAMiss'
    BY <1>t, <2>1, <2>2, <2>4, Zenon DEF OnePreparer, MissIsStillAMiss, Holds, TypeOK
  <2> QED
    BY <2>5, <2>6 DEF Inv
<1>5. ASSUME NEW t \in Tasks, Recheck(t) PROVE Inv'
  <2>1. UNCHANGED <<warm, warmish, entry, digest, detached>> /\ "warmish" \in Inside
    BY <1>5 DEF Recheck, Inside
  <2>2. CASE digest[t] \in warm
    <3>1. Leave(t, "ok")
      BY <1>5, <2>2 DEF Recheck
    <3> QED
      BY <1>t, <2>1, <3>1, LeaveInv
  <2>3. CASE digest[t] \notin warm
    <3>1. Goto(t, "warmish") /\ Holds(t) /\ UNCHANGED <<result, lock, background>>
      BY <1>5, <2>3 DEF Recheck
    <3> QED
      BY <1>t, <2>1, <2>3, <3>1, GotoInv
  <2> QED
    BY <2>2, <2>3
<1>6. ASSUME NEW t \in Tasks, LookupWarmish(t) PROVE Inv'
  <2>1. UNCHANGED <<warm, warmish, entry, digest, result, lock, background, detached>>
        /\ pc[t] \in Inside /\ {"deserialize", "load"} \subseteq Inside
    BY <1>6 DEF LookupWarmish, Inside
  <2>2. Holds(t) /\ digest[t] \notin warm
    BY <2>1, InsideFacts
  <2>3. CASE digest[t] \in warmish
    <3>1. Goto(t, "deserialize")
      BY <1>6, <2>3 DEF LookupWarmish
    <3> QED
      BY <1>t, <2>1, <2>2, <3>1, GotoInv
  <2>4. CASE digest[t] \notin warmish
    <3>1. Goto(t, "load")
      BY <1>6, <2>4 DEF LookupWarmish
    <3> QED
      BY <1>t, <2>1, <2>2, <2>4, <3>1, GotoInv
  <2> QED
    BY <2>3, <2>4
<1>7. ASSUME NEW t \in Tasks, Deserialize(t) PROVE Inv'
  <2>1. UNCHANGED <<entry, digest, detached>> /\ pc[t] \in Inside
    BY <1>7 DEF Deserialize, Inside
  <2>2. CASE Memory!Promote(digest[t]) /\ Leave(t, "ok")
    <3>1. warm' \subseteq warm \cup {digest[t]} /\ warmish' \subseteq warmish \cup {digest[t]}
      BY <2>2, MakeWarmAdds DEF Memory!Promote
    <3> QED
      BY <1>t, <2>1, <2>2, <3>1, LeaveInv
  <2>3. CASE Leave(t, "error") /\ UNCHANGED <<warm, warmish>>
    BY <1>t, <2>1, <2>3, LeaveInv
  <2> QED
    BY <1>7, <2>2, <2>3 DEF Deserialize
<1>8. ASSUME NEW t \in Tasks, Load(t) PROVE Inv'
  <2>1. UNCHANGED <<warm, warmish, entry, digest, detached>>
        /\ pc[t] \in Inside \ {"warmish", "deserialize"}
    BY <1>8 DEF Load, Inside
  <2>2. Holds(t) /\ digest[t] \notin warm /\ digest[t] \notin warmish
    BY <2>1, InsideFacts
  <2>3. CASE Leave(t, "error")
    BY <1>t, <2>1, <2>3, LeaveInv
  <2>4. ASSUME NEW label \in {"admit", "compile"}, Goto(t, label),
               UNCHANGED <<result, lock, background>>
        PROVE  Inv'
    <3>1. label \in Inside
      BY DEF Inside
    <3> QED
      BY <1>t, <2>1, <2>2, <2>4, <3>1, GotoInv
  <2> QED
    BY <1>8, <2>3, <2>4 DEF Load
<1>9. ASSUME NEW t \in Tasks, Compiled(t) PROVE Inv'
  <2>1. UNCHANGED <<warm, warmish, entry, digest, detached>>
        /\ pc[t] \in Inside \ {"warmish", "deserialize"} /\ "publish_artifact" \in Inside
    BY <1>9 DEF Compiled, Inside
  <2>2. Holds(t) /\ digest[t] \notin warm /\ digest[t] \notin warmish
    BY <2>1, InsideFacts
  <2>3. CASE Leave(t, "error")
    BY <1>t, <2>1, <2>3, LeaveInv
  <2>4. CASE Goto(t, "publish_artifact") /\ UNCHANGED <<result, lock, background>>
    BY <1>t, <2>1, <2>2, <2>4, GotoInv
  <2> QED
    BY <1>9, <2>3, <2>4 DEF Compiled
<1>10. ASSUME NEW t \in Tasks, PublishArtifact(t) \/ PublishMetadata(t) PROVE Inv'
  <2>1. UNCHANGED <<warm, warmish, digest, result, lock, background, detached>>
        /\ pc[t] \in Inside \ {"warmish", "deserialize"}
    BY <1>10 DEF PublishArtifact, PublishMetadata, Inside
  <2>2. Holds(t) /\ digest[t] \notin warm /\ digest[t] \notin warmish
    BY <2>1, InsideFacts
  <2>3. entry' \in [Digests -> {"absent", "unusable", "whole"}]
    BY <1>t, <1>10 DEF PublishArtifact, PublishMetadata
  <2>4. PICK label \in {"publish_metadata", "admit"} : Goto(t, label)
    BY <1>10 DEF PublishArtifact, PublishMetadata
  <2>5. label \in Inside
    BY DEF Inside
  <2> QED
    BY <2>1, <2>2, <2>3, <2>4, <2>5, GotoInv
<1>11. ASSUME NEW t \in Tasks, Admit(t) PROVE Inv'
  <2>1. UNCHANGED <<entry, digest, detached>> /\ pc[t] \in Inside
    BY <1>11 DEF Admit, Inside
  <2>2. warm' \subseteq warm \cup {digest[t]} /\ warmish' \subseteq warmish \cup {digest[t]}
    BY <1>11, MakeWarmAdds, MakeWarmishAdds DEF Admit, Memory!Admit
  <2>3. Leave(t, "ok")
    BY <1>11 DEF Admit
  <2> QED
    BY <1>t, <2>1, <2>2, <2>3, LeaveInv
<1>12. ASSUME NEW t \in Tasks, Drop(t) PROVE Inv'
  <2>1. UNCHANGED <<warm, warmish, entry, digest>> /\ Leave(t, "dropped")
    BY <1>12 DEF Drop
  <2>2. digest[t] \in Digests
    BY <1>t DEF TypeOK
  <2>3. detached' \in [Digests -> 0 .. MaxDetached]
    BY <1>t, <1>12, <2>2, DetachedAssumption DEF Drop
  <2> QED
    BY <2>1, <2>3, LeaveInv
<1>13. ASSUME NEW d \in Digests, DetachedEnds(d) PROVE Inv'
  <2>1. UNCHANGED <<warm, warmish, entry, pc, digest, result, lock, background>>
    BY <1>13 DEF DetachedEnds
  <2>2. detached' \in [Digests -> 0 .. MaxDetached]
    BY <1>t, <1>13, DetachedAssumption DEF DetachedEnds
  <2> QED
    BY <1>t, <2>1, <2>2 DEF Inv, TypeOK, OnePreparer, Holds, MissIsStillAMiss
<1>14. ASSUME NEW d \in Digests, Demote(d) PROVE Inv'
  BY <1>t, <1>14 DEF Demote, Memory!Demote, Inv, TypeOK, OnePreparer, Holds, MissIsStillAMiss
<1>15. ASSUME NEW d \in Digests, PublishElsewhere(d) PROVE Inv'
  BY <1>t, <1>15 DEF PublishElsewhere, Inv, TypeOK, OnePreparer, Holds, MissIsStillAMiss
<1>16. CASE UNCHANGED vars
  BY <1>t, <1>16 DEF vars, Inv, TypeOK, OnePreparer, Holds, MissIsStillAMiss
<1> QED
  BY <1>1, <1>2, <1>3, <1>4, <1>5, <1>6, <1>7, <1>8, <1>9, <1>10, <1>11,
     <1>12, <1>13, <1>14, <1>15, <1>16 DEF Next, Step

(***************************************************************************)
(* prepare keeps its types, whatever the tasks and digests are.            *)
(***************************************************************************)
THEOREM TypeCorrect == Spec => []TypeOK
  BY InitInv, StepInv, PTL DEF Spec, Inv

(***************************************************************************)
(* At most one caller of a digest is past the mutex, for any number of     *)
(* callers, dropped at any await, and any number of promotions.            *)
(***************************************************************************)
THEOREM SingleFlight == Spec => []OnePreparer
  BY InitInv, StepInv, PTL DEF Spec, Inv

(***************************************************************************)
(* The lookups prepare makes under the mutex are never stale: neither tier *)
(* gains the digest before the preparer itself inserts it.                 *)
(***************************************************************************)
THEOREM LookupsStayValid == Spec => []MissIsStillAMiss
  BY InitInv, StepInv, PTL DEF Spec, Inv

(***************************************************************************)
(* A call whose source has compiled returns its component, whatever        *)
(* becomes of the publication and of every other task.                     *)
(***************************************************************************)
THEOREM CompiledWins == Spec => CompiledIsReturned
<1> DEFINE Returned ==
      \A t \in Tasks :
        pc[t] \in PastCompile \cup {"admit"} /\ pc'[t] = "idle" =>
          result'[t] = "ok" /\ digest[t] \in warm'
<1>1. ASSUME Inv, Next PROVE Returned
  <2> SUFFICES ASSUME NEW t \in Tasks, pc[t] \in PastCompile \cup {"admit"}, pc'[t] = "idle"
               PROVE  result'[t] = "ok" /\ digest[t] \in warm'
    OBVIOUS
  <2>1. /\ pc[t] \in {"publish_artifact", "publish_metadata", "admit"}
        /\ DOMAIN pc = Tasks /\ DOMAIN result = Tasks
    BY <1>1 DEF PastCompile, Inv, TypeOK
  <2>2. ASSUME NEW label, Goto(t, label) PROVE label = "idle"
    BY <2>1, <2>2 DEF Goto
  <2>3. ASSUME NEW d \in Digests, DetachedEnds(d) \/ Demote(d) \/ PublishElsewhere(d)
        PROVE  FALSE
    <3>1. pc' = pc
      BY <2>3 DEF DetachedEnds, Demote, PublishElsewhere
    <3> QED
      BY <2>1, <3>1
  <2>4. ASSUME NEW u \in Tasks, u # t, Call(u) \/ Step(u) \/ Drop(u) PROVE FALSE
    <3>1. ASSUME NEW label, Goto(u, label) PROVE FALSE
      <4>1. pc'[t] = pc[t]
        BY <2>1, <2>4, <3>1 DEF Goto
      <4> QED
        BY <2>1, <4>1
    <3>2. ~Call(u) /\ ~Permitted(u) /\ ~Enqueue(u) /\ ~LookupWarmish(u)
      BY <3>1 DEF Call, Permitted, Enqueue, LookupWarmish
    <3>3. ~Lookup(u) /\ ~Recheck(u) /\ ~Deserialize(u)
      BY <3>1 DEF Lookup, Recheck, Deserialize, Leave
    <3>4. ~Load(u) /\ ~Compiled(u)
      BY <3>1 DEF Load, Compiled, Leave
    <3>5. ~PublishArtifact(u) /\ ~PublishMetadata(u)
      BY <3>1 DEF PublishArtifact, PublishMetadata
    <3>6. ~Admit(u) /\ ~Drop(u)
      BY <3>1 DEF Admit, Drop, Leave
    <3> QED
      BY <2>4, <3>2, <3>3, <3>4, <3>5, <3>6 DEF Step
  <2>5. ASSUME Call(t) \/ Step(t) \/ Drop(t)
        PROVE  result'[t] = "ok" /\ digest[t] \in warm'
    <3>1. ~Call(t) /\ ~Permitted(t) /\ ~Lookup(t) /\ ~Enqueue(t) /\ ~Recheck(t) /\ ~Drop(t)
      BY <2>1, Zenon DEF Call, Permitted, Lookup, Enqueue, Recheck, Drop
    <3>2. ~LookupWarmish(t) /\ ~Deserialize(t) /\ ~Load(t) /\ ~Compiled(t)
      BY <2>1, Zenon DEF LookupWarmish, Deserialize, Load, Compiled
    <3>3. ~PublishArtifact(t) /\ ~PublishMetadata(t)
      BY <2>2 DEF PublishArtifact, PublishMetadata
    <3>4. Admit(t)
      BY <2>5, <3>1, <3>2, <3>3 DEF Step
    <3>5. digest[t] \in warm'
      BY <3>4, MakeWarmAdds DEF Admit, Memory!Admit
    <3>6. result'[t] = "ok"
      BY <2>1, <3>4 DEF Admit, Leave
    <3> QED
      BY <3>5, <3>6, Zenon
  <2> QED
    BY <1>1, <2>3, <2>4, <2>5 DEF Next
<1>2. Inv /\ [Next]_vars => [Returned]_vars
  BY <1>1
<1>3. Spec => []Inv
  BY InitInv, StepInv, PTL DEF Spec
<1> QED
  BY <1>2, <1>3, PTL DEF Spec, CompiledIsReturned
=============================================================================
