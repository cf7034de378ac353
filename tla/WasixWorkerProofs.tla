--------------------------- MODULE WasixWorkerProofs ---------------------------
(***************************************************************************)
(* Proofs about the worker operation, for every set of operations and      *)
(* events, every deployment and every size of the pipes: no worker gets    *)
(* past its isolation and outlives the runtime process, an operation that  *)
(* has answered has left nothing of its worker behind and was answered by  *)
(* a whole exchange, the helper is spawned from the image that was         *)
(* verified, a worker that runs has the authority of its record, and a     *)
(* sound start comes up.                                                   *)
(***************************************************************************)
EXTENDS WasixWorker, TLAPS

-----------------------------------------------------------------------------
(* What the isolation makes of a process.                                  *)

Fields == {"uid", "gid", "groups", "capabilities", "no_new_privileges", "dumpable",
           "limits", "descriptors"}

LEMMA ClosedDescriptors ==
    ASSUME NEW p, Inherited(p), NEW c, c = close_inherited_worker_descriptors(p)
    PROVE  /\ DOMAIN c = Fields /\ c.descriptors = {0, 1, 2}
           /\ c.uid = p.uid /\ c.gid = p.gid /\ c.groups = p.groups
           /\ c.capabilities = p.capabilities /\ c.limits = p.limits
           /\ DOMAIN c.uid = 1 .. 4 /\ DOMAIN c.gid = 1 .. 4 /\ DOMAIN c.capabilities = 1 .. 4
<1>1. /\ p.descriptors \subseteq Nat /\ {0, 1, 2} \subseteq p.descriptors /\ DOMAIN p = Fields
      /\ DOMAIN p.uid = 1 .. 4 /\ DOMAIN p.gid = 1 .. 4 /\ DOMAIN p.capabilities = 1 .. 4
    BY DEF Inherited, ProcessRecords, Fields, Identifiers
<1>2. {fd \in p.descriptors : fd <= 2} = {0, 1, 2}
    BY <1>1
<1>3. c = [p EXCEPT !.descriptors = {0, 1, 2}]
    BY <1>2 DEF close_inherited_worker_descriptors
<1> QED
    BY <1>1, <1>3 DEF Fields

LEMMA LoweredFields ==
    ASSUME NEW p, Inherited(p),
           NEW l, l = LowerLimits(close_inherited_worker_descriptors(p))
    PROVE  /\ DOMAIN l = Fields /\ l.descriptors = {0, 1, 2}
           /\ l.uid = p.uid /\ l.gid = p.gid /\ l.groups = p.groups
           /\ l.capabilities[1] = p.capabilities[1] /\ l.capabilities[3] = p.capabilities[3]
           /\ l.limits = [r \in DOMAIN Profile |-> lower_worker_limit(p.limits[r], Profile[r])]
           /\ DOMAIN l.uid = 1 .. 4 /\ DOMAIN l.gid = 1 .. 4 /\ DOMAIN l.capabilities = 1 .. 4
<1> DEFINE c == close_inherited_worker_descriptors(p)
<1>1. /\ DOMAIN c = Fields /\ c.descriptors = {0, 1, 2}
      /\ c.uid = p.uid /\ c.gid = p.gid /\ c.groups = p.groups
      /\ c.capabilities = p.capabilities /\ c.limits = p.limits
      /\ DOMAIN c.uid = 1 .. 4 /\ DOMAIN c.gid = 1 .. 4 /\ DOMAIN c.capabilities = 1 .. 4
    BY ClosedDescriptors
<1> DEFINE limits == [r \in DOMAIN Profile |-> lower_worker_limit(c.limits[r], Profile[r])]
<1>2. l = [c EXCEPT !.limits = limits, !.capabilities[4] = 0]
    BY DEF LowerLimits
<1>3. limits = [r \in DOMAIN Profile |-> lower_worker_limit(p.limits[r], Profile[r])]
    BY <1>1
<1> HIDE DEF c, limits
<1>4. /\ DOMAIN l = Fields /\ l.descriptors = c.descriptors /\ l.uid = c.uid /\ l.gid = c.gid
      /\ l.groups = c.groups /\ l.limits = limits
    BY <1>1, <1>2 DEF Fields
<1>5. /\ DOMAIN l.capabilities = 1 .. 4
      /\ l.capabilities[1] = c.capabilities[1] /\ l.capabilities[3] = c.capabilities[3]
    BY <1>1, <1>2 DEF Fields
<1> QED
    BY <1>1, <1>3, <1>4, <1>5

\* The fields after the drop of root credentials, or without one.
LEMMA DroppedFields ==
    ASSUME NEW l, DOMAIN l = Fields,
           DOMAIN l.uid = 1 .. 4, DOMAIN l.gid = 1 .. 4,
           NEW d, d = Drop(l)
    PROVE  /\ DOMAIN d = Fields /\ d.descriptors = l.descriptors /\ d.limits = l.limits
           /\ d.groups = IF HasRootCredentials(l) THEN <<>> ELSE l.groups
           /\ DOMAIN d.uid = 1 .. 4 /\ DOMAIN d.gid = 1 .. 4
           /\ HasRootCredentials(l) => \A i \in 1 .. 4 : d.uid[i] = Nobody /\ d.gid[i] = Nobody
           /\ ~HasRootCredentials(l) =>
                  /\ \A i \in 1 .. 3 : d.uid[i] = l.uid[i] /\ d.gid[i] = l.gid[i]
                  /\ d.uid[4] = l.uid[2] /\ d.gid[4] = l.gid[2]
<1>1. ASSUME NEW x, DOMAIN x = Fields, DOMAIN x.uid = 1 .. 4, DOMAIN x.gid = 1 .. 4,
             NEW y, y = FollowEffective(x)
      PROVE  /\ DOMAIN y = Fields /\ y.descriptors = x.descriptors /\ y.limits = x.limits
             /\ y.groups = x.groups /\ DOMAIN y.uid = 1 .. 4 /\ DOMAIN y.gid = 1 .. 4
             /\ \A i \in 1 .. 3 : y.uid[i] = x.uid[i] /\ y.gid[i] = x.gid[i]
             /\ y.uid[4] = x.uid[2] /\ y.gid[4] = x.gid[2]
    BY <1>1 DEF FollowEffective, Fields
<1>2. CASE ~HasRootCredentials(l)
  <2>1. d = FollowEffective(l)
    BY <1>2 DEF Drop
  <2> QED
    BY <1>1, <1>2, <2>1
<1>3. CASE HasRootCredentials(l)
  <2> DEFINE g == [l EXCEPT !.groups = <<>>]
  <2> DEFINE s == setresgid(g, Nobody)
  <2> DEFINE u == setresuid(s, Nobody)
  <2>1. d = FollowEffective(u)
    BY <1>3 DEF Drop
  <2>2. /\ DOMAIN g = Fields /\ g.groups = <<>> /\ g.descriptors = l.descriptors /\ g.limits = l.limits
    BY DEF Fields
  <2> HIDE DEF g
  <2>3. /\ DOMAIN s = Fields /\ s.groups = <<>> /\ s.descriptors = l.descriptors /\ s.limits = l.limits
        /\ s.gid = <<Nobody, Nobody, Nobody, Nobody>>
    BY <2>2 DEF setresgid, Fields
  <2> HIDE DEF s
  <2>4. /\ DOMAIN u = Fields /\ u.groups = <<>> /\ u.descriptors = l.descriptors /\ u.limits = l.limits
        /\ u.gid = <<Nobody, Nobody, Nobody, Nobody>> /\ u.uid = <<Nobody, Nobody, Nobody, Nobody>>
    BY <2>3 DEF setresuid, Fields
  <2> HIDE DEF u
  <2>5. /\ DOMAIN u.uid = 1 .. 4 /\ DOMAIN u.gid = 1 .. 4
        /\ \A i \in 1 .. 4 : u.uid[i] = Nobody /\ u.gid[i] = Nobody
    BY <2>4
  <2>6. /\ \A i \in 1 .. 4 : d.uid[i] = Nobody /\ d.gid[i] = Nobody
        /\ DOMAIN d = Fields /\ d.descriptors = u.descriptors /\ d.limits = u.limits
        /\ d.groups = u.groups /\ DOMAIN d.uid = 1 .. 4 /\ DOMAIN d.gid = 1 .. 4
    BY <1>1, <2>1, <2>4, <2>5
  <2> QED
    BY <1>3, <2>4, <2>6
<1> QED
    BY <1>2, <1>3

Dropped(p) ==
    /\ DOMAIN p.uid = 1 .. 4 /\ DOMAIN p.gid = 1 .. 4
    /\ p.descriptors = {0, 1, 2}
    /\ Range(Sorted(p.groups)) = Range(p.groups)

LEMMA DropIsDropped ==
    ASSUME NEW p, Inherited(p)
    PROVE  Dropped(Drop(LowerLimits(close_inherited_worker_descriptors(p))))
<1> DEFINE l == LowerLimits(close_inherited_worker_descriptors(p))
           d == Drop(l)
<1>1. /\ DOMAIN l = Fields /\ l.descriptors = {0, 1, 2} /\ l.groups = p.groups
      /\ DOMAIN l.uid = 1 .. 4 /\ DOMAIN l.gid = 1 .. 4
    BY LoweredFields, Zenon
<1> HIDE DEF l
<1>2. /\ d.descriptors = l.descriptors /\ DOMAIN d.uid = 1 .. 4 /\ DOMAIN d.gid = 1 .. 4
      /\ d.groups = <<>> \/ d.groups = l.groups
    BY <1>1, DroppedFields
<1> HIDE DEF d
<1>3. Range(Sorted(d.groups)) = Range(d.groups)
    BY <1>1, <1>2, StartsAssumption DEF Inherited
<1>4. Dropped(d)
    BY <1>1, <1>2, <1>3 DEF Dropped
<1> QED
    BY <1>4 DEF d, l

LEMMA LoweredLimit ==
    ASSUME NEW a \in Nat \cup {Unlimited}, NEW b \in Nat \cup {Unlimited}, NEW m \in Nat
    PROVE  \E v \in Nat :
               /\ lower_worker_limit(<<a, b>>, m) = <<v, v>>
               /\ v <= m
               /\ m # 0 => (v = 0 <=> a = 0 \/ b = 0)
               /\ m > 3 => (v > 3 <=> /\ a = Unlimited \/ a > 3
                                      /\ b = Unlimited \/ b > 3)
<1> DEFINE S == {m} \cup ({a, b} \ {Unlimited})
           v == Min(S)
<1>1. m \in S /\ S \subseteq Nat /\ \A x \in S : x \in {m, a, b}
    BY DEF Unlimited
<1>2. /\ a # Unlimited => a \in S
      /\ b # Unlimited => b \in S
    OBVIOUS
<1>3. \E x \in S : \A y \in S : x <= y
    BY <1>1, <1>2
<1>4. v \in S /\ \A y \in S : v <= y
    BY <1>3 DEF Min
<1>5. lower_worker_limit(<<a, b>>, m) = <<v, v>>
    BY DEF lower_worker_limit
<1> HIDE DEF v
<1>6. v \in Nat /\ v <= m /\ v \in {m, a, b}
    BY <1>1, <1>4
<1>7. (a # Unlimited => v <= a) /\ (b # Unlimited => v <= b)
    BY <1>2, <1>4
<1>8. v # Unlimited
    BY <1>6 DEF Unlimited
<1> HIDE DEF S
<1>9. m # 0 => (v = 0 <=> a = 0 \/ b = 0)
    BY <1>6, <1>7, <1>8 DEF Unlimited
<1>10. m > 3 => (v > 3 <=> /\ a = Unlimited \/ a > 3
                           /\ b = Unlimited \/ b > 3)
    BY <1>6, <1>7, <1>8 DEF Unlimited
<1> QED
    BY <1>5, <1>6, <1>9, <1>10

\* A descriptor is free when the limit leaves room behind the standard three.
LEMMA RoomForADescriptor ==
    ASSUME NEW f, NEW v \in Nat, f.limits.nofile[1] = v, f.descriptors = {0, 1, 2}
    PROVE  CanOpen(f) <=> v > 3
<1>1. v # Unlimited
    BY DEF Unlimited
<1>2. (\E fd \in 0 .. v - 1 : fd \notin {0, 1, 2}) <=> v > 3
  <2>1. v > 3 => 3 \in 0 .. v - 1
    OBVIOUS
  <2>2. \A fd \in 0 .. v - 1 : fd \notin {0, 1, 2} => v > 3
    OBVIOUS
  <2> QED
    BY <2>1, <2>2
<1> QED
    BY <1>1, <1>2 DEF CanOpen

\* Confining a process leaves its identifiers, groups and descriptors.
LEMMA ConfinedFields ==
    ASSUME NEW p, NEW q, q = Confine(p)
    PROVE  q.uid = p.uid /\ q.gid = p.gid /\ q.groups = p.groups /\ q.descriptors = p.descriptors
BY DEF Confine

LEMMA RootIdentifiers ==
    ASSUME NEW p
    PROVE  (\E i \in 1 .. 3 : p.uid[i] = 0 \/ p.gid[i] = 0) <=> HasRootCredentials(p)
BY DEF HasRootCredentials

\* The process a worker reports: root identifiers and groups are gone, the
\* limits lowered, and the rest settled whatever was inherited.
FinalIs(p, l, f) ==
    /\ MayDrop(l) <=> (HasRootCredentials(p) => Privileged(p))
    /\ f.groups = IF HasRootCredentials(p) THEN <<>> ELSE p.groups
    /\ f.limits = [r \in DOMAIN Profile |-> lower_worker_limit(p.limits[r], Profile[r])]
    /\ f.descriptors = {0, 1, 2}
    /\ f.no_new_privileges = TRUE /\ f.dumpable = FALSE /\ f.capabilities = <<0, 0, 0, 0>>
    /\ 0 \notin Range(f.uid) \cup Range(f.gid)
    /\ f.uid[4] = f.uid[2] /\ f.gid[4] = f.gid[2]

LEMMA FinalFields ==
    ASSUME NEW p, Inherited(p), NEW l, NEW f,
           l = LowerLimits(close_inherited_worker_descriptors(p)), f = Confine(Drop(l))
    PROVE  FinalIs(p, l, f)
<1> DEFINE d == Drop(l)
<1>1. /\ DOMAIN l = Fields /\ l.descriptors = {0, 1, 2}
      /\ l.uid = p.uid /\ l.gid = p.gid /\ l.groups = p.groups
      /\ l.capabilities[1] = p.capabilities[1]
      /\ l.limits = [r \in DOMAIN Profile |-> lower_worker_limit(p.limits[r], Profile[r])]
      /\ DOMAIN l.uid = 1 .. 4 /\ DOMAIN l.gid = 1 .. 4
    BY LoweredFields
<1>2. HasRootCredentials(l) <=> HasRootCredentials(p)
    BY <1>1, Zenon DEF HasRootCredentials
<1>3. MayDrop(l) <=> (HasRootCredentials(p) => Privileged(p))
    BY <1>1, <1>2, Zenon DEF MayDrop, Privileged
<1>4. /\ DOMAIN d = Fields /\ d.descriptors = l.descriptors /\ d.limits = l.limits
      /\ d.groups = IF HasRootCredentials(l) THEN <<>> ELSE l.groups
      /\ DOMAIN d.uid = 1 .. 4 /\ DOMAIN d.gid = 1 .. 4
      /\ HasRootCredentials(l) => \A i \in 1 .. 4 : d.uid[i] = Nobody /\ d.gid[i] = Nobody
      /\ ~HasRootCredentials(l) =>
             /\ \A i \in 1 .. 3 : d.uid[i] = l.uid[i] /\ d.gid[i] = l.gid[i]
             /\ d.uid[4] = l.uid[2] /\ d.gid[4] = l.gid[2]
    BY <1>1, DroppedFields
<1>5. f = Confine(d)
    OBVIOUS
<1> HIDE DEF d
<1>6. /\ f.uid = d.uid /\ f.gid = d.gid /\ f.groups = d.groups /\ f.limits = d.limits
      /\ f.descriptors = d.descriptors
      /\ f.no_new_privileges = TRUE /\ f.dumpable = FALSE /\ f.capabilities = <<0, 0, 0, 0>>
    BY <1>4, <1>5, Zenon DEF Confine, Fields
<1>7. /\ \A i \in 1 .. 4 : d.uid[i] # 0 /\ d.gid[i] # 0
      /\ d.uid[4] = d.uid[2] /\ d.gid[4] = d.gid[2]
  <2>1. CASE HasRootCredentials(l)
    BY <1>4, <2>1 DEF Nobody
  <2>2. CASE ~HasRootCredentials(l)
    <3>1. \A i \in 1 .. 3 : l.uid[i] # 0 /\ l.gid[i] # 0
      BY <2>2 DEF HasRootCredentials
    <3>2. /\ \A i \in 1 .. 3 : d.uid[i] = l.uid[i] /\ d.gid[i] = l.gid[i]
          /\ d.uid[4] = l.uid[2] /\ d.gid[4] = l.gid[2]
      BY <1>4, <2>2
    <3> QED
      BY <3>1, <3>2
  <2> QED
    BY <2>1, <2>2
<1>8. 0 \notin Range(f.uid) \cup Range(f.gid)
    BY <1>4, <1>6, <1>7 DEF Range
<1>9. f.uid[4] = f.uid[2] /\ f.gid[4] = f.gid[2]
    BY <1>6, <1>7, Zenon
<1>10. f.groups = IF HasRootCredentials(p) THEN <<>> ELSE p.groups
    BY <1>1, <1>2, <1>4, <1>6, Zenon
<1>11. /\ f.limits = [r \in DOMAIN Profile |-> lower_worker_limit(p.limits[r], Profile[r])]
       /\ f.descriptors = {0, 1, 2}
    BY <1>1, <1>4, <1>6, Zenon
<1> QED
    BY <1>3, <1>6, <1>8, <1>9, <1>10, <1>11, Zenon DEF FinalIs

\* The limits leave room exactly when every inherited one does.
LEMMA FinalLimits ==
    ASSUME NEW p, Inherited(p), NEW f, f.descriptors = {0, 1, 2},
           f.limits = [r \in DOMAIN Profile |-> lower_worker_limit(p.limits[r], Profile[r])]
    PROVE  /\ f.limits.core = <<0, 0>>
           /\ \A r \in {"fsize", "as"} :
                  WithinProfile(f.limits[r], Profile[r]) <=>
                      p.limits[r][1] # 0 /\ p.limits[r][2] # 0
           /\ CanOpen(f) <=>
                  \A i \in 1 .. 2 : p.limits.nofile[i] = Unlimited \/ p.limits.nofile[i] > 3
           /\ CanOpen(f) => WithinProfile(f.limits["nofile"], Profile["nofile"])
<1>1. /\ DOMAIN Profile = {"core", "fsize", "as", "nofile"}
      /\ Profile["core"] = 0 /\ Profile["fsize"] = 512 /\ Profile["as"] = 2048
      /\ Profile["nofile"] = 64
    BY DEF Profile
<1>2. \A r \in DOMAIN Profile : f.limits[r] = lower_worker_limit(p.limits[r], Profile[r])
    BY Zenon
<1>3. p.limits \in [DOMAIN Profile -> (Nat \cup {Unlimited}) \X (Nat \cup {Unlimited})]
    BY DEF Inherited, ProcessRecords
<1>4. \A r \in DOMAIN Profile :
          /\ p.limits[r] = <<p.limits[r][1], p.limits[r][2]>>
          /\ p.limits[r][1] \in Nat \cup {Unlimited} /\ p.limits[r][2] \in Nat \cup {Unlimited}
    BY <1>3
<1>5. \A r \in DOMAIN Profile : \E v \in Nat :
          /\ f.limits[r] = <<v, v>> /\ v <= Profile[r]
          /\ Profile[r] # 0 => (v = 0 <=> p.limits[r][1] = 0 \/ p.limits[r][2] = 0)
          /\ Profile[r] > 3 => (v > 3 <=> /\ p.limits[r][1] = Unlimited \/ p.limits[r][1] > 3
                                          /\ p.limits[r][2] = Unlimited \/ p.limits[r][2] > 3)
  <2> SUFFICES ASSUME NEW r \in DOMAIN Profile
               PROVE  \E v \in Nat :
                   /\ f.limits[r] = <<v, v>> /\ v <= Profile[r]
                   /\ Profile[r] # 0 => (v = 0 <=> p.limits[r][1] = 0 \/ p.limits[r][2] = 0)
                   /\ Profile[r] > 3 =>
                          (v > 3 <=> /\ p.limits[r][1] = Unlimited \/ p.limits[r][1] > 3
                                     /\ p.limits[r][2] = Unlimited \/ p.limits[r][2] > 3)
    OBVIOUS
  <2> DEFINE a == p.limits[r][1]
             b == p.limits[r][2]
             m == Profile[r]
  <2>1. a \in Nat \cup {Unlimited} /\ b \in Nat \cup {Unlimited} /\ m \in Nat
    BY <1>1, <1>4
  <2>2. f.limits[r] = lower_worker_limit(<<a, b>>, m)
    BY <1>2, <1>4, Zenon
  <2> HIDE DEF a, b, m
  <2>3. \E v \in Nat :
            /\ lower_worker_limit(<<a, b>>, m) = <<v, v>>
            /\ v <= m
            /\ m # 0 => (v = 0 <=> a = 0 \/ b = 0)
            /\ m > 3 => (v > 3 <=> /\ a = Unlimited \/ a > 3
                                   /\ b = Unlimited \/ b > 3)
    BY <2>1, LoweredLimit, ZenonT(30)
  <2> QED
    BY <2>2, <2>3, Zenon DEF a, b, m
<1>6. f.limits.core = <<0, 0>>
  <2>1. PICK v \in Nat : f.limits["core"] = <<v, v>> /\ v <= 0
    BY <1>1, <1>5
  <2> QED
    BY <2>1
<1>7. ASSUME NEW r \in {"fsize", "as"}
      PROVE  WithinProfile(f.limits[r], Profile[r]) <=> p.limits[r][1] # 0 /\ p.limits[r][2] # 0
  <2>1. PICK v \in Nat :
            /\ f.limits[r] = <<v, v>> /\ v <= Profile[r]
            /\ v = 0 <=> p.limits[r][1] = 0 \/ p.limits[r][2] = 0
    BY <1>1, <1>5
  <2>2. f.limits[r][1] = v /\ f.limits[r][2] = v
    BY <2>1
  <2> QED
    BY <2>1, <2>2 DEF WithinProfile
<1>8. PICK v \in Nat :
          /\ f.limits["nofile"] = <<v, v>> /\ v <= Profile["nofile"]
          /\ v > 3 <=> /\ p.limits["nofile"][1] = Unlimited \/ p.limits["nofile"][1] > 3
                       /\ p.limits["nofile"][2] = Unlimited \/ p.limits["nofile"][2] > 3
    BY <1>1, <1>5
<1>9. f.limits["nofile"][1] = v /\ f.limits["nofile"][2] = v
    BY <1>8
<1>10. CanOpen(f) <=> v > 3
    BY <1>9, RoomForADescriptor
<1>11. CanOpen(f) <=>
           \A i \in 1 .. 2 : p.limits.nofile[i] = Unlimited \/ p.limits.nofile[i] > 3
  <2>1. \A i \in 1 .. 2 : i = 1 \/ i = 2
    OBVIOUS
  <2>2. 1 \in 1 .. 2 /\ 2 \in 1 .. 2
    OBVIOUS
  <2> QED
    BY <1>8, <1>10, <2>1, <2>2, Zenon
<1>12. v > 3 => WithinProfile(f.limits["nofile"], Profile["nofile"])
    BY <1>8, <1>9 DEF WithinProfile
<1> QED
    BY <1>6, <1>7, <1>10, <1>11, <1>12, Zenon

-----------------------------------------------------------------------------
(* The life of the worker.                                                 *)

\* The worker is tied to the runtime process: its death signal is set outside
\* the two windows before it is armed and re-armed; before the credentials are
\* dropped a death in the first window is caught by the check before the exec,
\* so the parent recorded is the runtime; and a death in the second window is
\* caught by comparing with that record.
Tied ==
    /\ proc = "none" => boot = "fork"
    /\ helper => boot = "isolated"
    /\ proc = "running" =>
          /\ boot \notin {"fork", "dropped"} => armed
          /\ boot \in {"exec", "isolate", "checked", "isolated"} => parent
          /\ boot \in {"isolate", "dropped", "rearmed"} => expected

\* What each mode of the parent has settled about the worker.
Owed ==
    /\ mode \in {"pin", "prepare", "spawn"} => proc = "none"
    /\ mode \in {"spawning", "place", "run", "cleanup"} => proc \in {"running", "exited"}
    /\ mode = "kill" => proc \in {"running", "exited", "reaped"}
    /\ mode \in {"reject", "reap"} => proc = "exited" /\ ~helper
    /\ mode = "drain" => proc = "reaped" /\ ~helper
    /\ reaper => mode = "answered" /\ proc = "exited" /\ ~helper
    /\ outcome = "rejected" => mode \in {"reject", "answered"}
    /\ mode = "answered" /\ ~reaper /\ (HasDiagnostics \/ outcome = "rejected") =>
           proc \in {"none", "reaped"} /\ ~helper

Inv == parent \in BOOLEAN /\ expected \in BOOLEAN /\ Tied /\ Owed

-----------------------------------------------------------------------------
(* One lemma for each group of actions.                                    *)

\* The variables the invariant is about; most steps change none of them.
tracked == <<op, mode, outcome, reaper, parent, proc, helper, boot, armed, expected>>

LEMMA TrackedKeeps == Inv /\ UNCHANGED tracked => Inv'
BY DEF Inv, Tied, Owed, HasDiagnostics, tracked

\* The worker ends by itself.
WorkerExits ==
    /\ proc = "running" /\ proc' = "exited"
    /\ UNCHANGED <<op, mode, outcome, reaper, parent, helper, boot, armed, expected>>

LEMMA ExitKeeps == Inv /\ WorkerExits => Inv'
BY DEF Inv, Tied, Owed, HasDiagnostics, WorkerExits

\* The exchange ends in an error, and the cleanup begins.
SupervisionFails ==
    /\ mode = "run" /\ mode' = "cleanup"
    /\ outcome' # "rejected"
    /\ UNCHANGED <<op, reaper, parent, proc, helper, boot, armed, expected>>

LEMMA FailKeeps == Inv /\ SupervisionFails => Inv'
BY DEF Inv, Tied, Owed, HasDiagnostics, SupervisionFails

LEMMA Initially == Init => Inv
BY Zenon DEF Init, Inv, Tied, Owed, HasDiagnostics

\* The caller only changes what it waits for.
LEMMA CallerKeeps == Inv /\ CallerStep => Inv'
<1> SUFFICES ASSUME Inv, CallerStep PROVE Inv'
    OBVIOUS
<1>1. CASE DropCaller
    BY <1>1, TrackedKeeps DEF DropCaller, machine, supervisor, pipes, worker, tracked
<1>2. CASE CancelToken
    BY <1>2, TrackedKeeps DEF CancelToken, machine, supervisor, pipes, worker, tracked
<1> QED
    BY <1>1, <1>2 DEF CallerStep

\* Before the spawn there is no worker: an answer leaves nothing behind.
LEMMA PinKeeps == Inv /\ PinStep => Inv'
<1> SUFFICES ASSUME Inv, PinStep PROVE Inv'
    OBVIOUS
<1>1. CASE PinExecutable
    BY <1>1 DEF PinExecutable, Inv, Tied, Owed, HasDiagnostics, pipes, worker
<1>2. CASE PinRefused
    BY <1>2 DEF PinRefused, Answer, Inv, Tied, Owed, HasDiagnostics, machine, pipes,
        worker
<1> QED
    BY <1>1, <1>2 DEF PinStep

\* The blocking pool does not touch the worker.
LEMMA PoolKeeps == Inv /\ PoolStep => Inv'
<1> SUFFICES ASSUME Inv, PoolStep PROVE Inv'
    OBVIOUS
<1>1. CASE PoolStarts
    BY <1>1, TrackedKeeps DEF PoolStarts, machine, pipes, worker, tracked
<1>2. CASE PoolFinishes
    BY <1>2, TrackedKeeps DEF PoolFinishes, machine, pipes, worker, tracked
<1> QED
    BY <1>1, <1>2 DEF PoolStep

\* Nor do the preparations.
LEMMA PrepareKeeps == Inv /\ PrepareStep => Inv'
<1> SUFFICES ASSUME Inv, PrepareStep PROVE Inv'
    OBVIOUS
<1>1. CASE Prepared
    BY <1>1 DEF Prepared, Answer, Inv, Tied, Owed, HasDiagnostics, machine, pipes,
        worker
<1>2. CASE PrepareTimeout
    BY <1>2, TrackedKeeps DEF PrepareTimeout, machine, pipes, worker, tracked
<1>3. CASE PrepareJoined
    BY <1>3 DEF PrepareJoined, Answer, Inv, Tied, Owed, HasDiagnostics, machine,
        pipes, worker
<1>4. CASE PrepareDropped
    BY <1>4 DEF PrepareDropped, Answer, Inv, Tied, Owed, HasDiagnostics, machine,
        pipes, worker
<1> QED
    BY <1>1, <1>2, <1>3, <1>4 DEF PrepareStep

\* A worker is forked unarmed; a failed spawn has already reaped it.
LEMMA SpawnKeeps == Inv /\ SpawnStep => Inv'
<1> SUFFICES ASSUME Inv, SpawnStep PROVE Inv'
    OBVIOUS
<1>1. CASE Spawn
    BY <1>1 DEF Spawn, Inv, Tied, Owed, HasDiagnostics, machine, pipes
<1>2. CASE SpawnFails
    BY <1>2 DEF SpawnFails, Answer, Inv, Tied, Owed, HasDiagnostics, machine, pipes
<1>3. CASE Spawned
    BY <1>3 DEF Spawned, Inv, Tied, Owed, HasDiagnostics, machine, pipes, worker
<1> QED
    BY <1>1, <1>2, <1>3 DEF SpawnStep

\* A rejected worker is killed with its group before it is awaited.
LEMMA PlaceKeeps == Inv /\ PlaceStep => Inv'
<1> SUFFICES ASSUME Inv, PlaceStep PROVE Inv'
    OBVIOUS
<1>1. CASE PlacementAccepts
    BY <1>1 DEF PlacementAccepts, Inv, Tied, Owed, HasDiagnostics, machine, pipes,
        worker
<1>2. CASE PlacementRejects
    BY <1>2 DEF PlacementRejects, KillTree, Inv, Tied, Owed, HasDiagnostics, machine,
        pipes
<1>3. CASE RejectReaps
    BY <1>3 DEF RejectReaps, Inv, Tied, Owed, HasDiagnostics, machine, pipes
<1>4. CASE RejectDropped
    BY <1>4 DEF RejectDropped, KillTree, Inv, Tied, Owed, HasDiagnostics, machine, pipes
<1> QED
    BY <1>1, <1>2, <1>3, <1>4 DEF PlaceStep

\* The exchange reaps only in its last step, which kills the group.
LEMMA ExchangeKeeps == Inv /\ ExchangeStep => Inv'
<1> SUFFICES ASSUME Inv, ExchangeStep PROVE Inv'
    OBVIOUS
<1>1. CASE Send
  <2>1. UNCHANGED tracked \/ SupervisionFails
    BY <1>1, Zenon DEF Send, Fail, SupervisionFails, machine, worker, tracked
  <2> QED
    BY <2>1, TrackedKeeps, FailKeeps
<1>2. CASE ShutControl
    BY <1>2, TrackedKeeps DEF ShutControl, machine, worker, tracked
<1>3. CASE Receive
    BY <1>3, TrackedKeeps DEF Receive, machine, worker, tracked
<1>4. CASE ReceiveFails
  <2>1. UNCHANGED tracked \/ SupervisionFails
    BY <1>4 DEF ReceiveFails, Fail, SupervisionFails, pipes, worker, tracked
  <2> QED
    BY <2>1, TrackedKeeps, FailKeeps
<1>5. CASE ReadEnd
  <2>1. UNCHANGED tracked \/ SupervisionFails
    BY <1>5, Zenon DEF ReadEnd, Fail, SupervisionFails, machine, pipes, worker, tracked
  <2> QED
    BY <2>1, TrackedKeeps, FailKeeps
<1>6. CASE Finish
    BY <1>6 DEF Finish, Inv, Tied, Owed, HasDiagnostics, machine, pipes
<1> QED
    BY <1>1, <1>2, <1>3, <1>4, <1>5, <1>6 DEF ExchangeStep

\* The cleanup kills the group before anything waits for it or answers.
LEMMA CleanupKeeps == Inv /\ CleanupStep => Inv'
<1> SUFFICES ASSUME Inv, CleanupStep PROVE Inv'
    OBVIOUS
<1>1. CASE HandToReaper
    BY <1>1 DEF HandToReaper, KillTree, Inv, Tied, Owed, HasDiagnostics, machine, pipes
<1>2. CASE Reaper
    BY <1>2 DEF Reaper, Inv, Tied, Owed, HasDiagnostics, machine, pipes
<1>3. CASE ObserveExit
    BY <1>3 DEF ObserveExit, Inv, Tied, Owed, HasDiagnostics, machine, pipes
<1>4. CASE StopObserving
    BY <1>4 DEF StopObserving, Inv, Tied, Owed, HasDiagnostics, machine, pipes, worker
<1>5. CASE KillWorker
    BY <1>5 DEF KillWorker, KillTree, Inv, Tied, Owed, HasDiagnostics, machine, pipes
<1>6. CASE Reap
    BY <1>6 DEF Reap, Inv, Tied, Owed, HasDiagnostics, machine, pipes
<1> QED
    BY <1>1, <1>2, <1>3, <1>4, <1>5, <1>6 DEF CleanupStep

\* The diagnostics task only ends an operation whose worker is reaped.
LEMMA DiagnosticsKeeps == Inv /\ DiagnosticsStep => Inv'
<1> SUFFICES ASSUME Inv, DiagnosticsStep PROVE Inv'
    OBVIOUS
<1>1. CASE ReadDiagnostics
    BY <1>1, TrackedKeeps DEF ReadDiagnostics, machine, supervisor, worker, tracked
<1>2. CASE DiagnosticsEnd
    BY <1>2 DEF DiagnosticsEnd, NoWriter, Inv, Tied, Owed, HasDiagnostics, machine,
        pipes, worker
<1> QED
    BY <1>1, <1>2 DEF DiagnosticsStep

\* Each step of the isolation goes on under a live parent or ends the worker.
LEMMA BootKeeps == Inv /\ BootStep => Inv'
<1> SUFFICES ASSUME Inv, BootStep PROVE Inv'
    OBVIOUS
<1>1. CASE ArmBeforeExec
    BY <1>1 DEF ArmBeforeExec, Inv, Tied, Owed, HasDiagnostics, machine, supervisor,
        pipes
<1>2. CASE CheckBeforeExec
  <2>1. CASE boot' = "exec" /\ parent /\ UNCHANGED proc
    BY <1>2, <2>1 DEF CheckBeforeExec, Exits, Inv, Tied, Owed, HasDiagnostics,
        supervisor
  <2>2. CASE WorkerExits
    BY <2>2, ExitKeeps
  <2> QED
    BY <1>2, <2>1, <2>2 DEF CheckBeforeExec, Exits, WorkerExits, supervisor
<1>3. CASE RecordParent
    BY <1>3 DEF RecordParent, Inv, Tied, Owed, HasDiagnostics, machine, supervisor,
        pipes
<1>4. CASE DropCredentials
    BY <1>4, Zenon DEF DropCredentials, Exits, Inv, Tied, Owed, HasDiagnostics,
        supervisor, pipes
<1>5. CASE Rearm
    BY <1>5 DEF Rearm, Inv, Tied, Owed, HasDiagnostics, machine, supervisor, pipes
<1>6. CASE CheckParent
  <2>1. CASE parent = expected /\ boot' = "checked" /\ UNCHANGED proc
    BY <1>6, <2>1 DEF CheckParent, Exits, Inv, Tied, Owed, HasDiagnostics, supervisor
  <2>2. CASE WorkerExits
    BY <2>2, ExitKeeps
  <2> QED
    BY <1>6, <2>1, <2>2 DEF CheckParent, Exits, WorkerExits, supervisor
<1>7. CASE SealIsolation
    BY <1>7, Zenon DEF SealIsolation, Exits, Inv, Tied, Owed, HasDiagnostics,
        supervisor, pipes
<1> QED
    BY <1>1, <1>2, <1>3, <1>4, <1>5, <1>6, <1>7 DEF BootStep

\* The exchange does not move the isolation.
LEMMA WorkKeeps == Inv /\ WorkStep => Inv'
<1> SUFFICES ASSUME Inv, WorkStep PROVE Inv'
    OBVIOUS
<1>1. CASE Write
  <2>1. UNCHANGED tracked \/ WorkerExits
    BY <1>1 DEF Write, Isolated, Exits, WorkerExits, machine, supervisor, tracked
  <2> QED
    BY <2>1, TrackedKeeps, ExitKeeps
<1>2. CASE Read
  <2>1. UNCHANGED tracked \/ WorkerExits
    BY <1>2 DEF Read, Isolated, Exits, WorkerExits, machine, supervisor, tracked
  <2> QED
    BY <2>1, TrackedKeeps, ExitKeeps
<1>3. CASE ReadControlEnd
  <2>1. UNCHANGED tracked \/ WorkerExits
    BY <1>3 DEF ReadControlEnd, Isolated, Exits, WorkerExits, machine, supervisor,
        pipes, tracked
  <2> QED
    BY <2>1, TrackedKeeps, ExitKeeps
<1>4. CASE WriteLog
    BY <1>4, TrackedKeeps DEF WriteLog, Isolated, machine, supervisor, tracked
<1>5. CASE RunRestored
    BY <1>5, TrackedKeeps DEF RunRestored, GuestReturns, Isolated, machine,
        supervisor, pipes, tracked
<1>6. CASE RunCaptured
    BY <1>6, TrackedKeeps DEF RunCaptured, GuestReturns, Isolated, machine,
        supervisor, pipes, tracked
<1>7. CASE Exit
  <2>1. UNCHANGED tracked \/ WorkerExits
    BY <1>7 DEF Exit, Isolated, Exits, WorkerExits, machine, supervisor, tracked
  <2> QED
    BY <2>1, TrackedKeeps, ExitKeeps
<1> QED
    BY <1>1, <1>2, <1>3, <1>4, <1>5, <1>6, <1>7 DEF WorkStep

\* A crash of either side, an upgrade, or a process the guest leaves.
LEMMA UnexpectedKeeps == Inv /\ Unexpected => Inv'
<1> SUFFICES ASSUME Inv, Unexpected PROVE Inv'
    OBVIOUS
<1>1. CASE Replace
    BY <1>1, TrackedKeeps DEF Replace, supervisor, pipes, worker, tracked
<1>2. CASE ParentDies
    BY <1>2, Zenon DEF ParentDies, Inv, Tied, Owed, HasDiagnostics, machine, supervisor
<1>3. CASE Crash
  <2>1. UNCHANGED tracked \/ WorkerExits
    BY <1>3 DEF Crash, WorkerExits, machine, supervisor, tracked
  <2> QED
    BY <2>1, TrackedKeeps, ExitKeeps
<1>4. CASE Fork
    BY <1>4 DEF Fork, Isolated, Inv, Tied, Owed, HasDiagnostics, machine, supervisor,
        pipes
<1>5. CASE HelperExits
    BY <1>5 DEF HelperExits, Inv, Tied, Owed, HasDiagnostics, machine, supervisor, pipes
<1> QED
    BY <1>1, <1>2, <1>3, <1>4, <1>5 DEF Unexpected

LEMMA Inductive == Inv /\ [Next]_vars => Inv'
<1> SUFFICES ASSUME Inv, [Next]_vars PROVE Inv'
    OBVIOUS
<1>1. CASE CallerStep
    BY <1>1, CallerKeeps
<1>2. CASE PinStep
    BY <1>2, PinKeeps
<1>3. CASE PoolStep
    BY <1>3, PoolKeeps
<1>4. CASE PrepareStep
    BY <1>4, PrepareKeeps
<1>5. CASE SpawnStep
    BY <1>5, SpawnKeeps
<1>6. CASE PlaceStep
    BY <1>6, PlaceKeeps
<1>7. CASE ExchangeStep
    BY <1>7, ExchangeKeeps
<1>8. CASE CleanupStep
    BY <1>8, CleanupKeeps
<1>9. CASE DiagnosticsStep
    BY <1>9, DiagnosticsKeeps
<1>10. CASE BootStep
    BY <1>10, BootKeeps
<1>11. CASE WorkStep
    BY <1>11, WorkKeeps
<1>12. CASE Unexpected
    BY <1>12, UnexpectedKeeps
<1>13. CASE Timeout
    BY <1>13, FailKeeps DEF Timeout, Fail, SupervisionFails, machine, pipes, worker
<1>14. CASE Cancelled
    BY <1>14, FailKeeps DEF Cancelled, Fail, SupervisionFails, machine, pipes, worker
<1>15. CASE UNCHANGED vars
    BY <1>15, TrackedKeeps DEF vars, machine, supervisor, pipes, worker, tracked
<1> QED
    BY <1>1, <1>2, <1>3, <1>4, <1>5, <1>6, <1>7, <1>8, <1>9, <1>10, <1>11, <1>12,
        <1>13, <1>14, <1>15 DEF Next, Supervision

\* The invariant holds throughout, whatever the fairness.
THEOREM Invariance == Spec => []Inv
BY Initially, Inductive, PTL DEF Spec

-----------------------------------------------------------------------------
(* No worker is past its isolation once the runtime process is dead          *)
(* (prepare_worker_command's pre_exec, isolate_worker_process): the check    *)
(* before the exec and the one after the credential change close, between    *)
(* them, the windows in which the death signal is not set.                   *)
THEOREM OrphansStopAlways == Spec => []OrphansStop
<1>1. Inv => OrphansStop
    BY DEF Inv, Tied, OrphansStop
<1> QED
    BY <1>1, Invariance, PTL

(* When a restore, a capture or a rejected placement has answered, its       *)
(* worker is reaped and its group empty (WorkerSupervisor's cleanup), in any *)
(* order of failure, timeout, cancellation and the worker's own exit.        *)
THEOREM NothingIsLeftBehind == Spec => []NothingLeftBehind
<1>1. Inv => NothingLeftBehind
    BY DEF Inv, Owed, NothingLeftBehind
<1> QED
    BY <1>1, Invariance, PTL

-----------------------------------------------------------------------------
(* The exchange.  What each side has done of its script.                   *)

Passed == {Script[i] : i \in 1 .. step - 1}
Done == {WorkerScript[i] : i \in 1 .. wstep - 1}

Positions ==
    /\ op \in AllOperations
    /\ step \in 1 .. Len(Script) /\ wstep \in 1 .. Len(WorkerScript) + 1
    /\ mode \in {"pin", "prepare", "spawn", "spawning", "place"} => step = 1
    /\ wstep > 1 => boot = "isolated"
    /\ out \in Seq(Frames \cup {"stray"}) /\ control \in Seq(Inputs) /\ lied \subseteq Frames

\* Neither side is ahead of what the other has sent, and what the parent has
\* taken it has validated.
Exchange ==
    /\ Positions
    /\ (Range(out) \cup lied \cup Passed) \cap Frames \subseteq Done
    /\ (Range(control) \cup Done) \cap Inputs \subseteq Passed
    /\ Passed \cap lied \subseteq Collected
    /\ "ready" \in Passed =>
           MetadataValid(image, pinned.sha256, process, deployment.config.groups)
    /\ "stderr" \in Passed => lied \cap Collected = {}

\* How the operation ends: only after the end of the pipe, with a worker that
\* ended by itself when its part was done.
Ended ==
    /\ step = Len(Script) => out = <<>> /\ ~helper /\ proc \in {"exited", "reaped"}
    /\ proc \in {"none", "running"} => status = "none"
    /\ status = "zero" => wstep = Len(WorkerScript) + 1
    /\ outcome = "ok" =>
           /\ step = Len(Script) /\ status = "zero" /\ proc = "reaped"
           /\ mode \in {"drain", "answered"}

Early == {"fork", "arm", "exec", "isolate"}

\* What the process has been pinned from, and what it has made of itself.
Shape ==
    /\ IF boot \in Early THEN Inherited(process) ELSE Dropped(process)
    /\ mode \in {"prepare", "spawn"} \/ (proc # "none" /\ boot \in Early) =>
           pin_executable(deployment, process.uid[2])

Whole == Inv /\ Exchange /\ Ended /\ Shape

-----------------------------------------------------------------------------
(* The scripts.                                                            *)

\* The parent's last entries are the end of the pipe and the wait; before the
\* Execute byte come Ready and the acknowledgement.
ParentFacts(s, n) ==
    /\ Len(s) = n
    /\ \A i \in 1 .. n : s[i] = "wait" <=> i = n
    /\ \A i \in 1 .. n : s[i] = "end" <=> i = n - 1
    /\ \A i \in 1 .. n : s[i] = "E" => i > 4 /\ s[1] = "ready" /\ s[4] = "ack"

\* The worker does nothing twice, writes stderr last, and runs the guest after
\* it has read the Execute byte.
WorkerFacts(w, n) ==
    /\ Len(w) = n
    /\ \A i, j \in 1 .. n : w[i] = w[j] => i = j
    /\ \A i \in 1 .. n : w[i] = "stderr" => i = n
    /\ \A i \in 1 .. n : w[i] = "run" => i > 5 /\ w[5] = "E"
    /\ \A i \in 1 .. n : w[i] # "exit"

\* Every frame the worker writes is awaited before the end of the pipe, and the
\* collected ones are followed by stderr.
FramesAwaited(s, n, w) ==
    \A i \in 1 .. Len(w) :
        /\ w[i] \in Frames => \E j \in 1 .. n - 1 : s[j] = w[i]
        /\ w[i] \in Collected => \E j \in 1 .. n - 1 : s[j] = "stderr"

LEMMA Twelve ==
    \A i \in 1 .. 12 : i \in {1, 2, 3, 4, 5, 6, 7, 8, 9, 10, 11, 12}
OBVIOUS

LEMMA ProbeFacts ==
    /\ ParentFacts(ProbeScript, 3) /\ WorkerFacts(ProbeWorker, 1)
    /\ FramesAwaited(ProbeScript, 3, ProbeWorker)
<1>1. ParentFacts(ProbeScript, 3)
    BY Twelve DEF ParentFacts, ProbeScript
<1>2. WorkerFacts(ProbeWorker, 1)
    BY Twelve DEF WorkerFacts, ProbeWorker
<1>3. ProbeScript[1] = ProbeWorker[1] /\ ProbeWorker[1] \notin Collected
    BY DEF ProbeScript, ProbeWorker, Collected
<1> QED
    BY <1>1, <1>2, <1>3 DEF FramesAwaited, WorkerFacts

LEMMA TransportFacts ==
    /\ ParentFacts(TransportScript, 6) /\ WorkerFacts(TransportWorker, 3)
    /\ FramesAwaited(TransportScript, 6, TransportWorker)
<1>1. ParentFacts(TransportScript, 6)
    BY Twelve DEF ParentFacts, TransportScript
<1>2. WorkerFacts(TransportWorker, 3)
    BY Twelve DEF WorkerFacts, TransportWorker
<1>3. TransportScript[1] = TransportWorker[1] /\ TransportScript[4] = TransportWorker[3]
    BY DEF TransportScript, TransportWorker
<1>4. \A i \in 1 .. 3 : /\ TransportWorker[i] \in Frames => i \in {1, 3}
                        /\ TransportWorker[i] \notin Collected
    BY Twelve DEF TransportWorker, Frames, Collected
<1> QED
    BY <1>1, <1>2, <1>3, <1>4 DEF FramesAwaited, WorkerFacts

LEMMA RestoreFacts ==
    /\ ParentFacts(RestoreScript, 11) /\ WorkerFacts(RestoreWorker, 10)
    /\ FramesAwaited(RestoreScript, 11, RestoreWorker)
<1>1. ParentFacts(RestoreScript, 11)
    BY Twelve DEF ParentFacts, RestoreScript
<1>2. WorkerFacts(RestoreWorker, 10)
    BY Twelve DEF WorkerFacts, RestoreWorker
<1>3. /\ RestoreScript[1] = RestoreWorker[1] /\ RestoreScript[4] = RestoreWorker[4]
      /\ RestoreScript[7] = RestoreWorker[8] /\ RestoreScript[8] = RestoreWorker[9]
      /\ RestoreScript[9] = RestoreWorker[10] /\ RestoreScript[9] = "stderr"
    BY DEF RestoreScript, RestoreWorker
<1>4. \A i \in 1 .. 10 : RestoreWorker[i] \in Frames => i \in {1, 4, 8, 9, 10}
    BY Twelve DEF RestoreWorker, Frames, Collected
<1>5. \A i \in 1 .. 10 : RestoreWorker[i] \in Frames =>
          \E j \in 1 .. 10 : RestoreScript[j] = RestoreWorker[i]
  <2>1. {1, 4, 7, 8, 9} \subseteq 1 .. 10
    OBVIOUS
  <2> QED
    BY <1>3, <1>4, <2>1, Zenon
<1>6. Len(RestoreWorker) = 10 /\ 9 \in 1 .. 10 /\ RestoreScript[9] = "stderr"
    BY <1>2, <1>3 DEF WorkerFacts
<1> QED
    BY <1>1, <1>2, <1>5, <1>6 DEF FramesAwaited

LEMMA CaptureFacts ==
    /\ ParentFacts(CaptureScript, 12) /\ WorkerFacts(CaptureWorker, 11)
    /\ FramesAwaited(CaptureScript, 12, CaptureWorker)
<1>1. ParentFacts(CaptureScript, 12)
    BY Twelve DEF ParentFacts, CaptureScript
<1>2. WorkerFacts(CaptureWorker, 11)
    BY Twelve DEF WorkerFacts, CaptureWorker
<1>3. /\ CaptureScript[1] = CaptureWorker[1] /\ CaptureScript[4] = CaptureWorker[4]
      /\ CaptureScript[7] = CaptureWorker[8] /\ CaptureScript[8] = CaptureWorker[9]
      /\ CaptureScript[9] = CaptureWorker[10] /\ CaptureScript[10] = CaptureWorker[11]
      /\ CaptureScript[10] = "stderr"
    BY DEF CaptureScript, CaptureWorker
<1>4. \A i \in 1 .. 11 : CaptureWorker[i] \in Frames => i \in {1, 4, 8, 9, 10, 11}
    BY Twelve DEF CaptureWorker, Frames, Collected
<1>5. \A i \in 1 .. 11 : CaptureWorker[i] \in Frames =>
          \E j \in 1 .. 11 : CaptureScript[j] = CaptureWorker[i]
  <2>1. {1, 4, 7, 8, 9, 10} \subseteq 1 .. 11
    OBVIOUS
  <2> QED
    BY <1>3, <1>4, <2>1, Zenon
<1>6. Len(CaptureWorker) = 11 /\ 10 \in 1 .. 11 /\ CaptureScript[10] = "stderr"
    BY <1>2, <1>3 DEF WorkerFacts
<1> QED
    BY <1>1, <1>2, <1>5, <1>6 DEF FramesAwaited

LEMMA ScriptFacts ==
    ASSUME op \in AllOperations
    PROVE  /\ Len(Script) \in Nat /\ Len(Script) >= 3 /\ Len(Script) # 1
           /\ Len(WorkerScript) \in Nat /\ Len(WorkerScript) >= 1
           /\ ParentFacts(Script, Len(Script)) /\ WorkerFacts(WorkerScript, Len(WorkerScript))
           /\ FramesAwaited(Script, Len(Script), WorkerScript)
<1>1. CASE op = "probe"
  <2>1. Script = ProbeScript /\ WorkerScript = ProbeWorker
    BY <1>1 DEF Script, WorkerScript
  <2>2. Len(ProbeScript) = 3 /\ Len(ProbeWorker) = 1
    BY ProbeFacts DEF ParentFacts, WorkerFacts
  <2> QED
    BY <2>1, <2>2, ProbeFacts
<1>2. CASE op = "transport"
  <2>1. Script = TransportScript /\ WorkerScript = TransportWorker
    BY <1>2 DEF Script, WorkerScript
  <2>2. Len(TransportScript) = 6 /\ Len(TransportWorker) = 3
    BY TransportFacts DEF ParentFacts, WorkerFacts
  <2> QED
    BY <2>1, <2>2, TransportFacts
<1>3. CASE op = "restore"
  <2>1. Script = RestoreScript /\ WorkerScript = RestoreWorker
    BY <1>3 DEF Script, WorkerScript
  <2>2. Len(RestoreScript) = 11 /\ Len(RestoreWorker) = 10
    BY RestoreFacts DEF ParentFacts, WorkerFacts
  <2> QED
    BY <2>1, <2>2, RestoreFacts
<1>4. CASE op = "capture"
  <2>1. Script = CaptureScript /\ WorkerScript = CaptureWorker
    BY <1>4 DEF Script, WorkerScript
  <2>2. Len(CaptureScript) = 12 /\ Len(CaptureWorker) = 11
    BY CaptureFacts DEF ParentFacts, WorkerFacts
  <2> QED
    BY <2>1, <2>2, CaptureFacts
<1> QED
    BY <1>1, <1>2, <1>3, <1>4 DEF AllOperations

LEMMA SameScripts ==
    ASSUME UNCHANGED op
    PROVE  Script' = Script /\ WorkerScript' = WorkerScript
BY DEF Script, WorkerScript, ProbeScript, TransportScript, RestoreScript, CaptureScript,
    ProbeWorker, TransportWorker, RestoreWorker, CaptureWorker

LEMMA NothingYet ==
    /\ step = 1 => Passed = {}
    /\ wstep = 1 => Done = {}
BY DEF Passed, Done

LEMMA PassedGrows ==
    ASSUME Positions, UNCHANGED op, step' = step + 1
    PROVE  Passed' = Passed \cup {Awaits}
<1>1. step \in Nat /\ step >= 1 /\ Script' = Script
    BY ScriptFacts, SameScripts DEF Positions
<1>2. 1 .. step' - 1 = (1 .. step - 1) \cup {step}
    BY <1>1
<1> QED
    BY <1>1, <1>2 DEF Passed, Awaits

LEMMA DoneGrows ==
    ASSUME Positions, UNCHANGED op, wstep' = wstep + 1
    PROVE  Done' = Done \cup {WorkerScript[wstep]}
<1>1. wstep \in Nat /\ wstep >= 1 /\ WorkerScript' = WorkerScript
    BY ScriptFacts, SameScripts DEF Positions
<1>2. 1 .. wstep' - 1 = (1 .. wstep - 1) \cup {wstep}
    BY <1>1
<1> QED
    BY <1>1, <1>2 DEF Done

LEMMA SameProgress ==
    ASSUME UNCHANGED op
    PROVE  /\ step' = step => Passed' = Passed
           /\ wstep' = wstep => Done' = Done
BY SameScripts DEF Passed, Done

\* What the positions say.
LEMMA ParentPosition ==
    ASSUME Positions
    PROVE  /\ Awaits # "wait" <=> step < Len(Script)
           /\ Awaits = "end" => step + 1 = Len(Script)
           /\ "E" \in Passed => "ready" \in Passed /\ "ack" \in Passed
           /\ Len(Script) \in Nat /\ Len(Script) >= 3 /\ step \in Nat
<1>1. /\ op \in AllOperations /\ step \in 1 .. Len(Script)
      /\ Len(Script) \in Nat /\ Len(Script) >= 3 /\ ParentFacts(Script, Len(Script))
    BY ScriptFacts DEF Positions
<1>2. ASSUME "E" \in Passed PROVE "ready" \in Passed /\ "ack" \in Passed
  <2>1. PICK i \in 1 .. step - 1 : Script[i] = "E"
    BY <1>2 DEF Passed
  <2>2. i > 4 /\ Script[1] = "ready" /\ Script[4] = "ack"
    BY <1>1, <2>1 DEF ParentFacts
  <2>3. 1 \in 1 .. step - 1 /\ 4 \in 1 .. step - 1
    BY <1>1, <2>2
  <2> QED
    BY <2>2, <2>3 DEF Passed
<1> QED
    BY <1>1, <1>2 DEF ParentFacts, Awaits

LEMMA WorkerPosition ==
    ASSUME Positions
    PROVE  /\ wstep <= Len(WorkerScript) =>
                  Doing = WorkerScript[wstep] /\ Doing \notin Done /\ Doing # "exit"
           /\ wstep > Len(WorkerScript) => Doing = "exit" /\ wstep = Len(WorkerScript) + 1
           /\ "stderr" \in Done => wstep = Len(WorkerScript) + 1
           /\ GuestStarted => "E" \in Done
           /\ Len(WorkerScript) \in Nat /\ Len(WorkerScript) >= 1 /\ wstep \in Nat /\ wstep >= 1
<1>1. /\ op \in AllOperations /\ wstep \in 1 .. Len(WorkerScript) + 1
      /\ Len(WorkerScript) \in Nat /\ Len(WorkerScript) >= 1
      /\ WorkerFacts(WorkerScript, Len(WorkerScript))
    BY ScriptFacts DEF Positions
<1>2. ASSUME GuestStarted PROVE "E" \in Done
  <2>1. PICK i \in 1 .. Len(WorkerScript) : WorkerScript[i] = "run" /\ wstep >= i
    BY <1>2 DEF GuestStarted
  <2>2. i > 5 /\ WorkerScript[5] = "E"
    BY <1>1, <2>1 DEF WorkerFacts
  <2>3. 5 \in 1 .. wstep - 1
    BY <1>1, <2>1, <2>2
  <2> QED
    BY <2>2, <2>3 DEF Done
<1>3. ASSUME "stderr" \in Done PROVE wstep = Len(WorkerScript) + 1
  <2>1. PICK i \in 1 .. wstep - 1 : WorkerScript[i] = "stderr"
    BY <1>3 DEF Done
  <2>2. i = Len(WorkerScript)
    BY <1>1, <2>1 DEF WorkerFacts
  <2> QED
    BY <1>1, <2>1, <2>2
<1>4. ASSUME wstep <= Len(WorkerScript)
      PROVE  Doing = WorkerScript[wstep] /\ Doing \notin Done /\ Doing # "exit"
    BY <1>1, <1>4 DEF Doing, Done, WorkerFacts
<1> QED
    BY <1>1, <1>2, <1>3, <1>4 DEF Doing

LEMMA AllAwaited ==
    ASSUME Positions, step = Len(Script)
    PROVE  /\ Done \cap Frames \subseteq Passed
           /\ Done \cap Collected # {} => "stderr" \in Passed
<1>1. /\ wstep \in 1 .. Len(WorkerScript) + 1 /\ Len(WorkerScript) \in Nat
      /\ FramesAwaited(Script, Len(Script), WorkerScript)
    BY ScriptFacts DEF Positions
<1>2. \A f \in Done : \E i \in 1 .. Len(WorkerScript) : WorkerScript[i] = f
    BY <1>1 DEF Done
<1>3. \A f \in Done : f \in Frames => \E j \in 1 .. step - 1 : Script[j] = f
    BY <1>1, <1>2 DEF FramesAwaited
<1>4. \A f \in Done : f \in Collected => \E j \in 1 .. step - 1 : Script[j] = "stderr"
    BY <1>1, <1>2 DEF FramesAwaited
<1> QED
    BY <1>3, <1>4 DEF Passed

-----------------------------------------------------------------------------
(* Steps of the exchange.                                                  *)

EarlyModes == {"pin", "prepare", "spawn", "spawning", "place"}

LEMMA RangeAppend ==
    ASSUME NEW S, NEW s \in Seq(S), NEW x \in S
    PROVE  Append(s, x) \in Seq(S) /\ Range(Append(s, x)) = Range(s) \cup {x}
<1>1. /\ Append(s, x) \in Seq(S) /\ DOMAIN Append(s, x) = (1 .. Len(s)) \cup {Len(s) + 1}
      /\ DOMAIN s = 1 .. Len(s) /\ Len(s) \in Nat
    OBVIOUS
<1>2. \A i \in 1 .. Len(s) : Append(s, x)[i] = s[i]
    OBVIOUS
<1>3. Append(s, x)[Len(s) + 1] = x
    OBVIOUS
<1> QED
    BY <1>1, <1>2, <1>3 DEF Range

LEMMA RangeTail ==
    ASSUME NEW S, NEW s \in Seq(S), s # <<>>
    PROVE  Tail(s) \in Seq(S) /\ Range(Tail(s)) \subseteq Range(s) /\ Head(s) \in Range(s)
<1>1. /\ Tail(s) \in Seq(S) /\ DOMAIN Tail(s) = 1 .. Len(s) - 1
      /\ DOMAIN s = 1 .. Len(s) /\ Len(s) \in Nat /\ Len(s) > 0
    OBVIOUS
<1>2. \A i \in 1 .. Len(s) - 1 : Tail(s)[i] = s[i + 1] /\ i + 1 \in 1 .. Len(s)
    OBVIOUS
<1>3. Head(s) = s[1]
    OBVIOUS
<1> QED
    BY <1>1, <1>2, <1>3 DEF Range

\* A step in which nobody moves on: nothing that was validated may change.
Standstill ==
    /\ UNCHANGED <<op, step, wstep, out, control, lied>>
    /\ UNCHANGED <<deployment, pinned, process, image>> \/ "ready" \notin Passed
    /\ wstep = 1 \/ UNCHANGED boot
    /\ mode' \in EarlyModes => mode \in EarlyModes

LEMMA StandstillKeeps ==
    ASSUME Exchange, Standstill
    PROVE  Exchange'
<1>1. Passed' = Passed /\ Done' = Done /\ Script' = Script /\ WorkerScript' = WorkerScript
    BY SameProgress, SameScripts DEF Standstill
<1>2. Positions'
    BY <1>1 DEF Exchange, Positions, Standstill, EarlyModes
<1>3. "ready" \in Passed =>
          MetadataValid(image, pinned.sha256, process, deployment.config.groups)'
    BY DEF Exchange, Standstill
<1> QED
    BY <1>1, <1>2, <1>3 DEF Exchange, Standstill

\* The parent moves on.
ParentMoves ==
    /\ mode \notin EarlyModes /\ Awaits # "wait" /\ step' = step + 1
    /\ \/ UNCHANGED control
       \/ Awaits \in Inputs /\ control' = Append(control, Awaits)
    /\ UNCHANGED out \/ (out # <<>> /\ out' = Tail(out))
    /\ Awaits \in Frames => Awaits \in Range(out) /\ Accepts(Awaits)
    /\ UNCHANGED <<op, deployment, pinned, process, image, boot, mode, wstep, lied>>

LEMMA ParentMovesKeeps ==
    ASSUME Exchange, ParentMoves
    PROVE  Exchange'
<1>1. /\ Passed' = Passed \cup {Awaits} /\ Done' = Done
      /\ Script' = Script /\ WorkerScript' = WorkerScript
    BY PassedGrows, SameProgress, SameScripts DEF Exchange, ParentMoves
<1>2. out' \in Seq(Frames \cup {"stray"}) /\ Range(out') \subseteq Range(out)
    BY RangeTail, Zenon DEF Exchange, Positions, ParentMoves
<1>3. control' \in Seq(Inputs) /\ Range(control') \subseteq Range(control) \cup {Awaits}
  <2>1. control \in Seq(Inputs)
    BY DEF Exchange, Positions
  <2>2. ASSUME Awaits \in Inputs
        PROVE  /\ Append(control, Awaits) \in Seq(Inputs)
               /\ Range(Append(control, Awaits)) = Range(control) \cup {Awaits}
    BY <2>1, <2>2, RangeAppend
  <2> QED
    BY <2>1, <2>2, Zenon DEF ParentMoves
<1>4. step' \in 1 .. Len(Script)
    BY ParentPosition DEF Exchange, ParentMoves
<1>5. Positions'
    BY <1>1, <1>2, <1>3, <1>4 DEF Exchange, Positions, ParentMoves, EarlyModes
<1>6. (Range(out') \cup lied' \cup Passed') \cap Frames \subseteq Done'
    BY <1>1, <1>2 DEF Exchange, ParentMoves
<1>7. (Range(control') \cup Done') \cap Inputs \subseteq Passed'
    BY <1>1, <1>3 DEF Exchange
<1>8. Passed' \cap lied' \subseteq Collected
    BY <1>1 DEF Exchange, Positions, ParentMoves, Accepts, CompletionMatches
<1>9. "ready" \in Passed' =>
          MetadataValid(image, pinned.sha256, process, deployment.config.groups)'
  <2>1. "ready" \in Passed' =>
            MetadataValid(image, pinned.sha256, process, deployment.config.groups)
    BY <1>1 DEF Exchange, ParentMoves, Accepts, CompletionMatches, Frames
  <2> QED
    BY <2>1 DEF ParentMoves
<1>10. "stderr" \in Passed' => lied' \cap Collected = {}
    BY <1>1 DEF Exchange, ParentMoves, Accepts, CompletionMatches, Frames
<1> QED
    BY <1>5, <1>6, <1>7, <1>8, <1>9, <1>10 DEF Exchange

\* The worker moves on.
WorkerMoves ==
    /\ boot = "isolated" /\ wstep <= Len(WorkerScript) /\ wstep' = wstep + 1
    /\ UNCHANGED control \/ (control # <<>> /\ control' = Tail(control))
    /\ Doing \in Inputs => Doing \in Range(control)
    /\ \/ UNCHANGED <<out, lied>>
       \/ /\ Doing \in Frames
          /\ out' = Append(out, Doing) /\ lied' \in {lied, lied \cup {Doing}}
    /\ UNCHANGED <<op, deployment, pinned, process, image, boot, mode, step>>

LEMMA WorkerMovesKeeps ==
    ASSUME Exchange, WorkerMoves
    PROVE  Exchange'
<1>1. /\ Doing = WorkerScript[wstep] /\ Doing \notin Done /\ "stderr" \notin Done
      /\ wstep \in Nat /\ wstep >= 1 /\ Len(WorkerScript) \in Nat
    BY WorkerPosition DEF Exchange, WorkerMoves
<1>2. /\ Done' = Done \cup {Doing} /\ Passed' = Passed
      /\ Script' = Script /\ WorkerScript' = WorkerScript
    BY <1>1, DoneGrows, SameProgress, SameScripts DEF Exchange, WorkerMoves
<1>3. out' \in Seq(Frames \cup {"stray"}) /\ Range(out') \subseteq Range(out) \cup {Doing}
  <2>1. out \in Seq(Frames \cup {"stray"})
    BY DEF Exchange, Positions
  <2>2. ASSUME Doing \in Frames
        PROVE  /\ Append(out, Doing) \in Seq(Frames \cup {"stray"})
               /\ Range(Append(out, Doing)) = Range(out) \cup {Doing}
    <3>1. Doing \in Frames \cup {"stray"}
      BY <2>2
    <3> QED
      BY <2>1, <3>1, RangeAppend
  <2> QED
    BY <2>1, <2>2, Zenon DEF WorkerMoves
<1>4. control' \in Seq(Inputs) /\ Range(control') \subseteq Range(control)
    BY RangeTail, Zenon DEF Exchange, Positions, WorkerMoves
<1>5. wstep' \in 1 .. Len(WorkerScript) + 1
    BY <1>1 DEF WorkerMoves
<1>6. lied' \subseteq Frames /\ lied' \subseteq lied \cup {Doing}
    BY DEF Exchange, Positions, WorkerMoves
<1>7. Positions'
    BY <1>2, <1>3, <1>4, <1>5, <1>6 DEF Exchange, Positions, WorkerMoves
<1>8. (Range(out') \cup lied' \cup Passed') \cap Frames \subseteq Done'
    BY <1>2, <1>3, <1>6 DEF Exchange
<1>9. (Range(control') \cup Done') \cap Inputs \subseteq Passed'
    BY <1>2, <1>4 DEF Exchange, WorkerMoves
<1>10. Doing \in Frames => Doing \notin Passed
    BY <1>1 DEF Exchange
<1>11. Passed' \cap lied' \subseteq Collected
    BY <1>2, <1>6, <1>10 DEF Exchange
<1>12. "stderr" \notin Passed'
    BY <1>1, <1>2 DEF Exchange, Frames
<1>13. "ready" \in Passed' =>
          MetadataValid(image, pinned.sha256, process, deployment.config.groups)'
    BY <1>2 DEF Exchange, WorkerMoves
<1> QED
    BY <1>7, <1>8, <1>9, <1>11, <1>12, <1>13 DEF Exchange

\* A crash may leave stray bytes.
LEMMA StrayKeeps ==
    ASSUME Exchange, out' \in {out, Append(out, "stray")},
           UNCHANGED <<op, deployment, pinned, process, image, boot, mode, step, wstep, control, lied>>
    PROVE  Exchange'
<1>1. Passed' = Passed /\ Done' = Done /\ Script' = Script /\ WorkerScript' = WorkerScript
    BY SameProgress, SameScripts
<1>2. out' \in Seq(Frames \cup {"stray"}) /\ Range(out') \subseteq Range(out) \cup {"stray"}
  <2>1. out \in Seq(Frames \cup {"stray"}) /\ "stray" \in Frames \cup {"stray"}
    BY DEF Exchange, Positions
  <2>2. /\ Append(out, "stray") \in Seq(Frames \cup {"stray"})
        /\ Range(Append(out, "stray")) = Range(out) \cup {"stray"}
    BY <2>1, RangeAppend
  <2> QED
    BY <2>1, <2>2, Zenon
<1>3. Positions'
    BY <1>1, <1>2 DEF Exchange, Positions
<1>4. "stray" \notin Frames
    BY DEF Frames, Collected
<1>5. "ready" \in Passed' =>
          MetadataValid(image, pinned.sha256, process, deployment.config.groups)'
    BY <1>1 DEF Exchange
<1> QED
    BY <1>1, <1>2, <1>3, <1>4, <1>5 DEF Exchange

\* The caller, the preparation and the placement do not touch the exchange.
LEMMA BeforeStandsStill ==
    ASSUME Exchange, CallerStep \/ PinStep \/ PoolStep \/ PrepareStep \/ SpawnStep \/ PlaceStep
    PROVE  Standstill
<1>1. CASE DropCaller
    BY <1>1 DEF DropCaller, machine, supervisor, pipes, worker, Standstill, EarlyModes
<1>2. CASE CancelToken
    BY <1>2 DEF CancelToken, machine, supervisor, pipes, worker, Standstill, EarlyModes
<1>3. CASE PinRefused
    BY <1>3 DEF PinRefused, Answer, machine, supervisor, pipes, worker, Standstill, EarlyModes
<1>4. CASE PoolStarts
    BY <1>4 DEF PoolStarts, machine, supervisor, pipes, worker, Standstill, EarlyModes
<1>5. CASE PoolFinishes
    BY <1>5 DEF PoolFinishes, machine, supervisor, pipes, worker, Standstill, EarlyModes
<1>6. CASE Prepared
    BY <1>6 DEF Prepared, Answer, machine, supervisor, pipes, worker, Standstill, EarlyModes
<1>7. CASE PrepareTimeout
    BY <1>7 DEF PrepareTimeout, machine, supervisor, pipes, worker, Standstill, EarlyModes
<1>8. CASE PrepareJoined
    BY <1>8 DEF PrepareJoined, Answer, machine, supervisor, pipes, worker, Standstill, EarlyModes
<1>9. CASE PrepareDropped
    BY <1>9 DEF PrepareDropped, Answer, machine, supervisor, pipes, worker, Standstill, EarlyModes
<1>10. CASE Spawn
    BY <1>10 DEF Spawn, machine, supervisor, pipes, worker, Standstill, EarlyModes
<1>11. CASE SpawnFails
    BY <1>11 DEF SpawnFails, Answer, machine, supervisor, pipes, worker, Standstill, EarlyModes
<1>12. CASE Spawned
    BY <1>12 DEF Spawned, machine, supervisor, pipes, worker, Standstill, EarlyModes
<1>13. CASE PlacementAccepts
    BY <1>13 DEF PlacementAccepts, machine, supervisor, pipes, worker, Standstill, EarlyModes
<1>14. CASE PlacementRejects
    BY <1>14 DEF PlacementRejects, KillTree, machine, supervisor, pipes, worker, Standstill, EarlyModes
<1>15. CASE RejectReaps
    BY <1>15 DEF RejectReaps, machine, supervisor, pipes, worker, Standstill, EarlyModes
<1>16. CASE RejectDropped
    BY <1>16, Zenon DEF RejectDropped, KillTree, machine, supervisor, pipes, worker, Standstill, EarlyModes
<1>17. CASE PinExecutable
  <2>1. step = 1 /\ Passed = {}
    BY <1>17, NothingYet DEF PinExecutable, Exchange, Positions
  <2> QED
    BY <1>17, <2>1, Zenon DEF PinExecutable, pipes, worker, Standstill, EarlyModes
<1> QED
    BY <1>1, <1>2, <1>3, <1>4, <1>5, <1>6, <1>7, <1>8, <1>9, <1>10, <1>11, <1>12, <1>13, <1>14, <1>15, <1>16, <1>17
    DEF CallerStep, PinStep, PoolStep, PrepareStep, SpawnStep, PlaceStep

\* Nor do the ends of an exchange and what follows.
LEMMA AfterStandsStill ==
    ASSUME Exchange, \/ ReceiveFails \/ Finish \/ Timeout \/ Cancelled
                     \/ CleanupStep \/ DiagnosticsStep
    PROVE  Standstill
<1>1. CASE ReceiveFails
    BY <1>1 DEF ReceiveFails, Fail, machine, supervisor, pipes, worker, Standstill, EarlyModes
<1>2. CASE Finish
    BY <1>2 DEF Finish, machine, supervisor, pipes, worker, Standstill, EarlyModes
<1>3. CASE Timeout
    BY <1>3 DEF Timeout, Fail, machine, supervisor, pipes, worker, Standstill, EarlyModes
<1>4. CASE Cancelled
    BY <1>4 DEF Cancelled, Fail, machine, supervisor, pipes, worker, Standstill, EarlyModes
<1>5. CASE HandToReaper
    BY <1>5 DEF HandToReaper, KillTree, machine, supervisor, pipes, worker, Standstill, EarlyModes
<1>6. CASE Reaper
    BY <1>6 DEF Reaper, machine, supervisor, pipes, worker, Standstill, EarlyModes
<1>7. CASE ObserveExit
    BY <1>7 DEF ObserveExit, machine, supervisor, pipes, worker, Standstill, EarlyModes
<1>8. CASE StopObserving
    BY <1>8 DEF StopObserving, machine, supervisor, pipes, worker, Standstill, EarlyModes
<1>9. CASE KillWorker
    BY <1>9 DEF KillWorker, KillTree, machine, supervisor, pipes, worker, Standstill, EarlyModes
<1>10. CASE Reap
    BY <1>10 DEF Reap, machine, supervisor, pipes, worker, Standstill, EarlyModes
<1>11. CASE ReadDiagnostics
    BY <1>11 DEF ReadDiagnostics, machine, supervisor, pipes, worker, Standstill, EarlyModes
<1>12. CASE DiagnosticsEnd
    BY <1>12 DEF DiagnosticsEnd, machine, supervisor, pipes, worker, Standstill, EarlyModes
<1> QED
    BY <1>1, <1>2, <1>3, <1>4, <1>5, <1>6, <1>7, <1>8, <1>9, <1>10, <1>11, <1>12, Zenon
    DEF CleanupStep, DiagnosticsStep

\* Nor does the isolation, which ends before the first frame.
LEMMA BootStandsStill ==
    ASSUME Exchange, BootStep
    PROVE  Standstill
<1>1. UNCHANGED <<op, step, wstep, out, control, lied, mode>> /\ boot # "isolated"
    BY Zenon DEF BootStep, ArmBeforeExec, CheckBeforeExec, RecordParent, DropCredentials, Rearm,
        CheckParent, SealIsolation, Exits, supervisor, pipes
<1>2. wstep = 1
    BY <1>1, WorkerPosition DEF Exchange, Positions
<1>3. "ready" \notin Passed
    BY <1>2, NothingYet DEF Exchange, Frames
<1> QED
    BY <1>1, <1>2, <1>3, Zenon DEF Standstill

LEMMA OthersStandStill ==
    ASSUME Exchange, WriteLog \/ Exit \/ Replace \/ ParentDies \/ Fork \/ HelperExits \/ UNCHANGED vars
    PROVE  Standstill
<1>1. CASE WriteLog
    BY <1>1 DEF WriteLog, machine, supervisor, pipes, worker, Standstill, EarlyModes
<1>2. CASE Exit
    BY <1>2 DEF Exit, Exits, machine, supervisor, pipes, worker, Standstill, EarlyModes
<1>3. CASE Replace
    BY <1>3 DEF Replace, machine, supervisor, pipes, worker, Standstill, EarlyModes
<1>4. CASE ParentDies
    BY <1>4 DEF ParentDies, machine, supervisor, pipes, worker, Standstill, EarlyModes
<1>5. CASE Fork
    BY <1>5 DEF Fork, machine, supervisor, pipes, worker, Standstill, EarlyModes
<1>6. CASE HelperExits
    BY <1>6 DEF HelperExits, machine, supervisor, pipes, worker, Standstill, EarlyModes
<1>7. CASE UNCHANGED vars
    BY <1>7 DEF vars, machine, supervisor, pipes, worker, Standstill
<1> QED
    BY <1>1, <1>2, <1>3, <1>4, <1>5, <1>6, <1>7, Zenon

LEMMA ParentStepMoves ==
    ASSUME Exchange, Send \/ ShutControl \/ Receive \/ ReadEnd
    PROVE  Standstill \/ ParentMoves
<1>1. CASE Send
  <2>1. CASE proc = "running"
    BY <1>1, <2>1, Zenon DEF Send, Fail, ParentMoves, EarlyModes, Inputs, Frames, Collected, machine, worker
  <2>2. CASE proc # "running"
    BY <1>1, <2>2, Zenon DEF Send, Fail, Standstill, EarlyModes, machine, worker
  <2> QED
    BY <2>1, <2>2, Zenon
<1>2. CASE ShutControl
    BY <1>2 DEF ShutControl, ParentMoves, EarlyModes, Frames, Collected, machine, worker
<1>3. CASE Receive
  <2>1. Awaits \in Range(out)
    BY <1>3, RangeTail DEF Receive, Exchange, Positions
  <2>2. Awaits # "wait"
    BY <1>3 DEF Receive, Frames, Collected
  <2> QED
    BY <1>3, <2>1, <2>2 DEF Receive, ParentMoves, EarlyModes, machine, worker
<1>4. CASE ReadEnd
  <2>1. CASE out = <<>>
    BY <1>4, <2>1, Zenon DEF ReadEnd, Fail, ParentMoves, EarlyModes, Frames, Collected, machine, pipes, worker
  <2>2. CASE out # <<>>
    BY <1>4, <2>2, Zenon DEF ReadEnd, Fail, Standstill, EarlyModes, machine, pipes, worker
  <2> QED
    BY <2>1, <2>2, Zenon
<1> QED
    BY <1>1, <1>2, <1>3, <1>4

\* Beyond its script the worker only exits.
LEMMA StillAtWork ==
    ASSUME Exchange, Doing # "exit"
    PROVE  wstep <= Len(WorkerScript)
BY WorkerPosition DEF Exchange

LEMMA WorkerStepMoves ==
    ASSUME Exchange, \/ Write \/ Read \/ ReadControlEnd \/ RunRestored \/ RunCaptured
    PROVE  Standstill \/ WorkerMoves
<1>1. CASE Write
  <2>1. Doing # "exit" /\ Doing \notin Inputs
    BY <1>1 DEF Write, Frames, Collected, Inputs
  <2>2. CASE StdoutOpen
    BY <1>1, <2>1, <2>2, StillAtWork, Zenon
       DEF Write, Isolated, Exits, WorkerMoves, machine, supervisor
  <2>3. CASE ~StdoutOpen
    BY <1>1, <2>3 DEF Write, Exits, Standstill, machine, supervisor, pipes
  <2> QED
    BY <2>2, <2>3
<1>2. CASE Read
  <2>1. Doing # "exit"
    BY <1>2, Zenon DEF Read, Inputs
  <2>2. CASE control # <<>> /\ Head(control) = Doing
    <3>1. Doing \in Range(control)
      BY <2>2, RangeTail, Zenon DEF Exchange, Positions
    <3> QED
      BY <1>2, <2>1, <2>2, <3>1, StillAtWork
         DEF Read, Isolated, WorkerMoves, machine, supervisor
  <2>3. CASE ~(control # <<>> /\ Head(control) = Doing)
    BY <1>2, <2>3 DEF Read, Exits, Standstill, machine, supervisor, pipes
  <2> QED
    BY <2>2, <2>3
<1>3. CASE ReadControlEnd
  <2>1. Doing # "exit" /\ Doing \notin Inputs
    BY <1>3, Zenon DEF ReadControlEnd, Inputs
  <2>2. CASE control = <<>>
    BY <1>3, <2>1, <2>2, StillAtWork, Zenon
       DEF ReadControlEnd, Isolated, WorkerMoves, machine, supervisor, pipes
  <2>3. CASE control # <<>>
    BY <1>3, <2>3 DEF ReadControlEnd, Exits, Standstill, machine, supervisor, pipes
  <2> QED
    BY <2>2, <2>3
<1>4. CASE RunRestored \/ RunCaptured
  <2>1. Doing # "exit" /\ Doing \notin Inputs /\ GuestReturns
    BY <1>4 DEF RunRestored, RunCaptured, GuestReturns, Inputs
  <2> QED
    BY <2>1, StillAtWork, Zenon DEF GuestReturns, Isolated, WorkerMoves, machine, supervisor, pipes
<1> QED
    BY <1>1, <1>2, <1>3, <1>4

LEMMA ExchangeInductive ==
    ASSUME Exchange, [Next]_vars
    PROVE  Exchange'
<1>1. CASE CallerStep \/ PinStep \/ PoolStep \/ PrepareStep \/ SpawnStep \/ PlaceStep
    BY <1>1, BeforeStandsStill, StandstillKeeps
<1>2. CASE ReceiveFails \/ Finish \/ Timeout \/ Cancelled \/ CleanupStep \/ DiagnosticsStep
    BY <1>2, AfterStandsStill, StandstillKeeps
<1>3. CASE Send \/ ShutControl \/ Receive \/ ReadEnd
    BY <1>3, ParentStepMoves, StandstillKeeps, ParentMovesKeeps
<1>4. CASE BootStep
    BY <1>4, BootStandsStill, StandstillKeeps
<1>5. CASE Write \/ Read \/ ReadControlEnd \/ RunRestored \/ RunCaptured
    BY <1>5, WorkerStepMoves, StandstillKeeps, WorkerMovesKeeps
<1>6. CASE WriteLog \/ Exit \/ Replace \/ ParentDies \/ Fork \/ HelperExits \/ UNCHANGED vars
    BY <1>6, OthersStandStill, StandstillKeeps
<1>7. CASE Crash
    BY <1>7, StrayKeeps DEF Crash, machine, supervisor
<1> QED
    BY <1>1, <1>2, <1>3, <1>4, <1>5, <1>6, <1>7
       DEF Next, Supervision, ExchangeStep, WorkStep, Unexpected

-----------------------------------------------------------------------------
(* The end of an operation.                                                *)

\* Steps that bring the parent no further and the worker nearer its end.
EndsLater ==
    /\ UNCHANGED <<op, step>>
    /\ outcome' = "ok" => outcome = "ok" /\ mode' \in {"drain", "answered"}
    /\ \/ UNCHANGED <<proc, status>>
       \/ /\ proc = "running" /\ proc' = "exited" /\ UNCHANGED wstep
          /\ status' = "zero" => wstep = Len(WorkerScript) + 1
       \/ proc = "exited" /\ proc' = "reaped" /\ UNCHANGED status
    /\ UNCHANGED wstep \/ proc = "running"
    /\ UNCHANGED out \/ proc = "running"
    /\ helper' => helper \/ proc = "running"

LEMMA EndsLaterKeeps ==
    ASSUME Ended, EndsLater
    PROVE  Ended'
<1>1. Script' = Script /\ WorkerScript' = WorkerScript
    BY SameScripts DEF EndsLater
<1>2. status # "zero" \/ UNCHANGED wstep
    BY DEF Ended, EndsLater
<1>3. ASSUME step' = Len(Script)
      PROVE  out' = <<>> /\ ~helper' /\ proc' \in {"exited", "reaped"}
    BY <1>3 DEF Ended, EndsLater
<1>4. proc' \in {"none", "running"} => status' = "none"
    BY DEF Ended, EndsLater
<1>5. status' = "zero" => wstep' = Len(WorkerScript) + 1
    BY <1>2 DEF Ended, EndsLater
<1>6. outcome' = "ok" =>
           /\ step' = Len(Script) /\ status' = "zero" /\ proc' = "reaped"
           /\ mode' \in {"drain", "answered"}
    BY DEF Ended, EndsLater
<1> QED
    BY <1>1, <1>3, <1>4, <1>5, <1>6 DEF Ended

\* Outside the last step of the exchange nobody reports success.
LEMMA NotYetOk ==
    ASSUME Ended, mode \notin {"drain", "answered"}
    PROVE  outcome # "ok"
BY DEF Ended

LEMMA BeforeEndsLater ==
    ASSUME Ended, \/ CallerStep \/ PinStep \/ PoolStep \/ PrepareStep
                  \/ SpawnFails \/ Spawned \/ PlaceStep
    PROVE  EndsLater
<1>1. CASE DropCaller
    BY <1>1, NotYetOk DEF DropCaller, machine, supervisor, pipes, worker, EndsLater
<1>2. CASE CancelToken
    BY <1>2, NotYetOk, Zenon DEF CancelToken, machine, supervisor, pipes, worker, EndsLater
<1>3. CASE PinExecutable
    BY <1>3, NotYetOk, Zenon DEF PinExecutable, machine, supervisor, pipes, worker, EndsLater
<1>4. CASE PinRefused
    BY <1>4, NotYetOk DEF PinRefused, Answer, machine, supervisor, pipes, worker, EndsLater
<1>5. CASE PoolStarts
    BY <1>5, NotYetOk DEF PoolStarts, machine, supervisor, pipes, worker, EndsLater
<1>6. CASE PoolFinishes
    BY <1>6, NotYetOk DEF PoolFinishes, machine, supervisor, pipes, worker, EndsLater
<1>7. CASE Prepared
    BY <1>7, NotYetOk DEF Prepared, Answer, machine, supervisor, pipes, worker, EndsLater
<1>8. CASE PrepareTimeout
    BY <1>8, NotYetOk DEF PrepareTimeout, machine, supervisor, pipes, worker, EndsLater
<1>9. CASE PrepareJoined
    BY <1>9, NotYetOk DEF PrepareJoined, Answer, machine, supervisor, pipes, worker, EndsLater
<1>10. CASE PrepareDropped
    BY <1>10, NotYetOk, Zenon DEF PrepareDropped, Answer, machine, supervisor, pipes, worker, EndsLater
<1>11. CASE SpawnFails
    BY <1>11, NotYetOk, Zenon DEF SpawnFails, Answer, machine, supervisor, pipes, worker, EndsLater
<1>12. CASE Spawned
    BY <1>12, NotYetOk DEF Spawned, machine, supervisor, pipes, worker, EndsLater
<1>13. CASE PlacementAccepts
    BY <1>13, NotYetOk DEF PlacementAccepts, machine, supervisor, pipes, worker, EndsLater
<1>14. CASE PlacementRejects
    BY <1>14, NotYetOk DEF PlacementRejects, KillTree, machine, supervisor, pipes, worker, EndsLater
<1>15. CASE RejectReaps
    BY <1>15, NotYetOk, Zenon DEF RejectReaps, machine, supervisor, pipes, worker, EndsLater
<1>16. CASE RejectDropped
    BY <1>16, NotYetOk DEF RejectDropped, KillTree, machine, supervisor, pipes, worker, EndsLater
<1> QED
    BY <1>1, <1>2, <1>3, <1>4, <1>5, <1>6, <1>7, <1>8, <1>9, <1>10, <1>11, <1>12, <1>13, <1>14, <1>15, <1>16, Zenon
    DEF CallerStep, PinStep, PoolStep, PrepareStep, PlaceStep

LEMMA AfterEndsLater ==
    ASSUME Ended, ReceiveFails \/ Timeout \/ Cancelled \/ CleanupStep \/ DiagnosticsStep
    PROVE  EndsLater
<1>1. CASE ReceiveFails
    BY <1>1, NotYetOk, Zenon DEF ReceiveFails, Fail, machine, supervisor, pipes, worker, EndsLater
<1>2. CASE Timeout
    BY <1>2, NotYetOk, Zenon DEF Timeout, Fail, machine, supervisor, pipes, worker, EndsLater
<1>3. CASE Cancelled
    BY <1>3, NotYetOk DEF Cancelled, Fail, machine, supervisor, pipes, worker, EndsLater
<1>4. CASE HandToReaper
    BY <1>4, NotYetOk DEF HandToReaper, KillTree, machine, supervisor, pipes, worker, EndsLater
<1>5. CASE Reaper
    BY <1>5, NotYetOk DEF Reaper, machine, supervisor, pipes, worker, EndsLater
<1>6. CASE ObserveExit
    BY <1>6, NotYetOk DEF ObserveExit, machine, supervisor, pipes, worker, EndsLater
<1>7. CASE StopObserving
    BY <1>7, NotYetOk DEF StopObserving, machine, supervisor, pipes, worker, EndsLater
<1>8. CASE KillWorker
    BY <1>8, NotYetOk DEF KillWorker, KillTree, machine, supervisor, pipes, worker, EndsLater
<1>9. CASE Reap
    BY <1>9, NotYetOk DEF Reap, machine, supervisor, pipes, worker, EndsLater
<1>10. CASE ReadDiagnostics
    BY <1>10, NotYetOk DEF ReadDiagnostics, machine, supervisor, pipes, worker, EndsLater
<1>11. CASE DiagnosticsEnd
    BY <1>11, NotYetOk DEF DiagnosticsEnd, machine, supervisor, pipes, worker, EndsLater
<1> QED
    BY <1>1, <1>2, <1>3, <1>4, <1>5, <1>6, <1>7, <1>8, <1>9, <1>10, <1>11, Zenon
    DEF CleanupStep, DiagnosticsStep

LEMMA WorkerEndsLater ==
    ASSUME Ended, BootStep \/ Write \/ Read \/ ReadControlEnd \/ WriteLog \/ RunRestored \/ RunCaptured
    PROVE  EndsLater
<1>1. CASE ArmBeforeExec
    BY <1>1, NotYetOk, Zenon DEF ArmBeforeExec, machine, supervisor, pipes, worker, EndsLater
<1>2. CASE CheckBeforeExec
    BY <1>2, NotYetOk DEF CheckBeforeExec, Exits, machine, supervisor, pipes, worker, EndsLater
<1>3. CASE RecordParent
    BY <1>3, NotYetOk, Zenon DEF RecordParent, machine, supervisor, pipes, worker, EndsLater
<1>4. CASE DropCredentials
    BY <1>4, NotYetOk DEF DropCredentials, Exits, machine, supervisor, pipes, worker, EndsLater
<1>5. CASE Rearm
    BY <1>5, NotYetOk DEF Rearm, machine, supervisor, pipes, worker, EndsLater
<1>6. CASE CheckParent
    BY <1>6, NotYetOk DEF CheckParent, Exits, machine, supervisor, pipes, worker, EndsLater
<1>7. CASE SealIsolation
    BY <1>7, NotYetOk, Zenon DEF SealIsolation, Exits, machine, supervisor, pipes, worker, EndsLater
<1>8. CASE Write
    BY <1>8, NotYetOk, Zenon DEF Write, Isolated, Exits, machine, supervisor, pipes, worker, EndsLater
<1>9. CASE Read
    BY <1>9, NotYetOk, Zenon DEF Read, Isolated, Exits, machine, supervisor, pipes, worker, EndsLater
<1>10. CASE ReadControlEnd
    BY <1>10, NotYetOk, Zenon DEF ReadControlEnd, Isolated, Exits, machine, supervisor, pipes, worker, EndsLater
<1>11. CASE WriteLog
    BY <1>11, NotYetOk, Zenon DEF WriteLog, Isolated, machine, supervisor, pipes, worker, EndsLater
<1>12. CASE RunRestored
    BY <1>12, NotYetOk, Zenon DEF RunRestored, GuestReturns, Isolated, machine, supervisor, pipes, worker, EndsLater
<1>13. CASE RunCaptured
    BY <1>13, NotYetOk DEF RunCaptured, GuestReturns, Isolated, machine, supervisor, pipes, worker, EndsLater
<1> QED
    BY <1>1, <1>2, <1>3, <1>4, <1>5, <1>6, <1>7, <1>8, <1>9, <1>10, <1>11, <1>12, <1>13, Zenon
    DEF BootStep

LEMMA UnexpectedEndsLater ==
    ASSUME Ended, Unexpected \/ UNCHANGED vars
    PROVE  EndsLater
<1>1. CASE Replace
    BY <1>1, NotYetOk DEF Replace, machine, supervisor, pipes, worker, EndsLater
<1>2. CASE ParentDies
    BY <1>2, NotYetOk, Zenon DEF ParentDies, machine, supervisor, pipes, worker, EndsLater
<1>3. CASE Crash
    BY <1>3, NotYetOk DEF Crash, machine, supervisor, pipes, worker, EndsLater
<1>4. CASE Fork
    BY <1>4, NotYetOk DEF Fork, Isolated, machine, supervisor, pipes, worker, EndsLater
<1>5. CASE HelperExits
    BY <1>5, NotYetOk, Zenon DEF HelperExits, machine, supervisor, pipes, worker, EndsLater
<1>6. CASE UNCHANGED vars
    BY <1>6 DEF vars, machine, supervisor, pipes, worker, EndsLater, Ended
<1> QED
    BY <1>1, <1>2, <1>3, <1>4, <1>5, <1>6 DEF Unexpected

LEMMA ExitEndsLater ==
    ASSUME Exchange, Ended, Exit
    PROVE  EndsLater
<1>1. wstep = Len(WorkerScript) + 1
    BY WorkerPosition DEF Exit, Exchange
<1> QED
    BY <1>1, NotYetOk DEF Exit, Isolated, Exits, machine, supervisor, pipes, worker, EndsLater

LEMMA SpawnEnded ==
    ASSUME Inv, Exchange, Ended, Spawn
    PROVE  Ended'
<1>1. /\ mode = "spawn" /\ proc = "none" /\ proc' = "running"
      /\ UNCHANGED <<op, step, out, status, helper, wstep, outcome>>
    BY DEF Spawn, Inv, Owed, machine, pipes
<1>2. step = 1 /\ Len(Script) >= 3
    BY <1>1, ParentPosition DEF Exchange, Positions
<1>3. Script' = Script /\ WorkerScript' = WorkerScript
    BY <1>1, SameScripts
<1> QED
    BY <1>1, <1>2, <1>3, NotYetOk DEF Ended

\* The parent moves on to its last step only at the end of the pipe.
LEMMA ParentMovesEnded ==
    ASSUME Exchange, Ended, Send \/ ShutControl \/ Receive
    PROVE  Ended'
<1>1. /\ mode = "run" /\ UNCHANGED <<op, proc, status, helper, wstep>>
      /\ outcome' # "ok"
      /\ \/ UNCHANGED <<step, out>>
         \/ step' = step + 1 /\ Awaits \notin {"wait", "end"}
    BY NotYetOk DEF Send, ShutControl, Receive, Fail, Inputs, Frames, Collected, worker
<1>2. Script' = Script /\ WorkerScript' = WorkerScript
    BY <1>1, SameScripts
<1>3. /\ step \in 1 .. Len(Script) /\ Len(Script) \in Nat
      /\ ParentFacts(Script, Len(Script))
    BY ScriptFacts DEF Exchange, Positions
<1>4. step' = step + 1 /\ Awaits \notin {"wait", "end"} => step' # Len(Script)
    BY <1>3 DEF ParentFacts, Awaits
<1> QED
    BY <1>1, <1>2, <1>4, Zenon DEF Ended

LEMMA ReadEndEnded ==
    ASSUME Inv, Ended, ReadEnd
    PROVE  Ended'
<1>1. /\ mode = "run" /\ proc \in {"running", "exited"}
      /\ UNCHANGED <<op, proc, status, helper, wstep, out>>
      /\ outcome' # "ok"
      /\ UNCHANGED step \/ (out = <<>> /\ NoWriter)
    BY NotYetOk, Zenon DEF ReadEnd, Fail, Inv, Owed, pipes, worker
<1>2. Script' = Script /\ WorkerScript' = WorkerScript
    BY <1>1, SameScripts
<1> QED
    BY <1>1, <1>2 DEF Ended, NoWriter

LEMMA FinishEnded ==
    ASSUME Exchange, Ended, Finish
    PROVE  Ended'
<1>1. /\ Awaits = "wait" /\ proc' = "reaped" /\ ~helper' /\ mode' \in {"drain", "answered"}
      /\ UNCHANGED <<op, step, out, status, wstep>>
      /\ outcome' = "ok" => status = "zero"
    BY DEF Finish, HasDiagnostics, machine, pipes
<1>2. step = Len(Script)
    BY <1>1, ParentPosition DEF Exchange, Positions
<1>3. Script' = Script /\ WorkerScript' = WorkerScript
    BY <1>1, SameScripts
<1> QED
    BY <1>1, <1>2, <1>3 DEF Ended

LEMMA EndedInductive ==
    ASSUME Inv, Exchange, Ended, [Next]_vars
    PROVE  Ended'
<1>1. CASE \/ CallerStep \/ PinStep \/ PoolStep \/ PrepareStep
           \/ SpawnFails \/ Spawned \/ PlaceStep
    BY <1>1, BeforeEndsLater, EndsLaterKeeps
<1>2. CASE Spawn
    BY <1>2, SpawnEnded
<1>3. CASE ReceiveFails \/ Timeout \/ Cancelled \/ CleanupStep \/ DiagnosticsStep
    BY <1>3, AfterEndsLater, EndsLaterKeeps
<1>4. CASE Send \/ ShutControl \/ Receive
    BY <1>4, ParentMovesEnded
<1>5. CASE ReadEnd
    BY <1>5, ReadEndEnded
<1>6. CASE Finish
    BY <1>6, FinishEnded
<1>7. CASE BootStep \/ Write \/ Read \/ ReadControlEnd \/ WriteLog \/ RunRestored \/ RunCaptured
    BY <1>7, WorkerEndsLater, EndsLaterKeeps
<1>8. CASE Exit
    BY <1>8, ExitEndsLater, EndsLaterKeeps
<1>9. CASE Unexpected \/ UNCHANGED vars
    BY <1>9, UnexpectedEndsLater, EndsLaterKeeps
<1> QED
    BY <1>1, <1>2, <1>3, <1>4, <1>5, <1>6, <1>7, <1>8, <1>9
       DEF Next, Supervision, ExchangeStep, WorkStep, SpawnStep

LEMMA ExchangeInitially == Init => Exchange /\ Ended
<1> SUFFICES ASSUME Init PROVE Exchange /\ Ended
    BY Zenon
<1>1. /\ op \in AllOperations /\ step = 1 /\ wstep = 1 /\ mode = "pin" /\ boot = "fork"
      /\ out = <<>> /\ control = <<>> /\ lied = {} /\ proc = "none" /\ status = "none"
      /\ outcome = "none"
    BY WorkerConstants DEF Init, Installed
<1>2. Len(Script) \in Nat /\ Len(Script) >= 3 /\ Len(WorkerScript) \in Nat /\ Len(WorkerScript) >= 1
    BY <1>1, ScriptFacts
<1>3. Positions
    BY <1>1, <1>2 DEF Positions
<1>4. Passed = {} /\ Done = {} /\ Range(out) = {} /\ Range(control) = {}
    BY <1>1, NothingYet DEF Range
<1>5. Exchange
    BY <1>1, <1>3, <1>4 DEF Exchange
<1>6. step # Len(Script)
  <2>1. step = 1
    BY <1>1
  <2>2. Len(Script) # 1
    BY <1>1, ScriptFacts
  <2> QED
    BY <2>1, <2>2, Zenon
<1>7. status # "zero" /\ outcome # "ok"
    BY <1>1
<1> QED
    BY <1>1, <1>5, <1>6, <1>7, Zenon DEF Ended

(* An operation that succeeds has read every frame of its script, validated  *)
(* each one and found the pipe at its end, and has reaped a worker that did  *)
(* its whole part and exited with status 0 (WorkerSupervisor's exchange),    *)
(* whatever the worker writes and when it ends.                              *)
THEOREM SuccessIsAlwaysWhole == Spec => []SuccessIsWhole
<1> DEFINE I == Inv /\ Exchange /\ Ended
<1>1. Init => I
    BY Initially, ExchangeInitially
<1>2. I /\ [Next]_vars => I'
    BY Inductive, ExchangeInductive, EndedInductive
<1>3. I => SuccessIsWhole
  <2> SUFFICES ASSUME I, outcome = "ok" PROVE SuccessIsWhole
    BY DEF SuccessIsWhole
  <2>1. /\ step = Len(Script) /\ out = <<>> /\ ~helper /\ proc = "reaped" /\ status = "zero"
        /\ wstep = Len(WorkerScript) + 1
    BY DEF Ended
  <2>2. lied \subseteq Passed /\ lied \subseteq Done
    BY <2>1, AllAwaited DEF Exchange, Positions
  <2>3. lied \subseteq Collected
    BY <2>2 DEF Exchange
  <2>4. lied # {} => "stderr" \in Passed
    BY <2>1, <2>2, <2>3, AllAwaited DEF Exchange
  <2>5. lied = {}
    BY <2>3, <2>4, Zenon DEF Exchange
  <2> QED
    BY <2>1, <2>5 DEF SuccessIsWhole
<1> QED
    BY <1>1, <1>2, <1>3, PTL DEF Spec

-----------------------------------------------------------------------------
(* The shape of the process.                                               *)

\* Most steps leave the process and what it was pinned from alone.
ShapeSame ==
    /\ deployment' = deployment /\ process' = process
    /\ boot' \in Early <=> boot \in Early
    /\ mode' \in {"prepare", "spawn"} => mode \in {"prepare", "spawn"}
    /\ proc = "none" => proc' = "none"

LEMMA ShapeSameKeeps ==
    ASSUME Shape, ShapeSame
    PROVE  Shape'
<1>1. (IF boot \in Early THEN Inherited(process) ELSE Dropped(process))'
    BY Zenon DEF Shape, ShapeSame
<1>2. (mode \in {"prepare", "spawn"} \/ (proc # "none" /\ boot \in Early) =>
           pin_executable(deployment, process.uid[2]))'
    BY DEF Shape, ShapeSame
<1> QED
    BY <1>1, <1>2, Zenon DEF Shape

\* Before the spawn.
LEMMA PreparationKeepsShape ==
    ASSUME CallerStep \/ PinRefused \/ PoolStep \/ PrepareStep
    PROVE  ShapeSame
<1>1. CASE DropCaller
    BY <1>1 DEF DropCaller, machine, supervisor, pipes, worker, ShapeSame, Early
<1>2. CASE CancelToken
    BY <1>2 DEF CancelToken, machine, supervisor, pipes, worker, ShapeSame, Early
<1>3. CASE PinRefused
    BY <1>3, Zenon DEF PinRefused, Answer, machine, supervisor, pipes, worker, ShapeSame, Early
<1>4. CASE PoolStarts
    BY <1>4 DEF PoolStarts, machine, supervisor, pipes, worker, ShapeSame, Early
<1>5. CASE PoolFinishes
    BY <1>5, Zenon DEF PoolFinishes, machine, supervisor, pipes, worker, ShapeSame, Early
<1>6. CASE Prepared
    BY <1>6 DEF Prepared, Answer, machine, supervisor, pipes, worker, ShapeSame, Early
<1>7. CASE PrepareTimeout
    BY <1>7 DEF PrepareTimeout, machine, supervisor, pipes, worker, ShapeSame, Early
<1>8. CASE PrepareJoined
    BY <1>8 DEF PrepareJoined, Answer, machine, supervisor, pipes, worker, ShapeSame, Early
<1>9. CASE PrepareDropped
    BY <1>9 DEF PrepareDropped, Answer, machine, supervisor, pipes, worker, ShapeSame, Early
<1> QED
    BY <1>1, <1>2, <1>3, <1>4, <1>5, <1>6, <1>7, <1>8, <1>9, Zenon
       DEF CallerStep, PoolStep, PrepareStep

\* The placement.
LEMMA PlacementKeepsShape ==
    ASSUME SpawnFails \/ Spawned \/ PlaceStep
    PROVE  ShapeSame
<1>1. CASE SpawnFails
    BY <1>1 DEF SpawnFails, Answer, machine, supervisor, pipes, worker, ShapeSame, Early
<1>2. CASE Spawned
    BY <1>2 DEF Spawned, machine, supervisor, pipes, worker, ShapeSame, Early
<1>3. CASE PlacementAccepts
    BY <1>3 DEF PlacementAccepts, machine, supervisor, pipes, worker, ShapeSame, Early
<1>4. CASE PlacementRejects
    BY <1>4 DEF PlacementRejects, KillTree, machine, supervisor, pipes, worker, ShapeSame, Early
<1>5. CASE RejectReaps
    BY <1>5 DEF RejectReaps, machine, supervisor, pipes, worker, ShapeSame, Early
<1>6. CASE RejectDropped
    BY <1>6 DEF RejectDropped, KillTree, machine, supervisor, pipes, worker, ShapeSame, Early
<1> QED
    BY <1>1, <1>2, <1>3, <1>4, <1>5, <1>6, Zenon
       DEF PlaceStep

\* The exchange.
LEMMA ExchangeKeepsShape ==
    ASSUME ExchangeStep \/ Timeout \/ Cancelled
    PROVE  ShapeSame
<1>1. CASE Send
    BY <1>1, Zenon DEF Send, Fail, machine, supervisor, pipes, worker, ShapeSame, Early
<1>2. CASE ShutControl
    BY <1>2 DEF ShutControl, machine, supervisor, pipes, worker, ShapeSame, Early
<1>3. CASE Receive
    BY <1>3 DEF Receive, machine, supervisor, pipes, worker, ShapeSame, Early
<1>4. CASE ReceiveFails
    BY <1>4 DEF ReceiveFails, Fail, machine, supervisor, pipes, worker, ShapeSame, Early
<1>5. CASE ReadEnd
    BY <1>5, Zenon DEF ReadEnd, Fail, machine, supervisor, pipes, worker, ShapeSame, Early
<1>6. CASE Finish
    BY <1>6 DEF Finish, machine, supervisor, pipes, worker, ShapeSame, Early
<1>7. CASE Timeout
    BY <1>7 DEF Timeout, Fail, machine, supervisor, pipes, worker, ShapeSame, Early
<1>8. CASE Cancelled
    BY <1>8 DEF Cancelled, Fail, machine, supervisor, pipes, worker, ShapeSame, Early
<1> QED
    BY <1>1, <1>2, <1>3, <1>4, <1>5, <1>6, <1>7, <1>8, Zenon
       DEF ExchangeStep

\* The cleanup.
LEMMA CleanupKeepsShape ==
    ASSUME CleanupStep \/ DiagnosticsStep
    PROVE  ShapeSame
<1>1. CASE HandToReaper
    BY <1>1 DEF HandToReaper, KillTree, machine, supervisor, pipes, worker, ShapeSame, Early
<1>2. CASE Reaper
    BY <1>2, Zenon DEF Reaper, machine, supervisor, pipes, worker, ShapeSame, Early
<1>3. CASE ObserveExit
    BY <1>3 DEF ObserveExit, machine, supervisor, pipes, worker, ShapeSame, Early
<1>4. CASE StopObserving
    BY <1>4, Zenon DEF StopObserving, machine, supervisor, pipes, worker, ShapeSame, Early
<1>5. CASE KillWorker
    BY <1>5 DEF KillWorker, KillTree, machine, supervisor, pipes, worker, ShapeSame, Early
<1>6. CASE Reap
    BY <1>6 DEF Reap, machine, supervisor, pipes, worker, ShapeSame, Early
<1>7. CASE ReadDiagnostics
    BY <1>7 DEF ReadDiagnostics, machine, supervisor, pipes, worker, ShapeSame, Early
<1>8. CASE DiagnosticsEnd
    BY <1>8 DEF DiagnosticsEnd, machine, supervisor, pipes, worker, ShapeSame, Early
<1> QED
    BY <1>1, <1>2, <1>3, <1>4, <1>5, <1>6, <1>7, <1>8
       DEF CleanupStep, DiagnosticsStep

\* The worker, but for the two steps that change its process.
LEMMA BootKeepsShape ==
    ASSUME ArmBeforeExec \/ CheckBeforeExec \/ RecordParent \/ Rearm \/ CheckParent
    PROVE  ShapeSame
<1>1. CASE ArmBeforeExec
    BY <1>1, Zenon DEF ArmBeforeExec, machine, supervisor, pipes, worker, ShapeSame, Early
<1>2. CASE CheckBeforeExec
    BY <1>2, Zenon DEF CheckBeforeExec, Exits, machine, supervisor, pipes, worker, ShapeSame, Early
<1>3. CASE RecordParent
    BY <1>3, Zenon DEF RecordParent, machine, supervisor, pipes, worker, ShapeSame, Early
<1>4. CASE Rearm
    BY <1>4, Zenon DEF Rearm, machine, supervisor, pipes, worker, ShapeSame, Early
<1>5. CASE CheckParent
    BY <1>5 DEF CheckParent, Exits, machine, supervisor, pipes, worker, ShapeSame, Early
<1> QED
    BY <1>1, <1>2, <1>3, <1>4, <1>5, Zenon

\* The isolated worker.
LEMMA WorkKeepsShape ==
    ASSUME WorkStep
    PROVE  ShapeSame
<1>1. CASE Write
    BY <1>1, Zenon DEF Write, Exits, Isolated, machine, supervisor, pipes, worker, ShapeSame, Early
<1>2. CASE Read
    BY <1>2, Zenon DEF Read, Exits, Isolated, machine, supervisor, pipes, worker, ShapeSame, Early
<1>3. CASE ReadControlEnd
    BY <1>3, Zenon DEF ReadControlEnd, Exits, Isolated, machine, supervisor, pipes, worker, ShapeSame, Early
<1>4. CASE WriteLog
    BY <1>4 DEF WriteLog, Isolated, machine, supervisor, pipes, worker, ShapeSame, Early
<1>5. CASE RunRestored
    BY <1>5 DEF RunRestored, GuestReturns, Isolated, machine, supervisor, pipes, worker, ShapeSame, Early
<1>6. CASE RunCaptured
    BY <1>6 DEF RunCaptured, GuestReturns, Isolated, machine, supervisor, pipes, worker, ShapeSame, Early
<1>7. CASE Exit
    BY <1>7 DEF Exit, Exits, Isolated, machine, supervisor, pipes, worker, ShapeSame, Early
<1> QED
    BY <1>1, <1>2, <1>3, <1>4, <1>5, <1>6, <1>7, Zenon
       DEF WorkStep

\* What may happen besides.
LEMMA UnexpectedKeepsShape ==
    ASSUME Unexpected \/ UNCHANGED vars
    PROVE  ShapeSame
<1>1. CASE Replace
    BY <1>1 DEF Replace, machine, supervisor, pipes, worker, ShapeSame, Early
<1>2. CASE ParentDies
    BY <1>2 DEF ParentDies, machine, supervisor, pipes, worker, ShapeSame, Early
<1>3. CASE Crash
    BY <1>3 DEF Crash, machine, supervisor, pipes, worker, ShapeSame, Early
<1>4. CASE Fork
    BY <1>4 DEF Fork, machine, supervisor, pipes, worker, ShapeSame, Early
<1>5. CASE HelperExits
    BY <1>5 DEF HelperExits, machine, supervisor, pipes, worker, ShapeSame, Early
<1>6. CASE UNCHANGED vars
    BY <1>6, Zenon DEF vars, machine, supervisor, pipes, worker, ShapeSame, Early
<1> QED
    BY <1>1, <1>2, <1>3, <1>4, <1>5, <1>6
       DEF Unexpected

LEMMA PinKeepsShape ==
    ASSUME Shape, PinExecutable
    PROVE  Shape'
<1>1. /\ deployment' = deployment /\ process' = process /\ boot' = boot
      /\ pin_executable(deployment, process.uid[2])
    BY DEF PinExecutable, worker
<1>2. (IF boot \in Early THEN Inherited(process) ELSE Dropped(process))'
    BY <1>1 DEF Shape
<1>3. pin_executable(deployment, process.uid[2])'
    BY <1>1, Zenon
<1> QED
    BY <1>2, <1>3, Zenon DEF Shape

LEMMA SpawnKeepsShape ==
    ASSUME Shape, Spawn
    PROVE  Shape'
<1>1. /\ deployment' = deployment /\ process' = process /\ boot' = boot
      /\ pin_executable(deployment, process.uid[2])
    BY Zenon DEF Spawn, machine, Shape
<1>2. (IF boot \in Early THEN Inherited(process) ELSE Dropped(process))'
    BY <1>1 DEF Shape
<1>3. pin_executable(deployment, process.uid[2])'
    BY <1>1
<1> QED
    BY <1>2, <1>3 DEF Shape

LEMMA DropKeepsShape ==
    ASSUME Inv, Shape, DropCredentials
    PROVE  Shape'
<1> DEFINE l == LowerLimits(close_inherited_worker_descriptors(process))
<1>1. /\ boot = "isolate" /\ proc = "running"
      /\ deployment' = deployment /\ mode' = mode
    BY Zenon DEF DropCredentials, supervisor
<1>2. Inherited(process)
    BY <1>1, Zenon DEF Shape, Early
<1>3. CASE process' = process /\ boot' = boot /\ proc' = "exited"
  <2>1. ShapeSame
    BY <1>1, <1>3, Zenon DEF ShapeSame
  <2> QED
    BY <2>1, ShapeSameKeeps
<1>4. CASE process' = Drop(l) /\ boot' = "dropped"
  <2>1. Dropped(process')
    BY <1>2, <1>4, DropIsDropped
  <2>2. boot' \notin Early /\ mode' \notin {"prepare", "spawn"}
    BY <1>1, <1>4, Zenon DEF Early, Inv, Owed
  <2> QED
    BY <2>1, <2>2 DEF Shape
<1>5. \/ process' = process /\ boot' = boot /\ proc' = "exited"
      \/ process' = Drop(l) /\ boot' = "dropped"
    BY DEF DropCredentials, Exits
<1> QED
    BY <1>3, <1>4, <1>5, Zenon

\* Sealing keeps identifiers, groups and descriptors.
LEMMA SealKeepsShape ==
    ASSUME Inv, Shape, SealIsolation
    PROVE  Shape'
<1>1. /\ boot = "checked" /\ proc = "running" /\ mode' = mode
      /\ process' = Confine(process) /\ boot' \in {"isolated", "checked"}
    BY Zenon DEF SealIsolation, Exits, supervisor
<1>2. Dropped(process)
    BY <1>1 DEF Shape, Early
<1>3. /\ process'.uid = process.uid /\ process'.gid = process.gid
      /\ process'.groups = process.groups /\ process'.descriptors = process.descriptors
    BY <1>1, ConfinedFields, Zenon
<1>4. Dropped(process')
    BY <1>2, <1>3 DEF Dropped
<1>5. boot' \notin Early /\ mode' \notin {"prepare", "spawn"}
    BY <1>1 DEF Early, Inv, Owed
<1> QED
    BY <1>4, <1>5 DEF Shape

LEMMA ShapeInductive ==
    ASSUME Inv, Shape, [Next]_vars
    PROVE  Shape'
<1>1. CASE PinExecutable
    BY <1>1, PinKeepsShape
<1>2. CASE Spawn
    BY <1>2, SpawnKeepsShape
<1>3. CASE DropCredentials
    BY <1>3, DropKeepsShape
<1>4. CASE SealIsolation
    BY <1>4, SealKeepsShape
<1>5. CASE CallerStep \/ PinRefused \/ PoolStep \/ PrepareStep
    BY <1>5, PreparationKeepsShape, ShapeSameKeeps
<1>6. CASE SpawnFails \/ Spawned \/ PlaceStep
    BY <1>6, PlacementKeepsShape, ShapeSameKeeps
<1>7. CASE ExchangeStep \/ Timeout \/ Cancelled
    BY <1>7, ExchangeKeepsShape, ShapeSameKeeps
<1>8. CASE CleanupStep \/ DiagnosticsStep
    BY <1>8, CleanupKeepsShape, ShapeSameKeeps
<1>9. CASE ArmBeforeExec \/ CheckBeforeExec \/ RecordParent \/ Rearm \/ CheckParent
    BY <1>9, BootKeepsShape, ShapeSameKeeps
<1>10. CASE WorkStep
    BY <1>10, WorkKeepsShape, ShapeSameKeeps
<1>11. CASE Unexpected \/ UNCHANGED vars
    BY <1>11, UnexpectedKeepsShape, ShapeSameKeeps
<1> QED
    BY <1>1, <1>2, <1>3, <1>4, <1>5, <1>6, <1>7, <1>8, <1>9, <1>10, <1>11, Zenon
       DEF Next, PinStep, SpawnStep, Supervision, BootStep

LEMMA ShapeInitially == Init => Shape
<1> SUFFICES ASSUME Init PROVE Shape
    BY Zenon
<1>1. boot = "fork" /\ mode = "pin" /\ proc = "none" /\ op \in Operations
    BY Zenon DEF Init
<1>2. PICK start \in Starts[op] : process = start.process
    BY DEF Init
<1>3. Inherited(process)
    BY <1>1, <1>2, StartsAssumption
<1> QED
    BY <1>1, <1>3 DEF Shape, Early

LEMMA WholeAlways == Spec => []Whole
<1>1. Init => Whole
    BY Initially, ExchangeInitially, ShapeInitially DEF Whole
<1>2. Whole /\ [Next]_vars => Whole'
    BY Inductive, ExchangeInductive, EndedInductive, ShapeInductive DEF Whole
<1> QED
    BY <1>1, <1>2, PTL DEF Spec

-----------------------------------------------------------------------------
(* What a trusted worker is.                                               *)

LEMMA FirstIsReady ==
    ASSUME op \in AllOperations
    PROVE  Script[1] = "ready"
<1>1. /\ ProbeScript[1] = "ready" /\ TransportScript[1] = "ready"
      /\ RestoreScript[1] = "ready" /\ CaptureScript[1] = "ready"
    BY DEF ProbeScript, TransportScript, RestoreScript, CaptureScript
<1>2. \/ Script = ProbeScript \/ Script = TransportScript
      \/ Script = RestoreScript \/ Script = CaptureScript
    BY DEF Script, AllOperations
<1> QED
    BY <1>1, <1>2, Zenon

LEMMA TrustedFacts ==
    ASSUME Whole, Trusted
    PROVE  /\ "ready" \in Passed /\ wstep > 1 /\ lied \cap {"ready", "ack"} = {}
<1>1. Positions
    BY DEF Whole, Exchange
<1>2. CASE GuestStarted
  <2>1. "E" \in Done
    BY <1>1, <1>2, WorkerPosition
  <2>2. "E" \in Passed
    BY <2>1 DEF Whole, Exchange, Inputs
  <2>3. "ready" \in Passed /\ "ack" \in Passed
    BY <1>1, <2>2, ParentPosition
  <2>4. lied \cap {"ready", "ack"} = {}
    BY <2>3 DEF Whole, Exchange, Collected
  <2>5. wstep > 1
    BY <1>1, <2>1, NothingYet, WorkerPosition
  <2> QED
    BY <2>3, <2>4, <2>5
<1>3. CASE outcome = "ok"
  <2>1. step = Len(Script) /\ wstep = Len(WorkerScript) + 1
    BY <1>3 DEF Whole, Ended
  <2>2. /\ Len(Script) \in Nat /\ Len(Script) >= 3
        /\ Len(WorkerScript) \in Nat /\ Len(WorkerScript) >= 1
    BY <1>1, ParentPosition, WorkerPosition
  <2>3. 1 \in 1 .. step - 1 /\ wstep > 1
    BY <2>1, <2>2
  <2>4. "ready" \in Passed
    BY <1>1, <2>3, FirstIsReady DEF Passed, Positions
  <2>5. lied \cap {"ready", "ack"} \subseteq Passed
    BY <1>1, <2>1, AllAwaited DEF Whole, Exchange, Frames
  <2>6. lied \cap {"ready", "ack"} = {}
    BY <2>5, Zenon DEF Whole, Exchange, Collected
  <2> QED
    BY <2>3, <2>4, <2>6
<1> QED
    BY <1>2, <1>3 DEF Trusted

(* A worker is started only from a file that nobody but root and the         *)
(* runtime's user can change or replace (pin_executable), and the guest runs *)
(* only in the image whose digest was pinned, also when an upgrade renames   *)
(* another file over the path, or writes into it, before the exec.           *)
THEOREM ImageIsTrusted == Spec => []TrustedImage
<1>1. Whole => TrustedImage
  <2> SUFFICES ASSUME Whole PROVE TrustedImage
    OBVIOUS
  <2>1. ASSUME proc = "running", boot \in Early,
               NEW entry \in {deployment.file}
                   \cup {deployment.ancestors[i] : i \in DOMAIN deployment.ancestors}
        PROVE  {entry.owner} \cup entry.writers \subseteq {0, process.uid[2]}
    <3>1. OpenPinned(deployment, process.uid[2])
      BY <2>1, Zenon DEF Whole, Shape, pin_executable
    <3>2. entry.owner \in {0, process.uid[2]} /\ entry.writers = {}
      BY <3>1 DEF OpenPinned, validate_worker_ancestors, validate_worker_ancestor,
                  validate_worker_file_stat, trusted_worker_owner
    <3> QED
      BY <3>2, Zenon
  <2>2. ASSUME Trusted PROVE image = pinned.sha256 /\ Release(image) = Release("this")
    BY <2>2, TrustedFacts, Zenon DEF Whole, Exchange, MetadataValid
  <2> QED
    BY <2>1, <2>2 DEF TrustedImage, Early
<1> QED
    BY <1>1, WholeAlways, PTL

(* The guest runs, and an operation succeeds, only in a worker whose Ready   *)
(* report and acknowledgement the parent has validated, and that holds no    *)
(* root identifier, no capability, no descriptor and no group but the        *)
(* allowed ones, and can raise none of its limits again                      *)
(* (validate_worker_metadata, isolate_worker_process).                       *)
THEOREM RunIsAuthorized == Spec => []AuthorizedRun
<1>1. Whole => AuthorizedRun
  <2> SUFFICES ASSUME Whole, Trusted PROVE AuthorizedRun
    BY Zenon DEF AuthorizedRun
  <2>1. /\ "ready" \in Passed /\ wstep > 1 /\ lied \cap {"ready", "ack"} = {}
    BY TrustedFacts, Zenon
  <2>2. Dropped(process)
    BY <2>1, Zenon DEF Whole, Shape, Exchange, Positions, Early
  <2>3. IsolationValid(process, deployment.config.groups)
    BY <2>1, Zenon DEF Whole, Exchange, MetadataValid
  <2>4. \A i \in 1 .. 4 : process.uid[i] # 0 /\ process.gid[i] # 0
    BY <2>2, <2>3, Zenon DEF IsolationValid, Dropped, Range
  <2>5. \A i \in 1 .. 4 : process.capabilities[i] = 0
    BY <2>3 DEF IsolationValid
  <2>6. {process.groups[i] : i \in DOMAIN process.groups}
            = {deployment.config.groups[i] : i \in DOMAIN deployment.config.groups} \ {0}
    <3>1. /\ Range(Sorted(process.groups)) = Range(process.groups) /\ 0 \notin Range(process.groups)
          /\ Sorted(process.groups) = deployment.config.groups
      BY <2>2, <2>3, Zenon DEF IsolationValid, Dropped
    <3>2. Range(process.groups) = Range(deployment.config.groups) \ {0}
      BY <3>1
    <3> QED
      BY <3>2, Zenon DEF Range
  <2>7. \A r \in DOMAIN Profile :
            process.limits[r][1] = process.limits[r][2] /\ process.limits[r][2] <= Profile[r]
    <3>1. process.limits["core"] = <<0, 0>>
      BY <2>3, Zenon DEF IsolationValid
    <3>2. \A r \in {"fsize", "as", "nofile"} :
              process.limits[r][1] = process.limits[r][2] /\ process.limits[r][1] <= Profile[r]
      BY <2>3, Zenon DEF IsolationValid, WithinProfile
    <3>3. DOMAIN Profile = {"core", "fsize", "as", "nofile"} /\ Profile["core"] = 0
      BY Zenon DEF Profile
    <3> QED
      BY <3>1, <3>2, <3>3
  <2>8. process.no_new_privileges /\ ~process.dumpable
    BY <2>3, Zenon DEF IsolationValid
  <2> QED
    BY <2>1, <2>2, <2>4, <2>5, <2>6, <2>7, <2>8, Zenon DEF AuthorizedRun, Dropped
<1> QED
    BY <1>1, WholeAlways, PTL

(* From what it inherits a worker comes up, and its report is accepted,      *)
(* exactly when the deployment is a sound one (isolate_worker_process,       *)
(* lower_worker_limit, validate_worker_isolation): soft and hard limits,     *)
(* identifiers, groups and descriptors in any combination.                   *)
THEOREM SoundComesUp == Spec => []ComesUpIfSound
<1>1. Whole => ComesUpIfSound
  <2> SUFFICES ASSUME Whole, proc = "running", boot = "isolate" PROVE ComesUpIfSound
    BY DEF ComesUpIfSound
  <2> DEFINE l == LowerLimits(close_inherited_worker_descriptors(process))
             f == Confine(Drop(l))
             allowed == deployment.config.groups
             root == HasRootCredentials(process)
  <2>1. Inherited(process) /\ validate_common(deployment.config)
    BY DEF Whole, Shape, Early, pin_executable
  <2>a. l = LowerLimits(close_inherited_worker_descriptors(process)) /\ f = Confine(Drop(l))
    OBVIOUS
  <2> HIDE DEF f, l
  <2>2. /\ MayDrop(l) <=> (root => Privileged(process))
        /\ f.groups = IF root THEN <<>> ELSE process.groups
        /\ f.limits = [r \in DOMAIN Profile |->
                          lower_worker_limit(process.limits[r], Profile[r])]
        /\ f.descriptors = {0, 1, 2}
        /\ f.no_new_privileges = TRUE /\ f.dumpable = FALSE /\ f.capabilities = <<0, 0, 0, 0>>
        /\ 0 \notin Range(f.uid) \cup Range(f.gid)
        /\ f.uid[4] = f.uid[2] /\ f.gid[4] = f.gid[2]
    <3>1. FinalIs(process, l, f)
      BY <2>1, <2>a, FinalFields
    <3> QED
      BY <3>1, Zenon DEF FinalIs
  <2>3. (\E i \in 1 .. 3 : process.uid[i] = 0 \/ process.gid[i] = 0) <=> root
    BY RootIdentifiers, Zenon
  <2> HIDE DEF root
  <2>4. /\ f.limits.core = <<0, 0>>
        /\ \A r \in {"fsize", "as"} :
               WithinProfile(f.limits[r], Profile[r]) <=>
                   process.limits[r][1] # 0 /\ process.limits[r][2] # 0
        /\ CanOpen(f) <=>
               \A i \in 1 .. 2 : \/ process.limits.nofile[i] = Unlimited
                                 \/ process.limits.nofile[i] > 3
        /\ CanOpen(f) => WithinProfile(f.limits["nofile"], Profile["nofile"])
    BY <2>1, <2>2, FinalLimits, Zenon
  <2> DEFINE room == \A r \in {"fsize", "as"} :
                         process.limits[r][1] # 0 /\ process.limits[r][2] # 0
             kept == /\ 0 \notin Range(f.groups)
                     /\ Len(f.groups) <= WASIX_WORKER_MAX_SUPPLEMENTARY_GROUPS
                     /\ Sorted(f.groups) = allowed
  <2>5. CanOpen(f) => (IsolationValid(f, allowed) <=> kept /\ room)
    BY <2>2, <2>4, Zenon DEF IsolationValid
  <2>6. CanOpen(f) /\ kept /\ room => IsolationVerified(f)
    BY <2>2, <2>4, Zenon DEF IsolationValid, IsolationVerified
  <2>7. IsolationVerified(f) => CanOpen(f)
    BY Zenon DEF IsolationVerified
  <2>8. kept <=> IF root THEN allowed = <<>>
                 ELSE /\ Sorted(process.groups) = allowed
                      /\ \A i \in DOMAIN process.groups : process.groups[i] # 0
    <3>1. CASE root
      <4>1. f.groups = <<>>
        BY <2>2, <3>1
      <4>2. Range(<<>>) = {} /\ Len(<<>>) = 0 /\ Sorted(<<>>) = <<>>
        BY StartsAssumption DEF Range
      <4>3. Len(<<>>) <= WASIX_WORKER_MAX_SUPPLEMENTARY_GROUPS
        BY <4>2 DEF WASIX_WORKER_MAX_SUPPLEMENTARY_GROUPS
      <4>4. kept <=> <<>> = allowed
        BY <4>1, <4>2, <4>3, Zenon
      <4> QED
        BY <3>1, <4>4, Zenon
    <3>2. CASE ~root
      <4>1. f.groups = process.groups
        BY <2>2, <3>2, Zenon
      <4>2. Sorted(process.groups) = allowed =>
                Len(process.groups) <= WASIX_WORKER_MAX_SUPPLEMENTARY_GROUPS
        BY <2>1 DEF Inherited, validate_common
      <4>3. 0 \notin Range(process.groups) <=>
                \A i \in DOMAIN process.groups : process.groups[i] # 0
        BY Zenon DEF Range
      <4> QED
        BY <3>2, <4>1, <4>2, <4>3, Zenon
    <3> QED
      BY <3>1, <3>2, Zenon
  <2> HIDE DEF kept, room, allowed
  <2>9. SoundProcess(process, allowed) <=>
            /\ root => Privileged(process)
            /\ kept /\ room /\ CanOpen(process) /\ CanOpen(f)
    BY <2>3, <2>4, <2>8, Zenon DEF SoundProcess, room
  <2>10. SoundProcess(process, allowed) <=>
             /\ CanOpen(process) /\ MayDrop(l)
             /\ IsolationVerified(f) /\ IsolationValid(f, allowed)
    BY <2>2, <2>5, <2>6, <2>7, <2>9, Zenon
  <2> QED
    BY <2>10 DEF ComesUpIfSound, allowed, f, l
<1> QED
    BY <1>1, WholeAlways, PTL
=============================================================================
