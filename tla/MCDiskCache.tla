----------------------------- MODULE MCDiskCache -----------------------------
(***************************************************************************)
(* DiskCache for two processes, one of which holds two runtimes, and       *)
(* configurations that differ in key, engine or entry limit.               *)
(***************************************************************************)
EXTENDS DiskCache

Lengths == [e \in {"engine1", "engine2"} |-> IF e = "engine1" THEN 1 ELSE 2]

Installed  == [key |-> "key1", engine |-> "engine1", max_entry_bytes |-> 2]
RotatedKey == [Installed EXCEPT !.key = "key2"]
Upgraded   == [Installed EXCEPT !.engine = "engine2"]
Limited    == [Upgraded EXCEPT !.max_entry_bytes = 1]

OneConfig   == {Installed}
AllConfigs  == {Installed, RotatedKey, Upgraded, Limited}

ThreeRuntimes == [r \in {"r1", "r2", "r3"} |-> IF r = "r3" THEN "p2" ELSE "p1"]
OneRuntime    == [r \in {"r1"} |-> "p1"]

DistinctPids == [p \in {"p1", "p2"} |-> IF p = "p1" THEN 1 ELSE 2]
=============================================================================
