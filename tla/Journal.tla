------------------------------- MODULE Journal -------------------------------
(***************************************************************************)
(* The WASIX journal as its three readers see it: the capture worker that  *)
(* finds the snapshot boundary, the codec that scans record framing, and   *)
(* the restore worker that checks the module.  A journal is a sequence of  *)
(* records; a record is abstracted to its kind, "init" with the module its *)
(* hash names.  "junk" stands for every record the framing rules refuse    *)
(* (unknown type, empty body, truncation, repeated magic).                 *)
(***************************************************************************)
EXTENDS Naturals, Sequences, FiniteSets

CONSTANT Modules

Records ==
    [kind : {"init"}, module : Modules]
        \cup [kind : {"thread", "explicit", "periodic", "data", "junk"}]
Snapshots == {"explicit", "periodic"}

Kind(record) == record.kind
CountKind(journal, kinds) ==
    Cardinality({i \in DOMAIN journal : Kind(journal[i]) \in kinds})

-----------------------------------------------------------------------------
(* scan_journal: one pass with a cursor and three counters.                *)

\* Fault: the initialization is counted, not required to come first.
ScanRecordAnyOrder(state, record, isLast) ==
    [ok |-> /\ state.ok
            /\ Kind(record) # "junk"
            /\ Kind(record) = "init" => state.inits = 0
            /\ Kind(record) \in Snapshots => isLast,
     records |-> state.records + 1,
     inits |-> state.inits + (IF Kind(record) = "init" THEN 1 ELSE 0),
     threads |-> state.threads + (IF Kind(record) = "thread" THEN 1 ELSE 0),
     snapshots |-> state.snapshots + (IF Kind(record) \in Snapshots THEN 1 ELSE 0)]

\* A record is refused when it is malformed, an initialization that is not
\* the first record, or a snapshot that is not the last.
ScanRecord(state, record, isLast) ==
    [ok |-> /\ state.ok
            /\ Kind(record) # "junk"
            /\ Kind(record) = "init" => state.records = 0 /\ state.inits = 0
            /\ Kind(record) \in Snapshots => isLast,
     records |-> state.records + 1,
     inits |-> state.inits + (IF Kind(record) = "init" THEN 1 ELSE 0),
     threads |-> state.threads + (IF Kind(record) = "thread" THEN 1 ELSE 0),
     snapshots |-> state.snapshots + (IF Kind(record) \in Snapshots THEN 1 ELSE 0)]

ScanStart == [ok |-> TRUE, records |-> 0, inits |-> 0, threads |-> 0, snapshots |-> 0]

\* The states of the scan, after each number of records.
ScanStates(journal) ==
    LET state[i \in 0 .. Len(journal)] ==
            IF i = 0 THEN ScanStart
            ELSE ScanRecord(state[i - 1], journal[i], i = Len(journal))
    IN  state

Scan(journal) ==
    LET end == ScanStates(journal)[Len(journal)]
    IN  /\ end.ok
        /\ end.inits = 1 /\ end.threads > 0 /\ end.snapshots = 1
        /\ Kind(journal[Len(journal)]) \in Snapshots

-----------------------------------------------------------------------------
(* inspect_captured_journal: the position after the one explicit snapshot  *)
(* of a completed capture, 0 for a journal that is refused.  All junk is   *)
(* taken to be an error of the library's LogFileJournal::read; what that   *)
(* let pass, the parent's Scan would refuse.                               *)

\* Fault: the trigger of a snapshot is not looked at.
CheckpointEndAnyTrigger(journal, module) ==
    IF /\ CountKind(journal, {"junk"}) = 0
       /\ \A i \in DOMAIN journal :
              Kind(journal[i]) = "init" => journal[i].module = module
       /\ CountKind(journal, {"init"}) = 1
       /\ CountKind(journal, {"thread"}) > 0
       /\ CountKind(journal, Snapshots) = 1
    THEN CHOOSE i \in DOMAIN journal : Kind(journal[i]) \in Snapshots
    ELSE 0

CheckpointEnd(journal, module) ==
    IF /\ CountKind(journal, {"junk"}) = 0
       /\ \A i \in DOMAIN journal :
              Kind(journal[i]) = "init" => journal[i].module = module
       /\ CountKind(journal, {"init"}) = 1
       /\ CountKind(journal, {"thread"}) > 0
       /\ CountKind(journal, {"explicit"}) = 1
    THEN CHOOSE i \in DOMAIN journal : Kind(journal[i]) = "explicit"
    ELSE 0

(* checked_restore_journal: exactly one initialization, of this module.    *)
RestoreAccepts(journal, module) ==
    /\ CountKind(journal, {"junk"}) = 0
    /\ \A i \in DOMAIN journal :
           Kind(journal[i]) = "init" => journal[i].module = module
    /\ CountKind(journal, {"init"}) = 1

-----------------------------------------------------------------------------
(* What a replayable journal is, independently of how it is found out.     *)
WellFramed(journal) ==
    /\ journal # <<>>
    /\ \A i \in DOMAIN journal :
           /\ Kind(journal[i]) # "junk"
           /\ Kind(journal[i]) = "init" <=> i = 1
           /\ Kind(journal[i]) \in Snapshots <=> i = Len(journal)
    /\ \E i \in DOMAIN journal : Kind(journal[i]) = "thread"
=============================================================================
