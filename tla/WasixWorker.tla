----------------------------- MODULE WasixWorker -----------------------------
(***************************************************************************)
(* One WASIX worker operation: the runtime process that prepares the       *)
(* sealed inputs, spawns and places the worker, supervises the framed      *)
(* exchange and cleans up, and the worker process that isolates itself,    *)
(* answers the exchange and runs the guest.                                *)
(*                                                                         *)
(* The exchange of each operation is a script: the sequence of inputs and  *)
(* frames in the order the code sends and awaits them.  Inputs travel on   *)
(* the control socket, frames on the worker's stdout pipe.  Frame bodies   *)
(* are abstracted to whether they satisfy the parent's validation: "lied"  *)
(* is the set of frames the worker wrote that do not.                      *)
(***************************************************************************)
EXTENDS WorkerIsolation

CONSTANTS
    Operations,  \* the operations a caller may start
    Events,      \* what may happen besides the ordinary exchange
    Starts,      \* by operation: the deployments and inherited processes it starts from
    PipeFrames,  \* frames the stdout pipe holds
    PipeLogs,    \* diagnostics the stderr pipe holds
    Logs         \* diagnostics the worker writes while the guest runs

AllOperations == {"probe", "transport", "restore", "capture"}
AllEvents ==
    {"fault", "timeout", "cancel", "fork", "crash", "place", "refuse", "replace"}
Images == {"this", "patched", "older"}

Installed(start) == start.deployment.image \in Images

ASSUME WorkerConstants ==
    /\ Operations \subseteq AllOperations
    /\ Events \subseteq AllEvents
    /\ \A o \in Operations : \A s \in Starts[o] : Installed(s)
    /\ PipeFrames \in Nat \ {0}
    /\ PipeLogs \in Nat \ {0}
    /\ Logs \in Nat

ASSUME StartsAssumption ==
    /\ \A o \in Operations : \A s \in Starts[o] : Inherited(s.process)
    /\ Sorted(<<>>) = <<>>

VARIABLES
    op,        \* the operation
    deployment,\* its configuration and the file installed
    files,     \* the file the path names, and the content of each file
    pinned,    \* the file the parent holds open, and its digest
    process,   \* what the worker process inherits and makes of itself
    image,     \* the content the worker runs
    caller,    \* "waiting", "dropped" (its future) or "cancelled" (its token)
    mode,      \* where the parent is in the operation
    preps,     \* memfd preparations still to be finished
    prep,      \* the blocking task of the current preparation
    late,      \* the preparation's timeout has fired
    step,      \* the parent's position in its script
    outcome,   \* what the caller is told
    reaper,    \* a detached task waits for the worker
    parent,    \* the runtime process is alive
    control,   \* inputs in the control socket
    closed,    \* the parent has shut its end of the control socket
    out,       \* frames in the stdout pipe
    err,       \* diagnostics in the stderr pipe
    proc,      \* the worker process
    status,    \* how it ended
    helper,    \* another live process of the worker's group
    boot,      \* the worker's progress to the end of its isolation
    armed,     \* its parent-death signal is set
    expected,  \* the parent it recorded was the runtime
    wstep,     \* its position in its script
    logs,      \* diagnostics written
    lied       \* frames written that validation refuses

supervisor == <<mode, preps, prep, late, step, outcome, reaper>>
pipes == <<control, closed, out, err>>
worker == <<proc, status, helper, boot, armed, expected, wstep, logs, lied>>
machine == <<deployment, files, pinned, process, image>>
vars == <<op, machine, caller, supervisor, parent, pipes, worker>>

-----------------------------------------------------------------------------
(* Scripts.  "eof" is the shutdown or drop of the parent's control socket, *)
(* "end" the read that must find the stdout pipe at its end.               *)

ProbeScript == <<"ready", "end", "wait">>
TransportScript == <<"ready", "C", "eof", "ack", "end", "wait">>
RestoreScript ==
    <<"ready", "M", "C", "ack", "E", "eof",
      "completion", "stdout", "stderr", "end", "wait">>
CaptureScript ==
    <<"ready", "M", "R", "ack", "E", "eof",
      "completion", "journal", "stdout", "stderr", "end", "wait">>

ProbeWorker == <<"ready">>
TransportWorker == <<"ready", "C", "ack">>
RestoreWorker ==
    <<"ready", "M", "C", "ack", "E", "eof", "run",
      "completion", "stdout", "stderr">>
CaptureWorker ==
    <<"ready", "M", "R", "ack", "E", "eof", "run",
      "completion", "journal", "stdout", "stderr">>

Script ==
    CASE op = "probe" -> ProbeScript
      [] op = "transport" -> TransportScript
      [] op = "restore" -> RestoreScript
      [] op = "capture" -> CaptureScript
WorkerScript ==
    CASE op = "probe" -> ProbeWorker
      [] op = "transport" -> TransportWorker
      [] op = "restore" -> RestoreWorker
      [] op = "capture" -> CaptureWorker

Inputs == {"M", "C", "R", "E"}
Collected == {"completion", "journal", "stdout"}
Frames == {"ready", "ack", "stderr"} \cup Collected

HasDiagnostics == op \in {"restore", "capture"}
Preparations ==
    CASE op = "probe" -> 0
      [] op = "restore" -> 2
      [] OTHER -> 1

Awaits == Script[step]
Doing == IF wstep <= Len(WorkerScript) THEN WorkerScript[wstep] ELSE "exit"
StdoutOpen == parent /\ mode \in {"spawning", "place", "run"}
NoWriter == proc # "running" /\ ~helper

-----------------------------------------------------------------------------
Init ==
    /\ op \in Operations
    /\ \E start \in Starts[op] :
          /\ deployment = start.deployment
          /\ process = start.process
    /\ files = [named |-> 1, content |-> <<deployment.image, "patched">>]
    /\ pinned = [file |-> 0, sha256 |-> "none"]
    /\ image = "none"
    /\ caller = "waiting"
    /\ mode = "pin"
    /\ preps = Preparations
    /\ prep = "none"
    /\ late = FALSE
    /\ step = 1
    /\ outcome = "none"
    /\ reaper = FALSE
    /\ parent = TRUE
    /\ control = <<>>
    /\ closed = FALSE
    /\ out = <<>>
    /\ err = 0
    /\ proc = "none"
    /\ status = "none"
    /\ helper = FALSE
    /\ boot = "fork"
    /\ armed = FALSE
    /\ expected = FALSE
    /\ wstep = 1
    /\ logs = 0
    /\ lied = {}

-----------------------------------------------------------------------------
(* The caller.                                                             *)

\* The caller drops the future of the operation: the supervisor's guard
\* sends on its cancellation channel.
DropCaller ==
    /\ "cancel" \in Events
    /\ caller # "dropped" /\ mode # "answered"
    /\ caller' = "dropped"
    /\ UNCHANGED <<op, machine, supervisor, parent, pipes, worker>>

\* The caller cancels the token a capture takes.
CancelToken ==
    /\ "cancel" \in Events
    /\ op = "capture" /\ caller = "waiting" /\ mode # "answered"
    /\ caller' = "cancelled"
    /\ UNCHANGED <<op, machine, supervisor, parent, pipes, worker>>

-----------------------------------------------------------------------------
(* The parent: the pinned executable, sealed inputs, spawn and placement.  *)

Answer(result) ==
    /\ mode' = "answered"
    /\ outcome' = result

\* A checkpoint was authenticated with the digest of this release's worker,
\* and goes to no other.
BuildMatches == op \in {"transport", "restore"} => files.content[files.named] = "this"

\* The configuration and the executable are checked; the file found under the
\* path stays open and its digest is kept.
PinExecutable ==
    /\ parent
    /\ mode = "pin" /\ caller # "cancelled"
    /\ pin_executable(deployment, process.uid[2])
    /\ BuildMatches
    /\ pinned' = [file |-> files.named, sha256 |-> files.content[files.named]]
    /\ mode' = IF op = "probe" THEN "spawn" ELSE "prepare"
    /\ prep' = IF op = "probe" THEN "none" ELSE "queued"
    /\ UNCHANGED <<op, deployment, files, process, image, caller, preps, late, step,
                   outcome, reaper, parent, pipes, worker>>

\* The command is not "_start", the module, the journal or the capture request
\* is empty or over its limit.
InputsRefused == op # "probe" /\ "fault" \in Events

\* A capture looks at its token between its request and the file.
PinRefused ==
    /\ parent
    /\ mode = "pin"
    /\ \/ /\ caller = "cancelled" /\ validate_common(deployment.config)
          /\ Answer("cancelled")
       \/ /\ \/ InputsRefused
             \/ /\ caller = "cancelled" => ~validate_common(deployment.config)
                /\ ~pin_executable(deployment, process.uid[2]) \/ ~BuildMatches
          /\ Answer("failed")
    /\ UNCHANGED <<op, machine, caller, preps, prep, late, step, reaper, parent, pipes,
                   worker>>

\* An upgrade puts another file under the path, or the owner writes into the
\* file itself, which Linux allows until it runs.
Replace ==
    /\ "replace" \in Events /\ deployment.upgraded
    /\ proc = "none" \/ (proc = "running" /\ boot \in {"fork", "arm"})
    /\ mode # "answered"
    /\ files.named = 1 /\ files.content = <<deployment.image, "patched">>
    /\ \/ files' = [files EXCEPT !.named = 2]
       \/ files' = [files EXCEPT !.content[1] = "patched"]
    /\ UNCHANGED <<op, deployment, pinned, process, image, caller, supervisor, parent,
                   pipes, worker>>

\* A thread of the blocking pool takes the preparation.
PoolStarts ==
    /\ parent
    /\ prep = "queued"
    /\ prep' = "running"
    /\ UNCHANGED <<op, machine, caller, mode, preps, late, step, outcome, reaper, parent, pipes, worker>>

\* It has sealed the memfd, or has seen the cancelled flag between chunks.
PoolFinishes ==
    /\ parent
    /\ prep = "running"
    /\ prep' = "done"
    /\ UNCHANGED <<op, machine, caller, mode, preps, late, step, outcome, reaper, parent, pipes, worker>>

\* The prepared input is taken: the operation goes on, or its digest is not
\* the expected one, or nothing of the deadline is left.
Prepared ==
    /\ parent
    /\ mode = "prepare" /\ prep = "done" /\ ~late
    /\ \/ /\ preps' = preps - 1
          /\ \/ preps > 1 /\ prep' = "queued" /\ mode' = "prepare"
             \/ preps = 1 /\ prep' = "none" /\ mode' = "spawn"
          /\ UNCHANGED outcome
       \/ /\ "fault" \in Events
          /\ Answer("failed")
          /\ UNCHANGED <<preps, prep>>
       \/ /\ "timeout" \in Events
          /\ Answer("timeout")
          /\ UNCHANGED <<preps, prep>>
    /\ UNCHANGED <<op, machine, caller, late, step, reaper, parent, pipes, worker>>

\* The wait for the preparation times out: it sets the cancelled flag and
\* awaits the blocking task before it answers.
PrepareTimeout ==
    /\ parent
    /\ "timeout" \in Events
    /\ mode = "prepare" /\ ~late
    /\ late' = TRUE
    /\ UNCHANGED <<op, machine, caller, mode, preps, prep, step, outcome, reaper, parent, pipes, worker>>

PrepareJoined ==
    /\ parent
    /\ mode = "prepare" /\ late /\ prep = "done"
    /\ Answer("timeout")
    /\ UNCHANGED <<op, machine, caller, preps, prep, late, step, reaper, parent,
                   pipes, worker>>

\* The preparation is dropped with its future: a queued task is aborted, a
\* running one sees the flag.
PrepareDropped ==
    /\ parent
    /\ mode = "prepare" /\ caller # "waiting"
    /\ prep' = IF prep = "queued" THEN "none" ELSE prep
    /\ Answer("cancelled")
    /\ UNCHANGED <<op, machine, caller, preps, late, step, reaper, parent, pipes, worker>>

\* The parent forks the worker and waits for its exec.
Spawn ==
    /\ parent
    /\ mode = "spawn"
    /\ mode' = "spawning"
    /\ proc' = "running"
    /\ UNCHANGED <<op, machine, caller, preps, prep, late, step, outcome, reaper,
                   parent, pipes, status, helper, boot, armed, expected, wstep,
                   logs, lied>>

\* The fork itself fails, or the child reports an error before its exec and
\* the library reaps it.
SpawnFails ==
    /\ parent
    /\ \/ mode = "spawn" /\ "fault" \in Events /\ UNCHANGED proc
       \/ mode = "spawning" /\ proc = "exited" /\ boot \in {"fork", "arm"} /\ proc' = "reaped"
    /\ Answer("failed")
    /\ UNCHANGED <<op, machine, caller, preps, prep, late, step, reaper, parent,
                   pipes, status, helper, boot, armed, expected, wstep, logs, lied>>

Spawned ==
    /\ parent
    /\ mode = "spawning" /\ boot \notin {"fork", "arm"}
    /\ mode' = IF "place" \in Events THEN "place" ELSE "run"
    /\ UNCHANGED <<op, machine, caller, preps, prep, late, step, outcome, reaper,
                   parent, pipes, worker>>

\* Fault: only the worker itself is signalled.
KillWorkerOnly ==
    /\ IF proc = "running"
       THEN proc' = "exited" /\ status' = "killed"
       ELSE UNCHANGED <<proc, status>>
    /\ UNCHANGED helper

\* SIGKILL to the worker's process group.
KillTree ==
    /\ helper' = FALSE
    /\ IF proc = "running"
       THEN proc' = "exited" /\ status' = "killed"
       ELSE UNCHANGED <<proc, status>>

PlacementAccepts ==
    /\ parent
    /\ mode = "place"
    /\ mode' = "run"
    /\ UNCHANGED <<op, machine, caller, preps, prep, late, step, outcome, reaper,
                   parent, pipes, worker>>

\* The policy returns an error or panics: the worker's group is killed.
PlacementRejects ==
    /\ parent
    /\ mode = "place" /\ "refuse" \in Events
    /\ mode' = "reject"
    /\ outcome' = "rejected"
    /\ KillTree
    /\ UNCHANGED <<op, machine, caller, preps, prep, late, step, reaper, parent,
                   pipes, boot, armed, expected, wstep, logs, lied>>

\* The rejected worker is reaped before the error is returned.
RejectReaps ==
    /\ parent
    /\ mode = "reject" /\ proc = "exited"
    /\ proc' = "reaped"
    /\ mode' = "answered"
    /\ UNCHANGED <<op, machine, caller, preps, prep, late, step, outcome, reaper,
                   parent, pipes, status, helper, boot, armed, expected, wstep,
                   logs, lied>>

\* The caller's future is dropped in that wait: the process guard kills
\* again and the library's orphan queue reaps.
RejectDropped ==
    /\ parent
    /\ mode = "reject" /\ caller = "dropped"
    /\ mode' = "answered"
    /\ reaper' = TRUE
    /\ KillTree
    /\ UNCHANGED <<op, machine, caller, preps, prep, late, step, outcome, parent,
                   pipes, boot, armed, expected, wstep, logs, lied>>

-----------------------------------------------------------------------------
(* The parent: the supervised exchange.                                    *)

Fail(result) ==
    /\ mode' = "cleanup"
    /\ outcome' = result
    /\ UNCHANGED <<op, machine, caller, preps, prep, late, reaper, parent>>

\* A descriptor, the request frame or the Execute byte is sent, or the socket
\* is shut; sending fails when the worker no longer holds its end.
Send ==
    /\ parent
    /\ mode = "run" /\ Awaits \in Inputs
    /\ \/ /\ proc = "running"
          /\ control' = Append(control, Awaits)
          /\ step' = step + 1
          /\ UNCHANGED <<op, machine, caller, mode, preps, prep, late, outcome, reaper, parent>>
       \/ /\ proc # "running"
          /\ Fail("failed")
          /\ UNCHANGED <<control, step>>
    /\ UNCHANGED <<closed, out, err, worker>>

ShutControl ==
    /\ parent
    /\ mode = "run" /\ Awaits = "eof"
    /\ closed' = TRUE
    /\ step' = step + 1
    /\ UNCHANGED <<op, machine, caller, mode, preps, prep, late, outcome, reaper,
                   parent, control, out, err, worker>>

\* Fault: frames are decoded, not validated.
AcceptsAny(frame) == TRUE

\* The completion frame tells the lengths and digests of what was collected.
CompletionMatches == lied \cap Collected = {}

\* A frame read and validated.  Completion, journal and stdout are checked
\* against each other only once stderr is there.
Accepts(frame) ==
    /\ frame \in lied => frame \in Collected
    /\ frame = "ready" =>
           MetadataValid(image, pinned.sha256, process, deployment.config.groups)
    /\ frame = "stderr" => CompletionMatches

Receive ==
    /\ parent
    /\ mode = "run" /\ Awaits \in Frames
    /\ out # <<>> /\ Head(out) = Awaits
    /\ Accepts(Awaits)
    /\ out' = Tail(out)
    /\ step' = step + 1
    /\ UNCHANGED <<op, machine, caller, mode, preps, prep, late, outcome, reaper,
                   parent, control, closed, err, worker>>

\* A frame that is malformed, refused or cut short by the end of the pipe.
ReceiveFails ==
    /\ parent
    /\ mode = "run" /\ Awaits \in Frames
    /\ \/ out # <<>> /\ (Head(out) # Awaits \/ Awaits \in lied \/ ~Accepts(Awaits))
       \/ out = <<>> /\ NoWriter
    /\ Fail("failed")
    /\ UNCHANGED <<step, pipes, worker>>

\* The read past the last frame: end of the pipe, or trailing bytes.
ReadEnd ==
    /\ parent
    /\ mode = "run" /\ Awaits = "end"
    /\ \/ /\ out = <<>> /\ NoWriter
          /\ step' = step + 1
          /\ UNCHANGED <<op, machine, caller, mode, preps, prep, late, outcome, reaper, parent>>
       \/ /\ out # <<>>
          /\ Fail("failed")
          /\ UNCHANGED step
    /\ UNCHANGED <<pipes, worker>>

\* Fault: the exit status is not looked at.
FinishUnchecked ==
    /\ parent
    /\ mode = "run" /\ Awaits = "wait" /\ proc = "exited"
    /\ proc' = "reaped"
    /\ helper' = FALSE
    /\ mode' = IF HasDiagnostics THEN "drain" ELSE "answered"
    /\ outcome' = "ok"
    /\ UNCHANGED <<op, machine, caller, preps, prep, late, step, reaper, parent,
                   pipes, status, boot, armed, expected, wstep, logs, lied>>

\* The worker is reaped, its group killed and the guard disarmed; then its
\* status decides.  A capture keeps a failing status, and may still refuse
\* the journal.
Finish ==
    /\ parent
    /\ mode = "run" /\ Awaits = "wait" /\ proc = "exited"
    /\ proc' = "reaped"
    /\ helper' = FALSE
    /\ mode' = IF HasDiagnostics THEN "drain" ELSE "answered"
    /\ \/ status = "zero" /\ outcome' = "ok"
       \/ status # "zero" /\ outcome' = "failed"
       \/ op = "capture" /\ "fault" \in Events /\ outcome' = "failed"
    /\ UNCHANGED <<op, machine, caller, preps, prep, late, step, reaper, parent, pipes,
                   status, boot, armed, expected, wstep, logs, lied>>

Timeout ==
    /\ parent
    /\ "timeout" \in Events
    /\ mode = "run"
    /\ Fail("timeout")
    /\ UNCHANGED <<step, pipes, worker>>

Cancelled ==
    /\ parent
    /\ mode = "run" /\ caller # "waiting"
    /\ Fail("cancelled")
    /\ UNCHANGED <<step, pipes, worker>>

-----------------------------------------------------------------------------
(* The parent: cleanup.                                                    *)

\* Probe and transport: kill, answer at once, leave the wait to a task.
HandToReaper ==
    /\ parent
    /\ mode = "cleanup" /\ ~HasDiagnostics
    /\ KillTree
    /\ mode' = "answered"
    /\ reaper' = TRUE
    /\ UNCHANGED <<op, machine, caller, preps, prep, late, step, outcome, parent,
                   pipes, boot, armed, expected, wstep, logs, lied>>

Reaper ==
    /\ parent
    /\ reaper /\ proc = "exited"
    /\ proc' = "reaped"
    /\ reaper' = FALSE
    /\ UNCHANGED <<op, machine, caller, mode, preps, prep, late, step, outcome, 
                   parent, pipes, status, helper, boot, armed, expected, wstep,
                   logs, lied>>

Observes == op = "restore" \/ (op = "capture" /\ outcome = "failed")

\* Restore, and a failed capture, give the worker a moment to end by itself.
ObserveExit ==
    /\ parent
    /\ mode = "cleanup" /\ Observes
    /\ proc = "exited"
    /\ proc' = "reaped"
    /\ mode' = "kill"
    /\ UNCHANGED <<op, machine, caller, preps, prep, late, step, outcome, reaper, parent,
                   pipes, status, helper, boot, armed, expected, wstep, logs, lied>>

\* The moment has passed, or none is given.
StopObserving ==
    /\ parent
    /\ mode = "cleanup" /\ HasDiagnostics
    /\ Observes => proc = "running"
    /\ mode' = "kill"
    /\ UNCHANGED <<op, machine, caller, preps, prep, late, step, outcome, reaper,
                   parent, pipes, worker>>

\* Fault: the killed worker is not awaited.
KillWithoutReaping ==
    /\ parent
    /\ mode = "kill"
    /\ KillTree
    /\ mode' = "drain"
    /\ UNCHANGED <<op, machine, caller, preps, prep, late, step, outcome, reaper,
                   parent, pipes, boot, armed, expected, wstep, logs, lied>>

KillWorker ==
    /\ parent
    /\ mode = "kill"
    /\ KillTree
    /\ mode' = IF proc = "reaped" THEN "drain" ELSE "reap"
    /\ UNCHANGED <<op, machine, caller, preps, prep, late, step, outcome, reaper,
                   parent, pipes, boot, armed, expected, wstep, logs, lied>>

Reap ==
    /\ parent
    /\ mode = "reap" /\ proc = "exited"
    /\ proc' = "reaped"
    /\ mode' = "drain"
    /\ UNCHANGED <<op, machine, caller, preps, prep, late, step, outcome, reaper,
                   parent, pipes, status, helper, boot, armed, expected, wstep,
                   logs, lied>>

\* Fault: the stderr pipe is read only once the exchange is over.
ReadDiagnosticsLate ==
    /\ parent
    /\ HasDiagnostics /\ mode = "drain"
    /\ err > 0
    /\ err' = err - 1
    /\ UNCHANGED <<op, machine, caller, supervisor, parent, control, closed, out, worker>>

\* The diagnostics task reads the stderr pipe from the start of supervision.
ReadDiagnostics ==
    /\ parent
    /\ HasDiagnostics /\ mode \in {"run", "cleanup", "kill", "reap", "drain"}
    /\ err > 0
    /\ err' = err - 1
    /\ UNCHANGED <<op, machine, caller, supervisor, parent, control, closed, out, worker>>

\* It ends at the end of the pipe, and with it the operation.
DiagnosticsEnd ==
    /\ parent
    /\ mode = "drain" /\ err = 0 /\ NoWriter
    /\ mode' = "answered"
    /\ UNCHANGED <<op, machine, caller, preps, prep, late, step, outcome, reaper,
                   parent, pipes, worker>>

\* The runtime process dies.  The kernel kills a worker whose parent-death
\* signal is set.
ParentDies ==
    /\ "crash" \in Events
    /\ parent
    /\ parent' = FALSE
    /\ closed' = TRUE
    /\ IF armed /\ proc = "running"
       THEN proc' = "exited" /\ status' = "killed"
       ELSE UNCHANGED <<proc, status>>
    /\ UNCHANGED <<op, machine, caller, supervisor, control, out, err, helper, boot, armed,
                   expected, wstep, logs, lied>>

-----------------------------------------------------------------------------
(* The worker.                                                             *)

Exits(how) ==
    /\ proc' = "exited"
    /\ status' = how
    /\ UNCHANGED <<helper, boot, armed, expected, wstep, logs, lied, pipes>>

\* Between fork and exec: set the parent-death signal, then look whether the
\* parent is still the runtime, and execute the file held open.
ArmBeforeExec ==
    /\ proc = "running" /\ boot = "fork"
    /\ armed' = TRUE
    /\ boot' = "arm"
    /\ UNCHANGED <<op, machine, caller, supervisor, parent, pipes, proc, status, helper,
                   expected, wstep, logs, lied>>

CheckBeforeExec ==
    /\ proc = "running" /\ boot = "arm"
    /\ \/ /\ parent
          /\ boot' = "exec"
          /\ image' = files.content[pinned.file]
          /\ UNCHANGED <<proc, status, helper, armed, expected, wstep, logs, lied, pipes>>
       \/ /\ ~parent \/ "fault" \in Events
          /\ Exits("nonzero")
          /\ UNCHANGED image
    /\ UNCHANGED <<op, deployment, files, pinned, process, caller, supervisor, parent>>

\* Isolation begins by recording the parent.
RecordParent ==
    /\ proc = "running" /\ boot = "exec"
    /\ expected' = parent
    /\ boot' = "isolate"
    /\ UNCHANGED <<op, machine, caller, supervisor, parent, pipes, proc, status, helper,
                   armed, wstep, logs, lied>>

\* Inherited descriptors are closed, limits lowered and root credentials
\* dropped, which may clear the parent-death signal; a step that Linux refuses
\* ends the worker.
DropCredentials ==
    /\ proc = "running" /\ boot = "isolate"
    /\ LET lowered == LowerLimits(close_inherited_worker_descriptors(process))
       IN  IF CanOpen(process) /\ MayDrop(lowered)
           THEN /\ process' = Drop(lowered)
                /\ armed' = (armed /\ ~ClearsDeathSignal(process, Drop(lowered)))
                /\ boot' = "dropped"
                /\ UNCHANGED <<proc, status, helper, expected, wstep, logs, lied, pipes>>
           ELSE /\ Exits("nonzero")
                /\ UNCHANGED process
    /\ UNCHANGED <<op, deployment, files, pinned, image, caller, supervisor, parent>>

Rearm ==
    /\ proc = "running" /\ boot = "dropped"
    /\ armed' = TRUE
    /\ boot' = "rearmed"
    /\ UNCHANGED <<op, machine, caller, supervisor, parent, pipes, proc, status, helper,
                   expected, wstep, logs, lied>>

\* Fault: the worker re-arms and does not look at its parent again.
NoParentCheck ==
    /\ proc = "running" /\ boot = "rearmed"
    /\ boot' = "checked"
    /\ UNCHANGED <<op, machine, caller, supervisor, parent, pipes, proc, status, helper,
                   armed, expected, wstep, logs, lied>>

\* The re-armed worker goes on only under the parent it recorded.
CheckParent ==
    /\ proc = "running" /\ boot = "rearmed"
    /\ \/ /\ parent = expected
          /\ boot' = "checked"
          /\ UNCHANGED <<proc, status, helper, armed, expected, wstep, logs, lied, pipes>>
       \/ /\ parent # expected \/ "fault" \in Events
          /\ Exits("nonzero")
    /\ UNCHANGED <<op, machine, caller, supervisor, parent>>

\* Capabilities, privileges and dumps are given up; the worker reads its state
\* back and goes on only if that validates.
SealIsolation ==
    /\ proc = "running" /\ boot = "checked"
    /\ process' = Confine(process)
    /\ IF IsolationVerified(Confine(process))
       THEN /\ boot' = "isolated"
            /\ UNCHANGED <<proc, status, helper, armed, expected, wstep, logs, lied, pipes>>
       ELSE Exits("nonzero")
    /\ UNCHANGED <<op, deployment, files, pinned, image, caller, supervisor, parent>>

Isolated == proc = "running" /\ boot = "isolated"

\* A frame is written, valid or not, when the pipe has room; the write fails
\* when the parent has closed its end.
Write ==
    /\ Isolated /\ Doing \in Frames
    /\ \/ /\ StdoutOpen /\ Len(out) < PipeFrames
          /\ out' = Append(out, Doing)
          /\ lied' \in {lied} \cup (IF "fault" \in Events THEN {lied \cup {Doing}} ELSE {})
          /\ wstep' = wstep + 1
          /\ UNCHANGED <<proc, status, helper, boot, armed, expected, logs, control,
                         closed, err>>
       \/ /\ ~StdoutOpen
          /\ Exits("nonzero")
    /\ UNCHANGED <<op, machine, caller, supervisor, parent>>

\* An input is awaited: anything but the expected one ends the worker.
Read ==
    /\ Isolated /\ Doing \in Inputs
    /\ ~(control = <<>> /\ ~closed)
    /\ IF control # <<>> /\ Head(control) = Doing
       THEN /\ control' = Tail(control)
            /\ wstep' = wstep + 1
            /\ UNCHANGED <<proc, status, helper, boot, armed, expected, logs, lied,
                           closed, out, err>>
       ELSE Exits("nonzero")
    /\ UNCHANGED <<op, machine, caller, supervisor, parent>>

\* The authorization ends with the end of the control socket.
ReadControlEnd ==
    /\ Isolated /\ Doing = "eof"
    /\ ~(control = <<>> /\ ~closed)
    /\ IF control = <<>>
       THEN /\ wstep' = wstep + 1
            /\ UNCHANGED <<proc, status, helper, boot, armed, expected, logs, lied, pipes>>
       ELSE Exits("nonzero")
    /\ UNCHANGED <<op, machine, caller, supervisor, parent>>

\* The guest runs: the worker logs, may leave a process behind, and ends.
WriteLog ==
    /\ Isolated /\ Doing = "run"
    /\ logs < Logs /\ err < PipeLogs
    /\ logs' = logs + 1
    /\ err' = err + 1
    /\ UNCHANGED <<op, machine, caller, supervisor, parent, control, closed, out, proc,
                   status, helper, boot, armed, expected, wstep, lied>>

Fork ==
    /\ "fork" \in Events
    /\ Isolated /\ Doing = "run" /\ ~helper
    /\ helper' = TRUE
    /\ UNCHANGED <<op, machine, caller, supervisor, parent, pipes, proc, status, boot,
                   armed, expected, wstep, logs, lied>>

HelperExits ==
    /\ helper
    /\ helper' = FALSE
    /\ UNCHANGED <<op, machine, caller, supervisor, parent, pipes, proc, status, boot,
                   armed, expected, wstep, logs, lied>>

\* The guest has ended with success and the tasks of its pool are joined.  One
\* step stands for the run: what can fail in it ends the worker (Crash).
GuestReturns ==
    /\ Isolated /\ Doing = "run" /\ logs = Logs
    /\ wstep' = wstep + 1
    /\ UNCHANGED <<op, machine, caller, supervisor, parent, pipes, proc, status, helper,
                   boot, armed, expected, logs, lied>>

RunRestored == op = "restore" /\ GuestReturns
RunCaptured == op = "capture" /\ GuestReturns

\* The worker returns from its last write, or errs or crashes on the way,
\* possibly after stray output.
Exit ==
    /\ Isolated /\ Doing = "exit"
    /\ Exits("zero")
    /\ UNCHANGED <<op, machine, caller, supervisor, parent>>

Crash ==
    /\ "fault" \in Events
    /\ proc = "running" /\ boot \notin {"fork", "arm"}
    /\ proc' = "exited"
    /\ status' = "nonzero"
    /\ out' \in {out} \cup
           (IF StdoutOpen /\ Len(out) < PipeFrames THEN {Append(out, "stray")} ELSE {})
    /\ UNCHANGED <<op, machine, caller, supervisor, parent, control, closed, err, helper,
                   boot, armed, expected, wstep, logs, lied>>

-----------------------------------------------------------------------------
CallerStep == DropCaller \/ CancelToken
PoolStep == PoolStarts \/ PoolFinishes
PinStep == PinExecutable \/ PinRefused
PrepareStep == Prepared \/ PrepareTimeout \/ PrepareJoined \/ PrepareDropped
SpawnStep == Spawn \/ SpawnFails \/ Spawned
PlaceStep == PlacementAccepts \/ PlacementRejects \/ RejectReaps \/ RejectDropped
ExchangeStep == Send \/ ShutControl \/ Receive \/ ReceiveFails \/ ReadEnd \/ Finish
CleanupStep ==
    HandToReaper \/ Reaper \/ ObserveExit \/ StopObserving \/ KillWorker \/ Reap
DiagnosticsStep == ReadDiagnostics \/ DiagnosticsEnd
Supervision == ExchangeStep \/ Timeout \/ Cancelled \/ CleanupStep \/ DiagnosticsStep
BootStep ==
    \/ ArmBeforeExec \/ CheckBeforeExec \/ RecordParent
    \/ DropCredentials \/ Rearm \/ CheckParent \/ SealIsolation
WorkStep == Write \/ Read \/ ReadControlEnd \/ WriteLog \/ RunRestored \/ RunCaptured \/ Exit
Unexpected == Replace \/ ParentDies \/ Crash \/ Fork \/ HelperExits

Next ==
    \/ CallerStep \/ PinStep \/ PoolStep \/ PrepareStep \/ SpawnStep \/ PlaceStep
    \/ Supervision \/ BootStep \/ WorkStep \/ Unexpected

Spec == Init /\ [][Next]_vars

\* The runtime's tasks and timers run, and a worker gets through its own
\* system calls up to the end of its isolation.
SupervisionFair ==
    /\ WF_vars(PinStep) /\ WF_vars(Prepared \/ PrepareJoined) /\ WF_vars(PrepareTimeout)
    /\ WF_vars(SpawnStep) /\ WF_vars(PlaceStep)
    /\ WF_vars(ExchangeStep) /\ WF_vars(Timeout)
    /\ WF_vars(CleanupStep) /\ WF_vars(DiagnosticsStep)
    /\ WF_vars(BootStep)
\* The blocking pool has a free thread for every task.
PoolFair == WF_vars(PoolStarts) /\ WF_vars(PoolFinishes)

FairSpec == Spec /\ SupervisionFair /\ PoolFair

-----------------------------------------------------------------------------
GuestStarted ==
    /\ HasDiagnostics
    /\ \E i \in 1 .. Len(WorkerScript) : WorkerScript[i] = "run" /\ wstep >= i

\* The operation got past the Ready frame's validation.
Trusted == GuestStarted \/ outcome = "ok"

(* The guest runs, and a probe succeeds, only in a worker whose Ready report *)
(* and acknowledgement the parent has validated, however the frames and      *)
(* inputs interleave with a timeout, a cancellation or the death of either   *)
(* side; and whatever the worker inherited, that worker holds no root        *)
(* identifier, no capability, no descriptor and no group but the allowed     *)
(* ones, and can raise none of its limits again.                             *)
AuthorizedRun ==
    Trusted =>
        /\ lied \cap {"ready", "ack"} = {}
        /\ \A i \in 1 .. 4 :
               process.uid[i] # 0 /\ process.gid[i] # 0 /\ process.capabilities[i] = 0
        /\ {process.groups[i] : i \in DOMAIN process.groups}
             = {deployment.config.groups[i] : i \in DOMAIN deployment.config.groups} \ {0}
        /\ process.no_new_privileges /\ ~process.dumpable
        /\ \A r \in DOMAIN Profile :
               process.limits[r][1] = process.limits[r][2] /\ process.limits[r][2] <= Profile[r]
        /\ process.descriptors = {0, 1, 2}

(* "pathname replacement cannot select a different worker after validation": *)
(* a worker is started only from a file that nobody but root and the         *)
(* runtime's user can change or replace, and the guest runs only in the very *)
(* image whose digest was pinned, also when an upgrade renames another file  *)
(* over the path, or writes into it, between the pinning and the exec.       *)
TrustedImage ==
    /\ proc = "running" /\ boot \in {"fork", "arm", "exec", "isolate"} =>
           \A entry \in {deployment.file}
                        \cup {deployment.ancestors[i] : i \in DOMAIN deployment.ancestors} :
               {entry.owner} \cup entry.writers \subseteq {0, process.uid[2]}
    /\ Trusted => image = pinned.sha256 /\ Release(image) = Release("this")

\* The processes a deployment may give a worker: one that can shed its root
\* credentials, with no group to keep, or one without any, in exactly the
\* groups allowed; and some room under every limit, a descriptor included.
SoundProcess(p, allowed) ==
    /\ IF \E i \in 1 .. 3 : p.uid[i] = 0 \/ p.gid[i] = 0
       THEN Privileged(p) /\ allowed = <<>>
       ELSE Sorted(p.groups) = allowed /\ \A i \in DOMAIN p.groups : p.groups[i] # 0
    /\ \A r \in {"fsize", "as"} : p.limits[r][1] # 0 /\ p.limits[r][2] # 0
    /\ CanOpen(p)
    /\ \A i \in 1 .. 2 : p.limits.nofile[i] = Unlimited \/ p.limits.nofile[i] > 3

(* From what it inherits a worker comes up, and its report is accepted,      *)
(* exactly when the deployment is a sound one: the isolation refuses no      *)
(* process that it could have confined, with soft and hard limits and real   *)
(* and effective identifiers in any combination.                             *)
ComesUpIfSound ==
    proc = "running" /\ boot = "isolate" =>
        LET lowered == LowerLimits(close_inherited_worker_descriptors(process))
            final == Confine(Drop(lowered))
            allowed == deployment.config.groups
        IN  SoundProcess(process, allowed) <=>
                /\ CanOpen(process) /\ MayDrop(lowered)
                /\ IsolationVerified(final) /\ IsolationValid(final, allowed)

(* An operation that succeeds has read every frame, found each one valid    *)
(* and the pipe at its end, and reaped a worker that completed its part and *)
(* exited with status 0; nothing of its process group is left.             *)
SuccessIsWhole ==
    outcome = "ok" =>
        /\ lied = {} /\ out = <<>>
        /\ wstep = Len(WorkerScript) + 1
        /\ status = "zero" /\ proc = "reaped" /\ ~helper

(* When a restore, a capture or a rejected placement has answered, its      *)
(* worker is reaped and its process group empty, whichever of failure,      *)
(* timeout, cancellation and the worker's own exit came first.             *)
NothingLeftBehind ==
    /\ parent /\ mode = "answered" /\ ~reaper
    /\ HasDiagnostics \/ outcome = "rejected"
    => proc \in {"none", "reaped"} /\ ~helper

(* "a worker cannot continue when its immediate runtime parent disappears": *)
(* no worker is past its isolation once the runtime process is dead, even   *)
(* when it dies while the credential change has cleared the death signal.  *)
OrphansStop == ~parent /\ boot = "isolated" => proc # "running"

(* Every operation answers, by its own deadline if by nothing else, as long *)
(* as the runtime process lives: a worker that stays silent, or a process   *)
(* it left behind holding its pipes, does not keep the caller waiting.      *)
(* Every worker is reaped and its group emptied in the end, also when the   *)
(* caller has been answered before; of a dead runtime no worker survives.   *)
EveryOperationEnds ==
    <>[](IF parent THEN mode = "answered" /\ proc \in {"none", "reaped"} /\ ~helper
                   ELSE proc # "running")

(* The two sides of an exchange never wait for each other, whatever the     *)
(* pipes hold: while the worker runs and the parent supervises it, one of   *)
(* the two can go on without a timeout, a cancellation or a failure of the  *)
(* other.  In particular a worker blocked on a full stderr pipe is always   *)
(* relieved by the diagnostics task.                                        *)
NeverStuck ==
    parent /\ mode = "run" /\ proc = "running" =>
        ENABLED (ExchangeStep \/ DiagnosticsStep \/ BootStep \/ WorkStep)
=============================================================================
