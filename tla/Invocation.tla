----------------------------- MODULE Invocation ------------------------------
(***************************************************************************)
(* One command invocation started by Program::start: the Tokio task that   *)
(* prepares, instantiates and runs the guest, the epoch callback with its  *)
(* cooperative pause (PauseToken::wait), and the threads that share the    *)
(* RunningCommand handle and call pause, resume, cancel, wait or drop it.  *)
(*                                                                         *)
(* The atomics of PauseToken and CancellationToken are read and written    *)
(* one step at a time, except that RunningCommand::state() and the flags   *)
(* the epoch callback reads are one step each.  Time is a discrete clock   *)
(* that may move between any two steps, and so between the read of the     *)
(* clock and the read of the pause time that a charge is computed from;    *)
(* PauseTiming is guarded by its mutex.                                    *)
(***************************************************************************)
EXTENDS Naturals, FiniteSets

CONSTANTS Controllers,   \* threads that share the RunningCommand
          resident_ttl,  \* RuntimeConfig::paused_resident_ttl
          timeout,       \* CommandInput::timeout
          HostWaits,     \* may the guest wait in an asynchronous host call?
          Horizon,       \* bound: the clock stops here
          None

ASSUME TimeAssumption ==
  /\ resident_ttl \in Nat \ {0} /\ timeout \in Nat \ {0}
  /\ Horizon \in Nat /\ Horizon > resident_ttl + timeout

ASSUME HostWaitsAssumption == HostWaits \in BOOLEAN

ASSUME NoneAssumption == None \notin Nat \cup Controllers \cup {"Timeout", "Cancelled"}

VARIABLES now,        \* the clock
          token,      \* PauseToken's flags and CancellationToken's
          timing,     \* PauseTiming
          holder,     \* who holds the timing mutex
          at,         \* where the task is
          phase,      \* what it is doing: prepare, instantiate, execute, finished
          wake,       \* the waiting future: notified?, and the sleep's deadline
          watch,      \* invocation_started, pause_baseline, the callback's suspended
                      \* and due (active >= timeout), timed_out
          outcome,    \* what the task returned
          demoted,    \* has the package been demoted?
          handle,     \* the RunningCommand: held, waited (consumed) or dropped
          pc,         \* where each controller is
          asked,      \* has somebody called cancel, or dropped the handle?
          spent       \* history, for the properties: the time since
                      \* invocation_started outside any pause (active), and the
                      \* pause time between the reads of the clock and of
                      \* total_paused: at the start, in the last callback

task == <<at, phase, wake, watch, outcome, demoted>>

control == <<handle, pc, asked>>

vars == <<now, token, timing, holder, task, control, spent>>

-----------------------------------------------------------------------------
(* PauseToken::total_paused *)
TotalPaused ==
  timing.completed + (IF timing.paused_at = None THEN 0 ELSE now - timing.paused_at)

Monus(a, b) == IF a > b THEN a - b ELSE 0

(* RunningCommand::state *)
State ==
  IF token.evicted THEN "Evicted"
  ELSE IF phase = "finished" THEN "Finished"
  ELSE IF token.resident THEN "PausedResident"
  ELSE IF token.paused THEN "PauseRequested"
  ELSE "Running"

Init ==
  /\ now = 0
  /\ token = [paused |-> FALSE, resident |-> FALSE, evicted |-> FALSE, cancelled |-> FALSE]
  /\ timing = [completed |-> 0, paused_at |-> None]
  /\ holder = None
  /\ at = "guest" /\ phase = "start"
  /\ wake = [notified |-> FALSE, deadline |-> 0]
  /\ watch = [started |-> 0, baseline |-> 0, suspended |-> 0, due |-> FALSE, timed_out |-> FALSE]
  /\ outcome = None
  /\ demoted = FALSE
  /\ handle = "held"
  /\ pc = [c \in Controllers |-> "idle"]
  /\ asked = FALSE
  /\ spent = [active |-> 0, start_gap |-> 0, callback_gap |-> 0]

(***************************************************************************)
(* The clock.  Near its bound it waits for the preparation and for pauses  *)
(* and resumes under way, and no new ones begin, so that it leaves time    *)
(* for the last pause to expire and for the guest to time out after it.    *)
(***************************************************************************)
Room == now + resident_ttl + timeout < Horizon

LastRoom == now + timeout < Horizon

Doing(labels) == \E c \in Controllers : pc[c] \in labels

Running == phase \in {"instantiate", "execute"}

Tick ==
  /\ now < Horizon
  /\ phase \in {"start", "prepare"} \/ Doing({"pause", "pause_store"}) => Room
  /\ Doing({"resume", "resume_swap", "resume_store"}) => LastRoom
  /\ now' = now + 1
  /\ spent' = IF ~Running THEN spent
              ELSE IF timing.paused_at = None THEN [spent EXCEPT !.active = @ + 1]
              ELSE IF at = "baseline" THEN [spent EXCEPT !.start_gap = @ + 1]
              ELSE IF at = "callback_clock" THEN [spent EXCEPT !.callback_gap = @ + 1]
              ELSE spent
  /\ UNCHANGED <<token, timing, holder, task, control>>

-----------------------------------------------------------------------------
(* Program::start's wrapper demotes the package after an idle eviction. *)
Finish(error) ==
  /\ phase' = "finished"
  /\ at' = "guest"
  /\ outcome' = error
  /\ demoted' = (error = "IdleEvicted")
  /\ UNCHANGED <<now, token, timing, holder, control, spent, wake, watch>>

(* run_controlled looks at the token before it prepares. *)
Start ==
  /\ phase = "start"
  /\ IF token.cancelled
     THEN Finish("Cancelled")
     ELSE /\ phase' = "prepare"
          /\ UNCHANGED <<now, token, timing, holder, control, spent,
                         at, wake, watch, outcome, demoted>>

(* The component cannot be prepared, or is no command. *)
PrepareFails == phase = "prepare" /\ Finish("Preparation")

(* The store is there: invoke reads the clock ... *)
Prepared ==
  /\ phase = "prepare"
  /\ phase' = "instantiate"
  /\ at' = "baseline"
  /\ watch' = [watch EXCEPT !.started = now]
  /\ UNCHANGED <<now, token, timing, holder, control, spent,
                 wake, outcome, demoted>>

(* ... and then, once it has the mutex, the time paused so far. *)
Baseline ==
  /\ at = "baseline" /\ holder = None
  /\ at' = "guest"
  /\ watch' = [watch EXCEPT !.baseline = TotalPaused]
  /\ UNCHANGED <<now, token, timing, holder, control, spent,
                 phase, wake, outcome, demoted>>

(* map_execution_error *)
MappedError ==
  IF token.evicted THEN "IdleEvicted"
  ELSE IF watch.timed_out THEN "Timeout"
  ELSE IF token.cancelled THEN "Cancelled"
  ELSE "Execution"

(* An error of instantiate_async is not mapped. *)
Trap == Finish(IF phase = "instantiate" THEN "Execution" ELSE MappedError)

Guest == Running /\ at = "guest"

GuestReturns ==
  /\ Guest
  /\ IF phase = "execute"
     THEN Finish("Output")
     ELSE /\ phase' = "execute"
          /\ UNCHANGED <<now, token, timing, holder, control, spent,
                         at, wake, watch, outcome, demoted>>

GuestTraps == Guest /\ Trap

Goto(label) ==
  /\ at' = label
  /\ UNCHANGED <<now, token, timing, holder, control, spent,
                 phase, wake, watch, outcome, demoted>>

(* The guest awaits a host call; no guest code runs, so no epoch is seen. *)
HostCall == HostWaits /\ Guest /\ phase = "execute" /\ Goto("host")

HostAnswers == at = "host" /\ Goto("guest")

(* The epoch has advanced and guest code reaches a check. *)
Epoch == Guest /\ Goto("callback")

(* The epoch callback: first the time paused so far ... *)
Callback ==
  /\ at = "callback" /\ holder = None
  /\ at' = "callback_clock"
  /\ watch' = [watch EXCEPT !.suspended = Monus(TotalPaused, watch.baseline)]
  /\ spent' = [spent EXCEPT !.callback_gap = 0]
  /\ UNCHANGED <<now, token, timing, holder, control,
                 phase, wake, outcome, demoted>>

(* Mutant: pauses are charged too. *)
ActiveWallClock == now - watch.started

(* The time the callback charges the guest for. *)
Active == Monus(now - watch.started, watch.suspended)

(* ... then the clock, and at last the flags. *)
CallbackClock ==
  /\ at = "callback_clock"
  /\ at' = "callback_flags"
  /\ watch' = [watch EXCEPT !.suspended = 0, !.due = (Active >= timeout)]
  /\ UNCHANGED <<now, token, timing, holder, control, spent,
                 phase, wake, outcome, demoted>>

CallbackFlags ==
  /\ at = "callback_flags"
  /\ LET stop == token.evicted \/ token.cancelled
     IN /\ at' = IF stop \/ watch.due THEN "trap"
                ELSE IF token.paused THEN "mark" ELSE "guest"
        /\ watch' = [watch EXCEPT !.due = FALSE, !.timed_out = @ \/ (~stop /\ watch.due)]
  /\ UNCHANGED <<now, token, timing, holder, control, spent,
                 phase, wake, outcome, demoted>>

Interrupted == at = "trap" /\ Trap

Set(flags, label) ==
  /\ token' = flags
  /\ at' = label
  /\ UNCHANGED <<now, timing, holder, control, spent,
                 phase, wake, watch, outcome, demoted>>

(* PauseToken::mark_resident, a test and then a store. *)
MarkTest ==
  /\ at = "mark"
  /\ Goto(IF token.paused /\ ~token.evicted THEN "mark_store" ELSE "wait")

MarkStore == at = "mark_store" /\ Set([token EXCEPT !.resident = TRUE], "wait")

(* PauseToken::wait registers with Notify before it looks at the flags. *)
WaitRegister ==
  /\ at = "wait"
  /\ at' = "wait_test"
  /\ wake' = [wake EXCEPT !.notified = FALSE]
  /\ UNCHANGED <<now, token, timing, holder, control, spent,
                 phase, watch, outcome, demoted>>

WaitTest ==
  /\ at = "wait_test"
  /\ Goto(IF ~token.paused \/ token.cancelled THEN "guest" ELSE "wait_remaining")

Remaining ==
  IF timing.paused_at = None THEN resident_ttl
  ELSE Monus(resident_ttl, now - timing.paused_at)

(* Mutant: registers with Notify only before it sleeps. *)
WaitRemainingRegisters ==
  /\ at = "wait_remaining" /\ holder = None
  /\ IF Remaining = 0
     THEN Goto("evict")
     ELSE /\ at' = "select"
          /\ wake' = [notified |-> FALSE, deadline |-> now + Remaining]
          /\ UNCHANGED <<now, token, timing, holder, control, spent,
                         phase, watch, outcome, demoted>>

WaitRemaining ==
  /\ at = "wait_remaining" /\ holder = None
  /\ IF Remaining = 0
     THEN Goto("evict")
     ELSE /\ at' = "select"
          /\ wake' = [wake EXCEPT !.deadline = now + Remaining]
          /\ UNCHANGED <<now, token, timing, holder, control, spent,
                         phase, watch, outcome, demoted>>

(* Mutants: a branch of the select! is missing. *)
SelectWithoutSleep ==
  /\ at = "select"
  /\ \/ wake.notified /\ Goto("wait")
     \/ token.cancelled /\ Goto("guest")

SelectWithoutCancel ==
  /\ at = "select"
  /\ \/ wake.notified /\ Goto("wait")
     \/ now >= wake.deadline /\ Goto("expired")

(* select! takes any branch that is ready. *)
Select ==
  /\ at = "select"
  /\ \/ wake.notified /\ Goto("wait")
     \/ token.cancelled /\ Goto("guest")
     \/ now >= wake.deadline /\ Goto("expired")

Expired == at = "expired" /\ Goto(IF token.paused THEN "evict" ELSE "guest")

(* PauseToken::evict, one store after the other. *)
Evict == at = "evict" /\ Set([token EXCEPT !.evicted = TRUE], "evict_resident")

EvictResident == at = "evict_resident" /\ Set([token EXCEPT !.resident = FALSE], "evict_cancel")

EvictCancel == at = "evict_cancel" /\ Set([token EXCEPT !.cancelled = TRUE], "guest")

TaskStep ==
  \/ Start \/ PrepareFails \/ Prepared \/ Baseline \/ GuestReturns \/ GuestTraps
  \/ Epoch \/ Callback \/ CallbackClock \/ CallbackFlags \/ Interrupted \/ MarkTest \/ MarkStore \/ WaitRegister \/ WaitTest
  \/ WaitRemaining \/ Select \/ Expired \/ Evict \/ EvictResident \/ EvictCancel
  \/ HostCall

-----------------------------------------------------------------------------
(* The controllers.  *)
Move(c, label) == pc' = [pc EXCEPT ![c] = label]

Ready(c) == handle = "held" /\ pc[c] = "idle"

(* RunningCommand::pause; a call on a finished invocation changes nothing. *)
Pause(c) ==
  /\ Ready(c) /\ Room
  /\ State \in {"Running", "PauseRequested", "PausedResident"}
  /\ Move(c, "pause")
  /\ UNCHANGED <<now, token, timing, holder, task, handle, asked, spent>>

PauseSwap(c) ==
  /\ pc[c] = "pause" /\ holder = None
  /\ IF token.paused
     THEN Move(c, "idle") /\ UNCHANGED <<token, holder>>
     ELSE /\ token' = [token EXCEPT !.paused = TRUE]
          /\ holder' = c
          /\ Move(c, "pause_store")
  /\ UNCHANGED <<now, timing, task, handle, asked, spent>>

PauseStore(c) ==
  /\ pc[c] = "pause_store"
  /\ token' = [token EXCEPT !.resident = FALSE]
  /\ timing' = [timing EXCEPT !.paused_at = now]
  /\ holder' = None
  /\ Move(c, "idle")
  /\ UNCHANGED <<now, task, handle, asked, spent>>

(* RunningCommand::resume *)
Resume(c) ==
  /\ Ready(c) /\ LastRoom
  /\ State \in {"PauseRequested", "PausedResident"}
  /\ Move(c, "resume")
  /\ UNCHANGED <<now, token, timing, holder, task, handle, asked, spent>>

ResumeTest(c) ==
  /\ pc[c] = "resume"
  /\ Move(c, IF token.evicted THEN "idle" ELSE "resume_swap")
  /\ UNCHANGED <<now, token, timing, holder, task, handle, asked, spent>>

ResumeSwap(c) ==
  /\ pc[c] = "resume_swap" /\ holder = None
  /\ IF token.paused
     THEN /\ token' = [token EXCEPT !.paused = FALSE]
          /\ holder' = c
          /\ Move(c, "resume_store")
     ELSE Move(c, "idle") /\ UNCHANGED <<token, holder>>
  /\ UNCHANGED <<now, timing, task, handle, asked, spent>>

(* Mutant: resume adds nothing to the time paused. *)
ResumeStoreForgets(c) ==
  /\ pc[c] = "resume_store"
  /\ token' = [token EXCEPT !.resident = FALSE]
  /\ timing' = [completed |-> timing.completed, paused_at |-> None]
  /\ wake' = [wake EXCEPT !.notified = TRUE]
  /\ holder' = None
  /\ Move(c, "idle")
  /\ UNCHANGED <<now, at, phase, watch, outcome, demoted, handle, asked, spent>>

ResumeStore(c) ==
  /\ pc[c] = "resume_store"
  /\ token' = [token EXCEPT !.resident = FALSE]
  /\ timing' = [completed |-> TotalPaused, paused_at |-> None]
  /\ wake' = [wake EXCEPT !.notified = TRUE]
  /\ holder' = None
  /\ Move(c, "idle")
  /\ UNCHANGED <<now, at, phase, watch, outcome, demoted, handle, asked, spent>>

(* RunningCommand::cancel, or cancel on a clone of the caller's token. *)
Cancel ==
  /\ ~asked
  /\ token' = [token EXCEPT !.cancelled = TRUE]
  /\ asked' = TRUE
  /\ UNCHANGED <<now, timing, holder, task, handle, pc, spent>>

Unshared == \A c \in Controllers : pc[c] = "idle"

(* RunningCommand::wait consumes the handle. *)
Wait ==
  /\ handle = "held" /\ Unshared
  /\ handle' = "waited"
  /\ UNCHANGED <<now, token, timing, holder, task, pc, asked, spent>>

(* Drop for RunningCommand: cancel, then resume. *)
DropHandle(c) ==
  /\ handle = "held" /\ Unshared
  /\ handle' = "dropped"
  /\ token' = [token EXCEPT !.cancelled = TRUE]
  /\ asked' = TRUE
  /\ Move(c, "resume")
  /\ UNCHANGED <<now, timing, holder, task, spent>>

ControlStep(c) ==
  \/ PauseSwap(c) \/ PauseStore(c) \/ ResumeTest(c) \/ ResumeSwap(c) \/ ResumeStore(c)

Next ==
  \/ Tick \/ TaskStep \/ HostAnswers \/ Cancel \/ Wait
  \/ \E c \in Controllers :
       Pause(c) \/ Resume(c) \/ DropHandle(c) \/ ControlStep(c)

Spec == Init /\ [][Next]_vars

(***************************************************************************)
(* Tokio polls the task when it can move, and preparation ends             *)
(* (Preparation!EveryCallReturns); guest code reaches an epoch check       *)
(* however often it calls the host; no thread stops inside pause or resume *)
(* and the mutex is not withheld from the task for ever.  The guest need   *)
(* never return, a host call need never be answered, and the clock may     *)
(* stop.                                                                   *)
(***************************************************************************)
FairSpec ==
  /\ Spec
  /\ SF_vars(TaskStep)
  /\ SF_vars(Epoch)
  /\ \A c \in Controllers : WF_vars(ControlStep(c))

-----------------------------------------------------------------------------
(***************************************************************************)
(* No wake-up is lost: a task asleep in PauseToken::wait without a pending *)
(* notification is still paused, or the resume that clears the flag is     *)
(* about to notify it.                                                     *)
(***************************************************************************)
NoLostWakeup ==
  (at = "select" /\ ~wake.notified) =>
    token.paused \/ Doing({"resume_store"})

Owed == spent.active + spent.start_gap + spent.callback_gap

(***************************************************************************)
(* The pause clock: the flag and paused_at agree whenever the mutex is     *)
(* free, and whatever pauses and resumes came before, the callback charges *)
(* the guest its time outside pauses and, beyond that, only the pause time *)
(* that passed between its read of total_paused and its read of the clock, *)
(* or between invocation_started and pause_baseline.                       *)
(***************************************************************************)
PauseClock ==
  /\ holder = None => (token.paused <=> timing.paused_at # None)
  /\ at = "callback_clock" => Active = Owed

(***************************************************************************)
(* wait() answers with the true cause: Timeout only for a guest whose time *)
(* outside pauses, with the pause time between those reads, has used up    *)
(* its timeout; Cancelled only if somebody asked for it (an eviction,      *)
(* which cancels the token itself, is no cancellation).                    *)
(***************************************************************************)
ReportsTheCause ==
  /\ outcome = "Timeout" => Owed >= timeout
  /\ outcome = "Cancelled" => asked

(***************************************************************************)
(* As long as time passes, whatever the guest does and whoever pauses it,  *)
(* the invocation ends: by itself, by its timeout, by cancellation or by   *)
(* idle eviction (the epoch callback and PauseToken::wait).  The bound on  *)
(* the clock also bounds the pauses: that a guest paused and resumed for   *)
(* ever ends is not shown.                                                 *)
(***************************************************************************)
EveryInvocationEnds == WF_vars(Tick) => <>(phase = "finished")

(***************************************************************************)
(* RunningCommand::cancel, "including while the invocation is paused": a   *)
(* cancelled or dropped invocation ends at its next epoch, without waiting *)
(* for its timeout or for the pause to expire, even if the clock stops.    *)
(***************************************************************************)
CancellationEnds == token.cancelled ~> phase = "finished"
=============================================================================
