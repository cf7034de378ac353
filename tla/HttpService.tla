---------------------------- MODULE HttpService ------------------------------
(***************************************************************************)
(* HttpService: bounded admission (a FIFO semaphore), the buffered and the *)
(* streaming path of a request, the HttpRequestCompletion that carries the *)
(* permit, the workers that instantiate the component, serve requests and  *)
(* expire, the shared pre-instantiation slot, the package tier and the     *)
(* metrics.  The atomics are updated one step at a time, by request tasks  *)
(* and workers on different threads.  The tier a call reports is left out. *)
(*                                                                         *)
(* wasmtime's ProxyHandler is external: it starts a worker for a waiting   *)
(* request that no worker can take, hands requests to workers that accept  *)
(* them, and fails the requests of a worker that stops.                    *)
(***************************************************************************)
EXTENDS Integers, Sequences, FiniteSets

CONSTANTS Requests, Workers,
          Paths,             \* the entry points callers use: buffered, streaming
          max_in_flight,
          max_reuse,         \* max_instance_reuse_count
          max_concurrent,    \* per worker; 1 for HTTP 0.2
          max_output_bytes,
          MaxFrame           \* bound: bytes in one body frame

ASSUME ConfigAssumption ==
  \A n \in {max_in_flight, max_reuse, max_concurrent} : n \in Nat \ {0}

ASSUME RequestsAssumption == IsFiniteSet(Requests)

ASSUME PathsAssumption == Paths \subseteq {"buffered", "streaming"}

ASSUME OutputAssumption == max_output_bytes \in Nat /\ MaxFrame \in Nat \ {0}

VARIABLES permits, queue,   \* the admission semaphore and who waits for it
          request,          \* where each call is, and what it has observed
          completion,       \* each call's HttpRequestCompletion
          worker,           \* each worker
          slot,             \* the pre slot: 0 for None, or a pre's identity
          tier,             \* the service's package_tier
          memory,           \* the tier of the package in the runtime's memory cache
          metrics,
          history           \* demotions, and pre-instantiations made

calls == <<permits, queue, request, completion>>

code == <<slot, tier, memory>>

vars == <<calls, worker, code, metrics, history>>

Tiers == {"Warmish", "Warm"}

NewCall == [at |-> "new", path |-> "buffered", remaining |-> max_output_bytes,
            sent |-> 0, inner |-> "open"]

NoWorker == [at |-> "none", pre |-> 0, epoch |-> 0, load |-> {}, total |-> 0,
             idle_expired |-> FALSE]

Init ==
  /\ permits = max_in_flight /\ queue = <<>>
  /\ request = [r \in Requests |-> NewCall]
  /\ completion = [r \in Requests |-> "none"]
  /\ worker = [w \in Workers |-> NoWorker]
  /\ slot = 1 /\ tier = "Warm" /\ memory = "Warm"
  /\ metrics = [workers_created |-> 0, live_workers |-> 0, idle_evictions |-> 0,
                in_flight |-> 0, completed_requests |-> 0]
  /\ history = [demotions |-> 0, pres |-> 1]

(* A call that is done has dropped its body, and a worker that is gone its *)
(* state.                                                                  *)
CallAt(q, a) ==
  IF a = "done" THEN [NewCall EXCEPT !.at = a, !.sent = q.sent] ELSE [q EXCEPT !.at = a]

Goto(r, a) == request' = [request EXCEPT ![r] = CallAt(@, a)]

WorkerGoto(w, a) ==
  worker' = [worker EXCEPT ![w] = [(IF a = "gone" THEN NoWorker ELSE @) EXCEPT !.at = a]]

(* A call takes no step of its own while its completion is being dropped. *)
Settled(r) == completion[r] \in {"none", "held", "released"}

RequestsAt(a) == {r \in Requests : request[r].at = a}

WorkersAt(A) == {w \in Workers : worker[w].at \in A}

-----------------------------------------------------------------------------
(* handle or handle_streaming is called with a body within the input limit. *)
Call(r, path) ==
  /\ request[r].at = "new"
  /\ request' = [request EXCEPT ![r].at = "queued", ![r].path = path]
  /\ queue' = Append(queue, r)
  /\ UNCHANGED <<permits, completion, worker, code, metrics, history>>

(* acquire_owned: permits are handed out in the order of arrival. *)
Admit(r) ==
  /\ queue # <<>> /\ Head(queue) = r /\ permits > 0
  /\ permits' = permits - 1 /\ queue' = Tail(queue)
  /\ Goto(r, "admitted")
  /\ UNCHANGED <<completion, worker, code, metrics, history>>

(* in_flight is incremented and the completion takes the permit. *)
Enter(r) ==
  /\ request[r].at = "admitted"
  /\ Goto(r, "dispatch")
  /\ completion' = [completion EXCEPT ![r] = "held"]
  /\ metrics' = [metrics EXCEPT !.in_flight = @ + 1]
  /\ UNCHANGED <<permits, queue, worker, code, history>>

(* build_request succeeds and the request waits in the ProxyHandler, or the *)
(* buffered path returns its error.                                         *)
Dispatch(r) ==
  /\ request[r].at = "dispatch" /\ Settled(r)
  /\ \/ Goto(r, "waiting") /\ UNCHANGED completion
     \/ /\ request[r].path = "buffered"
        /\ Goto(r, "done") /\ completion' = [completion EXCEPT ![r] = "dropping"]
  /\ UNCHANGED <<permits, queue, worker, code, metrics, history>>

(* HttpRequestCompletion::complete counts; dropping it decrements in_flight, *)
(* and then its permit goes back to the semaphore.                           *)
Complete(r) ==
  /\ completion[r] = "completing"
  /\ completion' = [completion EXCEPT ![r] = "dropping"]
  /\ metrics' = [metrics EXCEPT !.completed_requests = @ + 1]
  /\ UNCHANGED <<permits, queue, request, worker, code, history>>

DropForgetsGauge(r) ==
  /\ completion[r] = "dropping"
  /\ completion' = [completion EXCEPT ![r] = "releasing"]
  /\ UNCHANGED <<permits, queue, request, worker, code, metrics, history>>

DropCompletion(r) ==
  /\ completion[r] = "dropping"
  /\ completion' = [completion EXCEPT ![r] = "releasing"]
  /\ metrics' = [metrics EXCEPT !.in_flight = @ - 1]
  /\ UNCHANGED <<permits, queue, request, worker, code, history>>

ReleaseNothing(r) ==
  /\ completion[r] = "releasing"
  /\ completion' = [completion EXCEPT ![r] = "released"]
  /\ UNCHANGED <<permits, queue, request, worker, code, metrics, history>>

ReleasePermit(r) ==
  /\ completion[r] = "releasing"
  /\ completion' = [completion EXCEPT ![r] = "released"]
  /\ permits' = permits + 1
  /\ UNCHANGED <<queue, request, worker, code, metrics, history>>

Without(s, i) == SubSeq(s, 1, i - 1) \o SubSeq(s, i + 1, Len(s))

(* The future or the body of a call is dropped: every await point gives up *)
(* the place in the queue or the completion.                               *)
Abandon(r) ==
  /\ request[r].at \in {"queued", "waiting", "serving", "body"} /\ Settled(r)
  /\ Goto(r, "done")
  /\ \/ /\ request[r].at = "queued"
        /\ \E i \in 1 .. Len(queue) : queue[i] = r /\ queue' = Without(queue, i)
     \/ request[r].at # "queued" /\ UNCHANGED queue
  /\ completion' = [completion EXCEPT ![r] = IF @ = "held" THEN "dropping" ELSE @]
  /\ UNCHANGED <<permits, worker, code, metrics, history>>

-----------------------------------------------------------------------------
Answers(w, r, path) ==
  /\ worker[w].at = "live" /\ r \in worker[w].load
  /\ request[r].at = "serving" /\ request[r].path = path
  /\ worker' = [worker EXCEPT ![w].load = @ \ {r}]
  /\ UNCHANGED <<permits, queue, code, metrics, history>>

(* handle collects the body and completes if it is within the output limit. *)
(* One step stands for the wait for the frames: until it the request is     *)
(* still being served, and the timeout and the drop of the call reach it.   *)
RespondBuffered(w, r, bytes) ==
  /\ Answers(w, r, "buffered")
  /\ request' = [request EXCEPT ![r] = [CallAt(@, "done") EXCEPT
                   !.sent = IF bytes > max_output_bytes THEN 0 ELSE bytes]]
  /\ completion' = [completion EXCEPT ![r] =
                      IF bytes > max_output_bytes THEN "dropping" ELSE "completing"]

(* handle_streaming returns a body, already complete if it has no frames. *)
RespondStreaming(w, r, inner) ==
  /\ Answers(w, r, "streaming")
  /\ request' = [request EXCEPT ![r].at = "body", ![r].inner = inner]
  /\ completion' = [completion EXCEPT ![r] = IF inner = "ended" THEN "completing" ELSE "held"]

(* StreamingHttpBody::poll_frame with a data frame of the inner body, which *)
(* may know that it was its last one.                                       *)
PollDataUnbounded(r, bytes, inner) ==
  /\ request[r].at = "body" /\ request[r].inner = "open" /\ Settled(r)
  /\ request' = [request EXCEPT ![r].sent = @ + bytes, ![r].inner = inner]
  /\ UNCHANGED completion
  /\ UNCHANGED <<permits, queue, worker, code, metrics, history>>

PollData(r, bytes, inner) ==
  /\ request[r].at = "body" /\ request[r].inner = "open" /\ Settled(r)
  /\ IF bytes > request[r].remaining
     THEN /\ request' = [request EXCEPT ![r].remaining = 0, ![r].inner = inner]
          /\ completion' = [completion EXCEPT ![r] = IF @ = "held" THEN "dropping" ELSE @]
     ELSE /\ request' = [request EXCEPT ![r].remaining = @ - bytes, ![r].sent = @ + bytes,
                                        ![r].inner = inner]
          /\ UNCHANGED completion
  /\ UNCHANGED <<permits, queue, worker, code, metrics, history>>

(* poll_frame meets an error of the inner body, or its end.  An inner body  *)
(* that has failed is taken to give no more frames.                         *)
PollError(r) ==
  /\ request[r].at = "body" /\ request[r].inner = "open" /\ Settled(r)
  /\ request' = [request EXCEPT ![r].inner = "ended"]
  /\ completion' = [completion EXCEPT ![r] = IF @ = "held" THEN "dropping" ELSE @]
  /\ UNCHANGED <<permits, queue, worker, code, metrics, history>>

PollEnd(r) ==
  /\ request[r].at = "body" /\ Settled(r)
  /\ Goto(r, "done")
  /\ completion' = [completion EXCEPT ![r] = IF @ = "held" THEN "completing" ELSE @]
  /\ UNCHANGED <<permits, queue, worker, code, metrics, history>>

-----------------------------------------------------------------------------
(* HttpWorkerState::should_accept_request. *)
ShouldAccept(w) ==
  IF worker[w].total >= max_reuse THEN "Never"
  ELSE IF Cardinality(worker[w].load) >= max_concurrent THEN "No" ELSE "Yes"

Starting == {"read", "prepare", "publish", "instantiate", "count"}

(* ProxyHandler: no worker can take the waiting requests. *)
StartWorker(w) ==
  /\ worker[w].at = "none"
  /\ Cardinality(RequestsAt("waiting"))
       > Cardinality(WorkersAt(Starting) \cup {v \in WorkersAt({"live"}) : ShouldAccept(v) = "Yes"})
  /\ WorkerGoto(w, "read")
  /\ UNCHANGED <<calls, code, metrics, history>>

(* instantiate: look into the pre slot. *)
ReadPre(w) ==
  /\ worker[w].at = "read"
  /\ worker' = [worker EXCEPT ![w] = [@ EXCEPT
                  !.at = IF slot = 0 THEN "prepare" ELSE "instantiate",
                  !.pre = slot, !.epoch = history.demotions]]
  /\ UNCHANGED <<calls, code, metrics, history>>

(* RuntimeInner::prepare leaves the package compiled in memory. *)
Prepare(w) ==
  /\ worker[w].at = "prepare"
  /\ memory' = "Warm"
  /\ WorkerGoto(w, "publish")
  /\ UNCHANGED <<calls, slot, tier, metrics, history>>

(* slot.get_or_insert(candidate) *)
PublishReplaces(w) ==
  /\ worker[w].at = "publish"
  /\ history' = [history EXCEPT !.pres = @ + 1]
  /\ slot' = history'.pres
  /\ worker' = [worker EXCEPT ![w] = [@ EXCEPT
                  !.at = "instantiate", !.pre = slot', !.epoch = history.demotions]]
  /\ UNCHANGED <<calls, tier, memory, metrics>>

PublishPre(w) ==
  /\ worker[w].at = "publish"
  /\ history' = [history EXCEPT !.pres = IF slot = 0 THEN @ + 1 ELSE @]
  /\ slot' = IF slot = 0 THEN history'.pres ELSE slot
  /\ worker' = [worker EXCEPT ![w] = [@ EXCEPT
                  !.at = "instantiate", !.pre = slot', !.epoch = history.demotions]]
  /\ UNCHANGED <<calls, tier, memory, metrics>>

(* Preparation or instantiation fails, and with it a request that waits. *)
InstantiateFails(w) ==
  /\ worker[w].at \in {"prepare", "instantiate"}
  /\ WorkerGoto(w, "gone")
  /\ \/ /\ RequestsAt("waiting") = {}
        /\ UNCHANGED <<request, completion>>
     \/ \E r \in RequestsAt("waiting") :
          /\ Goto(r, "done")
          /\ completion' = [completion EXCEPT ![r] = "dropping"]
  /\ UNCHANGED <<permits, queue, code, metrics, history>>

(* After instantiate_async: the tier, and then the counters. *)
StoreWarm(w) ==
  /\ worker[w].at = "instantiate"
  /\ tier' = "Warm"
  /\ WorkerGoto(w, "count")
  /\ UNCHANGED <<calls, slot, memory, metrics, history>>

CountWorker(w) ==
  /\ worker[w].at = "count"
  /\ metrics' = [metrics EXCEPT !.workers_created = @ + 1, !.live_workers = @ + 1]
  /\ WorkerGoto(w, "live")
  /\ UNCHANGED <<calls, code, history>>

(* ProxyHandler hands a waiting request to a worker that accepts it. *)
Accept(w, r) ==
  /\ worker[w].at = "live" /\ request[r].at = "waiting" /\ ShouldAccept(w) = "Yes"
  /\ worker' = [worker EXCEPT ![w].load = @ \cup {r}, ![w].total = @ + 1]
  /\ Goto(r, "serving")
  /\ UNCHANGED <<permits, queue, completion, code, metrics, history>>

(* The task of an abandoned call ends. *)
Forget(w, r) ==
  /\ worker[w].at = "live" /\ r \in worker[w].load /\ request[r].at # "serving"
  /\ worker' = [worker EXCEPT ![w].load = @ \ {r}]
  /\ UNCHANGED <<calls, code, metrics, history>>

(* HttpWorkerExpiration::poll for an idle worker. *)
ExpireIdle(w) ==
  /\ worker[w].at = "live" /\ worker[w].load = {}
  /\ RequestsAt("waiting") = {} \/ ShouldAccept(w) # "Yes"
  /\ worker' = [worker EXCEPT ![w] = [@ EXCEPT !.at = "drop", !.idle_expired = TRUE]]
  /\ UNCHANGED <<calls, code, metrics, history>>

(* A trap or the request timeout stops a worker and fails its requests; one *)
(* that may never accept again stops when it has none left.                 *)
StopWorker(w) ==
  /\ worker[w].at = "live"
  /\ worker[w].load # {} \/ ShouldAccept(w) = "Never"
  /\ worker' = [worker EXCEPT ![w] = [@ EXCEPT !.at = "drop", !.load = {}]]
  /\ LET failed == {r \in worker[w].load : request[r].at = "serving"}
     IN /\ request' = [r \in Requests |->
                         IF r \in failed THEN CallAt(request[r], "done") ELSE request[r]]
        /\ completion' = [r \in Requests |-> IF r \in failed THEN "dropping" ELSE completion[r]]
  /\ UNCHANGED <<permits, queue, code, metrics, history>>

-----------------------------------------------------------------------------
(* HttpWorkerState::drop: only the last live worker, and only if it expired *)
(* idle, counts an eviction and demotes the package.                        *)
DropWorker(w) ==
  /\ worker[w].at = "drop"
  /\ metrics' = [metrics EXCEPT !.live_workers = @ - 1]
  /\ WorkerGoto(w, IF metrics.live_workers = 1 /\ worker[w].idle_expired THEN "evict" ELSE "gone")
  /\ UNCHANGED <<calls, code, history>>

CountEviction(w) ==
  /\ worker[w].at = "evict"
  /\ metrics' = [metrics EXCEPT !.idle_evictions = @ + 1]
  /\ WorkerGoto(w, "clear")
  /\ UNCHANGED <<calls, code, history>>

ClearPre(w) ==
  /\ worker[w].at = "clear"
  /\ slot' = 0
  /\ history' = [history EXCEPT !.demotions = @ + 1]
  /\ WorkerGoto(w, "demote")
  /\ UNCHANGED <<calls, tier, memory, metrics>>

Demote(w) ==
  /\ worker[w].at = "demote"
  /\ memory' = "Warmish"
  /\ WorkerGoto(w, "warmish")
  /\ UNCHANGED <<calls, slot, tier, metrics, history>>

StoreWarmish(w) ==
  /\ worker[w].at = "warmish"
  /\ tier' = "Warmish"
  /\ WorkerGoto(w, "gone")
  /\ UNCHANGED <<calls, slot, memory, metrics, history>>

-----------------------------------------------------------------------------
CallStep(r) ==
  \/ Admit(r) \/ Enter(r) \/ Dispatch(r)
  \/ Complete(r) \/ DropCompletion(r) \/ ReleasePermit(r)

Poll(r) ==
  \/ \E bytes \in 1 .. MaxFrame, inner \in {"open", "ended"} : PollData(r, bytes, inner)
  \/ PollError(r)
  \/ PollEnd(r)

Serve(w) ==
  \E r \in Requests :
    \/ Accept(w, r)
    \/ Forget(w, r)
    \/ \E bytes \in 0 .. max_output_bytes + 1 : RespondBuffered(w, r, bytes)
    \/ \E inner \in {"open", "ended"} : RespondStreaming(w, r, inner)

WorkerStep(w) ==
  \/ ReadPre(w) \/ Prepare(w) \/ PublishPre(w) \/ StoreWarm(w) \/ CountWorker(w)
  \/ DropWorker(w) \/ CountEviction(w) \/ ClearPre(w) \/ Demote(w) \/ StoreWarmish(w)

Next ==
  \/ \E r \in Requests :
       \/ \E path \in Paths : Call(r, path)
       \/ CallStep(r)
       \/ Poll(r)
       \/ Abandon(r)
  \/ \E w \in Workers :
       \/ StartWorker(w)
       \/ WorkerStep(w)
       \/ Serve(w)
       \/ InstantiateFails(w)
       \/ ExpireIdle(w)
       \/ StopWorker(w)

Spec == Init /\ [][Next]_vars

(* Tasks and workers are scheduled; the ProxyHandler starts workers, hands   *)
(* them requests and stops one whose request reaches its timeout; the caller *)
(* of a streaming request polls its body to the end, as handle_streaming     *)
(* demands.  Nobody has to call or to give up, and no guest has to answer.   *)
Fairness ==
  /\ \A r \in Requests : WF_vars(CallStep(r)) /\ WF_vars(PollEnd(r))
  /\ \A w \in Workers : /\ WF_vars(StartWorker(w)) /\ WF_vars(WorkerStep(w))
                         /\ WF_vars(\E r \in Requests : Accept(w, r)) /\ WF_vars(StopWorker(w))

FairSpec == Spec /\ Fairness

-----------------------------------------------------------------------------
(* A semaphore caps admitted HTTP requests: in_flight counts the calls that  *)
(* own a completion, whatever path they leave by, and never exceeds          *)
(* max_in_flight.                                                            *)
InFlightBounded ==
  /\ metrics.in_flight = Cardinality({r \in Requests :
                            completion[r] \in {"held", "completing", "dropping"}})
  /\ metrics.in_flight <= max_in_flight

(* Streaming and buffered responses never hand the caller more than          *)
(* max_output_bytes.                                                         *)
OutputBounded ==
  \A r \in Requests : request[r].sent <= max_output_bytes

(* Concurrent instantiations share one pre-instantiation: unless the package *)
(* was demoted since it looked, a worker uses the one in the slot.           *)
PreShared ==
  \A w \in WorkersAt({"instantiate", "count", "live"}) :
    worker[w].epoch = history.demotions => worker[w].pre = slot

(* Every call returns and gives its permit back, so that the next one in the *)
(* queue is admitted.                                                        *)
EveryRequestEnds ==
  \A r \in Requests :
    request[r].at # "new" ~> request[r].at = "done" /\ completion[r] \in {"none", "released"}
=============================================================================
