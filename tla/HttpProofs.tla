------------------------------ MODULE HttpProofs ------------------------------
(***************************************************************************)
(* Proofs about the HTTP service, for any finite set of calls, any workers *)
(* and every configuration: admission is bounded and its gauge exact, no   *)
(* response exceeds the output limit, and workers instantiated between two *)
(* demotions share one pre-instantiation.                                  *)
(***************************************************************************)
EXTENDS HttpService, FiniteSetTheorems, TLAPS

-----------------------------------------------------------------------------
(* The calls of the service.                                               *)

CallStates == {"new", "queued", "admitted", "dispatch", "waiting", "serving", "body", "done"}
Completions == {"none", "held", "completing", "dropping", "releasing", "released"}
CallRecords ==
  [at : CallStates, path : {"buffered", "streaming"}, remaining : Nat, sent : Nat,
   inner : {"open", "ended"}]

Gauges ==
  [workers_created : Int, live_workers : Int, idle_evictions : Int, in_flight : Int,
   completed_requests : Int]

Typed ==
  /\ request \in [Requests -> CallRecords]
  /\ completion \in [Requests -> Completions]
  /\ permits \in Nat
  /\ metrics \in Gauges

\* What the place of a call says about its completion.
Fits(at, c) ==
  /\ at \in {"new", "queued", "admitted"} => c = "none"
  /\ at \in {"dispatch", "waiting", "serving"} => c = "held"
  /\ at = "body" => c # "none"
  /\ at = "done" => c # "held"

\* A call has its permit from its admission until its completion gives it back,
\* and is counted while it owns the completion.
Holds(at, c) == at = "admitted" \/ c \in {"held", "completing", "dropping", "releasing"}
Owns(c) == c \in {"held", "completing", "dropping"}

Holders == {r \in Requests : Holds(request[r].at, completion[r])}
Owners == {r \in Requests : Owns(completion[r])}

Counted ==
  /\ permits + Cardinality(Holders) = max_in_flight
  /\ metrics.in_flight = Cardinality(Owners)

\* Exactly the calls that wait for a permit are in the queue, each once.
Queued ==
  /\ queue \in Seq(Requests)
  /\ \A i \in 1 .. Len(queue) : request[queue[i]].at = "queued"
  /\ \A i, j \in 1 .. Len(queue) : queue[i] = queue[j] => i = j

\* What a body may still deliver was not yet delivered.
Within(q) ==
  /\ q.sent <= max_output_bytes
  /\ q.at # "done" => q.sent + q.remaining <= max_output_bytes

Admission ==
  /\ Typed /\ Counted /\ Queued
  /\ \A r \in Requests : Fits(request[r].at, completion[r]) /\ Within(request[r])

-----------------------------------------------------------------------------
(* Counting.                                                               *)

LEMMA HoldersFinite ==
  /\ IsFiniteSet(Holders) /\ Cardinality(Holders) \in Nat
  /\ IsFiniteSet(Owners) /\ Cardinality(Owners) \in Nat
  /\ Owners \subseteq Holders
  /\ Cardinality(Owners) <= Cardinality(Holders)
<1>1. Holders \subseteq Requests /\ Owners \subseteq Holders
    BY DEF Holders, Owners, Holds, Owns
<1>2. IsFiniteSet(Holders)
    BY <1>1, RequestsAssumption, FS_Subset
<1>3. IsFiniteSet(Owners) /\ Cardinality(Owners) <= Cardinality(Holders)
    BY <1>1, <1>2, FS_Subset
<1> QED
    BY <1>1, <1>2, <1>3, FS_CardinalityType

\* The size n of a set becomes m when one element, which was in it or not, is in
\* it now or not.
Recounted(n, m, was, is) ==
  /\ (was <=> is) => m = n
  /\ ~was /\ is => m = n + 1
  /\ was /\ ~is => m = n - 1

\* A set that one element may enter or leave.
LEMMA Recount ==
  ASSUME NEW S, IsFiniteSet(S), NEW r, NEW b \in BOOLEAN, NEW T,
         T = IF b THEN S \cup {r} ELSE S \ {r}
  PROVE  Recounted(Cardinality(S), Cardinality(T), r \in S, b)
<1>1. Cardinality(S) \in Nat
    BY FS_CardinalityType
<1>2. ASSUME b, r \notin S PROVE Cardinality(T) = Cardinality(S) + 1
    BY <1>1, <1>2, FS_AddElement
<1>3. ASSUME ~b, r \in S PROVE Cardinality(T) = Cardinality(S) - 1
    BY <1>1, <1>3, FS_RemoveElement, Zenon
<1>4. ASSUME r \in S <=> b PROVE T = S
    BY <1>4
<1> QED
    BY <1>2, <1>3, <1>4, Zenon DEF Recounted

\* An element joins the end of a sequence.
LEMMA AppendFacts ==
  ASSUME NEW S, NEW s \in Seq(S), NEW e \in S, NEW t, t = Append(s, e)
  PROVE  /\ t \in Seq(S) /\ Len(t) = Len(s) + 1
         /\ \A i \in 1 .. Len(s) : t[i] = s[i]
         /\ t[Len(s) + 1] = e
         /\ \A i \in 1 .. Len(t) : i \in 1 .. Len(s) \/ i = Len(s) + 1
OBVIOUS

\* The head of a sequence leaves.
LEMMA TailFacts ==
  ASSUME NEW S, NEW s \in Seq(S), s # <<>>, NEW t, t = Tail(s)
  PROVE  /\ t \in Seq(S) /\ Len(t) = Len(s) - 1
         /\ \A i \in 1 .. Len(t) : t[i] = s[i + 1] /\ i + 1 \in 2 .. Len(s)
         /\ 1 \in 1 .. Len(s)
         /\ \A i \in 2 .. Len(s) : i \in 1 .. Len(s) /\ i # 1
OBVIOUS

\* One call moves to the record q and its completion to c.
Moves(r, q, c) ==
  /\ request' = [request EXCEPT ![r] = q]
  /\ completion' = [completion EXCEPT ![r] = c]

LEMMA MoveFacts ==
  ASSUME Admission, NEW r \in Requests, NEW q \in CallRecords, NEW c \in Completions,
         Moves(r, q, c), Fits(q.at, c), Within(q)
  PROVE  /\ request' \in [Requests -> CallRecords] /\ completion' \in [Requests -> Completions]
         /\ \A p \in Requests : Fits(request'[p].at, completion'[p]) /\ Within(request'[p])
         /\ Recounted(Cardinality(Holders), Cardinality(Holders'),
                      Holds(request[r].at, completion[r]), Holds(q.at, c))
         /\ Recounted(Cardinality(Owners), Cardinality(Owners'), Owns(completion[r]), Owns(c))
<1>1. request' \in [Requests -> CallRecords] /\ completion' \in [Requests -> Completions]
    BY DEF Moves, Admission, Typed
<1>2. \A p \in Requests : /\ request'[p] = IF p = r THEN q ELSE request[p]
                          /\ completion'[p] = IF p = r THEN c ELSE completion[p]
    BY DEF Moves, Admission, Typed
<1>3. \A p \in Requests : Fits(request'[p].at, completion'[p]) /\ Within(request'[p])
    BY <1>2 DEF Admission
<1>4. /\ Holders' = IF Holds(q.at, c) THEN Holders \cup {r} ELSE Holders \ {r}
      /\ Owners' = IF Owns(c) THEN Owners \cup {r} ELSE Owners \ {r}
    BY <1>2 DEF Holders, Owners
<1>5. /\ r \in Holders <=> Holds(request[r].at, completion[r])
      /\ r \in Owners <=> Owns(completion[r])
      /\ Holds(q.at, c) \in BOOLEAN /\ Owns(c) \in BOOLEAN
    BY DEF Holders, Owners, Holds, Owns
<1>6. Recounted(Cardinality(Holders), Cardinality(Holders'), r \in Holders, Holds(q.at, c))
    BY <1>4, <1>5, HoldersFinite, Recount, Zenon
<1>7. Recounted(Cardinality(Owners), Cardinality(Owners'), r \in Owners, Owns(c))
    BY <1>4, <1>5, HoldersFinite, Recount, Zenon
<1>8. /\ (r \in Holders) = Holds(request[r].at, completion[r])
      /\ (r \in Owners) = Owns(completion[r])
    BY DEF Holders, Owners, Holds, Owns
<1> QED
    BY <1>1, <1>3, <1>6, <1>7, <1>8, Zenon

-----------------------------------------------------------------------------
(* The steps of a call.                                                    *)

LEMMA CallAtFacts ==
  ASSUME NEW q \in CallRecords, NEW a \in CallStates
  PROVE  /\ CallAt(q, a) \in CallRecords
         /\ CallAt(q, a).at = a /\ CallAt(q, a).sent = q.sent
         /\ a # "done" => CallAt(q, a).remaining = q.remaining
         /\ Within(q) => Within(CallAt(q, a)) \/ q.at = "done"
<1>1. NewCall \in CallRecords
    BY OutputAssumption DEF NewCall, CallRecords, CallStates
<1>2. CASE a = "done"
  <2>1. PICK m \in CallRecords : m = NewCall
    BY <1>1
  <2>2. CallAt(q, a) = [m EXCEPT !.at = "done", !.sent = q.sent]
    BY <1>2, <2>1 DEF CallAt
  <2> QED
    BY <1>2, <2>2, Zenon DEF CallRecords, CallStates, Within
<1>3. CASE a # "done"
  <2>1. CallAt(q, a) = [q EXCEPT !.at = a]
    BY <1>3 DEF CallAt
  <2> QED
    BY <1>3, <2>1 DEF CallRecords, Within
<1> QED
    BY <1>2, <1>3

\* The queue is left alone, and so is everybody in it.
LEMMA QueueStays ==
  ASSUME Admission, NEW r \in Requests, request[r].at # "queued", UNCHANGED queue,
         \A p \in Requests : p # r => request'[p] = request[p]
  PROVE  Queued'
<1>1. \A i \in 1 .. Len(queue) : queue[i] \in Requests /\ queue[i] # r
    BY DEF Admission, Queued
<1> QED
    BY <1>1 DEF Admission, Queued

\* A step that moves a call between two places of the same standing.
LEMMA StayKeeps ==
  ASSUME Admission, NEW r \in Requests, NEW q \in CallRecords, NEW c \in Completions,
         Moves(r, q, c), Fits(q.at, c), Within(q),
         Holds(q.at, c) <=> Holds(request[r].at, completion[r]),
         Owns(c) <=> Owns(completion[r]),
         request[r].at # "queued",
         UNCHANGED <<permits, queue>>,
         metrics' \in Gauges, metrics'.in_flight = metrics.in_flight
  PROVE  Admission'
<1>1. /\ request' \in [Requests -> CallRecords] /\ completion' \in [Requests -> Completions]
      /\ \A p \in Requests : Fits(request'[p].at, completion'[p]) /\ Within(request'[p])
      /\ Cardinality(Holders') = Cardinality(Holders)
      /\ Cardinality(Owners') = Cardinality(Owners)
    BY MoveFacts, Zenon DEF Recounted
<1>2. Typed'
    BY <1>1 DEF Admission, Typed
<1>3. Counted'
    BY <1>1, <1>2 DEF Admission, Counted
<1>4. \A p \in Requests : p # r => request'[p] = request[p]
    BY DEF Moves, Admission, Typed
<1>5. Queued'
    BY <1>4, QueueStays
<1> QED
    BY <1>1, <1>2, <1>3, <1>5 DEF Admission

\* What the queue of an admissible state holds.
LEMMA QueueFacts ==
  ASSUME Admission
  PROVE  /\ queue \in Seq(Requests)
         /\ \A i \in 1 .. Len(queue) : queue[i] \in Requests /\ request[queue[i]].at = "queued"
         /\ \A i, j \in 1 .. Len(queue) : queue[i] = queue[j] => i = j
<1>1. Queued
    BY DEF Admission
<1>2. queue \in Seq(Requests)
    BY <1>1 DEF Queued
<1>3. \A i \in 1 .. Len(queue) : queue[i] \in Requests
    BY <1>2
<1> QED
    BY <1>1, <1>3, Zenon DEF Queued

LEMMA AdmissionInitially == Init => Admission
<1> SUFFICES ASSUME Init PROVE Admission
    OBVIOUS
<1>1. NewCall \in CallRecords /\ NewCall.at = "new" /\ Within(NewCall)
    BY OutputAssumption DEF NewCall, CallRecords, CallStates, Within
<1>2. Typed
    BY <1>1, ConfigAssumption DEF Init, Typed, Completions, Gauges
<1>3. Holders = {} /\ Owners = {}
    BY <1>1 DEF Init, Holders, Owners, Holds, Owns
<1>4. Counted
    BY <1>3, FS_EmptySet, ConfigAssumption DEF Init, Counted
<1>5. Queued
    BY DEF Init, Queued
<1>6. \A r \in Requests : Fits(request[r].at, completion[r]) /\ Within(request[r])
    BY <1>1 DEF Init, Fits
<1> QED
    BY <1>2, <1>4, <1>5, <1>6 DEF Admission

\* handle or handle_streaming queues up.
LEMMA CallKeeps ==
  ASSUME Admission, NEW r \in Requests, NEW path \in Paths, Call(r, path)
  PROVE  Admission'
<1> DEFINE q == [request[r] EXCEPT !.at = "queued", !.path = path]
<1>1. /\ q \in CallRecords /\ q.at = "queued" /\ Within(q)
      /\ request[r].at = "new" /\ completion[r] = "none"
    BY PathsAssumption, Zenon DEF Call, Admission, Typed, CallRecords, CallStates, Within, Fits
<1>2. Moves(r, q, "none")
    BY <1>1, Zenon DEF Call, Moves, Admission, Typed
<1> HIDE DEF q
<1>3. /\ request' \in [Requests -> CallRecords] /\ completion' \in [Requests -> Completions]
      /\ \A p \in Requests : Fits(request'[p].at, completion'[p]) /\ Within(request'[p])
      /\ Cardinality(Holders') = Cardinality(Holders)
      /\ Cardinality(Owners') = Cardinality(Owners)
  <2>1. /\ "none" \in Completions /\ Fits(q.at, "none")
        /\ ~Holds(q.at, "none") /\ ~Holds(request[r].at, completion[r])
        /\ ~Owns("none") /\ ~Owns(completion[r])
    BY <1>1, Zenon DEF Fits, Holds, Owns, Completions
  <2> QED
    BY <1>1, <1>2, <2>1, MoveFacts, Zenon DEF Recounted
<1>4. Typed' /\ Counted'
    BY <1>3 DEF Call, Admission, Typed, Counted
<1>5. \A p \in Requests : request'[p] = IF p = r THEN q ELSE request[p]
    BY <1>2 DEF Moves, Admission, Typed
<1>6. \A i \in 1 .. Len(queue) : queue[i] \in Requests /\ queue[i] # r
    BY <1>1, QueueFacts, Zenon
<1>8. queue' = Append(queue, r)
    BY DEF Call
<1>9. /\ queue' \in Seq(Requests) /\ Len(queue') = Len(queue) + 1
      /\ \A i \in 1 .. Len(queue) : queue'[i] = queue[i]
      /\ queue'[Len(queue) + 1] = r
      /\ \A i \in 1 .. Len(queue') : i \in 1 .. Len(queue) \/ i = Len(queue) + 1
    BY <1>8, QueueFacts, AppendFacts
<1>10. \A i \in 1 .. Len(queue') : request'[queue'[i]].at = "queued"
    BY <1>1, <1>5, <1>6, <1>9, QueueFacts
<1>11. \A i, j \in 1 .. Len(queue') : queue'[i] = queue'[j] => i = j
    BY <1>6, <1>9, QueueFacts, Zenon
<1>7. Queued'
    BY <1>9, <1>10, <1>11, Zenon DEF Queued
<1> QED
    BY <1>3, <1>4, <1>7 DEF Admission

\* A permit goes to the head of the queue.
LEMMA AdmitKeeps ==
  ASSUME Admission, NEW r \in Requests, Admit(r)
  PROVE  Admission'
<1> DEFINE q == CallAt(request[r], "admitted")
<1>1. request[r] \in CallRecords /\ Within(request[r]) /\ request[r].at = "queued"
      /\ completion[r] = "none"
    BY DEF Admit, Admission, Typed, Queued, Fits
<1>2. q \in CallRecords /\ q.at = "admitted" /\ Within(q)
    BY <1>1, CallAtFacts DEF CallStates
<1>3. Moves(r, q, "none")
    BY <1>1 DEF Admit, Goto, Moves, Admission, Typed
<1> HIDE DEF q
<1>4. /\ request' \in [Requests -> CallRecords] /\ completion' \in [Requests -> Completions]
      /\ \A p \in Requests : Fits(request'[p].at, completion'[p]) /\ Within(request'[p])
      /\ Cardinality(Holders') = Cardinality(Holders) + 1
      /\ Cardinality(Owners') = Cardinality(Owners)
  <2>1. /\ "none" \in Completions /\ Fits(q.at, "none")
        /\ Holds(q.at, "none") /\ ~Holds(request[r].at, completion[r])
        /\ ~Owns("none") /\ ~Owns(completion[r])
    BY <1>1, <1>2, Zenon DEF Fits, Holds, Owns, Completions
  <2> QED
    BY <1>2, <1>3, <2>1, MoveFacts, Zenon DEF Recounted
<1>5. permits' = permits - 1 /\ permits > 0 /\ metrics' = metrics
    BY DEF Admit
<1>6. Typed' /\ Counted'
    BY <1>4, <1>5, HoldersFinite, ConfigAssumption DEF Admission, Typed, Counted
<1>7. \A p \in Requests : request'[p] = IF p = r THEN q ELSE request[p]
    BY <1>3 DEF Moves, Admission, Typed
<1>8. queue # <<>> /\ queue[1] = r /\ queue' = Tail(queue)
    BY DEF Admit
<1>9. /\ queue' \in Seq(Requests) /\ Len(queue') = Len(queue) - 1
      /\ \A i \in 1 .. Len(queue') : queue'[i] = queue[i + 1] /\ i + 1 \in 2 .. Len(queue)
      /\ 1 \in 1 .. Len(queue)
      /\ \A i \in 2 .. Len(queue) : i \in 1 .. Len(queue) /\ i # 1
    BY <1>8, QueueFacts, TailFacts
<1>10. \A i \in 2 .. Len(queue) : queue[i] \in Requests /\ queue[i] # r
    BY <1>8, <1>9, QueueFacts, Zenon
<1>11. \A i \in 1 .. Len(queue') : request'[queue'[i]].at = "queued"
    BY <1>7, <1>9, <1>10, QueueFacts
<1>12. \A i, j \in 1 .. Len(queue') : queue'[i] = queue'[j] => i + 1 = j + 1
    BY <1>9, QueueFacts
<1>13. \A i, j \in 1 .. Len(queue') : i + 1 = j + 1 => i = j
    OBVIOUS
<1>14. Queued'
    BY <1>9, <1>11, <1>12, <1>13, Zenon DEF Queued
<1> QED
    BY <1>4, <1>6, <1>14 DEF Admission

\* The completion takes the permit and is counted.
LEMMA EnterKeeps ==
  ASSUME Admission, NEW r \in Requests, Enter(r)
  PROVE  Admission'
<1> DEFINE q == CallAt(request[r], "dispatch")
<1>1. request[r] \in CallRecords /\ Within(request[r]) /\ request[r].at = "admitted"
      /\ completion[r] = "none"
    BY DEF Enter, Admission, Typed, Fits
<1>2. q \in CallRecords /\ q.at = "dispatch" /\ Within(q)
    BY <1>1, CallAtFacts DEF CallStates
<1>3. Moves(r, q, "held")
    BY DEF Enter, Goto, Moves
<1> HIDE DEF q
<1>4. /\ request' \in [Requests -> CallRecords] /\ completion' \in [Requests -> Completions]
      /\ \A p \in Requests : Fits(request'[p].at, completion'[p]) /\ Within(request'[p])
      /\ Cardinality(Holders') = Cardinality(Holders)
      /\ Cardinality(Owners') = Cardinality(Owners) + 1
  <2>1. /\ "held" \in Completions /\ Fits(q.at, "held")
        /\ Holds(q.at, "held") /\ Holds(request[r].at, completion[r])
        /\ Owns("held") /\ ~Owns(completion[r])
    BY <1>1, <1>2, Zenon DEF Fits, Holds, Owns, Completions
  <2> QED
    BY <1>2, <1>3, <2>1, MoveFacts, Zenon DEF Recounted
<1>5. /\ metrics' \in Gauges /\ metrics'.in_flight = metrics.in_flight + 1
      /\ UNCHANGED <<permits, queue>>
    BY DEF Enter, Admission, Typed, Gauges
<1>6. Typed' /\ Counted'
    BY <1>4, <1>5 DEF Admission, Typed, Counted
<1>7. \A p \in Requests : p # r => request'[p] = request[p]
    BY <1>3 DEF Moves, Admission, Typed
<1>8. Queued'
    BY <1>1, <1>5, <1>7, QueueStays
<1> QED
    BY <1>4, <1>6, <1>8 DEF Admission

\* The drop of the completion: first the gauge, then the permit.
LEMMA ReleaseKeeps ==
  ASSUME Admission, NEW r \in Requests, DropCompletion(r) \/ ReleasePermit(r)
  PROVE  Admission'
<1> DEFINE q == request[r]
           c == completion'[r]
<1>1. /\ q \in CallRecords /\ Within(q) /\ q.at \in {"body", "done"}
      /\ c \in Completions /\ Moves(r, q, c)
    BY DEF DropCompletion, ReleasePermit, Moves, Admission, Typed, Completions, Fits,
           CallRecords, CallStates
<1>2. /\ completion[r] \in {"dropping", "releasing"} /\ c \in {"releasing", "released"}
      /\ completion[r] = "dropping" <=> c = "releasing"
      /\ UNCHANGED queue
    BY DEF DropCompletion, ReleasePermit, Admission, Typed
<1>3. /\ metrics' \in Gauges /\ permits' \in Nat
      /\ permits' = IF c = "released" THEN permits + 1 ELSE permits
      /\ metrics'.in_flight =
           IF c = "releasing" THEN metrics.in_flight - 1 ELSE metrics.in_flight
    BY <1>2 DEF DropCompletion, ReleasePermit, Admission, Typed, Gauges
<1> HIDE DEF c
<1>4. /\ request' \in [Requests -> CallRecords] /\ completion' \in [Requests -> Completions]
      /\ \A p \in Requests : Fits(request'[p].at, completion'[p]) /\ Within(request'[p])
      /\ Cardinality(Holders') = Cardinality(Holders) + (IF c = "released" THEN -1 ELSE 0)
      /\ Cardinality(Owners') = Cardinality(Owners) + (IF c = "releasing" THEN -1 ELSE 0)
  <2>1. /\ Fits(q.at, c)
        /\ Holds(request[r].at, completion[r]) /\ (Holds(q.at, c) <=> c # "released")
        /\ Owns(completion[r]) <=> c = "releasing"
        /\ ~Owns(c)
    BY <1>1, <1>2 DEF Fits, Holds, Owns
  <2>2. /\ request' \in [Requests -> CallRecords] /\ completion' \in [Requests -> Completions]
        /\ \A p \in Requests : Fits(request'[p].at, completion'[p]) /\ Within(request'[p])
        /\ Recounted(Cardinality(Holders), Cardinality(Holders'),
                     Holds(request[r].at, completion[r]), Holds(q.at, c))
        /\ Recounted(Cardinality(Owners), Cardinality(Owners'), Owns(completion[r]), Owns(c))
    BY <1>1, <2>1, MoveFacts, Zenon
  <2> QED
    BY <2>1, <2>2, HoldersFinite DEF Recounted
<1>5. Typed' /\ Counted'
    BY <1>2, <1>3, <1>4, HoldersFinite DEF Admission, Typed, Counted
<1>6. \A p \in Requests : p # r => request'[p] = request[p]
    BY <1>1 DEF Moves, Admission, Typed
<1>7. Queued'
    BY <1>1, <1>2, <1>6, QueueStays
<1> QED
    BY <1>4, <1>5, <1>7 DEF Admission

\* A call that is past its admission goes on, or is done.
LEMMA GotoKeeps ==
  ASSUME Admission, NEW r \in Requests, NEW a \in CallStates, NEW c \in Completions,
         Goto(r, a), completion' = [completion EXCEPT ![r] = c],
         request[r].at \notin {"queued", "admitted", "done"}, a # "admitted", Fits(a, c),
         Holds(a, c) <=> Holds(request[r].at, completion[r]),
         Owns(c) <=> Owns(completion[r]),
         UNCHANGED <<permits, queue, metrics>>
  PROVE  Admission'
<1> DEFINE q == CallAt(request[r], a)
<1>1. request[r] \in CallRecords /\ Within(request[r])
    BY DEF Admission, Typed
<1>2. q \in CallRecords /\ q.at = a /\ Within(q)
    BY <1>1, CallAtFacts
<1>3. Moves(r, q, c)
    BY DEF Goto, Moves
<1>4. metrics' \in Gauges /\ metrics'.in_flight = metrics.in_flight
    BY DEF Admission, Typed
<1> HIDE DEF q
<1> QED
    BY <1>2, <1>3, <1>4, StayKeeps

LEMMA DispatchKeeps ==
  ASSUME Admission, NEW r \in Requests, Dispatch(r)
  PROVE  Admission'
<1>1. /\ request[r].at = "dispatch" /\ completion[r] = "held"
      /\ UNCHANGED <<permits, queue, metrics>>
    BY DEF Dispatch, Admission, Fits
<1>2. CASE Goto(r, "waiting") /\ UNCHANGED completion
  <2>1. completion' = [completion EXCEPT ![r] = "held"]
    BY <1>1, <1>2 DEF Admission, Typed
  <2> QED
    BY <1>1, <1>2, <2>1, GotoKeeps, Zenon DEF CallStates, Completions, Fits, Holds, Owns
<1>3. CASE Goto(r, "done") /\ completion' = [completion EXCEPT ![r] = "dropping"]
    BY <1>1, <1>3, GotoKeeps, Zenon DEF CallStates, Completions, Fits, Holds, Owns
<1> QED
    BY <1>2, <1>3 DEF Dispatch

LEMMA CompleteKeeps ==
  ASSUME Admission, NEW r \in Requests, Complete(r)
  PROVE  Admission'
<1>1. /\ completion[r] = "completing" /\ request[r].at \in {"body", "done"}
      /\ request[r] \in CallRecords /\ Within(request[r])
    BY DEF Complete, Admission, Typed, Fits, CallRecords, CallStates
<1>2. Moves(r, request[r], "dropping")
    BY DEF Complete, Moves, Admission, Typed
<1>3. /\ metrics' \in Gauges /\ metrics'.in_flight = metrics.in_flight
      /\ UNCHANGED <<permits, queue>>
    BY DEF Complete, Admission, Typed, Gauges
<1> QED
    BY <1>1, <1>2, <1>3, StayKeeps DEF Completions, Fits, Holds, Owns

LEMMA Shift ==
  ASSUME NEW n \in Nat, NEW k \in Nat, NEW i \in 1 .. n - 1, 1 <= k, k <= n, ~(i < k)
  PROVE  i - (k - 1) \in 1 .. n - k /\ (i - (k - 1)) + k = i + 1
OBVIOUS

\* What a concatenation holds.
LEMMA Joined ==
  ASSUME NEW S, NEW s \in Seq(S), NEW t \in Seq(S)
  PROVE  /\ s \o t \in Seq(S) /\ Len(s \o t) = Len(s) + Len(t)
         /\ \A i \in 1 .. Len(s) + Len(t) :
              (s \o t)[i] = IF i <= Len(s) THEN s[i] ELSE t[i - Len(s)]
<1>1. s \o t \in Seq(S)
    OBVIOUS
<1>2. Len(s \o t) = Len(s) + Len(t)
    OBVIOUS
<1>3. ASSUME NEW i \in 1 .. Len(s) + Len(t)
      PROVE  (s \o t)[i] = IF i <= Len(s) THEN s[i] ELSE t[i - Len(s)]
    OBVIOUS
<1> QED
    BY <1>1, <1>2, <1>3

\* A sequence without its k-th element.
LEMMA RemovalFacts ==
  ASSUME NEW S, NEW s \in Seq(S), NEW k \in 1 .. Len(s)
  PROVE  /\ Without(s, k) \in Seq(S) /\ Len(Without(s, k)) = Len(s) - 1
         /\ \A i \in 1 .. Len(s) - 1 :
              Without(s, k)[i] = IF i < k THEN s[i] ELSE s[i + 1]
<1> DEFINE t == Without(s, k)
           a == SubSeq(s, 1, k - 1)
           b == SubSeq(s, k + 1, Len(s))
<1>1. a \in Seq(S) /\ Len(a) = k - 1 /\ \A i \in 1 .. k - 1 : a[i] = s[i]
    OBVIOUS
<1>2. b \in Seq(S) /\ Len(b) = Len(s) - k /\ \A i \in 1 .. Len(s) - k : b[i] = s[i + k]
    OBVIOUS
<1> HIDE DEF t, a, b
<1>3. t = a \o b
    BY DEF t, a, b, Without
<1>4. /\ a \o b \in Seq(S) /\ Len(a \o b) = Len(a) + Len(b)
      /\ \A i \in 1 .. Len(a) + Len(b) :
           (a \o b)[i] = IF i <= Len(a) THEN a[i] ELSE b[i - Len(a)]
    BY <1>1, <1>2, Joined, Zenon
<1>7. t \in Seq(S) /\ Len(t) = Len(a) + Len(b)
    BY <1>3, <1>4, Zenon
<1>8. Len(s) \in Nat /\ k \in Nat /\ 1 <= k /\ k <= Len(s)
    OBVIOUS
<1>9. (k - 1) + (Len(s) - k) = Len(s) - 1
    BY <1>8
<1>5. t \in Seq(S) /\ Len(t) = Len(s) - 1
    BY <1>1, <1>2, <1>7, <1>9, Zenon
<1>6. ASSUME NEW i \in 1 .. Len(s) - 1
      PROVE  t[i] = IF i < k THEN s[i] ELSE s[i + 1]
  <2>1. t[i] = IF i <= k - 1 THEN a[i] ELSE b[i - (k - 1)]
    <3>1. i \in 1 .. Len(a) + Len(b)
      BY <1>1, <1>2, <1>9, Zenon
    <3>2. t[i] = IF i <= Len(a) THEN a[i] ELSE b[i - Len(a)]
      BY <1>3, <1>4, <3>1, Zenon
    <3> QED
      BY <1>1, <3>2, Zenon
  <2>2. CASE i < k
    BY <1>1, <2>1, <2>2
  <2>3. CASE ~(i < k)
    <3>1. i - (k - 1) \in 1 .. Len(s) - k /\ (i - (k - 1)) + k = i + 1
      BY <1>8, <2>3, Shift
    <3> QED
      BY <1>2, <2>1, <2>3, <3>1
  <2> QED
    BY <2>2, <2>3
<1> QED
    BY <1>5, <1>6 DEF t

\* The caller gives up its place in the queue, or its completion.
LEMMA AbandonKeeps ==
  ASSUME Admission, NEW r \in Requests, Abandon(r)
  PROVE  Admission'
<1>1. CASE request[r].at # "queued"
  <2>1. /\ request[r].at \in {"waiting", "serving", "body"}
        /\ completion[r] \in {"held", "released"}
        /\ Goto(r, "done") /\ UNCHANGED <<permits, queue, metrics>>
    BY <1>1 DEF Abandon, Settled, Admission, Fits
  <2>2. CASE completion[r] = "held"
    BY <2>1, <2>2, GotoKeeps, Zenon DEF Abandon, CallStates, Completions, Fits, Holds, Owns
  <2>3. CASE completion[r] = "released"
    BY <2>1, <2>3, GotoKeeps, Zenon DEF Abandon, CallStates, Completions, Fits, Holds, Owns
  <2> QED
    BY <2>1, <2>2, <2>3
<1>2. CASE request[r].at = "queued"
  <2> DEFINE q == CallAt(request[r], "done")
  <2>1. /\ request[r] \in CallRecords /\ Within(request[r])
        /\ completion[r] = "none" /\ UNCHANGED <<permits, metrics>>
    BY <1>2 DEF Abandon, Admission, Typed, Fits
  <2>2. q \in CallRecords /\ q.at = "done" /\ Within(q)
    BY <1>2, <2>1, CallAtFacts DEF CallStates
  <2>3. Moves(r, q, "none")
    BY <2>1 DEF Abandon, Goto, Moves
  <2> HIDE DEF q
  <2>4. /\ request' \in [Requests -> CallRecords] /\ completion' \in [Requests -> Completions]
        /\ \A p \in Requests : Fits(request'[p].at, completion'[p]) /\ Within(request'[p])
        /\ Cardinality(Holders') = Cardinality(Holders)
        /\ Cardinality(Owners') = Cardinality(Owners)
    <3>1. /\ "none" \in Completions /\ Fits(q.at, "none")
          /\ ~Holds(q.at, "none") /\ ~Holds(request[r].at, completion[r])
          /\ ~Owns("none") /\ ~Owns(completion[r])
      BY <1>2, <2>1, <2>2 DEF Fits, Holds, Owns, Completions
    <3> QED
      BY <2>2, <2>3, <3>1, MoveFacts, Zenon DEF Recounted
  <2>5. Typed' /\ Counted'
    BY <2>1, <2>4 DEF Admission, Typed, Counted
  <2>6. \A p \in Requests : p # r => request'[p] = request[p]
    BY <2>3 DEF Moves, Admission, Typed
  <2>7. PICK k \in 1 .. Len(queue) :
          /\ queue[k] = r
          /\ queue' = Without(queue, k)
    BY <1>2 DEF Abandon
  <2>13. queue \in Seq(Requests)
    BY DEF Admission, Queued
  <2>8. /\ queue' \in Seq(Requests) /\ Len(queue') = Len(queue) - 1
        /\ \A i \in 1 .. Len(queue') : queue'[i] = IF i < k THEN queue[i] ELSE queue[i + 1]
    BY <2>7, <2>13, RemovalFacts, Zenon
  <2>9. \A i \in 1 .. Len(queue) : i # k => queue[i] \in Requests /\ queue[i] # r
    BY <2>7 DEF Admission, Queued
  <2>11. \A i \in 1 .. Len(queue') : request'[queue'[i]].at = "queued"
    BY <2>6, <2>8, <2>9 DEF Admission, Queued
  <2>12. \A i, j \in 1 .. Len(queue') : queue'[i] = queue'[j] => i = j
    <3> SUFFICES ASSUME NEW i \in 1 .. Len(queue'), NEW j \in 1 .. Len(queue'),
                        queue'[i] = queue'[j]
                 PROVE  i = j
      OBVIOUS
    <3>1. PICK a \in 1 .. Len(queue) :
            queue'[i] = queue[a] /\ a = IF i < k THEN i ELSE i + 1
      BY <2>8
    <3>2. PICK b \in 1 .. Len(queue) :
            queue'[j] = queue[b] /\ b = IF j < k THEN j ELSE j + 1
      BY <2>8
    <3>3. a = b
      BY <3>1, <3>2, Zenon DEF Admission, Queued
    <3> QED
      BY <3>1, <3>2, <3>3
  <2>10. Queued'
    BY <2>8, <2>11, <2>12 DEF Queued
  <2> QED
    BY <2>4, <2>5, <2>10 DEF Admission
<1> QED
    BY <1>1, <1>2

-----------------------------------------------------------------------------
(* The responses.                                                          *)

LEMMA RespondBufferedKeeps ==
  ASSUME Admission, NEW w \in Workers, NEW r \in Requests,
         NEW bytes \in 0 .. max_output_bytes + 1, RespondBuffered(w, r, bytes)
  PROVE  Admission'
<1>1. /\ request[r] \in CallRecords /\ Within(request[r])
      /\ request[r].at = "serving" /\ completion[r] = "held"
      /\ UNCHANGED <<permits, queue, metrics>>
    BY DEF RespondBuffered, Answers, Admission, Typed, Fits
<1>2. PICK done \in CallRecords : done = CallAt(request[r], "done") /\ done.at = "done"
    BY <1>1, CallAtFacts DEF CallStates
<1> DEFINE size == IF bytes > max_output_bytes THEN 0 ELSE bytes
<1>3. size \in Nat /\ size <= max_output_bytes
    BY OutputAssumption
<1>4. PICK c \in {"dropping", "completing"} :
        completion' = [completion EXCEPT ![r] = c]
    BY Zenon DEF RespondBuffered
<1> DEFINE q == [done EXCEPT !.sent = size]
<1>6. Moves(r, q, c)
    BY <1>2, <1>4, Zenon DEF RespondBuffered, Moves
<1> HIDE DEF size
<1>8. q \in CallRecords /\ q.at = "done" /\ q.sent = size
    BY <1>2, <1>3 DEF CallRecords
<1>5. Within(q)
    BY <1>3, <1>8 DEF Within
<1>7. metrics' \in Gauges /\ metrics'.in_flight = metrics.in_flight
    BY <1>1 DEF Admission, Typed
<1> HIDE DEF q
<1> QED
    BY <1>1, <1>5, <1>6, <1>7, <1>8, StayKeeps DEF Completions, Fits, Holds, Owns

\* A body of the caller's own: from serving, or from one frame to the next.
LEMMA BodyKeeps ==
  ASSUME Admission, NEW r \in Requests, NEW q \in CallRecords, NEW c \in Completions,
         request[r].at \in {"serving", "body"}, q.at = "body", Within(q), Moves(r, q, c),
         c = completion[r] \/ (completion[r] = "held" /\ c \in {"completing", "dropping"}),
         UNCHANGED <<permits, queue, metrics>>
  PROVE  Admission'
<1>1. completion[r] # "none"
    BY DEF Admission, Fits
<1>2. metrics' \in Gauges /\ metrics'.in_flight = metrics.in_flight
    BY DEF Admission, Typed
<1> QED
    BY <1>1, <1>2, StayKeeps DEF Fits, Holds, Owns

LEMMA RespondStreamingKeeps ==
  ASSUME Admission, NEW w \in Workers, NEW r \in Requests, NEW inner \in {"open", "ended"},
         RespondStreaming(w, r, inner)
  PROVE  Admission'
<1> DEFINE q == [request[r] EXCEPT !.at = "body", !.inner = inner]
           c == IF inner = "ended" THEN "completing" ELSE "held"
<1>1. /\ request[r] \in CallRecords /\ Within(request[r])
      /\ request[r].at = "serving" /\ completion[r] = "held"
      /\ UNCHANGED <<permits, queue, metrics>>
    BY DEF RespondStreaming, Answers, Admission, Typed, Fits
<1>2. q \in CallRecords /\ q.at = "body" /\ Within(q)
    BY <1>1, Zenon DEF CallRecords, CallStates, Within
<1>3. Moves(r, q, c)
    BY Zenon DEF RespondStreaming, Moves, Admission, Typed
<1>4. c \in Completions /\ c \in {"held", "completing"}
    BY DEF Completions
<1> HIDE DEF q, c
<1> QED
    BY <1>1, <1>2, <1>3, <1>4, BodyKeeps

\* A data frame is passed on within what remains, or ends the body.
LEMMA PollDataKeeps ==
  ASSUME Admission, NEW r \in Requests, NEW bytes \in 1 .. MaxFrame,
         NEW inner \in {"open", "ended"}, PollData(r, bytes, inner)
  PROVE  Admission'
<1>1. /\ request[r] \in CallRecords /\ Within(request[r])
      /\ request[r].at = "body" /\ completion[r] \in {"held", "released"}
      /\ UNCHANGED <<permits, queue, metrics>>
    BY DEF PollData, Settled, Admission, Typed, Fits
<1>2. PICK remaining \in Nat, size \in Nat :
        /\ remaining = request[r].remaining /\ size = request[r].sent
        /\ size + remaining <= max_output_bytes
    BY <1>1 DEF CallRecords, Within
<1>3. CASE bytes > remaining
  <2> DEFINE q == [request[r] EXCEPT !.remaining = 0, !.inner = inner]
             c == IF completion[r] = "held" THEN "dropping" ELSE completion[r]
  <2>4. q \in CallRecords /\ q.at = "body" /\ q.sent = size /\ q.remaining = 0
    BY <1>1, <1>2, Zenon DEF CallRecords
  <2>1. q \in CallRecords /\ q.at = "body" /\ Within(q)
    BY <1>2, <2>4, OutputAssumption DEF Within
  <2>2. Moves(r, q, c)
    BY <1>2, <1>3, Zenon DEF PollData, Moves, Admission, Typed
  <2>3. c \in Completions /\ (c = completion[r] \/ (completion[r] = "held" /\ c = "dropping"))
    BY <1>1 DEF Completions
  <2> HIDE DEF q, c
  <2> QED
    BY <1>1, <2>1, <2>2, <2>3, BodyKeeps
<1>4. CASE ~(bytes > remaining)
  <2>1. PICK left \in Nat, passed \in Nat :
          /\ left = remaining - bytes /\ passed = size + bytes
          /\ passed + left <= max_output_bytes /\ passed <= max_output_bytes
    BY <1>2, <1>4, OutputAssumption
  <2> DEFINE q == [request[r] EXCEPT !.remaining = left, !.sent = passed, !.inner = inner]
  <2>2. q \in CallRecords /\ q.at = "body" /\ Within(q)
    BY <1>1, <2>1, Zenon DEF CallRecords, Within
  <2>3. Moves(r, q, completion[r])
    BY <1>2, <1>4, <2>1, Zenon DEF PollData, Moves, Admission, Typed
  <2>4. completion[r] \in Completions
    BY DEF Admission, Typed
  <2> HIDE DEF q
  <2> QED
    BY <1>1, <2>2, <2>3, <2>4, BodyKeeps
<1> QED
    BY <1>3, <1>4

LEMMA PollErrorKeeps ==
  ASSUME Admission, NEW r \in Requests, PollError(r)
  PROVE  Admission'
<1> DEFINE q == [request[r] EXCEPT !.inner = "ended"]
           c == IF completion[r] = "held" THEN "dropping" ELSE completion[r]
<1>1. /\ request[r] \in CallRecords /\ Within(request[r])
      /\ request[r].at = "body" /\ completion[r] \in {"held", "released"}
      /\ UNCHANGED <<permits, queue, metrics>>
    BY DEF PollError, Settled, Admission, Typed, Fits
<1>2. q \in CallRecords /\ q.at = "body" /\ Within(q)
    BY <1>1 DEF CallRecords, Within
<1>3. Moves(r, q, c)
    BY DEF PollError, Moves
<1>4. c \in Completions /\ (c = completion[r] \/ (completion[r] = "held" /\ c = "dropping"))
    BY <1>1 DEF Completions
<1> HIDE DEF q, c
<1> QED
    BY <1>1, <1>2, <1>3, <1>4, BodyKeeps

LEMMA PollEndKeeps ==
  ASSUME Admission, NEW r \in Requests, PollEnd(r)
  PROVE  Admission'
<1> DEFINE c == IF completion[r] = "held" THEN "completing" ELSE completion[r]
<1>1. /\ request[r].at = "body" /\ completion[r] \in {"held", "released"}
      /\ Goto(r, "done") /\ completion' = [completion EXCEPT ![r] = c]
      /\ UNCHANGED <<permits, queue, metrics>>
    BY DEF PollEnd, Settled, Admission, Fits
<1>2. /\ c \in Completions /\ Fits("done", c)
      /\ Holds("done", c) <=> Holds("body", completion[r])
      /\ Owns(c) <=> Owns(completion[r])
    BY <1>1 DEF Completions, Fits, Holds, Owns
<1> HIDE DEF c
<1> QED
    BY <1>1, <1>2, GotoKeeps, Zenon DEF CallStates

-----------------------------------------------------------------------------
(* What workers do to calls.                                               *)

LEMMA AcceptKeeps ==
  ASSUME Admission, NEW w \in Workers, NEW r \in Requests, Accept(w, r)
  PROVE  Admission'
<1>1. /\ request[r].at = "waiting" /\ completion[r] = "held"
      /\ Goto(r, "serving") /\ completion' = [completion EXCEPT ![r] = "held"]
      /\ UNCHANGED <<permits, queue, metrics>>
    BY DEF Accept, Admission, Typed, Fits
<1> QED
    BY <1>1, GotoKeeps, Zenon DEF CallStates, Completions, Fits, Holds, Owns

\* Nothing about the calls or the gauge changes.
LEMMA CallsStay ==
  ASSUME Admission, UNCHANGED calls, metrics' \in Gauges,
         metrics'.in_flight = metrics.in_flight
  PROVE  Admission'
<1>1. Holders' = Holders /\ Owners' = Owners
    BY DEF calls, Holders, Owners
<1> QED
    BY <1>1 DEF calls, Admission, Typed, Counted, Queued

LEMMA InstantiateFailsKeeps ==
  ASSUME Admission, NEW w \in Workers, InstantiateFails(w)
  PROVE  Admission'
<1>1. UNCHANGED <<permits, queue, metrics>> /\ metrics' \in Gauges
    BY DEF InstantiateFails, Admission, Typed
<1>2. CASE UNCHANGED <<request, completion>>
    BY <1>1, <1>2, CallsStay DEF calls
<1>3. ASSUME NEW r \in RequestsAt("waiting"), Goto(r, "done"),
             completion' = [completion EXCEPT ![r] = "dropping"]
      PROVE  Admission'
  <2>1. r \in Requests /\ request[r].at = "waiting" /\ completion[r] = "held"
    BY <1>3 DEF RequestsAt, Admission, Fits
  <2> QED
    BY <1>1, <1>3, <2>1, GotoKeeps, Zenon DEF CallStates, Completions, Fits, Holds, Owns
<1> QED
    BY <1>2, <1>3, Zenon DEF InstantiateFails

\* The requests of a worker that stops fail together: each keeps its permit
\* until its completion is dropped.
LEMMA StopWorkerKeeps ==
  ASSUME Admission, NEW w \in Workers, StopWorker(w)
  PROVE  Admission'
<1> DEFINE failed == {r \in worker[w].load : request[r].at = "serving"}
<1>1. /\ request' = [r \in Requests |->
                       IF r \in failed THEN CallAt(request[r], "done") ELSE request[r]]
      /\ completion' = [r \in Requests |-> IF r \in failed THEN "dropping" ELSE completion[r]]
      /\ UNCHANGED <<permits, queue, metrics>>
    BY DEF StopWorker
<1>2. \A r \in failed : request[r].at = "serving"
    OBVIOUS
<1> HIDE DEF failed
<1>3. \A r \in Requests \cap failed :
        /\ request[r].at = "serving" /\ completion[r] = "held"
        /\ request'[r] \in CallRecords /\ request'[r].at = "done" /\ Within(request'[r])
        /\ completion'[r] = "dropping"
  <2> TAKE r \in Requests \cap failed
  <2>1. /\ request[r] \in CallRecords /\ Within(request[r])
        /\ request[r].at = "serving" /\ completion[r] = "held"
    BY <1>2 DEF Admission, Typed, Fits
  <2>2. request'[r] = CallAt(request[r], "done") /\ completion'[r] = "dropping"
    BY <1>1
  <2> QED
    BY <2>1, <2>2, CallAtFacts DEF CallStates
<1>4. \A r \in Requests \ failed : request'[r] = request[r] /\ completion'[r] = completion[r]
    BY <1>1
<1>5. /\ request' \in [Requests -> CallRecords] /\ completion' \in [Requests -> Completions]
      /\ \A r \in Requests : Fits(request'[r].at, completion'[r]) /\ Within(request'[r])
  <2>1. \A r \in Requests : /\ request'[r] \in CallRecords /\ completion'[r] \in Completions
                             /\ Fits(request'[r].at, completion'[r]) /\ Within(request'[r])
    BY <1>3, <1>4 DEF Admission, Typed, Completions, Fits
  <2> QED
    BY <1>1, <2>1
<1>6. Holders' = Holders /\ Owners' = Owners
    BY <1>3, <1>4 DEF Holders, Owners, Holds, Owns
<1>7. Typed' /\ Counted'
    BY <1>1, <1>5, <1>6 DEF Admission, Typed, Counted
<1>8. \A i \in 1 .. Len(queue) : queue[i] \in Requests \ failed
    BY <1>2 DEF Admission, Queued
<1>9. Queued'
    BY <1>1, <1>4, <1>8 DEF Admission, Queued
<1> QED
    BY <1>5, <1>7, <1>9 DEF Admission

LEMMA WorkerKeepsCalls ==
  ASSUME Admission, NEW w \in Workers,
         StartWorker(w) \/ WorkerStep(w) \/ ExpireIdle(w)
  PROVE  Admission'
<1>1. UNCHANGED calls
    BY DEF StartWorker, WorkerStep, ExpireIdle, ReadPre, Prepare, PublishPre, StoreWarm,
       CountWorker, DropWorker, CountEviction, ClearPre, Demote, StoreWarmish
<1>2. CASE CountWorker(w)
  <2>1. metrics \in Gauges /\ metrics.workers_created + 1 \in Int /\ metrics.live_workers + 1 \in Int
    BY DEF Admission, Typed, Gauges
  <2>2. metrics' = [metrics EXCEPT !.workers_created = @ + 1, !.live_workers = @ + 1]
    BY <1>2 DEF CountWorker
  <2>3. metrics' \in Gauges /\ metrics'.in_flight = metrics.in_flight
    BY <2>1, <2>2, Zenon DEF Gauges
  <2> QED
    BY <1>1, <2>3, CallsStay
<1>3. CASE DropWorker(w)
  <2>1. metrics' \in Gauges /\ metrics'.in_flight = metrics.in_flight
    BY <1>3 DEF DropWorker, Admission, Typed, Gauges
  <2> QED
    BY <1>1, <2>1, CallsStay
<1>4. CASE CountEviction(w)
  <2>1. metrics' \in Gauges /\ metrics'.in_flight = metrics.in_flight
    BY <1>4 DEF CountEviction, Admission, Typed, Gauges
  <2> QED
    BY <1>1, <2>1, CallsStay
<1>5. CASE UNCHANGED metrics
    BY <1>1, <1>5, CallsStay DEF Admission, Typed
<1> QED
    BY <1>2, <1>3, <1>4, <1>5 DEF StartWorker, WorkerStep, ExpireIdle, ReadPre, Prepare,
       PublishPre, StoreWarm, ClearPre, Demote, StoreWarmish

LEMMA AdmissionInductive == Admission /\ [Next]_vars => Admission'
<1> SUFFICES ASSUME Admission, [Next]_vars PROVE Admission'
    OBVIOUS
<1>1. ASSUME NEW r \in Requests,
             (\E path \in Paths : Call(r, path)) \/ CallStep(r) \/ Poll(r) \/ Abandon(r)
      PROVE  Admission'
  <2>1. CASE \E path \in Paths : Call(r, path)
    BY <2>1, CallKeeps
  <2>2. CASE CallStep(r)
    BY <2>2, AdmitKeeps, EnterKeeps, DispatchKeeps, CompleteKeeps, ReleaseKeeps DEF CallStep
  <2>3. CASE Poll(r)
    BY <2>3, PollDataKeeps, PollErrorKeeps, PollEndKeeps DEF Poll
  <2>4. CASE Abandon(r)
    BY <2>4, AbandonKeeps
  <2> QED
    BY <1>1, <2>1, <2>2, <2>3, <2>4
<1>2. ASSUME NEW w \in Workers,
             \/ StartWorker(w) \/ WorkerStep(w) \/ Serve(w)
             \/ InstantiateFails(w) \/ ExpireIdle(w) \/ StopWorker(w)
      PROVE  Admission'
  <2>1. CASE Serve(w)
    <3>1. ASSUME NEW r \in Requests, Forget(w, r)
          PROVE  Admission'
      BY <3>1, CallsStay DEF Forget, Admission, Typed
    <3> QED
      BY <2>1, <3>1, AcceptKeeps, RespondBufferedKeeps, RespondStreamingKeeps DEF Serve
  <2> QED
    BY <1>2, <2>1, WorkerKeepsCalls, InstantiateFailsKeeps, StopWorkerKeeps
<1>3. CASE UNCHANGED vars
    BY <1>3, CallsStay DEF vars, Admission, Typed
<1> QED
    BY <1>1, <1>2, <1>3 DEF Next

\* The invariant of the calls holds throughout.
THEOREM AdmissionInvariance == Spec => []Admission
BY AdmissionInitially, AdmissionInductive, PTL DEF Spec

(* in_flight counts the calls that own an HttpRequestCompletion, whatever    *)
(* path they leave by, and never exceeds max_in_flight: the permit is given  *)
(* back after the gauge is decremented.                                      *)
THEOREM InFlightIsBounded == Spec => []InFlightBounded
<1>1. Admission => InFlightBounded
  <2> SUFFICES ASSUME Admission PROVE InFlightBounded
    OBVIOUS
  <2>1. metrics.in_flight = Cardinality({r \in Requests :
                               completion[r] \in {"held", "completing", "dropping"}})
    BY DEF Admission, Counted, Owners, Owns
  <2>2. metrics.in_flight <= max_in_flight
    BY HoldersFinite, ConfigAssumption DEF Admission, Typed, Counted
  <2> QED
    BY <2>1, <2>2 DEF InFlightBounded
<1> QED
    BY <1>1, AdmissionInvariance, PTL

(* Neither handle nor the frames of a StreamingHttpBody give the caller more *)
(* than max_output_bytes, in any division into frames.                       *)
THEOREM OutputIsBounded == Spec => []OutputBounded
<1>1. Admission => OutputBounded
    BY DEF Admission, Within, OutputBounded
<1> QED
    BY <1>1, AdmissionInvariance, PTL

-----------------------------------------------------------------------------
(* Concurrent instantiations share one pre-instantiation.  A worker that    *)
(* uses one read it from the slot, or put it there, in an epoch that is not *)
(* in the future; only ClearPre empties the slot, and it begins a new       *)
(* epoch.  PreShared alone is not inductive: PublishPre fills an empty      *)
(* slot, which is harmless only because nobody uses pre 0.                  *)

WorkerStates ==
  {"none", "read", "prepare", "publish", "instantiate", "count", "live", "drop", "evict",
   "clear", "demote", "warmish", "gone"}

WorkerRecords ==
  [at : WorkerStates, pre : Nat, epoch : Nat, load : SUBSET Requests, total : Nat,
   idle_expired : BOOLEAN]

Using == {"instantiate", "count", "live"}

Fresh(v, s, e) ==
  /\ v.epoch <= e
  /\ v.at \in Using => v.pre # 0 /\ (v.epoch = e => v.pre = s)

Sharing ==
  /\ worker \in [Workers -> WorkerRecords]
  /\ slot \in Nat /\ history \in [demotions : Nat, pres : Nat]
  /\ \A w \in Workers : Fresh(worker[w], slot, history.demotions)

LEMMA NoWorkerType == NoWorker \in WorkerRecords
<1>1. /\ "none" \in WorkerStates /\ 0 \in Nat /\ {} \in SUBSET Requests /\ FALSE \in BOOLEAN
    BY DEF WorkerStates
<1> QED
    BY <1>1, Zenon DEF NoWorker, WorkerRecords

LEMMA SharingInitially == Init => Sharing
<1> SUFFICES ASSUME Init PROVE Sharing
    OBVIOUS
<1>1. Fresh(NoWorker, 1, 0)
    BY DEF NoWorker, Fresh, Using
<1> QED
    BY <1>1, NoWorkerType DEF Init, Sharing

\* A step of one worker that leaves the slot and the epoch alone.
LEMMA OneWorker ==
  ASSUME Sharing, NEW w \in Workers, NEW v \in WorkerRecords,
         Fresh(v, slot, history.demotions), UNCHANGED <<slot, history>>,
         worker' = [worker EXCEPT ![w] = v]
  PROVE  Sharing'
<1>1. worker' \in [Workers -> WorkerRecords]
    BY DEF Sharing
<1>2. \A u \in Workers : worker'[u] = IF u = w THEN v ELSE worker[u]
    BY DEF Sharing
<1> QED
    BY <1>1, <1>2 DEF Sharing

\* A worker moves on without looking at the slot.
LEMMA WorkerMoves ==
  ASSUME Sharing, NEW w \in Workers, NEW a \in WorkerStates, UNCHANGED <<slot, history>>,
         WorkerGoto(w, a), a \in Using => worker[w].at \in Using
  PROVE  Sharing'
<1> DEFINE base == IF a = "gone" THEN NoWorker ELSE worker[w]
           v == [base EXCEPT !.at = a]
<1>1. base \in WorkerRecords /\ base.epoch <= history.demotions
  <2>1. NoWorker.epoch = 0 /\ history.demotions \in Nat
    BY DEF Sharing, NoWorker
  <2> QED
    BY <2>1, NoWorkerType DEF Sharing, Fresh
<1>2. worker' = [worker EXCEPT ![w] = v]
    BY DEF WorkerGoto, Sharing
<1>3. a \in Using => base = worker[w]
    BY DEF Using
<1> HIDE DEF base
<1>4. v \in WorkerRecords /\ v.at = a /\ v.epoch = base.epoch /\ v.pre = base.pre
    BY <1>1, Zenon DEF WorkerRecords
<1> HIDE DEF v
<1>5. Fresh(v, slot, history.demotions)
    BY <1>1, <1>3, <1>4 DEF Sharing, Fresh
<1> QED
    BY <1>2, <1>4, <1>5, OneWorker, Zenon

\* A worker's load changes, or it goes to be dropped.
LEMMA WorkerServes ==
  ASSUME Sharing, NEW w \in Workers, NEW v \in WorkerRecords, UNCHANGED <<slot, history>>,
         worker' = [worker EXCEPT ![w] = v], v.epoch = worker[w].epoch,
         v.pre = worker[w].pre, v.at \in Using => worker[w].at \in Using
  PROVE  Sharing'
<1>1. Fresh(v, slot, history.demotions)
    BY DEF Sharing, Fresh
<1> QED
    BY <1>1, OneWorker, Zenon

LEMMA ReadKeepsSharing ==
  ASSUME Sharing, NEW w \in Workers, ReadPre(w)
  PROVE  Sharing'
<1> DEFINE a == IF slot = 0 THEN "prepare" ELSE "instantiate"
           v == [worker[w] EXCEPT !.at = a, !.pre = slot, !.epoch = history.demotions]
<1>1. /\ worker[w] \in WorkerRecords /\ slot \in Nat /\ history.demotions \in Nat
      /\ a \in WorkerStates
    BY DEF Sharing, WorkerStates
<1>2. worker' = [worker EXCEPT ![w] = v] /\ UNCHANGED <<slot, history>>
    BY Zenon DEF ReadPre, code, Sharing
<1>3. a \in Using => slot # 0
    BY DEF Using
<1> HIDE DEF a
<1>4. /\ v \in WorkerRecords /\ v.at = a
      /\ v.pre = slot /\ v.epoch = history.demotions
    BY <1>1, Zenon DEF WorkerRecords
<1> HIDE DEF v
<1>5. Fresh(v, slot, history.demotions)
    BY <1>1, <1>3, <1>4 DEF Fresh
<1> QED
    BY <1>2, <1>4, <1>5, OneWorker, Zenon

\* get_or_insert fills an empty slot, which nobody of this epoch uses.
LEMMA PublishKeepsSharing ==
  ASSUME Sharing, NEW w \in Workers, PublishPre(w)
  PROVE  Sharing'
<1> DEFINE e == history.demotions
           v == [worker[w] EXCEPT !.at = "instantiate", !.pre = slot', !.epoch = e]
<1>1. /\ worker[w] \in WorkerRecords /\ e \in Nat
      /\ history' \in [demotions : Nat, pres : Nat] /\ history'.demotions = e
    BY DEF PublishPre, Sharing
<1>2. slot' \in Nat /\ slot' # 0 /\ (slot # 0 => slot' = slot)
    BY <1>1 DEF PublishPre, Sharing
<1>3. worker' = [worker EXCEPT ![w] = v]
    BY Zenon DEF PublishPre, Sharing
<1> HIDE DEF e
<1>4. v \in WorkerRecords /\ v.at = "instantiate" /\ v.pre = slot' /\ v.epoch = e
  <2>1. "instantiate" \in WorkerStates
    BY DEF WorkerStates
  <2> QED
    BY <1>1, <1>2, <2>1, Zenon DEF WorkerRecords
<1> HIDE DEF v
<1>5. worker' \in [Workers -> WorkerRecords]
    BY <1>3, <1>4 DEF Sharing
<1>6. \A u \in Workers : worker'[u] = IF u = w THEN v ELSE worker[u]
    BY <1>3 DEF Sharing
<1>7. Fresh(v, slot', e)
    BY <1>1, <1>4, <1>2 DEF Fresh
<1>8. \A u \in Workers : Fresh(worker[u], slot', e)
    BY <1>2 DEF Sharing, Fresh, e
<1> QED
    BY <1>1, <1>2, <1>5, <1>6, <1>7, <1>8 DEF Sharing

\* Emptying the slot leaves every user in an earlier epoch.
LEMMA ClearKeepsSharing ==
  ASSUME Sharing, NEW w \in Workers, ClearPre(w)
  PROVE  Sharing'
<1> DEFINE v == [worker[w] EXCEPT !.at = "demote"]
<1>1. /\ slot' = 0 /\ history' \in [demotions : Nat, pres : Nat]
      /\ history.demotions \in Nat /\ history'.demotions = history.demotions + 1
    BY DEF ClearPre, Sharing
<1>2. worker' = [worker EXCEPT ![w] = v]
    BY DEF ClearPre, WorkerGoto, Sharing
<1>3. v \in WorkerRecords /\ v.at = "demote" /\ v.pre = worker[w].pre /\ v.epoch = worker[w].epoch
  <2>1. "demote" \in WorkerStates /\ worker[w] \in WorkerRecords
    BY DEF WorkerStates, Sharing
  <2> QED
    BY <2>1, Zenon DEF WorkerRecords
<1> HIDE DEF v
<1>4. worker' \in [Workers -> WorkerRecords]
    BY <1>2, <1>3 DEF Sharing
<1>5. \A u \in Workers : worker'[u] = IF u = w THEN v ELSE worker[u]
    BY <1>2 DEF Sharing
<1>6. \A u \in Workers :
        /\ worker[u].epoch \in Nat /\ worker[u].epoch <= history.demotions
        /\ worker[u].at \in Using => worker[u].pre # 0
    BY DEF Sharing, Fresh, WorkerRecords
<1>7. \A u \in Workers : Fresh(worker'[u], slot', history'.demotions)
  <2> TAKE u \in Workers
  <2>1. CASE u = w
    BY <1>1, <1>3, <1>5, <1>6, <2>1 DEF Fresh, Using
  <2>2. CASE u # w
    BY <1>1, <1>5, <1>6, <2>2 DEF Fresh
  <2> QED
    BY <2>1, <2>2
<1> QED
    BY <1>1, <1>4, <1>7 DEF Sharing

LEMMA ServeKeepsSharing ==
  ASSUME Sharing, NEW w \in Workers, Serve(w)
  PROVE  Sharing'
<1> DEFINE q == worker[w]
<1>0. q \in WorkerRecords /\ q.load \in SUBSET Requests /\ q.total + 1 \in Nat
    BY DEF Sharing, WorkerRecords
<1>1. UNCHANGED <<slot, history>>
    BY DEF Serve, Accept, Forget, RespondBuffered, RespondStreaming, Answers, code
<1>2. ASSUME NEW r \in Requests, Accept(w, r)
      PROVE  Sharing'
  <2> DEFINE l == q.load \cup {r}
             t == q.total + 1
             v == [q EXCEPT !.load = l, !.total = t]
  <2>1. worker' = [worker EXCEPT ![w] = v]
    BY <1>2, Zenon DEF Accept, Sharing
  <2>2. l \in SUBSET Requests /\ t \in Nat
    BY <1>0
  <2> HIDE DEF l, t
  <2>3. v \in WorkerRecords /\ v.at = q.at /\ v.pre = q.pre /\ v.epoch = q.epoch
    BY <1>0, <2>2, Zenon DEF WorkerRecords
  <2> HIDE DEF v
  <2> QED
    BY <1>1, <2>1, <2>3, WorkerServes, Zenon
<1>3. ASSUME NEW r \in Requests, worker' = [worker EXCEPT ![w].load = @ \ {r}]
      PROVE  Sharing'
  <2> DEFINE l == q.load \ {r}
             v == [q EXCEPT !.load = l]
  <2>1. worker' = [worker EXCEPT ![w] = v]
    BY <1>3 DEF Sharing
  <2>2. l \in SUBSET Requests
    BY <1>0
  <2> HIDE DEF l
  <2>3. v \in WorkerRecords /\ v.at = q.at /\ v.pre = q.pre /\ v.epoch = q.epoch
    BY <1>0, <2>2, Zenon DEF WorkerRecords
  <2> HIDE DEF v
  <2> QED
    BY <1>1, <2>1, <2>3, WorkerServes, Zenon
<1> QED
    BY <1>2, <1>3 DEF Serve, Forget, RespondBuffered, RespondStreaming, Answers

LEMMA DropKeepsSharing ==
  ASSUME Sharing, NEW w \in Workers, ExpireIdle(w) \/ StopWorker(w)
  PROVE  Sharing'
<1> DEFINE q == worker[w]
<1>0. q \in WorkerRecords
    BY DEF Sharing
<1>1. UNCHANGED <<slot, history>>
    BY DEF ExpireIdle, StopWorker, code
<1>2. CASE ExpireIdle(w)
  <2> DEFINE v == [q EXCEPT !.at = "drop", !.idle_expired = TRUE]
  <2>1. worker' = [worker EXCEPT ![w] = v]
    BY <1>2, Zenon DEF ExpireIdle, Sharing
  <2>2. v \in WorkerRecords /\ v.at = "drop" /\ v.pre = q.pre /\ v.epoch = q.epoch
    <3>1. "drop" \in WorkerStates /\ TRUE \in BOOLEAN
      BY DEF WorkerStates
    <3> QED
      BY <1>0, <3>1, Zenon DEF WorkerRecords
  <2> HIDE DEF v
  <2> QED
    BY <1>1, <2>1, <2>2, WorkerServes, Zenon DEF Using
<1>3. CASE StopWorker(w)
  <2> DEFINE v == [q EXCEPT !.at = "drop", !.load = {}]
  <2>1. worker' = [worker EXCEPT ![w] = v]
    BY <1>3, Zenon DEF StopWorker, Sharing
  <2>2. v \in WorkerRecords /\ v.at = "drop" /\ v.pre = q.pre /\ v.epoch = q.epoch
    <3>1. "drop" \in WorkerStates /\ {} \in SUBSET Requests
      BY DEF WorkerStates
    <3> QED
      BY <1>0, <3>1, Zenon DEF WorkerRecords
  <2> HIDE DEF v
  <2> QED
    BY <1>1, <2>1, <2>2, WorkerServes, Zenon DEF Using
<1> QED
    BY <1>2, <1>3

LEMMA SharingInductive == Sharing /\ [Next]_vars => Sharing'
<1> SUFFICES ASSUME Sharing, [Next]_vars PROVE Sharing'
    OBVIOUS
<1>1. CASE UNCHANGED <<worker, slot, history>>
    BY <1>1 DEF Sharing
<1>2. ASSUME NEW r \in Requests,
             (\E path \in Paths : Call(r, path)) \/ CallStep(r) \/ Poll(r) \/ Abandon(r)
      PROVE  UNCHANGED <<worker, slot, history>>
    BY <1>2, Zenon DEF Call, CallStep, Poll, Abandon, Admit, Enter, Dispatch, Complete, DropCompletion,
       ReleasePermit, PollData, PollError, PollEnd, code
<1>3. ASSUME NEW w \in Workers,
             \/ StartWorker(w) \/ WorkerStep(w) \/ Serve(w)
             \/ InstantiateFails(w) \/ ExpireIdle(w) \/ StopWorker(w)
      PROVE  Sharing'
  <2>1. CASE StartWorker(w) \/ Prepare(w) \/ InstantiateFails(w) \/ StoreWarm(w) \/ CountWorker(w)
    <3>1. /\ UNCHANGED <<slot, history>>
          /\ \E a \in WorkerStates : WorkerGoto(w, a) /\ (a \in Using => worker[w].at \in Using)
      BY <2>1 DEF StartWorker, Prepare, InstantiateFails, StoreWarm, CountWorker, code, Using,
         WorkerStates
    <3> QED
      BY <3>1, WorkerMoves
  <2>2. CASE DropWorker(w) \/ CountEviction(w) \/ Demote(w) \/ StoreWarmish(w)
    <3>1. /\ UNCHANGED <<slot, history>>
          /\ \E a \in WorkerStates : WorkerGoto(w, a) /\ a \notin Using
      BY <2>2 DEF DropWorker, CountEviction, Demote, StoreWarmish, code, Using, WorkerStates
    <3> QED
      BY <3>1, WorkerMoves
  <2> QED
    BY Zenon, <1>3, <2>1, <2>2, ReadKeepsSharing, PublishKeepsSharing, ClearKeepsSharing,
       ServeKeepsSharing, DropKeepsSharing DEF WorkerStep
<1>4. CASE UNCHANGED vars
    BY <1>1, <1>4 DEF vars, code
<1> QED
    BY <1>1, <1>2, <1>3, <1>4 DEF Next

(* Concurrent instantiations share one pre-instantiation: between two        *)
(* demotions of the package every worker uses the one in the slot.           *)
THEOREM PreIsShared == Spec => []PreShared
<1>1. Sharing => PreShared
    BY DEF Sharing, Fresh, Using, PreShared, WorkersAt
<1> QED
    BY <1>1, SharingInitially, SharingInductive, PTL DEF Spec
=============================================================================
