# Formal model of wasm-runtime

TLA+ modules that model the runtime in `src/`, TLC configurations that check
them on small instances, and TLAPS proofs of the results that hold for every
instance. Paths such as `cache.rs:103` are under `src/src/`; `README.md`
quoted as a source is the repository's own, `src/README.md`.

## The system

| part | state it keeps | operations that change it | what makes it hard |
|---|---|---|---|
| in-memory code cache (`runtime.rs`, `MemoryCache`) | compiled components ("warm"), AOT bytes ("warmish"), a byte counter, an LRU counter | lookups, inserts, demotion | three limits, saturating arithmetic, a 64-bit counter that wraps |
| disk AOT cache (`cache.rs`) | an artifact file and a metadata file per digest and profile, temporaries | `load`, `publish`, offline clear | several processes, two renames per entry, crashes, power loss, keys and versions that change |
| preparation (`runtime.rs`, `prepare`, background promotion) | a mutex per digest, promotion permits, compiler threads | lookup, load, compile, publish, insert, demote | state read before an await and used after it, futures dropped at any await |
| command invocation (`runtime.rs`, `types.rs`) | `PauseToken`, `CancellationToken`, the pause clock, the store | start, epoch callback, pause, resume, cancel, drop, evict | atomics of several threads, wake-ups, a timeout racing a pause |
| HTTP service (`http.rs`, `HttpService`) | semaphore, workers, pre-instantiation slot, tier, counters | buffered and streaming calls, worker start, reuse, expiry and drop | permits carried by bodies, concurrent workers sharing a slot |
| WASIX worker (`wasix_worker.rs`, `bin/`) | a process, its group, a control socket, two pipes, memfds | probe, transport, restore, capture | two processes, deadlines, cancellation, kill and reap, death of either side |
| checkpoint codec and journal (`checkpoint.rs`) | the journal, the sealed artifact | capture, cut, attest, seal, open, replay | an artifact that travels and is damaged, a destination that differs |
| bounded output (`wasix_output.rs`) | the captured bytes, two sticky flags | write, vectored write, shutdown, finish | several clones writing at once, an error the guest may ignore |
| isolation profile, pinned executable (`wasix_worker.rs`) | what Linux keeps for the worker: identifiers, groups, capabilities, limits, descriptors; the pinned digest | pinning, spawn, isolation, the Ready report | the executable changes while it is pinned; limits and identifiers are inherited in any combination; two sides must agree |
| outbound HTTP (`http.rs`) | the grant of an exchange, the remaining bytes of two bodies | grant matching, the destination check, `LimitBody` polled on both sides | several grants for one origin, boundaries, a poller that goes on after an error |
| environment manifest (`environment.rs`) | none | parse, validate, digest | byte order against directory order, one identity per environment |
| construction, configuration, errors, measurements | none across calls | — | — |

How they interact: `Program` calls `prepare`, which consults memory, then disk,
then the compiler, and fills both on the way back. An invocation or an HTTP
worker starts from what `prepare` returns. An idle eviction, of a paused
command or of the last HTTP worker, demotes the package in the memory cache.
A guest of the HTTP service reaches other hosts through its outbound grants.
A WASIX worker is started from the pinned executable and isolates itself before
it is trusted. A WASIX capture is bound to the identity of an environment
manifest and yields a journal; the codec seals it; a later restore opens it
and hands the verified journal to another worker, whose output goes through the
bounded sink.

## Modules

| module | models | abstract specification |
|---|---|---|
| `MemoryCache` | `MemoryCache`'s methods as operators on one record; each call, or pair of calls under one lock, as an action | `TierCache`, by a refinement mapping |
| `DiskCache` | `load`, `publish` and `atomic_publish` file operation by file operation; faults, crashes, power loss, key and engine changes, the clear of `scripts/cache-admin.sh` | `DiskEntry`, by a refinement mapping |
| `Preparation` | `RuntimeInner::prepare` from await to await for concurrent tasks, promotion permits, detached compilations, dropped futures, demotion. It composes the promises of `TierCache` and `DiskEntry` in place of the detailed caches | — |
| `Invocation` | one `Program::start`: task, epoch callback, `PauseToken::wait`, and the threads that share the `RunningCommand`, one atomic access at a time | — |
| `HttpService` | admission, both request paths, `HttpRequestCompletion`, workers, the pre slot, tier and counters (not the tier a call reports). `ProxyHandler` of wasmtime-wasi-http is external, modelled from how `http.rs` implements and uses its hooks | — |
| `OutboundHttp` | one exchange of a guest: configuration check, the grant that admits it, the destination check, and both limited bodies while the client library polls one and the guest the other; for the p2 and the p3 interface | — |
| `WorkerIsolation` | operators: the deployment checks, the pinned descriptor, and the isolation as a function of the inherited process, with what Linux does on each call | `SoundProcess` says declaratively which processes can be confined |
| `WasixWorker` | one operation, both processes, from pinning to reaping. Each operation's exchange is a script, the order of inputs and frames in the code. Extends `WorkerIsolation` | — |
| `EnvironmentManifest` | operators: validation and content identity of a manifest over byte sequences | `Coherent` says declaratively what an accepted manifest describes |
| `Journal`, `Checkpoint` | record framing as operators; reading the manifest, capture, cut, attestation, sealing, transit, opening and replay | `Journal` defines well-framed journals declaratively, the one-pass scan is compared with it |
| `BoundedOutput`, `GuestCapture` | the sink shared by guest threads; its composition with `Checkpoint`, in which the worker joins the guest, takes its output and only then cuts the journal | — |

`MC*` modules give the constants TLC uses. `MemoryCacheProofs`,
`DiskCacheProofs`, `PreparationProofs`, `InvocationProofs` (about `Invocation`
and `OutboundHttp`), `HttpProofs`, `WasixWorkerProofs` and `CheckpointProofs`
hold the theorems, `ManifestProofs` the lemmas about `EnvironmentManifest` that
two of the theorems of `CheckpointProofs` rest on.

State and action names follow the code (`insert_warm` is `InsertWarm`, a
task's `pc` names the step of `prepare` it stands before). What is abstracted:

* A digest, key, engine, module or build is a model value; hashes and
  authentication tags are ideal, so equal tags mean equal contents.
* An artifact is represented by the engine that serialized it and its length.
* A frame body is represented by whether the receiver's validation accepts it;
  only the Ready frame has contents, the isolation it reports.
* A capability set is empty or not; an extended attribute is absent, empty,
  present, unsupported or unreadable; permission bits are the classes that may
  write.
* An outbound name is a name and its letter case; an address keeps the octets or
  segments that the code looks at, and a body is its length cut into frames.
* A manifest keeps the bytes of its names and paths, since order, ancestry and
  length prefixes depend on them; JSON is whether a document parses, has an
  unknown field, and how many bytes of it carry no meaning.
* A fair Tokio lock or semaphore is the sequence of its holders and waiters; the
  `Notify` of a cancellation is its flag, which a waiter reads after it registered.
* A journal is a sequence of record kinds; byte layout and identifiers' text
  are left out.
* Time is a discrete clock in `Invocation`; elsewhere a timer is an action that
  may fire at any moment after it is armed.

## Runs

Every run names its module, configuration and properties in `PROJECT.json`.
The two marked ✗ check one statement that the documentation makes and the code
does not keep; TLC's counterexample is the finding.

### Memory cache

* `memory_cache`: limits, byte accounting, eviction in LRU order, the refinement
  of `TierCache`, and the equality of the code's eviction loops with the closed
  forms the proofs use (`LoopsAgree`).

Three packages and limits of two entries are the least with a choice of victim;
sizes 1, 2 and 4 against 3 bytes give a fit, a tight fit and a refusal. The run
stops before the LRU counter wraps, since order and refinement hold only until
then; a range of 9 lets each package be used more than once before and after an
eviction. What must survive a wrap is covered otherwise: `LoopsAgree` also looks
at every reached cache with its ticks folded to one, two or three values, and
the theorems about the limits hold for every range and across wraps.

### Disk cache

* `disk_cache`: three runtimes in two processes, two faults of any kind, changes
  of key and engine. What loads was serialized by the engine that loads it,
  under its key; without a fault the final pair loads;
  foreign entries are left alone; a publication fails only on a fault; while
  processes live, the entry only improves (`DiskEntry`).
* ✗ `disk_cache_half`: a publication that fails between its two renames leaves
  an entry that no later runtime can load.

Two faults are enough for a fault during the recovery from another. One entry
suffices because entries share no files and no locks.

### Preparation

* `preparation`: two callers and two promotions, one package, one permit, with
  dropped futures, detached compilations, demotion and a publication by another
  process. One task prepares at a time, a miss seen under the mutex stays one,
  a successful compilation is returned whatever
  becomes of its publication, and every call returns.

Packages share only the memory cache's capacity; the theorems cover any number
of packages and tasks.

### Invocation

* `invocation_safety`: two controlling threads at every point of the epoch
  callback and of `wait`. No wake-up is lost; the time the callback charges is
  the time outside pauses and the pause time between two paired reads, no less
  and no more (`PauseClock`); Timeout is answered only when that sum has reached
  the timeout, Cancelled only if asked (`ReportsTheCause`).
* `invocation_ends`: every invocation of a computing guest ends if time passes,
  and a cancelled one ends even if the clock stops.
* ✗ `invocation_host_wait`: a guest waiting for the host meets no epoch, and
  its timeout does not end it.

The horizon of 6 leaves room for a pause to expire (2), a resume and a second
pause that expires too; the guest's own time is 1. The horizon also bounds the
pauses: that a guest paused and resumed for ever ends is not shown.

The code reads the clock and the time paused one after the other, both when the
invocation starts (`runtime.rs:646`, `runtime.rs:647`) and in each callback
(`runtime.rs:657`, `runtime.rs:658`), and the model takes a step for each read. A
pause that falls between two of them is charged as if the guest had run.
`spent` is a history variable that records the guest's own time and those two
gaps apart; the code has no such state. Without the gaps the statement about
Timeout is false: TLC shows a guest timed out early by a pause in between.

### HTTP service

* `http_workers`: three calls, three workers, two permits. `in_flight` matches
  the calls that hold a completion and stays within the semaphore, and
  workers that instantiate, expire and demote at once still share one
  pre-instantiation. `PreShared` leaves out a worker that read the slot before a
  demotion and goes on after it. Calls and workers are interchangeable, so both
  sets are symmetric; no liveness is checked here.
* `http_requests`: two calls on both paths compete for one permit; each
  stays within its output limit and ends, giving its permit back.

Three calls with two permits is the least in which one waits while two
interfere; frames of up to two bytes against a limit of one cross it. A buffered
response is collected and answered in one step, since nobody sees the body before
the answer; an error of the guest's body ends it.

### Outbound HTTP

* `outbound_http`: whatever an exchange does, one grant of the configuration
  allows all of it (`WithinOneGrant`); what passes a body limit is a prefix of
  the body, and the whole of it unless the poller is told otherwise
  (`PassesAPrefix`); size hints are consistent, so that `set_upper` never panics,
  and the bound a limit adds is never framed as a length (`TrueHints`).

Two grants for one origin with opposed limits (1 and 3 bytes up and down) show
that no request is put together from two grants; two frames of up to three bytes
cross every limit and are polled after the error; the addresses are both sides of
every edge of the address blocks.

### WASIX worker

* `worker`: all four operations with a faulty worker, timeouts, cancellation, a
  refused placement, a stray process in the group, an executable replaced on the
  way and the death of the runtime. The guest runs only once authorized and
  confined (`AuthorizedRun`), in the image that was pinned and that only trusted
  users can change (`TrustedImage`); a worker comes up exactly from the processes
  that can be confined (`ComesUpIfSound`); success is whole, nothing is left
  behind, orphans stop, the two sides never wait for each other, each operation
  answers and each worker is reaped.

A stderr pipe of one log against two written, and a stdout pipe of two frames
against at most six, are the smallest in which a full pipe blocks the worker.
The probe starts from about 170 deployments and inherited processes
(`MCStarts`), one property varied at a time around its limit, identifiers and
limits in every combination of real and effective, soft and hard. The other
operations pin, start and validate the worker by the same code and start from
one sound deployment.

The worker's own work on a journal (`RunRestored`, `RunCaptured`) is one step; its
failures are those of `Crash`. Only inherited descriptors are tracked, and an image
whose digest is not that of its bytes cannot be expressed. A probe or a transport
may answer before its worker is reaped, so `NothingLeftBehind` speaks of the other
two and `EveryOperationEnds` says that the reaper gets there in the end. A stray
process stays in the worker's group: one that leaves it and keeps stderr open is
not modelled.

### Checkpoint, manifest and output

* `checkpoint`: first a thousand manifests around the limits of the validation:
  an accepted one is coherent (`AcceptedIsCoherent`) and its identity names one
  environment (`IdentityNamesOneEnvironment`). Then a guest of two writers, two
  calls of up to two buffers each around a limit of four bytes, so that a later,
  smaller write fits after a refused one (`CaptureIsWhole`). Then every journal of
  up to five records through capture, sealing, damage, opening and replay by
  every kind of destination (`ReplaysTheCapture`, `WholeCheckpoint`,
  `ScanDecides`, `SealedOpens`).

Five records hold an initialization, a thread, a snapshot and two more in any
place. The limits of the manifest are scaled down (48 bytes, lists of 3, names of
7) so that both sides of each are reached; a capture is started with two of the
manifests, since it looks only at their identity. The largest `usize` is 10 and an
artifact adds 3 bytes to its journal, against journal limits of 0, 3, 7 and 8: a
limit that refuses everything, one that refuses some journals, the largest whose
artifact length still fits and one for which it overflows. Failures to allocate or to
read while opening are left out. One sink stands for the worker's stdout and
stderr, which are two of the same kind and share nothing.

Deadlock checking is off where the modelled thing ends (an invocation, an
operation, a bounded number of requests or calls) or where a bound stops the
counter, and on elsewhere.

## Disagreements without a run

Met while modelling, read off the code, and not demonstrated by a run of this
project; several concern state the modules now leave out, such as the tier a
call reports.

| code | what it does | what is said |
|---|---|---|
| `runtime.rs:898`, `runtime.rs:847` | a warm hit does not refresh the warmish copy, so a demoted package may be cold | `http.rs:628-630` "demoting package code to warmish so later requests can restart without recompilation" |
| `cache.rs:103` | a load between another publisher's two renames is an error, not a miss | `docs/cache-operations.md:73` "Two runtime processes may publish the same authenticated entry concurrently" |
| `cache.rs:205` | temporary names are unique per process id, which two PID namespaces share | `docs/cache-operations.md:73-74` "unique temporary names and atomic renames leave a loadable final pair" |
| `runtime.rs:562` | a caller dropped while it awaits the compiler leaves the compilation running, and a second one can start | `README.md:95-96` "Concurrent callers join the same preparation operation for a component digest" |
| `types.rs:288` | `mark_resident` tests, then stores: a resumed guest can be shown as resident | `types.rs:96` "A cooperative pause is retaining the live Store and instance." |
| `types.rs:252` | `pause` clears `resident` after it has set `paused`: a sleeping guest can be shown as not yet paused | `types.rs:94` "A pause was requested but has not yet reached a cooperative yield point." |
| `types.rs:316`, `types.rs:322` | the decision to evict is not tied to the pause it was taken for: a resume that succeeded, or a new pause, can be evicted | `runtime.rs:372-373` "Returns an error if the invocation has already finished or its idle TTL expired." |
| `runtime.rs:688` | an eviction during instantiation answers `Execution` | `README.md:178` "Eviction returns `Error::IdleEvicted`" |
| `types.rs:335` | eviction cancels a token that may be shared | `types.rs:179` "Cloneable cancellation signal for one or more calls." |
| `http.rs:752` | the buffered path reads the tier after the wait for admission | `http.rs:476` "Package tier observed when the request entered the service." |
| `http.rs:814` | the streaming path reads it before that wait | `README.md:166` "tier at admission" |
| `http.rs:1146` | only the last of several expiring workers is counted | `http.rs:593` "Workers dropped because their idle TTL expired." |
| `http.rs:1147` | the eviction is counted before the tier is stored | `tests/http_service.rs:136-143` waits for the counter, then asserts the tier |
| `http.rs:1150` | a worker that took the slot before a demotion can store Warm after it | `README.md:92` "Compiled component in memory" |
| `http.rs:564` | a body released at `is_end_stream` is not counted | `http.rs:597` "Successfully returned responses." |
| `wasix_worker.rs:2543` | a restore whose worker fails after its last frame loses the exit status | `README.md:63-65` "the same failure reports its portable exit code or Unix termination signal" |
| `wasix_worker.rs:1643` | a preparation that times out while queued waits for a blocking thread | `wasix_worker.rs:192` "Set the maximum time allowed for a complete probe, transport, or restore" |

Two more that no document speaks of: a pause between the paired reads of the pause
clock is charged to the guest (above), and a codec whose limit is so near the
largest `usize` that the artifact length overflows (`checkpoint.rs:629`) seals a
journal and refuses every artifact, its own included. `SealedOpens` lists that
limit among the reasons for a refusal.

## Fairness

* `Preparation!FairSpec`: weak fairness of each task's steps. Tokio polls woken
  tasks, and its mutex and semaphore are first come, first served; compilation
  is a terminating function. Nobody has to call.
* `Invocation!FairSpec`: strong fairness of the task and of the epoch check
  (the ticker thread advances the epoch for ever, so guest code meets it
  whatever else it does), weak fairness of a thread inside a control call. The
  guest need not return, the host need not answer and the clock may stop;
  `EveryInvocationEnds` assumes in its own statement that time passes. Strong
  fairness of the task covers only that the timing mutex is not withheld from it
  for ever.
* `HttpService!Fairness`: tasks and workers run, the `ProxyHandler` starts
  workers, hands over requests and enforces its timeout, and the caller of a
  streaming request polls its body to the end. No guest has to answer.
* `WasixWorker!FairSpec`: the runtime's tasks and timers run, the worker gets
  through its own isolation calls, and the blocking pool has a free thread
  (`PoolFair`). Nothing is assumed of the guest or of a
  stray process.
* `OutboundHttp` and `GuestCapture` state no liveness: nobody has to poll.

## Proofs

`MemoryCacheProofs`, for any number of packages, artifact sizes, limits and
counter range (assumptions `DigestAssumption`, `SizeAssumption`,
`ConfigAssumption`, which is what `validate_config` demands, and
`ModulusAssumption`):

* `Limits`, `ExactBytes`, `TypeCorrect`. The invariant is
  `Good(memory)`: types, both entry limits, the byte limit, byte counter equal
  to the sum of the retained sizes, and a size of 0 exactly where there is no
  entry. The byte limit is not inductive alone: evicting entries subtracts
  their sizes from the counter, which bounds it only if the counter is the sum.
* The sum over a set of digests is a recursive function; its unfolding, and
  that it adds over disjoint sets, rest on a least-element argument
  (`LeastNatural`, `NaturalInduction`) in place of the library's induction
  rules.
* `OldestFirst`, `TiersImplemented`, under `SpecBeforeWrap`, since a wrapped
  counter makes a new entry look old. The invariant is `Fresh`: `Good`, no entry
  is newer than the counter, and no two entries of a tier share a tick
  (`Ordered`). An insert keeps the entries with at most so many others as
  recent; that the rest are the least recently used needs distinct ticks, and
  that the entry just inserted is kept needs the counter to be ahead of all
  others. The refinement
  says for each method what it makes warm, what it makes warmish and what it may
  drop (`TierStep`).

`DiskCacheProofs`, for any runtimes, processes, configurations, artifact lengths
and number of faults (`ProcessAssumption`, `ConfigAssumption`: the absent and the
truncated file are no configuration's; `FaultsAssumption`):

* `OwnPublication`, `ForeignStays`, `EntryImplemented`. The invariant is `Inv`:
  running processes agree on key and engine, since a change of either is a restart
  of all; metadata never stands without an artifact; a runtime that has missed
  the entry meets afterwards only what its own configuration has published
  (`Order`); and what each step of `load` checked is still true when the next one
  uses it (`Checked`). `load` reads the two files at different times: the tag
  binds the second to the first, and nothing else does.
* `FinalPair`, for processes with different ids (`OnePidPerProcess`, a hypothesis
  of the theorem: two PID namespaces on one directory can break it). `Quiet` holds
  as long as there was no fault: each temporary file belongs to the one runtime
  about to rename it, and an artifact without metadata has a publisher that is
  about to write it.

`PreparationProofs`, for any tasks, digests and limits
(`BackgroundAssumption`, `WorkersAssumption`, `DetachedAssumption`):

* `SingleFlight`, `LookupsStayValid`, `CompiledWins`, `TypeCorrect`. The
  invariant is `TypeOK /\ OnePreparer /\ MissIsStillAMiss`. A miss stays one
  because only a preparer of that digest inserts it, and `OnePreparer` leaves
  one of those; `OnePreparer` needs that the one past the mutex is the head of
  the queue, which every departure from the queue has to keep (`WithoutHead`,
  `LeaveKeeps`). `CompiledWins` is an action property.

`InvocationProofs` holds the proofs about two specifications that share no
variable, a guest's run and its outbound exchanges.

About `Invocation`, for any controlling threads, timeout, resident TTL and
horizon (`NoneAssumption`: the absent value is not one of the others):

* `NoWakeupIsLost`, `ChargesActiveTime`, `CauseIsTrue`. The invariant is
  `Types /\ Mutex /\ Wakeup /\ Clock /\ Cause`. A wake-up is safe only if the
  task registered before it read the flag, so `Wakeup` also speaks of the step
  between the two. The pause clock needs `Mutex`: while a thread is between the
  flag and `paused_at`, the two disagree, and only the holder of the mutex can be
  there. `Clock` says for each place between two reads what has been charged so
  far: every tick since the start went to the guest, to a pause the clock knows
  of, or to one of the two gaps. What the callback decides (`due`) it decides
  from a reading that is old when the flags are tested, so `Cause` keeps that the
  sum had reached the timeout when it was taken. It also separates the cancellation an eviction makes from one that was
  asked for: the eviction sets its own flag first.

About `OutboundHttp`, for every configuration, request, address, declared length
and division into frames (`GrantLimits`, `BodyLengths`, `AddressParts`: limits
and lengths are naturals, octets are below 256):

* `OneGrantAllows`, `PrefixPasses`, `HintsAreTrue`. For each body the invariant
  keeps that what has passed and what remains are together within the limit, that
  the declared rest fits what remains, and that after an error nothing remains or
  the body is over; for the exchange, that the grant found first still admits it.
  That the code's address tests agree with the table of special blocks is
  arithmetic over all addresses (`PublicV4IsNotSpecial`, `PublicV6IsNotSpecial`).

`HttpProofs`, for any finite set of calls, any workers and every configuration
(`ConfigAssumption`, `PathsAssumption`, `OutputAssumption`,
`RequestsAssumption`):

* `InFlightIsBounded`, `OutputIsBounded`. The invariant `Admission` counts
  permits: those in the semaphore and those held by calls add up to
  `max_in_flight`, a call holds one from its admission to the release, and the
  gauge counts the calls that own a completion, which all hold one. It also says
  what the place of a call tells about its completion (`Fits`), that the queue
  holds each waiting call once, and that what a body has delivered and what it may
  still deliver stay within the limit (`Within`).
* `PreIsShared`. The invariant `Sharing` adds that no worker uses pre 0 or read
  the slot in a later epoch: `PublishPre` fills an empty slot, which is harmless
  only because nobody of this epoch uses an empty one.

`WasixWorkerProofs`, for every set of operations, events, deployments, inherited
processes and pipe sizes (`WorkerConstants`; `StartsAssumption`, `Inherited`: a worker
inherits the standard descriptors, and sorting its groups neither adds nor drops one, a
fact about the library's `SortSeq` that TLC evaluates on every start and that no
prover here can derive):

* `OrphansStopAlways`, `NothingIsLeftBehind`. `Tied` follows the death signal
  through the two windows in which it is not set, before it is armed and after the
  credential change has cleared it; `Owed` says what each mode of the parent has
  settled about the worker and its group.
* `SuccessIsAlwaysWhole`, `ImageIsTrusted`, `RunIsAuthorized`. `Exchange` says
  that neither side is ahead of what the other has sent and that what the parent
  has taken it has validated; `Ended` how an operation gets to its last step;
  `Shape` what the process has made of itself by then. The scripts of the four
  operations are finite sequences, so that what precedes a step in them is a
  lemma for each operation.
* `SoundComesUp` compares the isolation, a composition of seven functions of the
  inherited process, with the declarative `SoundProcess`, in both directions.
  `SoundProcess` asks for a free descriptor, since the isolation opens one.

`CheckpointProofs`, for all keys, limits, builds, versions, modules, documents and
writers, and for journals of any length (`CheckpointConstants`,
`OutputConstants`: limits and sizes are naturals, the source's values are among
the possible ones, documents hold manifests):

* `ReplayIsTheCapture`, `CheckpointIsWhole`, `SealedIsOpened`. The invariant `Life`
  follows the artifact: damage may change everything in it except what the tag
  says, so that what opens is what was sealed; and the verdict of the destination
  is the one that its own key, limit, version and build give, the overflow of the
  artifact length included.
* `ScanDecidesFraming`. `Scanned` says where the one pass is after i records; that
  it holds at the end is shown by a least record at which it fails. The counts of
  the definition are cardinalities, those of the scan are counters.
* `CaptureIsAlwaysWhole`. `Sink` accounts for each writer's bytes and says that a
  refusal is remembered until the output is taken; `Joined` that the checkpoint
  goes on only with a result that was taken whole.
* `AcceptedCoherent`. The validator compares a path with its ancestors only, in a
  list sorted by bytes. `ManifestProofs` shows that the order of byte strings is a
  strict order, that the segments of a path are what lies between its slashes, and
  that two paths no ancestor of which is in the list cannot overlap.
* `OneEnvironment`. The hashed bytes are read back field by field: a string starts
  with its length and a list with the number of its strings, so that two manifests
  with the same bytes agree up to the first field, then up to the second, and so
  on (`StringRead`, `StringsRead`). Digests are hashed as text; a digest that
  validates has one spelling (`SameDigest`). That different bytes have different
  hashes is the ideal-hash abstraction, not a result.

Facts about all places of a sequence, or all values of a recursive function, are
shown by a least counterexample (`Least`, `Climb`), since the library's induction
rules take an operator as a parameter.

The inductive invariants were also checked by TLC on the instances of the runs
before they were proved.

Model-checked only, and why:

* `EveryCallReturns`, `EveryInvocationEnds`, `CancellationEnds`,
  `EveryRequestEnds`, `EveryOperationEnds`: liveness under fairness.
* `NeverStuck`: a statement about ENABLED.
* `LoopsAgree`: what the code's eviction loops compute, written as recursive
  operators, against the closed forms; the provers cannot handle recursive
  operators. Every proof about the memory cache rests on the closed forms.
* The two statements of the ✗ runs, which do not hold.

## What is not modelled

* Runtime construction and profile detection: they run once, before any
  concurrency, and their outcome is wasmtime's type check.
* The epoch ticker beyond the fairness of `Epoch`: nothing but the thread itself
  reads its stop flag.
* Measurements other than the counters of the HTTP service; the tier a call
  reports; durations.
* Error variants' texts and the crate root's re-exports.
* Name resolution, the connection and the HTTP client library: the resolver's
  answer is any set of addresses, and what the connection does with the name is
  external to the model.
* Poisoning of standard mutexes; the growth of `preparation_locks`, which has no
  limit to check; header conversion; examples, benchmarks, fuzz targets and
  deployment files.

`Preparation` is built on the promises of the caches, `TierCache` and
`DiskEntry`, and each detailed cache is proved to keep its promise; the product
of all three is too large to check as one. The hazards of `PROJECT.json` without
a property say why.
