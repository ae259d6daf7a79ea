# TensorRT-Edge-LLM in TLA+

A verification development for the host-side control of TensorRT-Edge-LLM: the
threads, queues, tables and protocols in `cpp/scheduler`, `cpp/runtime` and
`experimental/server` that decide which request runs, in which row, and what its
caller is told. TLC model-checks each module on small instances; TLAPS proves
selected theorems for every value of the constants. Numerical device code
(kernels, plugins, attention, samplers) has no control worth exploring and is
left out.

## The system

Callers submit requests to a *request engine*. One *actor* thread owns the
queue and the runtime: it drains a lock-free *command queue*, founds a batch
with the queue's head, steps the batch, lets compatible heads join between
steps, and publishes one outcome per request. Under it a *stepper* adapts the
runtime's row-indexed batch to the scheduler's slot references, and the runtime
keeps rows, slots, KV pages and a context cache. Each request carries a
*stream channel* through which tokens leave and cancellation enters.

| Component | Source | State | Operations |
|---|---|---|---|
| Command queue | `cpp/scheduler/commandQueue.*` | cells with sequence numbers, two positions | push (any thread), pop (actor), hasPending |
| Request engine | `cpp/scheduler/requestEngine.*`, `engineChannel.h` | backlog count, live registry, gate, stop flag and mode, queue, residents, counters | submit, cancel, shutdown; the actor's loop |
| Request record, handle | `requestEngine.*` | outcome, its flag, mutex and condition; the stream's two flags | get, cancel, wakeWaiters, publishOutcome |
| Request coordinator | `requestCoordinator.*` | slot -> (reference, request) | add, commit, failEverything |
| Batch compatibility | `batchCompatibility.*` | none | one comparison of two requests |
| Resident slot pool | `cpp/runtime/state/residentSlotPool.*` | epochs, occupancy, free stack | reset, acquire, release, contains |
| Runtime stepper | `cpp/runtime/runtimeStepper.*` | index -> reference, index -> reported length, pending admission | admit, prefill, decode, finalizeResult |
| Rank runtime | `cpp/runtime/llmRankRuntime.*` | execution rows and per-row state | beginStepped, admission, seated prefill, step, eviction, finish |
| Stream channel | `cpp/runtime/streaming.*` | per row: detokenized and emitted counts, held bytes and text, reason; per channel: chunk queue, finished/cancelled flags | decode, match stops, emit, finalize, finish, tryPop, waitPop, cancel |
| Detokenizer | `cpp/tokenizer/tokenizer.*`, `cpp/common/utf8.*` | the bytes of an unfinished code point | emitDelta, decode |
| Multi-device coordinator | `cpp/runtime/multiDevice/*` | worker generations, completion counts, abort flag | dispatch, worker loop, abort, shutdown |
| Context cache | `cpp/runtime/state/contextCache/*` | records, leases, page pools, publication and compaction state | admit, commit, publish, evict, compact |
| KV page tables | `cpp/runtime/state/kvPageTable.*` and neighbours | page rows and dirty marks | apply, upload |
| Staging fence | `cpp/runtime/state/asyncHostStagingFence.*` | an event and whether it is armed | wait, record |
| Server: admission | `experimental/server/runtime/engine_client.py`, `api/routes.py` | a slot or a count of places, waiters, leases, handle latches, threads | reserve, release, prepare, generate, stream, speech, cancel, close |
| Server: streams | `experimental/server/runtime/engine.py` | `state` of a stream, the iterator's flags, the suspended generator | next, cancel, close, report metrics, submit |

How they interact. A caller's `submit()` reserves a place in the backlog,
registers the record, posts under the admission mutex and wakes the actor. The
actor alone touches the queue, the coordinator, the stepper and the runtime;
what it shares with callers is the ring, four atomics, the registry, and per
request a stream channel and an outcome. `terminate()` is the single exit of
every accepted request. The coordinator names sequences by slot reference, the
stepper by original index, the runtime by row: three names of one thing, kept
in step by the admission and eviction paths.

Above the engine an asyncio *server* gives each HTTP request a lease, a task and
threads that enter the native runtime, and turns a disconnect into a
cancellation of all three. Beside it, on several devices, a *runtime
coordinator* sends one request at a time to a worker thread per rank; the ranks
meet inside collectives and only there.

What is hard. Submit against shutdown (accepted means run or answered); notify
against park; cancel against a natural ending; the two-phase exit of a draining
shutdown; a slot released and taken again in adjacent ticks; rows compacted
between a step and the filing of its results; a step that throws half way; a
stop string spread over tokens and iterations, under an emission interval, with
a cancel or a failure at any stage; a disconnect at any await, and again during
the cleanup; a generator closed by one thread while another runs it; a rank that
fails, or ends early, while its peers stand in a collective. Each
is listed at its line under `hazards` in `PROJECT.json`, with the properties
that would notice it going wrong.

What makes each component correct:

- command queue: a bounded FIFO, although a claim and its publication are two
  steps; an accepted command is eventually delivered;
- engine: exactly one outcome per accepted request, first come first served,
  a backlog that never leaks, an exit that strands nobody, no lost wakeup;
- record and handle: `get()` returns, never hides an error behind a
  cancellation, never contradicts a published outcome;
- pool, stepper, coordinator: all names of a sequence agree at every tick, a
  reference that was released never becomes valid again, every generated token
  is reported once, every outcome reaches the request it belongs to;
- stream: every token reaches the consumer once, no stop string does, streamed
  and returned text agree, and a stream ends once, with the first reason;
- server: a slot has one owner and is returned once, no native call outlives
  the lease or the runtime, whoever leaves is stopped, a stream loses nothing;
- context cache, page tables: pages are neither lost nor owned twice, an indexed
  page holds what its block says, kernels write private pages only, and the
  pool never refuses what the engine's limits allow;
- multi-device coordinator: a success is a success of every rank, the task is
  not touched while a rank works on it, and every dispatch returns.

## Modules

`BoundedFifo` is the abstract specification of a command queue: a line of
accepted commands, a bound, an offer that may be refused only when the line was
full, and a take.

`CommandQueue` is the code: one action per atomic access. `PushLoad`, the
sequence test, the compare-exchange (`PushClaim`), the publication
(`PushPublish`), the chase of a moved position, and the consumer's `Pop`
actions. `BoundedFifo` is instantiated in it with the refinement mapping
spelled out next to the instance.

`RequestEngine` has the callers, `shutdown()` and the actor. `actorPc` names
where the actor is: `drain` and `sweep` are `drainCommandQueue()` and
`retireCancelledQueued()` (with `ret` naming their caller, `budget` and
`cursor` their locals), `loop`/`admit`/`last`/`park`/`sleeping`/`parked` are
`actorLoop()`, `found` to `failing` are `runResidentSteppedRequest()`, `exit`
is the last sweep. An action is what one thread does between two points where
another can look. Two mutexes are held across steps and appear as program
counters: the admission mutex is a request in `posting`, the wake mutex is the
actor in `sleeping`. The other critical sections are single steps.

`RequestRecord` is one request seen closely: the caller in `get()`, any number
of threads in `cancel()`, and the actor's path from the queue to `terminate()`
with the order of its writes. Here `terminate()`'s publication and the
cancellation of the channel are separate steps; in `RequestEngine` they are one.

`ResidentSlotPool` gives the pool's operations on a value.
`RuntimeStepper` extends it with one batch: the rows, the stepper's two tables,
the coordinator's table, and one action per tick. Admission is seated, refused
before a reservation, or rolled back after one; every step ends with
`Complete` (evict, report deltas, commit) or `Fail` (nothing filed).

`StreamEmission` follows one sequence through the runtime's iteration. `pc`
names the stage that comes next: `prefill` and `seat` make the first token of a
founder or a joiner, `poll` is `applyCancellationToFinishStates()`, `decode` the
strategy's step, `text` `decodePerSlot()`, `finish` `updateFinishStates()`,
`emit` `emitChunks()`, `evict` the eviction, `finalize` the destructor of
`StreamChannelFinalizer`. The variables are the fields of the row's
`SlotStreamState`, its `tokenIds` and the channel's flags and chunks. Text is
real here: a token has a piece, a piece is a few bytes, and the UTF-8 hold-back
and the stop matcher are operators on byte sequences (`Sanitized`, `StopMatch`).
What `handleRequest()` would return is a reference computed in one go from all
tokens (`Response`), against which the chunks are compared.

`EngineClient` is the server's process: one task per HTTP request, `pc` naming
the await it is suspended at, and one `work[c]` per native thread, which goes on
whatever happens to its task. `ifb` chooses between the two gates:
`asyncio.Semaphore(1)` with its FIFO of waiters (`slot`, `waiters`; the
semaphore itself is external), or a counter (`active`). `Cancel` delivers a
cancellation at any await; each await has its own handler (`CancelQueued`,
`CancelPreparing`, ...). `Closer` is `close()`: it drains the gate, then closes
the `LLM` and destroys the runtime.

`GenerateStream` is one stream of `generate_stream()`. `gpc` is where the
generator is and `runner` who runs it: the thread in `next()`, or the one in
`close()`. `kpc` is the thread in `cancel()` or `close()`, `cpc` the one in
`next()`, `prod` the producer: a worker thread inside `handle_request()` or the
engine's actor. `mode` chooses between these two, between a direct caller and
the HTTP layer (which brings its own admission), and metrics or none.

`RuntimeCoordinator` is the thread launch. `main` is the calling thread,
`worker[r]` rank r's: its places outside a request are those of the worker loop
(`look`, `drowsy`, `asleep` are the three moments of a wait on a condition
variable: the predicate is evaluated under the mutex, the thread still holds it,
the thread sleeps), those inside are the rank's generation session (`Working`),
and those with a comma say what a failing worker still has to do ("abort,
publish"). `session[r]` counts the collectives rank r has entered; `Met` is
what NCCL gives: an all-reduce needs everybody, a broadcast its root.

`ContextCacheManager` has the pools, records, block index, reuse plans and the
eviction planner as operators on one value, the manager: an operation gives the
next manager. `ContextCache` is the machine around it, for a vanilla attention
deployment: the coordinator's requests (`seqs`, one lease per row), the page
table as three copies of its rows (`host`, `uploaded`, `device`), the
coordinator's `pending`, `poisoned` and `quarantined`, and what the device does
with all this: `content` says which token prefix each page offset holds the KV
of, `inflight` which pages a kernel may still write. `pc` is where the rank
runtime is between two calls: a generation is `begun` (leased), `prefilling`,
`settled` between steps, `seating` a joiner, `decoding`, `evicting` and
`compacting` in the two halves of a compaction, `finishing` when its last row
has gone, or `failed`, after which only `Abandon` goes on. Kernels write through
the device's copy of the table, so a row that was not uploaded shows as KV in
the wrong place.

The modules whose names end in `Proofs` hold the theorems about the module they
are named after: the engine, the stepper and its pool, one sequence's stream, the
context cache with its manager, the server's client and streams, and the ranks.
`SchedulerProofs` has those about the command queue and about the record. Each
begins with the facts about sequences it rests on. The `MC...` modules instantiate
the others for TLC.

### What the models abstract

- Tokens, text, prompts and responses: lengths only, or nothing, except in
  `StreamEmission`.
- `kEndId` stands for every natural ending (`kLength` and `kStopWords` too),
  again except there and in `RuntimeCoordinator`.
- `StreamEmission` has code points of one or two bytes, no special tokens to
  skip, no thinking mode (which only delays when an EOS counts), and pieces
  that decode alike one by one and together: `decode()` may also strip a
  leading space, and replace patterns across pieces. The channel's consumer
  only cancels; metrics, logprobs and token callbacks are left out. A joiner
  whose first token ends it, or whose prefill fails, leaves before the first
  iteration (see the first finding).
- `RequestEngine` pushes into the ring in one step; the gap between claiming
  and publishing a cell is `CommandQueue`'s subject.
- `shutdown()` closes the gate and stores the mode in one step (both under the
  admission mutex); a second concurrent caller, serialised by `call_once`, is
  left out.
- Latency and stall counters are left out; batch compatibility is a class per
  request (`Kind`), and `Guided` are the requests that share a batch with
  nobody: with a grammar, or with a token callback, the one compared field that
  is not an equality.
- The coordinator's and the stepper's results are published in an arbitrary
  order: both are hash tables.
- A whole runtime step is one action of the actor. A cancel that lands inside
  it is one that lands after it, since the poll is at the step's top.
- `RuntimeStepper` has one token per step: deployments that speculate take no
  joiners. A seated prefill works by swapping its row to the front; the net
  effect is modelled.
- `EngineClient` takes a thread's native call as one stay `inside`, whatever it
  computes. `stream_with_audio()` behaves as `stream()` does, token counting and
  transcription as `generate()`: they are not separate routes. At most
  `MaxCancels` cancellations strike one task.
- In `GenerateStream` a chunk is a number; at most `MaxChunks` and a terminal
  one are pushed. What metrics contain is left out.
- In `RuntimeCoordinator` a request has one row; a stop string is the number of
  the token that completes it, and whether the prompt contains one. A collective
  on aborted communicators returns, with an error or with garbage. The
  communicators are the runtime's own (externally owned ones are not aborted).
  Recording a failure's message is left out, `errors` knows only the one error
  that is not a failure of the rank.
- In `ContextCache` the hash of a block is the token prefix it stands for (no
  collisions). A free page holds nothing. A joiner's slot is any free one; which
  the pool picks is `ResidentSlotPool`'s subject. One generation runs at a time,
  as the rank runtime does it. The lengths the device keeps per slot are left
  out, and so is a host allocation that fails. `finalizeSequenceAdmission()`
  tests for a poisoned coordinator, which it cannot meet: what poisons in
  between ends the admission first. The retry without reuse of
  `acquireSequence()` and its refusals are in the model, and never happen:
  `ResidentsFit` says why.
- The exit sweep's branch for a resident record is not modelled: control
  reaches it only after `runResidentSteppedRequest()` has cleared the record.

## Runs

| Run | Instance | What it shows |
|---|---|---|
| `MCCommandQueue` | 3 producers, 4 commands, 2 cells, fairness | no two owners of a cell, refinement of `BoundedFifo`, delivery |
| `MCRequestEngine` | 2 requests, one cancellable, failures, both shutdown modes, fairness | accounting of reservations, counters, registry and holders (`AccountsBalance`), ledger against rows, finality of outcomes, an answer for every request, a shutdown that returns |
| `MCRequestEngineMixed` | 4 requests, two classes, one guided, batch of 3, backlog of 3, draining shutdown | order of service, batch compatibility, an exit that strands nobody, a drain that cancels nobody, no lost wakeup |
| `MCRequestEngineStream` | 2 requests | *violated*: the first finding |
| `MCRequestRecord` | 2 cancelling threads, fairness | what `get()` may answer, and that it returns |
| `MCRuntimeStepper` | 3 slots and rows, 6 indices, prompts of 1 or 2, epochs to 3 | agreement of all names, freshness, exact deltas, outcomes to owners |
| `MCStreamEmission` | 6 tokens, 3 stop strings, up to 5 generated in bursts of 1 or 2, intervals 1 and 2 | delivery of tokens, agreement with the returned text, stop strings withheld and obeyed, one end, with one reason and one last chunk |
| `MCEngineClient` | 3 requests of three routes, both gates, 1 place in the queue or 2 in the engine, 2 cancellations per task, a shutdown, fairness | one owner of the slot, exact counters, work under a lease, the runtime outlives its calls, a disconnect stops the work, shutdown returns |
| `MCEngineClientSpeech` | the same, all speech | *violated*: the second finding |
| `MCGenerateStream` | 2 chunks and a terminal one, all deployments, fairness | nothing lost, no running generator closed, no generation left behind, metrics once, `next()` and `close()` end |
| `MCRuntimeCoordinator` | 2 ranks, 2 dispatches of 3 kinds of request, fairness | the task is stable, success is unanimous, every call returns |
| `MCContextCache` | 2 slots of 3 pages over a pool of 6, pages of 2 tokens, 2 records, 3 prompts, 4 admissions, both lookup and commit policies, failing uploads and synchronisations | conservation of pages, truth of what is cached and computed, a pool that never refuses |

Every module with variables also states its types (`TypeOK`, of the record
`RecordTypeOK`). All of them are proved; none is listed in a run, each may be added to
one.

Bounds and why they are enough:

- The ring has two cells, the smallest the constructor allows
  (`kMinCapacity`); four commands lap it twice, so every cell is reused and
  three producers can hold claims, lose races and find the ring full at once.
- The engine's ring also has two places: with three requests and the shutdown
  command it fills, refuses a post and drops a shutdown. Three rows with four
  requests let joiners outlive the founder they were compared to, and a fourth
  request meets a full backlog.
- Two tokens per request give a sequence a prefill, a decode and a step in
  which neighbours end while it goes on.
- Three slots with six indices make every slot change owner; two rows may
  leave in one step and their slots be taken in either order. `MaxIndex` and
  `MaxEpoch` bound only how many admissions a batch makes.
- The stop strings `abc` and `bb` overlap, differ in length, and are completed
  by tokens that hold one of their bytes, or one and more behind it; the prompt
  `ab` begins both. The third, `d`, ends a token, so that a first token may hold
  it. Five tokens are enough for the longest stop to straddle three iterations
  with text before and after it; a burst of two gives a step that completes a
  stop and goes on; the token `L` opens a code point which `T` completes and every
  other token breaks. Interval 2 leaves one token waiting, which is all an
  interval can do wrong.
- Three requests and a closer on one slot give an owner, a waiter and a third
  that is refused or times out in its place; the second cancellation is the one
  that strikes a cleanup. Two places with three requests fill the other gate.
- Two chunks before the terminal one are the least with which one can be taken
  in time, one be left for the drain, and the order be wrong.
- Two ranks are a root and a peer, all that the protocol tells apart. Two
  dispatches show a completion of the first counted for the second; a third
  finds the same state as the second. `Mixed` has a request that ends at a
  length or its prompt's stop string on every rank alike, a streamed one ended
  by a stop string, and one that is too long.
- Two slots of three pages over a pool of exactly six leave the cache only what
  the residents do not use, which is where eviction, growth and reuse compete;
  two records overlap in a page and reach the record limit. Three tokens
  generated from prompts of one, three and four tokens cross a page boundary,
  end within a page and end on one. Four admissions make a founding batch whose
  rows are replaced once, or four generations in a row; with five the instance
  has five times the states and the properties hold too. Among the states
  visited are an eviction forced by a growing row, a page two rows read, a page
  of two records, a row whose own copy of a block is not the canonical one, and
  a shutdown after a quarantine.
- Symmetry is used only in runs without liveness, over requests that no
  constant tells apart.

`CHECK_DEADLOCK FALSE` is set where the system may really stop: a queue whose
commands are all delivered, a record whose request is over, a server that is
closed or idle, a stream nobody iterates, a coordinator that is destroyed. In the engine a
state in which nothing can move is an error: `Finished` allows a stutter only
when every thread has returned, but while nobody has shut the engine down the
parked actor can always time out, so lost wakeups are left to `NoLostWakeup`
and to the liveness run. `ContextCache` stutters only when it is closed
(`Terminated`).

### Fairness

- `CommandQueue`: a producer inside `push()` and the consumer's loop are
  scheduled. Nobody has to call `push()`.
- `RequestEngine`: weak fairness for each call that has begun, and for the
  actor, whose thread runs until `join()`. `ParkTimeout`, the expiry of
  `idleWait` (50 ms), has none: `AcceptedIsAnswered` therefore shows that the
  wakeups suffice and that the timeout is only the backstop the source says it
  is. A handle's `cancel()`, which does not wake the actor, is not expected to
  be seen before the next wakeup. `MaxGenerateLength` bounds a generation, as
  the runtime's length limit does.
- `RequestRecord`: the caller inside `get()` and the cancellers inside
  `cancel()` are scheduled, the actor is not. A cancelling caller is released
  even if the model call never returns.
- `EngineClient`: the event loop runs every task that can go on, and threads are
  scheduled; a native call comes back. No client has to come or to disconnect,
  and no timeout has to fire.
- `GenerateStream`: a thread inside `next()`, `cancel()` or `close()` and the
  producer are scheduled. Nobody has to call.
- `RuntimeCoordinator`: strong fairness for the calling thread and for each
  worker, since a free mutex that is contended again and again is obtained in
  the end. Failures, cancellations and spurious wakeups have none: `CallsReturn`
  rests on the notifications and on the abort.

## Findings

**The stream of a joiner that ends at once.** `MCRequestEngineStream` refutes
`CompletedStreamIsFinished`. `terminate()`
relies on "A completed request's channel was finished by the runtime that
produced it" (`cpp/scheduler/requestEngine.cpp:465-466`) and cancels the
channel of every other request itself. But a joiner whose seated prefill
produces a terminal first token is evicted in the same tick
(`cpp/runtime/runtimeStepper.cpp:135-141`), before any emission pass: its
outcome is `kCompleted` and its channel is neither finished nor cancelled, so a
consumer of the stream waits on. A founder takes the full step and is not
affected. `CancelIsNotContradicted` carries the same case as its exception: an
early "cancelled" from `get()` can be followed by a completed outcome only
there.

**The lease of a cancelled speech request.** `MCEngineClientSpeech` refutes
`SlotIsReleased`. The `finally` block of `stream_speech()` awaits the closing of
the iterator (`experimental/server/runtime/engine_client.py:651-652`) before it
releases the lease; a cancellation delivered at that await skips the release,
and the route's response has none of its own. The lifecycle in
`openai-server.md` says "release the slot exactly once". `CloseReturns` carries
the case as its exception: a shutdown then drains for ever.

### Further deviations

These properties are stated in the modules and violated. They have no run of
their own; each is reproduced with the cfg named, changed as it says, the property as an
INVARIANT where the cfg does not list it.

- `RanksStayTogether` (`MCRuntimeCoordinator.cfg` with `SPECIFICATION Spec`,
  `Workload <- StopInPrompt`, `MaxDispatches = 1` and no PROPERTY). Only rank 0
  has stream channels, and whether a slot has one decides where its search for
  stop strings begins (`cpp/runtime/llmRankRuntime.cpp:2134-2142`) and how often
  it happens (`cpp/runtime/streaming.cpp:319-328`). With a stop string in the
  prompt, or with an interval above 1, the other ranks end the sequence first
  and rank 0 waits in an all-reduce; the consensus before each step
  (`llmRankRuntime.cpp:891-935`) covers cancellations only. Nobody has failed,
  so nobody aborts, and the dispatch does not return (`CallsReturn` fails too).
  The runtime's comments say it serves streams on several ranks; no example in
  the repository does both.
- `CacheIsTruthful` with `UploadFailures = {"after"}` (`MCContextCache.cfg`): the
  rows have been copied when the event behind them cannot be recorded
  (`cpp/runtime/state/kvPageTable.cpp:344`), so the device is newer than
  `mUploadedHost`. A later row that equals the one uploaded before is then taken
  for clean (`:462-484`) and never sent. Kernels then write pages their row does
  not lease, so `PagesAreConserved` fails as well.
- `PagesAreConserved` with `SeatedThrows = {TRUE}` (the same cfg;
  `ReleasedPagesAreQuiet` is the part that fails): a joiner's prefill that throws
  after it enqueued work is abandoned without draining the stream, since
  `deviceWorkPending` is set by the founding prefill and by decode steps only.
  `contextCacheCoordinator.h:112-113` says that an abnormal exit drains it.
- `GateIsReleased` (`GenerateStream`; `MCGenerateStream.cfg` with `SPECIFICATION
  Spec`, `Modes <- DirectOnly`, `MaxChunks = 1`): the submission stands between
  two `try` blocks (`experimental/server/runtime/engine.py:1999`), so a refused
  one leaks the engine's permit, while
  `test_ifb_stream_takes_and_releases_the_gate` has it "released when the stream
  ends".
- `CleanEndIsNotCancelled` (the same instance): a consumer that closes the
  stream right after the terminal chunk may cancel a request that has yet to
  settle (`engine.py:2064-2066`), which the comment at `:2041-2043` says must
  not happen.
- `TailIsDelivered` (`MCStreamEmission.cfg`). The user guide says that with an
  interval "the final chunk always fires regardless of interval, so the tail
  tokens aren't lost" (`docs/source/user_guide/features/streaming.md:113`). It
  fires, but `decodePerSlot()` decides whether this is the end
  (`cpp/runtime/streaming.cpp:316`) before `updateFinishStates()` has decided it,
  in the same iteration; the tokens of an unfilled interval are never decoded
  nor sent. `TokensAreDelivered` claims all tokens for interval 1 and for
  cancellations, where the order is right.
- `StopIsProduced` (`MCStreamEmission.cfg`): a founding slot without a channel
  looks for stop strings in the prompt (the single-device side of
  `RanksStayTogether`) and ends after one token. Requests of the engine always have a
  channel.
- `ChunksAreWellFormed` (`MCStreamEmission.cfg`; "always well-formed UTF-8 when
  pushed by the runtime", `cpp/runtime/streaming.h:82`): the stop matcher holds
  back a number of bytes, after the sanitizer, and may leave a lead byte in one
  chunk and its continuation for the next.
- `EndsOnce` with `PartialPrefillEviction` FALSE: a batch founded on the
  unmanaged or the MTP path with several rows keeps a row that ended at its
  first token through a decode step (`llmRankRuntime.cpp:1166-1172`), and
  `emitChunks()` pushes a second terminal chunk for it.

Observed on the way, without a property. A row whose request is cancelled at the
poll that follows its first token ends with that token's text unmatched, for the
prefill looks at no text and a cancelled row is not matched (`streaming.cpp:339`): a
stop string in it is sent, though "the stop string itself is excluded from the
returned text" (`docs/source/user_guide/format/input-format.md:90`); hence the premise
of `StopStringsStop` about a row's first token. At a natural ending the bytes of an
unfinished code point are not flushed, since the flush too depends on the early
answer (`streaming.cpp:332`), hence the third premise of `StreamIsResponse`; the
finalizer sends the ids of tokens whose text was held back, but not that text. A
plain streamed response releases its lease when the client leaves while the
response is suspended in `send`, before the thread has left the runtime, and a
second cancellation ends the joining of a thread early: the two exceptions of
`LeaseCoversWork`. `validateStreamingSubmission` fails on rank 0 only, which
aborts the communicators for good. An allocation failure in a worker's own
`catch` block, after it took a generation, is taken for one with nothing pending
(`runtimeCoordinator.cpp:510`), and no completion is published.

## Proofs

### The engine

`RequestEngineProofs` proves, for any finite set of requests, any ring, backlog
and batch size, any classes, modes and failures, every safety property the runs
check of `RequestEngine`, with `AccountsBalance` both as a whole and account by
account. The assumptions are
`RequestsAssumption` (finitely many requests, distinct from the null record and
the shutdown command) and `ConfigAssumption` (positive limits).

None of the properties is inductive alone; the invariants that make them so
come in layers, each preserved with the help of those before it.

1. `IInv1`: the types, and `Shape`: where the actor is decides what the founder,
   ledger, rows, pending prefill and results can be. `Shape` is what lets a
   step of the runtime be read as "some rows ended" (`SteppingIsCommit`).
   `NoLostWakeup` needs only this layer and `LedgerMatchesBatch` little more:
   `BatchOfFounder` says that all rows equal the founder in class and that a
   guided founder is alone, which is why comparing joiners with the founder is
   enough even after it left.
2. `Accounts`: `Held = Unanswered`. The ring, the queue, the founding, the
   ledger and the results, pairwise disjoint (`Apart`), hold exactly the
   accepted requests with no outcome. Every call of `terminate()` takes one
   request from one holder (`HolderLetsGo`), every other step of the actor
   hands requests on (`HolderHandsOn`), and only a push adds one. So
   `terminate()` always finds a reservation to return, a record to forget and
   no outcome: `BacklogExact`, `CountersMatchOutcomes`, `LiveUntilTerminal`
   and `HeldOnce` follow, and with the backlog the type of the pending count,
   which a decrement alone would not keep natural.
3. `ShutdownInv`: the gate closes with nobody inside it, before the stop is set,
   before the actor acts on it (`ShutdownOrder`); hence the ring gains no submit
   during the last drain, and since it holds at most a ring's worth, a budget of
   one ring empties it (`LastLook`). With layer 2 nobody is left at the exit.
4. `Polled` and `Blame`: a flag that is up on an unanswered request is its
   caller's doing unless a shutdown cancels, and a result is "cancelled" only if
   the flag was polled. This gives `DrainCancelsNobody`, and with `Accounts` the
   action property `OutcomesAreFinal`.
5. `Ordered` and `Known`: the ring, the queue and the histories, read in this
   order, follow the order of acceptance. `ServedInOrder` speaks of the histories
   only; it is kept because every list is in order (`InOrder`, a property that
   appending a newcomer, taking the head or taking any other place all keep) and
   whatever stands in a later list was accepted after all of the earlier one. A
   sweep takes requests from the middle, which is why the queue needs
   `RemoveInOrder` and not only the facts about its head.

`CallerFrame` and `ActorFrame` say once which steps touch which variable; the
later layers argue about those steps only.

### The record

`SchedulerProofs` proves, for any set of cancelling threads, four
properties of `RequestRecord`: `RecordTypeCorrect`, `ErrorsReported`,
`NotContradicted` and `ResultMatches`. The module has no assumptions about its
constants.

None of the invariants is inductive alone. `ErrorsAreReported` speaks of the
answer only: to know that a caller about to answer "cancelled" does so because
somebody asked, one must know why the cancel flag it saw was up
(`VerdictHasCause`: before the channel is closed, only a request to cancel
raises it), and to know that a published outcome is not "cancelled" out of
thin air one follows the verdict from the decision to the publication
(`PublishedIsVerdict`). `CancelIsNotContradicted` needs
`EarlyAnswerIsOpen`: whoever answers on the flag alone saw an unfinished
stream, and after that the poll, or the decision, must see the flag too.
`RecordInv` is their conjunction with the types; `RecordStarts` and
`RecordSteps` show it inductive, one step per action, and `AskedStays` that a
request to cancel is never withdrawn. `ResultIsOutcome` needs no invariant: it
is a fact about every step.

### The command queue

`SchedulerProofs` proves, for any number of producers, commands and cells,
that no cell is ever read or written by two threads (`ExclusiveCells`) and that
the ring implements `BoundedFifo`, the temporal property the run checks, without
its liveness. It assumes `RingSizeAssumption`, that `RingSize()` finds a power of
two: its existence needs 2^n >= n, an induction the prover does not do, and TLC
evaluates it.

The argument is about positions, not cells. `Window` is the stretch of positions
that share out the cells at the moment: from the oldest whose cell was not handed
on, one ring long, hence one position per cell (`WindowCells`). `Counters` says that
what was claimed is in it; `Claims` that a claimed position has one producer, and
that a producer which saw its cell free may still trust what it saw when its
compare-and-swap succeeds; `Sequences` reads off a cell's sequence number whether
its position is published. With these a producer and the consumer are never at
one cell. For the refinement `Contents`, `Arguments` and `OneOwner` follow each
command from the caller to the consumer. The abstract line is what stands in the
window from the consumer on, with the flag that says whether it is published: a
claim appends to it, a publication marks an entry, a take removes the head, and
everything else stutters, one lemma for each.

### The stepped batch

`RuntimeStepperProofs` proves all four invariants of `RuntimeStepper` for pools,
batches, prompts, generations and numbers of admissions of any size
(`PoolCapacityAssumption`, `StepperAssumption`: sensible limits). First the pool
as a value: what `acquire()` hands out was free and carries its slot's epoch
(`TakeSlot`), what `release()` takes back is free again under a newer epoch
(`GiveSlotsBack`), and what is not taken is free (`SlotsAreCounted`). Then the
rows: the live and the ended ones divide the rows between them (`RowsDivide`), and
with them the indices and the slots (`NamesDivide`). `IInv` has, besides the types
and that no two rows share a name (`Differ`):

- `PoolHoldsRows` and `Outdated`: the slots taken are the rows', each row's
  reference is of its slot's present epoch, and every reference given back is of
  an earlier one. The last is what "stale for good" comes down to, and the first
  two make a slot that an eviction freed safe to hand out in the same tick.
- `TablesHoldRows`: every table holds the rows and nothing else, during a failed
  step too, when nothing is evicted: `failEverything()` relies on that.
- `Histories`: each index handed out is a row's or has its outcome. Without it
  nothing says that an index offered is new.
- `Seat`: the pending admission is the youngest row, or the founder alone. A
  prefill steps the row at this place, so that its facts are about the row the
  scheduler awaits.
- `Reports`: for each row the prompt and its deltas add up to what the stepper says
  it reported, which is never more than the row has, and less only while its
  prefill is to come. `DeltasAreExact` alone does not survive the founder's first
  tick, whose token exists before anything was reported.

Each way a tick ends is one lemma; the prefills and the decode only show that
they change a row's tokens and never its names (`Stepped`), and then end as
`Complete` or `Fail` do. For this the module writes the eviction as what it makes
of the rows and the pool at once: the numbers that stay and the numbers that leave
in ascending order (`buildBatchMapping`, `evictedIndices`), and all released slots
appended to the free list in that order.

### The server

`EngineClientProofs` proves `TypeOK` and every safety property `MCEngineClient`
checks, for any set of requests and routes, both gates and any limits
(`ClientsAssumption`: the closer is no request, finitely many requests;
`LimitsAssumption`: sensible limits). `IInv` has five parts.

1. `GateInv`: the places of tasks and leases agree, and a one-slot gate has one
   owner (`OneOwner`). The hard state is a permit handed to a task that times
   out or is cancelled before it wakes: it is owned by the task's place, not by
   a lease.
2. `Books`: `active` and `waiting` are the cardinalities of `Held` and `Parked`;
   a lemma for each way to move a lease or a place in the line (`ParkingBooks`,
   `GrantedBooks`, `ReleasingBooks`, ...) covers all actions.
3. `ThreadTyped`: the types of the rest.
4. `WorkInv`: `Served` ties the thread of a request to the await its task is at,
   and what was asked of a handle to what the engine was told; `Cancelled`
   counts the cancellations that explain a task's place. `DisconnectStopsWork`
   and `LeaseCoversWork` need both.
5. `RuntimeInv`: the order of shutdown, drained before closed before destroyed.

`GenerateStreamProofs` proves every invariant of `GenerateStream` for any number
of chunks and every deployment: with and without engine and metrics, with a
caller that cancels or closes from another thread at any moment. `OneRunner` says
which thread runs the generator, `Closing` who will close it: the closer only if it
found nobody advancing, the last to leave otherwise, and that is decided under the
lock though the close happens after it. Together they give
`NeverClosedWhileRunning`. `Submission`, `Stopped` and `Reporting` say what the
`finally` block may assume of the producer and of the callback at each of its
steps, which is `EndIsSettled`. `NothingIsLost` is about streams nobody disturbs:
`Accounted` cuts what was pushed into what was received, the chunk in hand and
what is pending; `Terminal` that the last chunk comes last; so that a generator
that saw it, or found the stream finished and drained it, has handed on all of it
(`Reading`).

### The multi-device coordinator

`RuntimeCoordinatorProofs` proves `TaskIsStable` for any number of ranks above
one (`RanksAssumption`), any workload and every failure the model has. The
argument is a balance. A rank *owes* a completion while it is inside the request
announced last, on a failure path that leads to `publishWorkerCompletion()`, or
still has to take that generation (`Owes`). `Books` says that completions
counted and owed together are at most the ranks: no step adds a debt
(`WorkersOweNoMore`, `CallerOwesNothing`), a publication pays one
(`PublicationPays`), and only a new generation starts again from zero. So when
the caller finds all of them counted nothing is owed (`Quiet`). For the payment
to be one, a rank inside a request must have taken the newest generation
(`Current`), which in turn follows from `Quiet` when it is announced.

That a dispatch which succeeded left all ranks agreed is a second invariant,
`Unison`, on top of the first. While nothing has failed (`Sound`), `Together` holds
of every rank that took the present generation: where it stands in the loop of its
request determines how many tokens, collectives and broadcasts it has behind it
(`Steady`); no rank but the root ends a streamed sequence by itself (`Told`); what
one rank leaves open, the collective that follows makes it wait for, so that no two
are further apart than one collective (`Marching`, `Joined`); and a completion that
was counted came from a rank that had ended (`Answered`). A failure is recorded
before anything is aborted (`FailureFirst`), so that a rank that a torn collective
lets go on is never `Sound`. One lemma per action of a rank says what it does to its
own counters; `OthersStay` and `OneMoves` carry the facts of the others.

From it `RanksEndTogether` follows for every workload: in a dispatch that
succeeded all ranks have ended, at the same token. `SuccessIsUnanimous` says more,
that they also ended for the same reason, and is proved under `RanksJudgeAlike`:
a streamed request is looked through for stop strings after every token or has
none, and has none in its prompt. Without that the root and the others look for
stop strings at different tokens: a dispatch then either does not return
(`RanksStayTogether` under *Further deviations*) or succeeds with ranks that ended
at the same token for reasons of their own; the response is the root's.

`TypeCorrect` is mostly about three counters. `workersFinished` has room for a
completion because one is still owed when it is published (`Books`);
`mLiveWorkers` and `mWorkerStartupReports` are head counts (`Census`) of the ranks
that entered the loop and have not withdrawn, and of those that got past their start.
It assumes that the bound on dispatches is a number (`BoundAssumption`).

### The stream of one sequence

`StreamEmissionProofs` proves all four properties `MCStreamEmission` checks, and
`TypeOK`, for any vocabulary, pieces, prompt and history, any finite set of stop
strings, any intervals, limits and bursts (`EmissionAssumption`: the three bytes of
the model's encoding exist, stop strings are not empty, limits are positive).

Half of it is about data, and needs no step of the system. That the pieces of a
token line, joined, are the joined pieces of its parts is an induction over the
line; it is done from the least counterexample (`LeastNat`, from the
well-foundedness of the naturals), first for sets of naturals (`SetInduction`),
then for what a fold returns (`GlueUnique`, `FlattenAppend`, `FlattenConcat`). On
this rest the two facts that make streaming right.

- `CleanConcat`: sanitizing a text in two parts, with the open code point of the
  first put in front of the second, is sanitizing it in one.
- `MatchGrows`: the matcher that is fed the text in parts behaves as one that sees
  the whole of it. It matches when a stop string stands in the whole, and then has
  emitted what is in front of the earliest one; otherwise nothing of the text is
  lost, and one byte less than the longest stop string is kept (`Keeps`). A stop
  string that began in front of what was kept would have ended in it
  (`FoundInKept`): this is where one byte less kept would be wrong.

The invariant then comes in layers, each inductive with the help of those before.

1. `Types`, and the order of the three counts into the history.
2. `Tokens`: the ids sent are the history from the first generated token to
   `lastEmittedTokenCount` (`SentInOrder`), and a row that ends cancelled, or by
   itself with an interval of one, has nothing left to send (`NothingLeftToSend`).
   `TokensAreDelivered` needs no more, and holds without any hypothesis.
3. `Ends`: who may still push what. Up to the update of the finish states no row has
   a natural reason, a closed channel has left only the eviction before it, and one
   that is open has no terminal chunk. It is inductive where rows are evicted one by
   one, hence the hypothesis `PartialPrefillEviction` of this theorem and the next
   two; without it the second terminal chunk of *Further deviations* is pushed.
4. `Reader`: as long as no stop string was found, the text looked at is what was
   emitted with what the matcher keeps behind it (`ReadsOn`); once one was found, what
   was sent or is on its way is the text in front of the earliest (`StopsHere`); what
   was sent is a beginning of the text, free of stop strings (`SentText`); and so is
   what a row cancelled in a stream with interval one has sent (`CancelledEarly`).
   The text of a row without a channel is looked at from its prompt on, which is why
   `ReadsOn` has two beginnings (`Starts`).

`StreamIsResponse` and `StopStringsStop` are proved for stop strings without a
replacement character (`StopsAreCharacters`). The code accepts others, and with them
both fail: an open code point that is held back reads as U+FFFD in the text of a
response, which will see no more bytes, and is in the stream only when it ends. With
the stop strings `bc` and `abcd` followed by U+FFFD, the tokens `a`, `b` and then
`cd` with a lead byte in one step, the stream ends in front of `bc` and the response
in front of `abcd`.

### The context cache

`ContextCacheProofs` proves the three invariants `MCContextCache` checks, and
`TypeOK`, for any slots, table width, page size, pool, prompts and record limit. The
assumptions are those of the two modules: the pool is a finite set of page numbers
that covers the least the runtime allocates (`PoolAssumption`), the table has a row
and a place (`TableAssumption`), prompts leave a token to compute and fit into a row
(`InputAssumption`).

First the manager as a value, without any step of the system. `ManagerOK` says that
the ring has, once each, the pages nobody counts (`FreeAreUnused`), that the index is
one block for every cached page (`IndexIsOfCached`), that a record's path is the
index of its own block (`RecordsIndexed`), and that `cached` counts records;
`Counts` makes a count the cardinality of the set of lists that hold the page. One lemma
for each operation says what it leaves: a record evicted, a lease taken, grown,
released, its blocks published. The folds over records, leases and rows are recursive
functions over the list; what they return is shown from the least counterexample
(`LeastNat`, `SetInduction`, `BoundedInduction`).

On this rest three invariants, each inductive with the help of those before.

1. `Core`: the manager's `active` counts the leases of the rows (or of the quarantine,
   once the rows are gone), and `Stage` knows which rows there are at each point of
   the loop. Counting is not inductive alone: that a publication may replace a row's page
   by the canonical one, and that an eviction may take a page, depends on who else has
   it. Hence `RowsAgree`, that two rows share a page only at one place, for a block
   they have in common and have both computed, and `RowIndexed`, the same of a row and
   a record. `PagesCounted` reads the counts off it. So does `ResidentsAlwaysFit`:
   every page nobody leases can be had by evicting records, least recent first
   (`RoomForIdle`); the leased pages are at most the places of the rows; and the pool
   has a place for every row and column of the table. Both hold whatever fails.
2. `Device`: what the host thinks it uploaded is on the device (`InStep`), the rows it
   has there are the leases wherever kernels may start (`OnDevice`), what is in flight
   are pages of one live lease and of no record (`Private`), and whoever lets go of a
   lease waits for it first (`Flight`). With `Core` this is `PagesConserved`.
3. `Truth`: indexed pages hold their block's KV, committed positions their own
   sequence's. A step writes behind what is committed, in private pages, so nothing
   that is true is overwritten; a prefix that is reused is true of the new row because
   its blocks are equal; and what is published is what a row has committed
   (`PublishedTrue`). With the two before it this is `CacheAlwaysTruthful`.

`Device` and `Truth` are proved under `CleanFailures`: a failed upload leaves the
device's rows as they were, and a joiner's prefill that fails returns instead of
throwing. The run's constants satisfy it. Without either half the properties are false
of the code: these are the second and third of the *Further deviations*. `Core`,
`PagesCounted`, `ResidentsAlwaysFit` and `TypeCorrect` need no such hypothesis.

### Not proved

Liveness and everything under fairness is only model-checked, since it is beyond the
prover: `AcceptedIsDelivered`, `AcceptedIsAnswered`, `ShutdownReturns`,
`GetReturns`, `CloseReturns`, `StreamEnds` and `CallsReturn`. Every invariant and every
action property of a passing run has a theorem; those of `SuccessIsUnanimous`, of
three properties of `StreamEmission` and of two of `ContextCache` have the hypotheses
named above. `ResultIsOutcome` and the types are proved and have no run of their own.

## Not modelled

Kernels, plugins, samplers and encoders (numerical); the builder, exporter,
quantization and text encoding (sequential, offline or textual), which are most
of the repository's Python; the speech runtime (a pipeline the engine refuses to
serve); the server's protocol and parsers (validation and formatting). Of the
multi-device coordinator the MPI launch and the inline single rank. Of the
context cache the hybrid, speculative and MTP flavours, and the identity that
media and adapters add to a block; of the page tables the sparse ones of sliding
windows. They and the staging fence are next in the plan.
`PROJECT.json` lists each with its reason.

## Plan

Done: what every request passes through (`CommandQueue`, `RequestEngine`,
`RequestRecord`), what a batch shares (`RuntimeStepper`, `StreamEmission`,
`ContextCache`), the server above (`EngineClient`, `GenerateStream`) and the
ranks beside (`RuntimeCoordinator`). Next:

1. Sliding windows: sparse page tables, their single-entry updates and the pages
   that fall out of a window and are used again; the staging fence with them.
2. The hybrid and speculative flavours of the cache: snapshots reserved, staged
   and published, two pools that are granted together or not at all.
