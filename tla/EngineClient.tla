----------------------------- MODULE EngineClient -----------------------------
(***************************************************************************)
(* experimental/server: the HTTP requests of one process, the admission    *)
(* gate they take a lease from, the threads that prepare and run them, and *)
(* the shutdown that drains the gate and destroys the runtime              *)
(* (runtime/engine_client.py, api/routes.py, LLM.close in                  *)
(* runtime/engine.py).  The event loop runs a task from one await to the   *)
(* next in one step; a task may be cancelled at any await, by a client     *)
(* that disconnects, and again while it handles the first cancellation.    *)
(* Threads are the work[c]: they go on whatever happens to their task.     *)
(***************************************************************************)
EXTENDS Naturals, SequencesExt, FiniteSets

CONSTANTS Clients,        \* HTTP requests, one task each
          Closer,         \* the task of EngineClient._close_runtime()
          RouteMixes,     \* the assignments of routes to requests to consider
          Schedulers,     \* the values of in_flight_batching
          MaxQueued,      \* max_queued_requests
          BatchSize,      \* max_concurrency of the in-flight-batching gate
          MaxCancels      \* cancellations delivered to one task

Tasks == Clients \cup {Closer}
Routes == {"generate", "stream", "speech"}

ASSUME ClientsAssumption == Closer \notin Clients /\ IsFiniteSet(Clients)
ASSUME LimitsAssumption == /\ MaxQueued \in Nat
                           /\ BatchSize \in Nat \ {0}
                           /\ MaxCancels \in Nat
                           /\ RouteMixes \subseteq [Clients -> Routes]
                           /\ Schedulers \subseteq BOOLEAN

VARIABLES
  ifb,             \* _load_runtime()'s choice: a request engine, or one generation slot
  slot, waiters,   \* the asyncio.Semaphore(1): its value and its FIFO of parked tasks
  active, waiting, closing, drained,   \* the admission gate's own fields
  pc,              \* [Tasks -> the await the task is suspended at]
  route,           \* [Clients -> route]
  lease,           \* [Clients -> its _AdmissionLease]
  cancels,         \* [Clients -> cancellations so far]
  work,            \* [Clients -> where the native thread working for it is]
  published,       \* the clients whose engine handle is known to the server
  asked,           \* _HandleLatch._cancelled, or the iterator's
  stopped,         \* the clients whose native request was told to stop
  toClose,         \* the clients whose iterator a scheduled task has yet to close
  llmClosed, runtimeOpen               \* LLM._closed, LLM._runtime or LLM._engine

gateVars == <<slot, waiters, active, waiting, pc, lease>>
threadVars == <<work, published, asked, stopped, toClose>>
llmVars == <<llmClosed, runtimeOpen>>
vars == <<ifb, gateVars, closing, drained, route, cancels, threadVars, llmVars>>

-----------------------------------------------------------------------------
Init == /\ ifb \in Schedulers
        /\ slot = 1
        /\ waiters = <<>>
        /\ active = 0
        /\ waiting = 0
        /\ closing = FALSE
        /\ drained = FALSE
        /\ pc = [t \in Tasks |-> "idle"]
        /\ route \in RouteMixes
        /\ ifb => \A c \in Clients : route[c] # "speech"    \* the engine serves text only
        /\ lease = [c \in Clients |-> "none"]
        /\ cancels = [c \in Clients |-> 0]
        /\ work = [c \in Clients |-> "none"]
        /\ published = {}
        /\ asked = {}
        /\ stopped = {}
        /\ toClose = {}
        /\ llmClosed = FALSE
        /\ runtimeOpen = TRUE

-----------------------------------------------------------------------------
(* asyncio.Semaphore(1), external: first come first served.                *)

(* acquire(): taken at once, or parked behind the others. *)
Acquire(t) ==
  IF slot = 1 /\ waiters = <<>>
  THEN /\ slot' = 0
       /\ pc' = [pc EXCEPT ![t] = "granted"]
       /\ UNCHANGED waiters
  ELSE /\ waiters' = Append(waiters, t)
       /\ pc' = [pc EXCEPT ![t] = "queued"]
       /\ UNCHANGED slot

(* release() by t, which goes on to `next`: the slot is handed to the first waiter. *)
HandOver(t, next) ==
  IF waiters = <<>>
  THEN /\ slot' = 1
       /\ pc' = [pc EXCEPT ![t] = next]
       /\ UNCHANGED waiters
  ELSE /\ waiters' = Tail(waiters)
       /\ pc' = [pc EXCEPT ![t] = next, ![Head(waiters)] = "granted"]
       /\ UNCHANGED slot

GateLimit == MaxQueued + BatchSize

-----------------------------------------------------------------------------
(* What the lease's owner does: `next` is where its task goes.             *)

Release_Twice(c, next) ==
  /\ lease' = [lease EXCEPT ![c] = "released"]
  /\ IF ifb THEN /\ active' = active - 1
                 /\ pc' = [pc EXCEPT ![c] = next]
                 /\ UNCHANGED <<slot, waiters>>
            ELSE /\ active' = 0
                 /\ HandOver(c, next)
  /\ UNCHANGED waiting

(* _AdmissionLease.release(): once. *)
Release(c, next) ==
  IF lease[c] = "held"
  THEN /\ lease' = [lease EXCEPT ![c] = "released"]
       /\ IF ifb THEN /\ active' = active - 1
                      /\ pc' = [pc EXCEPT ![c] = next]
                      /\ UNCHANGED <<slot, waiters>>
                 ELSE /\ active' = 0
                      /\ HandOver(c, next)
       /\ UNCHANGED waiting
  ELSE /\ pc' = [pc EXCEPT ![c] = next]
       /\ UNCHANGED <<slot, waiters, active, waiting, lease>>

(* Leased: the request is built off the loop before anything is answered; speech      *)
(* reserves inside its response's generator and has nothing to build.                 *)
BeginPc(c) == IF route[c] = "speech" THEN "next" ELSE "preparing"
BeginWork(c) == IF route[c] = "speech" THEN "starting" ELSE "prepare"

-----------------------------------------------------------------------------
(* reserve()                                                               *)

Refuse(c) == /\ pc[c] = "idle"
             /\ \/ closing
                \/ ~ifb /\ active + waiting >= MaxQueued + 1
                \/ ifb /\ active >= GateLimit
             /\ pc' = [pc EXCEPT ![c] = "done"]
             /\ UNCHANGED <<ifb, slot, waiters, active, waiting, lease, closing, drained, route,
                            cancels, threadVars, llmVars>>

Park(c) == /\ pc[c] = "idle"
           /\ ~ifb
           /\ ~closing
           /\ active + waiting < MaxQueued + 1
           /\ waiting' = waiting + 1
           /\ Acquire(c)
           /\ UNCHANGED <<ifb, active, lease, closing, drained, route, cancels, threadVars,
                          llmVars>>

(* The gate of an engine that schedules its own requests never parks a caller. *)
Admit(c) == /\ pc[c] = "idle"
            /\ ifb
            /\ ~closing
            /\ active < GateLimit
            /\ active' = active + 1
            /\ lease' = [lease EXCEPT ![c] = "held"]
            /\ pc' = [pc EXCEPT ![c] = BeginPc(c)]
            /\ work' = [work EXCEPT ![c] = BeginWork(c)]
            /\ UNCHANGED <<ifb, slot, waiters, waiting, closing, drained, route, cancels,
                           published, asked, stopped, toClose, llmVars>>

(* The waiter wakes with the slot, and gives it back when close() came meanwhile. *)
Resume(c) ==
  /\ pc[c] = "granted"
  /\ waiting' = waiting - 1
  /\ IF closing
     THEN /\ HandOver(c, "done")
          /\ UNCHANGED <<active, lease, work>>
     ELSE /\ active' = 1
          /\ lease' = [lease EXCEPT ![c] = "held"]
          /\ pc' = [pc EXCEPT ![c] = BeginPc(c)]
          /\ work' = [work EXCEPT ![c] = BeginWork(c)]
          /\ UNCHANGED <<slot, waiters>>
  /\ UNCHANGED <<ifb, closing, drained, route, cancels, published, asked, stopped, toClose,
                 llmVars>>

Leave_WithTheSlot(c) ==
  /\ waiting' = waiting - 1
  /\ waiters' = Remove(waiters, c)
  /\ pc' = [pc EXCEPT ![c] = "done"]
  /\ UNCHANGED slot
  /\ UNCHANGED <<ifb, active, lease, closing, drained, route, threadVars, llmVars>>

(* queue_timeout, or a cancellation: a slot handed over meanwhile is passed on. *)
Leave(c) ==
  /\ waiting' = waiting - 1
  /\ IF pc[c] = "granted"
     THEN HandOver(c, "done")
     ELSE /\ \E i \in DOMAIN waiters : waiters[i] = c /\ waiters' = RemoveAt(waiters, i)
          /\ pc' = [pc EXCEPT ![c] = "done"]
          /\ UNCHANGED slot
  /\ UNCHANGED <<ifb, active, lease, closing, drained, route, threadVars, llmVars>>

Timeout(c) == /\ pc[c] \in {"queued", "granted"}
              /\ Leave(c)
              /\ UNCHANGED cancels

-----------------------------------------------------------------------------
(* The native threads.                                                     *)

(* _make_generation_request() returns, or raises. *)
Prepared(c) ==
  /\ work[c] = "prepare"
  /\ \/ /\ pc[c] = "preparing" /\ route[c] = "generate"
        /\ pc' = [pc EXCEPT ![c] = "running"]
        /\ work' = [work EXCEPT ![c] = "starting"]
        /\ UNCHANGED <<slot, waiters, active, waiting, lease>>
     \/ /\ pc[c] = "preparing" /\ route[c] = "stream"
        /\ pc' = [pc EXCEPT ![c] = "sending"]
        /\ work' = [work EXCEPT ![c] = "none"]
        /\ UNCHANGED <<slot, waiters, active, waiting, lease>>
     \/ /\ pc[c] \in {"preparing", "joining"}
        /\ work' = [work EXCEPT ![c] = "none"]
        /\ Release(c, "done")
     \/ /\ pc[c] = "abandoned"
        /\ work' = [work EXCEPT ![c] = "none"]
        /\ UNCHANGED gateVars
  /\ UNCHANGED <<ifb, closing, drained, route, cancels, published, asked, stopped, toClose,
                 llmVars>>

Inside == {c \in Clients : work[c] \in {"submitted", "inside"}}

(* _infer_guard() then _ensure_open(), on the one generation slot; engine.submit()     *)
(* under in-flight batching, which may refuse.                                         *)
Start(c) ==
  /\ work[c] = "starting"
  /\ \/ llmClosed /\ work' = [work EXCEPT ![c] = "over"]
     \/ ~llmClosed /\ ~ifb /\ Inside = {} /\ work' = [work EXCEPT ![c] = "inside"]
     \/ ~llmClosed /\ ifb /\ work' = [work EXCEPT ![c] = "submitted"]
     \/ ~llmClosed /\ ifb /\ work' = [work EXCEPT ![c] = "over"]
  /\ UNCHANGED <<ifb, gateVars, closing, drained, route, cancels, published, asked, stopped,
                 toClose, llmVars>>

Publish_Blindly(c) ==
  /\ work[c] = "submitted"
  /\ published' = published \cup {c}
  /\ work' = [work EXCEPT ![c] = "inside"]
  /\ UNCHANGED stopped
  /\ UNCHANGED <<ifb, gateVars, closing, drained, route, cancels, asked, toClose, llmVars>>

(* _HandleLatch.publish(): a cancellation that came first is passed on. *)
Publish(c) ==
  /\ work[c] = "submitted"
  /\ published' = published \cup {c}
  /\ stopped' = IF c \in asked THEN stopped \cup {c} ELSE stopped
  /\ work' = [work EXCEPT ![c] = "inside"]
  /\ UNCHANGED <<ifb, gateVars, closing, drained, route, cancels, asked, toClose, llmVars>>

(* The generation ends: by itself, by a failure, or because it was told to stop. *)
WorkOver(c) == /\ work[c] = "inside"
               /\ work' = [work EXCEPT ![c] = "over"]
               /\ UNCHANGED <<ifb, gateVars, closing, drained, route, cancels, published, asked,
                              stopped, toClose, llmVars>>

(* The task that waits for the thread takes its result: a call answers, a stream's     *)
(* generator goes on to its finally block.                                             *)
Collect(c) ==
  /\ work[c] = "over"
  /\ c \notin toClose
  /\ work' = [work EXCEPT ![c] = "none"]
  /\ \/ /\ pc[c] \in {"running", "joining"} /\ route[c] = "generate"
        /\ Release(c, "done")
     \/ /\ pc[c] \in {"next", "joining"} /\ route[c] # "generate"
        /\ pc' = [pc EXCEPT ![c] = "finally"]
        /\ UNCHANGED <<slot, waiters, active, waiting, lease>>
     \/ pc[c] \in {"abandoned", "finalizing"} /\ UNCHANGED gateVars
  /\ UNCHANGED <<ifb, closing, drained, route, cancels, published, asked, stopped, toClose,
                 llmVars>>

-----------------------------------------------------------------------------
(* A streamed response: an item is sent before the next one is asked for.  *)

Item(c) == /\ pc[c] = "next"
           /\ work[c] = "inside"
           /\ pc' = [pc EXCEPT ![c] = "sending"]
           /\ UNCHANGED <<ifb, slot, waiters, active, waiting, lease, closing, drained, route,
                          cancels, threadVars, llmVars>>

(* The first next() starts the native request. *)
Sent(c) == /\ pc[c] = "sending"
           /\ pc' = [pc EXCEPT ![c] = "next"]
           /\ work' = [work EXCEPT ![c] = IF @ = "none" THEN "starting" ELSE @]
           /\ UNCHANGED <<ifb, slot, waiters, active, waiting, lease, closing, drained, route,
                          cancels, published, asked, stopped, toClose, llmVars>>

(* What cancel() and close() reach: the handle once there is one, the channel at once. *)
Stop(c) == /\ asked' = asked \cup {c}
           /\ stopped' = IF ~ifb /\ route[c] = "generate" THEN stopped
                         ELSE IF ifb /\ c \notin published THEN stopped ELSE stopped \cup {c}

(* _close_stream(), on a thread of its own. *)
CloseStream(c) == /\ c \in toClose
                  /\ toClose' = toClose \ {c}
                  /\ Stop(c)
                  /\ UNCHANGED <<ifb, gateVars, closing, drained, route, cancels, work, published,
                                 llmVars>>
(* The finally block of stream() and stream_speech(): _close_stream() on a thread, then *)
(* the release.  It joins the native thread, unless a next() is still inside.  An       *)
(* uninterrupted response still has its last lines to send.                             *)
Unwound(c) ==
  /\ \/ /\ pc[c] \in {"finally", "finalizing"}
        /\ work[c] = "none"
        /\ c \notin toClose
        /\ Release(c, IF route[c] = "stream" /\ cancels[c] = 0 THEN "ending" ELSE "done")
        /\ UNCHANGED <<asked, stopped, toClose>>
     \/ /\ pc[c] = "finallyEarly"
        /\ Stop(c)
        /\ toClose' = toClose \ {c}
        /\ Release(c, "abandoned")
  /\ UNCHANGED <<ifb, closing, drained, route, cancels, work, published, llmVars>>

(* The response of a stream releases too, however it ended (_ReleasingStreamingResponse). *)
EndResponse(c) == /\ pc[c] = "ending"
                  /\ Release(c, "done")
                  /\ UNCHANGED <<ifb, closing, drained, route, cancels, threadVars, llmVars>>

-----------------------------------------------------------------------------
(* Cancellation of a client's task, by the await it interrupts.            *)

CancelQueued(c) == pc[c] \in {"queued", "granted"} /\ Leave(c)

cancelRest == <<ifb, closing, drained, route, work, published, llmVars>>

CancelPreparing_Unshielded(c) ==
  /\ pc[c] = "preparing"
  /\ Release(c, "abandoned")
  /\ UNCHANGED <<asked, stopped, toClose, cancelRest>>

(* _run_sync() is shielded: it waits for its thread before it lets go. *)
CancelPreparing(c) == /\ pc[c] = "preparing"
                      /\ pc' = [pc EXCEPT ![c] = "joining"]
                      /\ UNCHANGED <<slot, waiters, active, waiting, lease, asked, stopped,
                                     toClose, cancelRest>>

(* on_cancel first. *)
CancelRunning(c) == /\ pc[c] = "running"
                    /\ Stop(c)
                    /\ pc' = [pc EXCEPT ![c] = "joining"]
                    /\ UNCHANGED <<slot, waiters, active, waiting, lease, toClose, cancelRest>>

(* _iterate_sync(): a task closes the iterator, and both are waited for. *)
CancelNext(c) == /\ pc[c] = "next"
                 /\ toClose' = toClose \cup {c}
                 /\ pc' = [pc EXCEPT ![c] = "joining"]
                 /\ UNCHANGED <<slot, waiters, active, waiting, lease, asked, stopped, cancelRest>>

(* The response stops between two items.  Its generators are left suspended for the    *)
(* finalizer to close; _ReleasingStreamingResponse releases at once, speech has none.  *)
CancelSending(c) == /\ pc[c] = "sending"
                    /\ toClose' = IF work[c] = "none" THEN toClose ELSE toClose \cup {c}
                    /\ IF route[c] = "stream"
                       THEN Release(c, "abandoned")
                       ELSE /\ pc' = [pc EXCEPT ![c] = "finalizing"]
                            /\ UNCHANGED <<slot, waiters, active, waiting, lease>>
                    /\ UNCHANGED <<asked, stopped, cancelRest>>

(* A second cancellation ends the wait for the thread. *)
CancelJoining(c) == /\ pc[c] = "joining"
                    /\ IF work[c] = "prepare" \/ route[c] = "generate"
                       THEN Release(c, "abandoned")
                       ELSE /\ pc' = [pc EXCEPT ![c] = "finallyEarly"]
                            /\ UNCHANGED <<slot, waiters, active, waiting, lease>>
                    /\ UNCHANGED <<asked, stopped, toClose, cancelRest>>

(* Interrupted, the finally block never reaches its release(): that of the response    *)
(* makes up for it, where there is one.                                                *)
CancelFinally(c) == /\ pc[c] \in {"finally", "finallyEarly"}
                    /\ IF route[c] = "stream"
                       THEN Release(c, "abandoned")
                       ELSE /\ pc' = [pc EXCEPT ![c] = "abandoned"]
                            /\ UNCHANGED <<slot, waiters, active, waiting, lease>>
                    /\ UNCHANGED <<asked, stopped, toClose, cancelRest>>

Cancel(c) == /\ cancels[c] < MaxCancels
             /\ cancels' = [cancels EXCEPT ![c] = @ + 1]
             /\ \/ CancelQueued(c) \/ CancelPreparing(c) \/ CancelRunning(c) \/ CancelNext(c)
                \/ CancelSending(c) \/ CancelJoining(c) \/ CancelFinally(c)

-----------------------------------------------------------------------------
(* EngineClient.close(): one shielded task, whoever calls it and is cancelled.         *)

Close == /\ pc[Closer] = "idle"
         /\ closing' = TRUE
         /\ IF ifb THEN /\ pc' = [pc EXCEPT ![Closer] = "queued"]
                        /\ UNCHANGED <<slot, waiters>>
                   ELSE Acquire(Closer)
         /\ UNCHANGED <<ifb, active, waiting, lease, drained, route, cancels, threadVars, llmVars>>

(* The gate's event is set while nobody holds a lease. *)
Drained == /\ \/ pc[Closer] = "granted"
              \/ ifb /\ pc[Closer] = "queued" /\ active = 0
           /\ drained' = TRUE
           /\ pc' = [pc EXCEPT ![Closer] = "llm"]
           /\ UNCHANGED <<ifb, slot, waiters, active, waiting, lease, closing, route, cancels,
                          threadVars, llmVars>>

LlmClose == /\ pc[Closer] = "llm"
            /\ ~llmClosed
            /\ llmClosed' = TRUE
            /\ UNCHANGED <<ifb, gateVars, closing, drained, route, cancels, threadVars,
                           runtimeOpen>>

LlmRelease_Unguarded ==
  /\ pc[Closer] = "llm"
  /\ llmClosed
  /\ runtimeOpen' = FALSE
  /\ pc' = [pc EXCEPT ![Closer] = "done"]
  /\ UNCHANGED <<ifb, slot, waiters, active, waiting, lease, closing, drained, route, cancels,
                 threadVars, llmClosed>>

(* engine.shutdown(DRAIN), or _infer_lock: nobody is left inside. *)
LlmRelease == /\ pc[Closer] = "llm"
              /\ llmClosed
              /\ Inside = {}
              /\ runtimeOpen' = FALSE
              /\ pc' = [pc EXCEPT ![Closer] = "done"]
              /\ UNCHANGED <<ifb, slot, waiters, active, waiting, lease, closing, drained, route,
                             cancels, threadVars, llmClosed>>

-----------------------------------------------------------------------------
Thread(c) == Prepared(c) \/ Start(c) \/ Publish(c) \/ WorkOver(c) \/ Collect(c)
Task(c) == Resume(c) \/ Sent(c) \/ CloseStream(c) \/ Unwound(c) \/ EndResponse(c)
Shutdown == Drained \/ LlmClose \/ LlmRelease

Next == \/ \E c \in Clients : \/ Refuse(c) \/ Park(c) \/ Admit(c) \/ Timeout(c)
                              \/ Thread(c) \/ Task(c) \/ Item(c) \/ Cancel(c)
        \/ Close \/ Shutdown

(* Threads and tasks are scheduled, a generation ends, and a client that does not read *)
(* its response is taken off by the transport.                                         *)
Fairness == /\ \A c \in Clients : /\ WF_vars(Prepared(c))
                                 /\ WF_vars(Start(c))
                                 /\ WF_vars(Publish(c))
                                 /\ WF_vars(WorkOver(c))
                                 /\ WF_vars(Collect(c))
                                 /\ WF_vars(Task(c))
            /\ WF_vars(Shutdown)

Spec == Init /\ [][Next]_vars
FairSpec == Spec /\ Fairness

-----------------------------------------------------------------------------
TypeOK ==
  /\ ifb \in BOOLEAN
  /\ slot \in {0, 1}
  /\ waiters \in Seq(Tasks)
  /\ active \in Nat
  /\ waiting \in Nat
  /\ closing \in BOOLEAN
  /\ drained \in BOOLEAN
  /\ pc \in [Tasks -> {"idle", "queued", "granted", "preparing", "running", "sending", "next",
                       "joining", "finally", "finallyEarly", "finalizing", "ending", "abandoned",
                       "llm", "done"}]
  /\ route \in [Clients -> Routes]
  /\ lease \in [Clients -> {"none", "held", "released"}]
  /\ cancels \in [Clients -> 0..MaxCancels]
  /\ work \in [Clients -> {"none", "prepare", "starting", "submitted", "inside", "over"}]
  /\ published \subseteq Clients
  /\ asked \subseteq Clients
  /\ stopped \subseteq Clients
  /\ toClose \subseteq Clients
  /\ llmClosed \in BOOLEAN
  /\ runtimeOpen \in BOOLEAN

Held == {c \in Clients : lease[c] = "held"}
Parked == {c \in Clients : pc[c] \in {"queued", "granted"}}

(* Who owns the semaphore's one permit, on the way to a lease included. *)
Owners == {t \in Tasks : pc[t] = "granted"} \cup Held \cup {t \in {Closer} : drained}

(* However reservations, timeouts, cancellations and the shutdown interleave, the one  *)
(* permit has one owner or is free, and is never handed back twice (reserve, release).  *)
SlotHasOneOwner == ~ifb => \/ slot = 1 /\ Owners = {}
                           \/ slot = 0 /\ \E t \in Tasks : Owners = {t}

(* The counters /health and the overload test read are the leases and the parked tasks, *)
(* within their bounds, and whoever is parked is in line exactly once                   *)
(* (_AdmissionController, _IFBAdmissionGate).                                            *)
GateIsExact ==
  /\ active = Cardinality(Held)
  /\ waiting = Cardinality(Parked)
  /\ active + waiting <= IF ifb THEN GateLimit ELSE MaxQueued + 1
  /\ ~ifb => /\ ToSet(waiters) = {t \in Tasks : pc[t] = "queued"}
             /\ IsInjective(waiters)

(* A native thread works for a request that holds its lease (_run_sync,                 *)
(* _iterate_sync): but for a response that stops between two items, or a task that is   *)
(* cancelled again while it joins its thread.                                           *)
LeaseCoversWork ==
  \A c \in Clients :
    work[c] \notin {"none", "over"} /\ lease[c] # "held"
      => \/ cancels[c] >= 2
         \/ cancels[c] = 1 /\ route[c] = "stream" /\ pc[c] = "abandoned"

(* The runtime is destroyed when no native call is left inside, those that lost their   *)
(* lease included, when no lease is left, and nobody enters afterwards (LLM.close).      *)
RuntimeOutlivesWork == ~runtimeOpen => Inside = {} /\ Held = {}

(* Whichever comes first, the handle or the disconnect, the request of a client that    *)
(* left is told to stop (_HandleLatch, _close_stream); the one generation slot cannot   *)
(* stop a request that is not streamed.                                                  *)
DisconnectStopsWork ==
  \A c \in Clients :
    /\ pc[c] \in {"joining", "finallyEarly", "finalizing", "abandoned"}
    /\ work[c] = "inside"
    /\ ifb \/ route[c] # "generate"
    => c \in stopped \cup toClose

Leaked(c) == pc[c] \in {"done", "abandoned"} /\ lease[c] = "held"

(* Whoever finished has let its lease go (openai-server.md, request lifecycle, 6).      *)
SlotIsReleased == \A c \in Clients : ~Leaked(c)

(* Shutdown drains and returns, unless a lease was lost (EngineClient.close).           *)
CloseReturns == pc[Closer] # "idle" ~> pc[Closer] = "done" \/ \E c \in Clients : Leaked(c)
=============================================================================
