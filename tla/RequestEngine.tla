---------------------------- MODULE RequestEngine ----------------------------
(***************************************************************************)
(* cpp/scheduler/requestEngine: caller threads submit and cancel, one      *)
(* actor thread drains the command queue, founds a batch, admits the queue *)
(* head into it between steps and publishes every outcome, and shutdown    *)
(* stops it.  An action is one step of one thread between two points where *)
(* another thread can see or change what it uses; what the caller's get()  *)
(* makes of an outcome is in module RequestRecord, the ring itself in      *)
(* module CommandQueue.  admissionMutex is held exactly by a request in    *)
(* "posting", mWakeMutex exactly by the actor in "sleeping": the other     *)
(* critical sections are single steps.                                     *)
(***************************************************************************)
EXTENDS Naturals, SequencesExt, FiniteSets

CONSTANTS Requests,
          Kind,                  \* [Requests -> batch compatibility class]
          Guided,                \* the requests with a grammar or a token callback
          Cancellable,           \* the requests whose caller may cancel
          Modes,                 \* the modes shutdown() may be called with
          QueueCapacity,         \* ring slots
          MaxPendingRequests, MaxBatchSize,   \* EngineConfig
          MaxGenerateLength,     \* tokens after which a sequence must stop
          MayFail,               \* whether steps, admissions and foundings may fail
          NoRequest, kShutdown   \* null record; the only other command

ASSUME RequestsAssumption == /\ IsFiniteSet(Requests)
                             /\ NoRequest \notin Requests
                             /\ kShutdown \notin Requests
ASSUME ConfigAssumption == /\ QueueCapacity \in Nat \ {0}
                           /\ MaxPendingRequests \in Nat \ {0}
                           /\ MaxBatchSize \in Nat \ {0}
                           /\ MaxGenerateLength \in Nat \ {0}
                           /\ MayFail \in BOOLEAN
                           /\ Guided \subseteq Requests
                           /\ Cancellable \subseteq Requests
                           /\ Modes \subseteq {"kDrain", "kCancel"}

Statuses == {"kCompleted", "kCancelled", "kExecutionError"}
Reasons == {"kEndId", "kCancelled", "kError"}   \* kEndId stands for kLength and a stop too
NotYet == "none"    \* no outcome, and kNotFinished for a stream

VARIABLES
  subPc,           \* [Requests -> where submit() is]
  canPc,           \* [Requests -> where the caller's cancel is]
  shutPc,          \* where shutdown() is
  mPendingCount, mLiveRecords, mAccepting, commands,
  mShutdownMode, mStopRequested,
  cancelled,       \* the requests whose channel carries the cancel flag
  finished,        \* [Requests -> the reason their channel was finished with]
  outcome,         \* [Requests -> the published TerminalStatus]
  mCounters,       \* [Statuses -> Nat]
  actorPc, ret,    \* where the actor is, and where the current drain or sweep returns
  budget, cursor, stopping,       \* locals of the drain, the sweep and actorLoop
  mQueued, mResidentRecord, mResidents,
  rows,            \* the requests that hold an execution row of the runtime
  awaitingPrefill, \* the resident whose prefill is the next tick
  generated,       \* [Requests -> tokens generated]
  results,         \* the outcomes of the last step still to publish: [req, reason]
  accepted, served \* history: the order of acceptance and of service

callerVars == <<subPc, canPc, shutPc>>
gateVars == <<mPendingCount, mLiveRecords, mAccepting, commands>>
stopVars == <<mShutdownMode, mStopRequested>>
streamVars == <<cancelled, finished>>
outcomeVars == <<outcome, mCounters>>
localVars == <<ret, budget, cursor, stopping>>
batchVars == <<mResidentRecord, mResidents, rows, awaitingPrefill, generated, results>>
historyVars == <<accepted, served>>
vars == <<callerVars, gateVars, stopVars, streamVars, outcomeVars, actorPc, localVars,
          mQueued, batchVars, historyVars>>

-----------------------------------------------------------------------------
Init ==
  /\ subPc = [r \in Requests |-> "new"]
  /\ canPc = [r \in Requests |-> "idle"]
  /\ shutPc = "running"
  /\ mPendingCount = 0
  /\ mLiveRecords = {}
  /\ mAccepting = TRUE
  /\ commands = <<>>
  /\ mShutdownMode = "kDrain"
  /\ mStopRequested = FALSE
  /\ cancelled = {}
  /\ finished = [r \in Requests |-> NotYet]
  /\ outcome = [r \in Requests |-> NotYet]
  /\ mCounters = [s \in Statuses |-> 0]
  /\ actorPc = "drain"
  /\ ret = "loop"
  /\ budget = QueueCapacity
  /\ cursor = 1
  /\ stopping = FALSE
  /\ mQueued = <<>>
  /\ mResidentRecord = NoRequest
  /\ mResidents = {}
  /\ rows = {}
  /\ awaitingPrefill = NoRequest
  /\ generated = [r \in Requests |-> 0]
  /\ results = {}
  /\ accepted = <<>>
  /\ served = <<>>

-----------------------------------------------------------------------------
(* Shared steps.                                                           *)

AdmissionMutexFree == \A r \in Requests : subPc[r] # "posting"

WakeActor_NoCriticalSection == actorPc' = IF actorPc = "parked" THEN "park" ELSE actorPc

(* wakeActor(): the notify cannot fall between the actor's predicate check and its wait. *)
WakeActor == /\ actorPc # "sleeping"
             /\ actorPc' = IF actorPc = "parked" THEN "park" ELSE actorPc

(* terminate(): the single exit of every accepted request. *)
Terminate(r, status) ==
  /\ mPendingCount' = mPendingCount - 1
  /\ mCounters' = [mCounters EXCEPT ![status] = @ + 1]
  /\ mLiveRecords' = mLiveRecords \ {r}
  /\ outcome' = [outcome EXCEPT ![r] = status]
  /\ cancelled' = IF status = "kCompleted" THEN cancelled ELSE cancelled \cup {r}

NoneTerminated == UNCHANGED <<mPendingCount, mCounters, mLiveRecords, outcome, cancelled>>

(* Enter drainCommandQueue(), to go on at "where" when it is done. *)
Drain(where) == /\ actorPc' = "drain"
                /\ ret' = where
                /\ budget' = QueueCapacity
                /\ UNCHANGED <<cursor, stopping>>

(* Enter retireCancelledQueued(). *)
Sweep(where) == /\ actorPc' = "sweep"
                /\ ret' = where
                /\ cursor' = 1
                /\ UNCHANGED <<budget, stopping>>

GoTo(where) == actorPc' = where /\ UNCHANGED localVars

(* The head of the stepped loop: while (!residents().empty()) drain. *)
NextTick == IF rows' # {} THEN Drain("tick") ELSE GoTo("failing")

CancelShutdown == mStopRequested /\ mShutdownMode = "kCancel"

-----------------------------------------------------------------------------
(* submit()                                                                *)

actorState == <<actorPc, localVars, mQueued, batchVars>>

SubmitReserve(r) ==
  /\ subPc[r] = "new"
  /\ mPendingCount < MaxPendingRequests
  /\ mPendingCount' = mPendingCount + 1
  /\ subPc' = [subPc EXCEPT ![r] = "reserved"]
  /\ UNCHANGED <<canPc, shutPc, mLiveRecords, mAccepting, commands, stopVars, streamVars,
                 outcomeVars, actorState, historyVars>>

SubmitBacklogFull(r) ==
  /\ subPc[r] = "new"
  /\ mPendingCount >= MaxPendingRequests
  /\ subPc' = [subPc EXCEPT ![r] = "refused"]
  /\ UNCHANGED <<canPc, shutPc, gateVars, stopVars, streamVars, outcomeVars, actorState,
                 historyVars>>

SubmitRegister(r) ==
  /\ subPc[r] = "reserved"
  /\ mLiveRecords' = mLiveRecords \cup {r}
  /\ subPc' = [subPc EXCEPT ![r] = "registered"]
  /\ UNCHANGED <<canPc, shutPc, mPendingCount, mAccepting, commands, stopVars, streamVars,
                 outcomeVars, actorState, historyVars>>

(* postSubmit(): lock the gate and look. *)
PostCheck(r) ==
  /\ subPc[r] = "registered"
  /\ AdmissionMutexFree
  /\ subPc' = [subPc EXCEPT ![r] = IF mAccepting THEN "posting" ELSE "refusing"]
  /\ UNCHANGED <<canPc, shutPc, gateVars, stopVars, streamVars, outcomeVars, actorState,
                 historyVars>>

(* postSubmit(): push under the same lock, or find the ring full. *)
PostPush(r) ==
  /\ subPc[r] = "posting"
  /\ IF Len(commands) < QueueCapacity
     THEN /\ commands' = Append(commands, r)
          /\ accepted' = Append(accepted, r)
          /\ subPc' = [subPc EXCEPT ![r] = "posted"]
     ELSE /\ subPc' = [subPc EXCEPT ![r] = "refusing"]
          /\ UNCHANGED <<commands, accepted>>
  /\ UNCHANGED <<canPc, shutPc, mPendingCount, mLiveRecords, mAccepting, stopVars,
                 streamVars, outcomeVars, actorState, served>>

(* The failed post: forgetRecord, and the reservation guard lets go. *)
SubmitRefuse(r) ==
  /\ subPc[r] = "refusing"
  /\ mLiveRecords' = mLiveRecords \ {r}
  /\ mPendingCount' = mPendingCount - 1
  /\ subPc' = [subPc EXCEPT ![r] = "refused"]
  /\ UNCHANGED <<canPc, shutPc, mAccepting, commands, stopVars, streamVars, outcomeVars,
                 actorState, historyVars>>

SubmitReturn_NoWake(r) ==
  /\ subPc[r] = "posted"
  /\ subPc' = [subPc EXCEPT ![r] = "returned"]
  /\ UNCHANGED <<canPc, shutPc, gateVars, stopVars, streamVars, outcomeVars, actorPc, localVars,
                 mQueued, batchVars, historyVars>>

SubmitReturn(r) ==
  /\ subPc[r] = "posted"
  /\ WakeActor
  /\ subPc' = [subPc EXCEPT ![r] = "returned"]
  /\ UNCHANGED <<canPc, shutPc, gateVars, stopVars, streamVars, outcomeVars, localVars,
                 mQueued, batchVars, historyVars>>

Submit(r) == \/ SubmitReserve(r) \/ SubmitBacklogFull(r) \/ SubmitRegister(r)
             \/ PostCheck(r) \/ PostPush(r) \/ SubmitRefuse(r) \/ SubmitReturn(r)

-----------------------------------------------------------------------------
(* cancel                                                                  *)

(* RequestHandle::cancel() plants the flag and does not wake the actor. *)
HandleCancel(r) ==
  /\ r \in Cancellable
  /\ subPc[r] = "returned"
  /\ canPc[r] = "idle"
  /\ canPc' = [canPc EXCEPT ![r] = "done"]
  /\ cancelled' = cancelled \cup {r}
  /\ UNCHANGED <<subPc, shutPc, gateVars, stopVars, finished, outcomeVars, actorState,
                 historyVars>>

(* RequestEngine::cancel(id) finds the live record, or ignores the id. *)
CancelById(r) ==
  /\ r \in Cancellable
  /\ subPc[r] = "returned"
  /\ canPc[r] = "idle"
  /\ r \in mLiveRecords
  /\ canPc' = [canPc EXCEPT ![r] = "wake"]
  /\ cancelled' = cancelled \cup {r}
  /\ UNCHANGED <<subPc, shutPc, gateVars, stopVars, finished, outcomeVars, actorState,
                 historyVars>>

CancelWake(r) ==
  /\ canPc[r] = "wake"
  /\ WakeActor
  /\ canPc' = [canPc EXCEPT ![r] = "done"]
  /\ UNCHANGED <<subPc, shutPc, gateVars, stopVars, streamVars, outcomeVars, localVars,
                 mQueued, batchVars, historyVars>>

-----------------------------------------------------------------------------
(* shutdown()                                                              *)

ShutdownClose_Unlocked(mode) ==
  /\ shutPc = "running"
  /\ mAccepting' = FALSE
  /\ mShutdownMode' = mode
  /\ shutPc' = "closed"
  /\ UNCHANGED <<subPc, canPc, mPendingCount, mLiveRecords, commands, mStopRequested,
                 streamVars, outcomeVars, actorState, historyVars>>

ShutdownClose(mode) ==
  /\ shutPc = "running"
  /\ AdmissionMutexFree
  /\ mAccepting' = FALSE
  /\ mShutdownMode' = mode
  /\ shutPc' = "closed"
  /\ UNCHANGED <<subPc, canPc, mPendingCount, mLiveRecords, commands, mStopRequested,
                 streamVars, outcomeVars, actorState, historyVars>>

ShutdownStop ==
  /\ shutPc = "closed"
  /\ mStopRequested' = TRUE
  /\ shutPc' = "stopped"
  /\ UNCHANGED <<subPc, canPc, gateVars, mShutdownMode, streamVars, outcomeVars, actorState,
                 historyVars>>

(* The command only hurries the actor: a full ring drops it. *)
ShutdownPost ==
  /\ shutPc = "stopped"
  /\ AdmissionMutexFree
  /\ commands' = IF Len(commands) < QueueCapacity THEN Append(commands, kShutdown)
                                                  ELSE commands
  /\ shutPc' = "notifying"
  /\ UNCHANGED <<subPc, canPc, mPendingCount, mLiveRecords, mAccepting, stopVars, streamVars,
                 outcomeVars, actorState, historyVars>>

ShutdownWake ==
  /\ shutPc = "notifying"
  /\ WakeActor
  /\ shutPc' = "joining"
  /\ UNCHANGED <<subPc, canPc, gateVars, stopVars, streamVars, outcomeVars, localVars,
                 mQueued, batchVars, historyVars>>

ShutdownJoin ==
  /\ shutPc = "joining"
  /\ actorPc = "exited"
  /\ shutPc' = "done"
  /\ UNCHANGED <<subPc, canPc, gateVars, stopVars, streamVars, outcomeVars, actorState,
                 historyVars>>

Shutdown == ShutdownStop \/ ShutdownPost \/ ShutdownWake \/ ShutdownJoin
-----------------------------------------------------------------------------
(* drainCommandQueue() and retireCancelledQueued()                         *)

DrainPop ==
  /\ actorPc = "drain"
  /\ budget > 0
  /\ commands # <<>>
  /\ commands' = Tail(commands)
  /\ IF Head(commands) = kShutdown
     THEN mStopRequested' = TRUE /\ UNCHANGED mQueued
     ELSE mQueued' = Append(mQueued, Head(commands)) /\ UNCHANGED mStopRequested
  /\ budget' = budget - 1
  /\ NoneTerminated
  /\ UNCHANGED <<callerVars, mAccepting, mShutdownMode, finished, actorPc, ret, cursor,
                 stopping, batchVars, historyVars>>

DrainDone ==
  /\ actorPc = "drain"
  /\ budget = 0 \/ commands = <<>>
  /\ Sweep(ret)
  /\ UNCHANGED <<callerVars, gateVars, stopVars, streamVars, outcomeVars, mQueued, batchVars,
                 historyVars>>

CancelledFrom(i) == {j \in i..Len(mQueued) : mQueued[j] \in cancelled}

SweepRetire_ErasesCursor ==
  /\ actorPc = "sweep"
  /\ \E j \in CancelledFrom(cursor) :
       /\ \A k \in CancelledFrom(cursor) : j <= k
       /\ Terminate(mQueued[j], "kCancelled")
       /\ mQueued' = RemoveAt(mQueued, cursor)
       /\ cursor' = j
  /\ UNCHANGED <<callerVars, mAccepting, commands, stopVars, finished, actorPc, ret, budget,
                 stopping, batchVars, historyVars>>

SweepRetire ==
  /\ actorPc = "sweep"
  /\ \E j \in CancelledFrom(cursor) :
       /\ \A k \in CancelledFrom(cursor) : j <= k
       /\ Terminate(mQueued[j], "kCancelled")
       /\ mQueued' = RemoveAt(mQueued, j)
       /\ cursor' = j
  /\ UNCHANGED <<callerVars, mAccepting, commands, stopVars, finished, actorPc, ret, budget,
                 stopping, batchVars, historyVars>>

(* A drain, unlike a bare sweep, ends by planting a cancelling shutdown on the batch. *)
SweepDone ==
  /\ actorPc = "sweep"
  /\ CancelledFrom(cursor) = {}
  /\ GoTo(ret)
  /\ cancelled' = IF ret \in {"loop", "tick", "last"} /\ CancelShutdown
                  THEN cancelled \cup ((mResidents \cup {mResidentRecord}) \ {NoRequest})
                  ELSE cancelled
  /\ UNCHANGED <<callerVars, gateVars, stopVars, finished, outcomeVars, mQueued, batchVars,
                 historyVars>>

-----------------------------------------------------------------------------
(* actorLoop() between batches, and admitNextRequest()                     *)

quiet == <<callerVars, gateVars, stopVars, streamVars, outcomeVars>>

LoopTop ==
  /\ actorPc = "loop"
  /\ stopping' = mStopRequested
  /\ IF CancelShutdown
     THEN actorPc' = "exit" /\ UNCHANGED <<ret, cursor>>
     ELSE actorPc' = "sweep" /\ ret' = "admit" /\ cursor' = 1
  /\ UNCHANGED <<quiet, budget, mQueued, batchVars, historyVars>>

AdmitNext ==
  /\ actorPc = "admit"
  /\ mQueued # <<>>
  /\ ~CancelShutdown
  /\ mResidentRecord' = Head(mQueued)
  /\ served' = Append(served, Head(mQueued))
  /\ mQueued' = Tail(mQueued)
  /\ GoTo("found")
  /\ UNCHANGED <<quiet, mResidents, rows, awaitingPrefill, generated, results, accepted>>

(* Nothing admitted: park, or, when draining to stop, look at the queue a last time. *)
AdmitNothing ==
  /\ actorPc = "admit"
  /\ mQueued = <<>> \/ CancelShutdown
  /\ IF stopping THEN Drain("last") ELSE GoTo("park")
  /\ UNCHANGED <<quiet, mQueued, batchVars, historyVars>>

LastDrain_NoSecondLook ==
  /\ actorPc = "last"
  /\ GoTo("exit")
  /\ UNCHANGED <<quiet, mQueued, batchVars, historyVars>>

LastDrain ==
  /\ actorPc = "last"
  /\ IF mQueued # <<>> THEN Drain("loop") ELSE GoTo("exit")
  /\ UNCHANGED <<quiet, mQueued, batchVars, historyVars>>

ParkCheck_NoPredicate ==
  /\ actorPc = "park"
  /\ GoTo("sleeping")
  /\ UNCHANGED <<quiet, mQueued, batchVars, historyVars>>

ParkCheck ==
  /\ actorPc = "park"
  /\ IF commands # <<>> \/ mStopRequested THEN Drain("loop") ELSE GoTo("sleeping")
  /\ UNCHANGED <<quiet, mQueued, batchVars, historyVars>>

ParkSleep ==
  /\ actorPc = "sleeping"
  /\ GoTo("parked")
  /\ UNCHANGED <<quiet, mQueued, batchVars, historyVars>>

(* idleWait runs out. *)
ParkTimeout ==
  /\ actorPc = "parked"
  /\ Drain("loop")
  /\ UNCHANGED <<quiet, mQueued, batchVars, historyVars>>

-----------------------------------------------------------------------------
(* runResidentSteppedRequest()                                             *)

(* beginStepped() refuses or throws, before or after the stream was attached to it. *)
FoundFails ==
  /\ actorPc = "found"
  /\ MayFail
  /\ \E reason \in {NotYet, "kError"} : finished' = [finished EXCEPT ![mResidentRecord] = reason]
  /\ Terminate(mResidentRecord, "kExecutionError")
  /\ mResidentRecord' = NoRequest
  /\ Drain("loop")
  /\ UNCHANGED <<callerVars, mAccepting, commands, stopVars, mQueued, mResidents, rows,
                 awaitingPrefill, generated, results, historyVars>>

Found ==
  /\ actorPc = "found"
  /\ rows' = {mResidentRecord}
  /\ mResidents' = {mResidentRecord}
  /\ awaitingPrefill' = mResidentRecord
  /\ NextTick
  /\ UNCHANGED <<quiet, mQueued, mResidentRecord, generated, results, historyVars>>

(* What may become of a sequence when a step brings it to n tokens. *)
Endings(r, n) == IF r \in cancelled THEN {"kCancelled"}
                 ELSE IF n >= MaxGenerateLength THEN {"kEndId"}
                 ELSE {"kEndId", NotYet}

Commit_KeepsLedger(stepped, ending, emits) ==
  LET ended == {r \in stepped : ending[r] # NotYet}
  IN  /\ rows' = rows \ ended
      /\ results' = {[req |-> r, reason |-> ending[r]] : r \in ended}
      /\ finished' = IF emits THEN [r \in Requests |-> IF r \in ended THEN ending[r]
                                                      ELSE finished[r]]
                     ELSE finished
      /\ generated' = [r \in Requests |-> IF r \in stepped THEN generated[r] + 1
                                         ELSE generated[r]]
      /\ awaitingPrefill' = NoRequest
      /\ GoTo("publish")
      /\ UNCHANGED <<callerVars, gateVars, stopVars, cancelled, outcomeVars, mQueued,
                     mResidentRecord, mResidents, historyVars>>

(* A step of the runtime ended with ending[r] for each r of stepped: the rows that     *)
(* ended are evicted and the coordinator commits them; emitting finishes their streams.*)
Commit(stepped, ending, emits) ==
  LET ended == {r \in stepped : ending[r] # NotYet}
  IN  /\ rows' = rows \ ended
      /\ results' = {[req |-> r, reason |-> ending[r]] : r \in ended}
      /\ mResidents' = mResidents \ ended
      /\ finished' = IF emits THEN [r \in Requests |-> IF r \in ended THEN ending[r]
                                                      ELSE finished[r]]
                     ELSE finished
      /\ generated' = [r \in Requests |-> IF r \in stepped THEN generated[r] + 1
                                         ELSE generated[r]]
      /\ awaitingPrefill' = NoRequest
      /\ GoTo("publish")
      /\ UNCHANGED <<callerVars, gateVars, stopVars, cancelled, outcomeVars, mQueued,
                     mResidentRecord, historyVars>>

(* The step reported failure or threw, before or after emitting what had ended. *)
StepFails(stepped) ==
  /\ MayFail
  /\ \E ended \in SUBSET stepped :
       finished' = [r \in Requests |-> IF r \notin ended THEN finished[r]
                                      ELSE IF r \in cancelled THEN "kCancelled"
                                      ELSE "kEndId"]
  /\ awaitingPrefill' = NoRequest
  /\ GoTo("failing")
  /\ UNCHANGED <<callerVars, gateVars, stopVars, cancelled, outcomeVars, mQueued,
                 mResidentRecord, mResidents, rows, generated, results, historyVars>>

(* The founding prefill's post-pass: poll cancellation, finish, emit, evict. *)
PrefillFounder ==
  /\ actorPc = "tick"
  /\ awaitingPrefill = mResidentRecord
  /\ LET r == awaitingPrefill
     IN  \/ \E why \in Endings(r, 1) : Commit({r}, [q \in {r} |-> why], TRUE)
         \/ StepFails({r})

(* A joiner's seated prefill polls no cancellation and emits nothing; a first token  *)
(* that is terminal, or a failed prefill, evicts the row in the same tick.           *)
PrefillJoiner ==
  /\ actorPc = "tick"
  /\ awaitingPrefill \notin {NoRequest, mResidentRecord}
  /\ LET r == awaitingPrefill
         natural == IF MaxGenerateLength = 1 THEN {"kEndId"} ELSE {"kEndId", NotYet}
     IN  \/ \E why \in natural \cup (IF MayFail THEN {"kError"} ELSE {}) :
              Commit({r}, [q \in {r} |-> why], FALSE)
         \/ StepFails({})

(* Neither pending prefill: look at the queue head before decoding. *)
TickDecode ==
  /\ actorPc = "tick"
  /\ awaitingPrefill = NoRequest
  /\ Sweep("offer")
  /\ UNCHANGED <<quiet, mQueued, batchVars, historyVars>>

(* Equal in every compared field; no two requests with a callback are (Guided). *)
Compatible(resident, candidate) == Kind[resident] = Kind[candidate]

MayJoin_GuidedFounder(r) == Compatible(mResidentRecord, r) /\ r \notin Guided

(* headMayJoin() compares the head with the founder's request only. *)
MayJoin(r) == /\ Compatible(mResidentRecord, r)
              /\ r \notin Guided
              /\ mResidentRecord \notin Guided

MayOffer == /\ mQueued # <<>>
            /\ Cardinality(rows) < MaxBatchSize
            /\ ~mStopRequested
            /\ MayJoin(Head(mQueued))

(* No head to offer, or kNoCapacity: the head keeps its place. *)
OfferNothing ==
  /\ actorPc = "offer"
  /\ GoTo("decode")
  /\ UNCHANGED <<quiet, mQueued, batchVars, historyVars>>

OfferRejected ==
  /\ actorPc = "offer"
  /\ MayOffer
  /\ MayFail
  /\ Terminate(Head(mQueued), "kExecutionError")
  /\ mQueued' = Tail(mQueued)
  /\ GoTo("decode")
  /\ UNCHANGED <<callerVars, mAccepting, commands, stopVars, finished, batchVars, historyVars>>

OfferAdmitted_Overtakes ==
  /\ actorPc = "offer"
  /\ Cardinality(rows) < MaxBatchSize
  /\ \E i \in DOMAIN mQueued :
       LET r == mQueued[i]
       IN  /\ MayJoin(r)
           /\ rows' = rows \cup {r}
           /\ mResidents' = mResidents \cup {r}
           /\ awaitingPrefill' = r
           /\ served' = Append(served, r)
           /\ mQueued' = RemoveAt(mQueued, i)
  /\ NextTick
  /\ UNCHANGED <<quiet, mResidentRecord, generated, results, accepted>>

OfferAdmitted ==
  /\ actorPc = "offer"
  /\ MayOffer
  /\ LET r == Head(mQueued)
     IN  /\ rows' = rows \cup {r}
         /\ mResidents' = mResidents \cup {r}
         /\ awaitingPrefill' = r
         /\ served' = Append(served, r)
  /\ mQueued' = Tail(mQueued)
  /\ NextTick
  /\ UNCHANGED <<quiet, mResidentRecord, generated, results, accepted>>

Decode ==
  /\ actorPc = "decode"
  /\ \/ \E ending \in [rows -> Reasons \cup {NotYet}] :
          /\ \A r \in rows : ending[r] \in Endings(r, generated[r] + 1)
          /\ Commit(rows, ending, TRUE)
     \/ StepFails(rows)

StatusOf_LateCancelLoses(result) ==
  IF result.reason = "kCancelled" THEN "kCancelled"
  ELSE IF result.reason = "kError" THEN "kExecutionError" ELSE "kCompleted"

(* publishOutcomes(), in the order of the stepper's hash table: a cancel that landed  *)
(* after the poll still wins.                                                          *)
StatusOf(result) ==
  IF result.reason = "kCancelled" \/ result.req \in cancelled THEN "kCancelled"
  ELSE IF result.reason = "kError" THEN "kExecutionError" ELSE "kCompleted"

PublishOne ==
  /\ actorPc = "publish"
  /\ \E result \in results : /\ Terminate(result.req, StatusOf(result))
                             /\ results' = results \ {result}
  /\ UNCHANGED <<callerVars, mAccepting, commands, stopVars, finished, actorPc, localVars,
                 mQueued, mResidentRecord, mResidents, rows, awaitingPrefill, generated,
                 historyVars>>

PublishDone ==
  /\ actorPc = "publish"
  /\ results = {}
  /\ UNCHANGED <<quiet, mQueued, batchVars, historyVars>>
  /\ NextTick

(* failEverything(), in the order of the coordinator's hash table. *)
FailOne ==
  /\ actorPc = "failing"
  /\ \E r \in mResidents :
       /\ Terminate(r, StatusOf([req |-> r, reason |-> "kError"]))
       /\ mResidents' = mResidents \ {r}
  /\ UNCHANGED <<callerVars, mAccepting, commands, stopVars, finished, actorPc, localVars,
                 mQueued, mResidentRecord, rows, awaitingPrefill, generated, results,
                 historyVars>>

(* finish() and the destruction of the batch: StreamChannelFinalizer ends what is left. *)
Teardown ==
  /\ actorPc = "failing"
  /\ mResidents = {}
  /\ finished' = [r \in Requests |-> IF r \in rows /\ finished[r] = NotYet
                                    THEN "kError" ELSE finished[r]]
  /\ rows' = {}
  /\ mResidentRecord' = NoRequest
  /\ Drain("loop")
  /\ UNCHANGED <<callerVars, gateVars, stopVars, cancelled, outcomeVars, mQueued, mResidents,
                 awaitingPrefill, generated, results, historyVars>>

-----------------------------------------------------------------------------
(* actorLoop() after its last round: nobody else will ever run these requests. *)

ExitQueued ==
  /\ actorPc = "exit"
  /\ mQueued # <<>>
  /\ Terminate(Head(mQueued), "kCancelled")
  /\ mQueued' = Tail(mQueued)
  /\ UNCHANGED <<callerVars, mAccepting, commands, stopVars, finished, actorPc, localVars,
                 batchVars, historyVars>>

ExitCommand ==
  /\ actorPc = "exit"
  /\ mQueued = <<>>
  /\ commands # <<>>
  /\ commands' = Tail(commands)
  /\ IF Head(commands) = kShutdown THEN NoneTerminated
                                   ELSE Terminate(Head(commands), "kCancelled")
  /\ UNCHANGED <<callerVars, mAccepting, stopVars, finished, actorPc, localVars, mQueued,
                 batchVars, historyVars>>

ExitDone ==
  /\ actorPc = "exit"
  /\ mQueued = <<>>
  /\ commands = <<>>
  /\ GoTo("exited")
  /\ UNCHANGED <<quiet, mQueued, batchVars, historyVars>>

-----------------------------------------------------------------------------
Batch == \/ FoundFails \/ Found \/ PrefillFounder \/ PrefillJoiner \/ TickDecode
         \/ OfferNothing \/ OfferRejected \/ OfferAdmitted \/ Decode
         \/ PublishOne \/ PublishDone \/ FailOne \/ Teardown

Actor == \/ DrainPop \/ DrainDone \/ SweepRetire \/ SweepDone
         \/ LoopTop \/ AdmitNext \/ AdmitNothing \/ LastDrain \/ ParkCheck \/ ParkSleep
         \/ Batch
         \/ ExitQueued \/ ExitCommand \/ ExitDone

(* Every thread has returned. *)
Finished ==
  /\ shutPc = "done"
  /\ \A r \in Requests : subPc[r] \in {"returned", "refused"} /\ canPc[r] # "wake"
  /\ UNCHANGED vars

Next == \/ \E r \in Requests : Submit(r) \/ HandleCancel(r) \/ CancelById(r) \/ CancelWake(r)
        \/ \E mode \in Modes : ShutdownClose(mode)
        \/ Shutdown
        \/ Actor
        \/ ParkTimeout
        \/ Finished

(* A call that has begun is scheduled until it returns, and so is the actor.  Nobody   *)
(* has to call, and idleWait is not relied on: its expiry has no fairness.             *)
Fairness == /\ \A r \in Requests : /\ WF_vars(subPc[r] # "new" /\ Submit(r))
                                   /\ WF_vars(CancelWake(r))
            /\ WF_vars(Shutdown)
            /\ WF_vars(Actor)

Spec == Init /\ [][Next]_vars
FairSpec == Spec /\ Fairness
-----------------------------------------------------------------------------
(* Properties.                                                             *)

SubPcs == {"new", "reserved", "registered", "posting", "posted", "refusing", "returned",
           "refused"}
ActorPcs == {"drain", "sweep", "loop", "admit", "last", "park", "sleeping", "parked", "found",
             "tick", "offer", "decode", "publish", "failing", "exit", "exited"}

TypeOK ==
  /\ subPc \in [Requests -> SubPcs]
  /\ canPc \in [Requests -> {"idle", "wake", "done"}]
  /\ shutPc \in {"running", "closed", "stopped", "notifying", "joining", "done"}
  /\ mPendingCount \in Nat
  /\ mLiveRecords \subseteq Requests
  /\ mAccepting \in BOOLEAN
  /\ commands \in Seq(Requests \cup {kShutdown})
  /\ mShutdownMode \in {"kDrain", "kCancel"}
  /\ mStopRequested \in BOOLEAN
  /\ cancelled \subseteq Requests
  /\ finished \in [Requests -> Reasons \cup {NotYet}]
  /\ outcome \in [Requests -> Statuses \cup {NotYet}]
  /\ mCounters \in [Statuses -> Nat]
  /\ actorPc \in ActorPcs
  /\ ret \in {"loop", "tick", "last", "admit", "offer"}
  /\ budget \in 0..QueueCapacity
  /\ cursor \in Nat \ {0}
  /\ stopping \in BOOLEAN
  /\ mQueued \in Seq(Requests)
  /\ mResidentRecord \in Requests \cup {NoRequest}
  /\ mResidents \subseteq Requests
  /\ rows \subseteq Requests
  /\ awaitingPrefill \in Requests \cup {NoRequest}
  /\ generated \in [Requests -> Nat]
  /\ results \subseteq [req : Requests, reason : Reasons]
  /\ accepted \in Seq(Requests)
  /\ served \in Seq(Requests)

Accepted == {r \in Requests : subPc[r] \in {"posted", "returned"}}
Reserved == {r \in Requests : \/ subPc[r] \in {"reserved", "registered", "posting", "refusing"}
                              \/ r \in Accepted /\ outcome[r] = NotYet}

(* mPendingCount counts exactly the reservations submit() took that no refusal and no  *)
(* terminate() has given back, and so never exceeds the configured backlog.            *)
BacklogExact == /\ mPendingCount = Cardinality(Reserved)
                /\ mPendingCount <= MaxPendingRequests

(* terminate() runs once for each request that has an outcome: the counters sum to the *)
(* outcomes callers see (EngineMetrics).                                               *)
CountersMatchOutcomes ==
  \A s \in Statuses : mCounters[s] = Cardinality({r \in Requests : outcome[r] = s})

(* cancel(id) reaches every accepted request until it is terminal, and the registry    *)
(* keeps nothing of a request that is over (registerRecord, forgetRecord).             *)
LiveUntilTerminal ==
  \A r \in Requests :
    /\ r \in Accepted => (r \in mLiveRecords <=> outcome[r] = NotYet)
    /\ subPc[r] = "refused" => r \notin mLiveRecords

Founding == IF actorPc = "found" THEN {mResidentRecord} ELSE {}
Filed == {result.req : result \in results}
Holders == <<ToSet(commands) \ {kShutdown}, ToSet(mQueued), Founding, mResidents, Filed>>

(* A request moves from the ring to the queue, to a founding or an admission, to the   *)
(* ledger, to a result: while it has no outcome exactly one of them holds it, once,    *)
(* and none holds it afterwards.                                                       *)
HeldOnce ==
  /\ \A r \in Requests :
       r \in Accepted /\ outcome[r] = NotYet <=> \E i \in DOMAIN Holders : r \in Holders[i]
  /\ \A i, j \in DOMAIN Holders : i # j => Holders[i] \cap Holders[j] = {}
  /\ IsInjective(commands) /\ IsInjective(mQueued)
  /\ \A a, b \in results : a.req = b.req => a = b

(* The books of a request agree, whichever way it is refused, retired, rejected or     *)
(* ended: the reservation, the counters, the registry and the one place that holds it. *)
AccountsBalance == BacklogExact /\ CountersMatchOutcomes /\ LiveUntilTerminal /\ HeldOnce

(* The actor leaves nobody behind: once it has exited every accepted request has an    *)
(* outcome, nothing more can be accepted, and no submit is left in the ring.           *)
ExitStrandsNobody ==
  actorPc = "exited" =>
    /\ \A r \in Requests : /\ r \in Accepted => outcome[r] # NotYet
                            /\ subPc[r] # "posting"
    /\ ToSet(commands) \cap Requests = {}

(* A draining shutdown runs what it accepted: only its own caller cancels a request.   *)
DrainCancelsNobody ==
  mShutdownMode = "kDrain" =>
    \A r \in Requests : outcome[r] = "kCancelled" => canPc[r] # "idle"

(* First come, first served: requests start in the order the ring accepted them.       *)
ServedInOrder ==
  \A i, j \in DOMAIN served : i < j =>
    \E k, l \in DOMAIN accepted : k < l /\ accepted[k] = served[i] /\ accepted[l] = served[j]

(* At every tick the coordinator's ledger and the runtime's rows name the same         *)
(* sequences, within the batch size, and between batches neither names any.            *)
LedgerMatchesBatch ==
  /\ actorPc \in {"tick", "offer", "decode", "publish"} => mResidents = rows
  /\ Cardinality(rows) <= MaxBatchSize
  /\ actorPc \in {"loop", "admit", "park", "parked", "exited"} => mResidents = {} /\ rows = {}

(* headMayJoin() looks at the founder only, which may have left; still every two       *)
(* sequences that share a step are compatible and neither is guided.                   *)
BatchIsCompatible ==
  \A r, s \in rows : r # s => Kind[r] = Kind[s] /\ r \notin Guided

(* The actor never sleeps on work: whenever something waits while it is parked, or     *)
(* about to be, a notify is still to come (wakeActor's empty critical section).        *)
NoLostWakeup ==
  actorPc \in {"sleeping", "parked"} /\ (commands # <<>> \/ mStopRequested) =>
    \/ \E r \in Requests : subPc[r] = "posted"
    \/ shutPc \in {"stopped", "notifying"}

(* A natural outcome is published only for a stream nobody cancelled before: cancel    *)
(* wins until the outcome is decided, and an outcome never changes.                    *)
OutcomesAreFinal ==
  [][\A r \in Requests :
       /\ outcome[r] # NotYet => outcome'[r] = outcome[r]
       /\ outcome'[r] = "kCompleted" /\ outcome[r] = NotYet => r \notin cancelled]_vars

(* Every accepted request gets an outcome without the help of the park's timeout.      *)
AcceptedIsAnswered == \A r \in Requests : r \in Accepted ~> outcome[r] # NotYet

(* shutdown() returns: the actor always reaches its exit.                              *)
ShutdownReturns == shutPc = "closed" ~> shutPc = "done"

(* "A completed request's channel was finished by the runtime that produced it"        *)
(* (terminate(), requestEngine.cpp).                                                   *)
CompletedStreamIsFinished ==
  \A r \in Requests : outcome[r] = "kCompleted" => finished[r] # NotYet
=============================================================================
