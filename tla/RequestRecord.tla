---------------------------- MODULE RequestRecord ----------------------------
(***************************************************************************)
(* One accepted request, seen by the caller waiting in RequestHandle::get, *)
(* by the threads cancelling it, and by the actor, which runs it through   *)
(* the runtime, decides its outcome and publishes it                       *)
(* (cpp/scheduler/requestRecord.h, requestEngine.cpp, runtime/streaming).  *)
(* The two flags of the stream channel are read without the record's       *)
(* outcomeMutex; the mutex is held across a step only by the caller, in    *)
(* "holding", between its predicate and its wait.                          *)
(***************************************************************************)
EXTENDS Naturals

CONSTANT Cancellers        \* threads that cancel through the handle or by id

Statuses == {"kCompleted", "kCancelled", "kExecutionError"}
None == "none"

VARIABLES mFinished, mCancelled,      \* the StreamChannel's flags
          outcomePublished, status,   \* the RequestRecord's
          verdict,                    \* terminate()'s status argument
          reason,                     \* the finish reason of the step that ended it
          actorPc,
          getPc, getResult,           \* the caller in get(), and what get() gave it
          cancelPc,                   \* [Cancellers -> where cancel() is]
          stopping                    \* a cancelling shutdown is in effect

requestVars == <<mFinished, mCancelled, outcomePublished, status, verdict, reason, actorPc,
                 getPc, getResult, cancelPc, stopping>>

-----------------------------------------------------------------------------
RecordInit == /\ mFinished = FALSE
              /\ mCancelled = FALSE
              /\ outcomePublished = FALSE
              /\ status = None
              /\ verdict = None
              /\ reason = None
              /\ actorPc = "queued"
              /\ getPc = "idle"
              /\ getResult = None
              /\ cancelPc = [c \in Cancellers |-> "idle"]
              /\ stopping = FALSE

MutexFree == getPc # "holding"

(* outcomeReady.notify_all() *)
Notify == getPc' = IF getPc = "waiting" THEN "check" ELSE getPc

streamVars == <<mFinished, mCancelled>>
recordVars == <<outcomePublished, status>>
actorVars == <<verdict, reason, actorPc>>
callerVars == <<getPc, getResult>>

-----------------------------------------------------------------------------
(* get()                                                                   *)

(* outcomePublished || cancelledBeforeFinish() *)
MayReturn == outcomePublished \/ (mCancelled /\ ~mFinished)

GetCall == /\ getPc = "idle"
           /\ getPc' = "check"
           /\ UNCHANGED <<streamVars, recordVars, actorVars, getResult, cancelPc, stopping>>

(* Evaluate the predicate under outcomeMutex. *)
GetCheck == /\ getPc = "check"
            /\ getPc' = IF MayReturn THEN "read" ELSE "holding"
            /\ UNCHANGED <<streamVars, recordVars, actorVars, getResult, cancelPc, stopping>>

(* wait() releases the mutex and sleeps in one step. *)
GetWait == /\ getPc = "holding"
           /\ getPc' = "waiting"
           /\ UNCHANGED <<streamVars, recordVars, actorVars, getResult, cancelPc, stopping>>

(* Outside the mutex: an outcome published meanwhile is preferred. *)
GetRead == /\ getPc = "read"
           /\ getPc' = "returned"
           /\ getResult' = IF outcomePublished THEN status ELSE "kCancelled"
           /\ UNCHANGED <<streamVars, recordVars, actorVars, cancelPc, stopping>>

-----------------------------------------------------------------------------
(* RequestHandle::cancel(), and RequestEngine::cancel(id) once it found the record. *)

CancelFlag(c) == /\ cancelPc[c] = "idle"
                 /\ mCancelled' = TRUE
                 /\ cancelPc' = [cancelPc EXCEPT ![c] = "wake"]
                 /\ UNCHANGED <<mFinished, recordVars, actorVars, callerVars, stopping>>

WakeWaiters_Unlocked(c) == /\ cancelPc[c] = "wake"
                           /\ Notify
                           /\ cancelPc' = [cancelPc EXCEPT ![c] = "done"]
                           /\ UNCHANGED <<streamVars, recordVars, actorVars, getResult, stopping>>

(* wakeWaiters(): an empty critical section, then the notify. *)
WakeWaiters(c) == /\ cancelPc[c] = "wake"
                  /\ MutexFree
                  /\ Notify
                  /\ cancelPc' = [cancelPc EXCEPT ![c] = "done"]
                  /\ UNCHANGED <<streamVars, recordVars, actorVars, getResult, stopping>>

-----------------------------------------------------------------------------
(* The actor.                                                              *)

actorRest == <<recordVars, callerVars, cancelPc>>

(* shutdown(kCancel) is observed by the actor's next drain. *)
ShutdownCancels == /\ ~stopping
                   /\ stopping' = TRUE
                   /\ UNCHANGED <<streamVars, actorRest, actorVars>>

(* Retired while queued: cancelled, swept by a shutdown, or rejected at admission. *)
DropQueued == /\ actorPc = "queued"
              /\ \/ (mCancelled \/ stopping) /\ verdict' = "kCancelled"
                 \/ verdict' = "kExecutionError"
              /\ actorPc' = "publish"
              /\ UNCHANGED <<streamVars, actorRest, reason, stopping>>

(* beginStepped() fails after it attached the stream, whose finalizer ends it. *)
FoundingFails == /\ actorPc = "queued"
                 /\ mFinished' = TRUE
                 /\ verdict' = "kExecutionError"
                 /\ actorPc' = "publish"
                 /\ UNCHANGED <<mCancelled, actorRest, reason, stopping>>

(* The founder of a batch goes through whole steps; a joiner is seated first. *)
Start == /\ actorPc = "queued"
         /\ actorPc' \in {"poll", "seated"}
         /\ UNCHANGED <<streamVars, actorRest, verdict, reason, stopping>>

(* The seated prefill: a failure, or a lookahead token that is terminal, evicts the  *)
(* row at once, and nothing is emitted.                                              *)
SeatedPrefill == /\ actorPc = "seated"
                 /\ \/ actorPc' = "poll" /\ UNCHANGED reason
                    \/ actorPc' = "decide" /\ reason' = "kError"
                    \/ actorPc' = "decide" /\ reason' = "kEndId"
                 /\ UNCHANGED <<streamVars, actorRest, verdict, stopping>>

(* cancelResidentWork(), at the drain before each step; it wakes no waiter. *)
PlantCancel == /\ actorPc = "poll"
               /\ stopping
               /\ ~mCancelled
               /\ mCancelled' = TRUE
               /\ UNCHANGED <<mFinished, actorRest, actorVars, stopping>>

(* The top of a step: applyCancellationToFinishStates(). *)
Poll == /\ actorPc = "poll"
        /\ IF mCancelled THEN actorPc' = "emit" /\ reason' = "kCancelled"
                         ELSE actorPc' = "step" /\ UNCHANGED reason
        /\ UNCHANGED <<streamVars, actorRest, verdict, stopping>>

(* The model call: the sequence goes on, ends, or the step fails before emitting. *)
Step == /\ actorPc = "step"
        /\ \/ actorPc' = "poll" /\ UNCHANGED reason
           \/ actorPc' = "emit" /\ reason' = "kEndId"
           \/ actorPc' = "decide" /\ reason' = "kError"
        /\ UNCHANGED <<streamVars, actorRest, verdict, stopping>>

(* emitChunks() finishes the stream; the eviction behind it may still fail. *)
Emit == /\ actorPc = "emit"
        /\ mFinished' = TRUE
        /\ \/ UNCHANGED reason
           \/ reason' = "kError"
        /\ actorPc' = "decide"
        /\ UNCHANGED <<mCancelled, actorRest, verdict, stopping>>

Decide_LateCancelLoses == /\ actorPc = "decide"
                          /\ verdict' = IF reason = "kCancelled" THEN "kCancelled"
                                        ELSE IF reason = "kError" THEN "kExecutionError"
                                        ELSE "kCompleted"
                          /\ actorPc' = "publish"
                          /\ UNCHANGED <<streamVars, actorRest, reason, stopping>>

(* publishOutcomes(): cancel wins. *)
Decide == /\ actorPc = "decide"
          /\ verdict' = IF reason = "kCancelled" \/ mCancelled THEN "kCancelled"
                        ELSE IF reason = "kError" THEN "kExecutionError" ELSE "kCompleted"
          /\ actorPc' = "publish"
          /\ UNCHANGED <<streamVars, actorRest, reason, stopping>>

PublishOutcome_AfterClosing ==
  /\ actorPc = "publish"
  /\ IF verdict # "kCompleted" /\ ~mCancelled
     THEN /\ mCancelled' = TRUE
          /\ UNCHANGED <<recordVars, getPc, actorPc>>
     ELSE /\ MutexFree
          /\ outcomePublished' = TRUE
          /\ status' = verdict
          /\ Notify
          /\ actorPc' = "teardown"
          /\ UNCHANGED mCancelled
  /\ UNCHANGED <<mFinished, verdict, reason, getResult, cancelPc, stopping>>

(* terminate(): the outcome goes first, *)
PublishOutcome == /\ actorPc = "publish"
                  /\ MutexFree
                  /\ outcomePublished' = TRUE
                  /\ status' = verdict
                  /\ Notify
                  /\ actorPc' = "close"
                  /\ UNCHANGED <<streamVars, verdict, reason, getResult, cancelPc, stopping>>

(* and the channel of a request that did not complete is cancelled after it. *)
CloseChannel == /\ actorPc = "close"
                /\ mCancelled' = (mCancelled \/ verdict # "kCompleted")
                /\ actorPc' = "teardown"
                /\ UNCHANGED <<mFinished, actorRest, verdict, reason, stopping>>

(* StreamChannelFinalizer ends the stream of a sequence a failed batch still held. *)
Teardown == /\ actorPc = "teardown"
            /\ mFinished' = (mFinished \/ reason = "kError")
            /\ actorPc' = "over"
            /\ UNCHANGED <<mCancelled, actorRest, verdict, reason, stopping>>

-----------------------------------------------------------------------------
Get == GetCheck \/ GetWait \/ GetRead
Actor == \/ DropQueued \/ FoundingFails \/ Start \/ SeatedPrefill \/ PlantCancel \/ Poll \/ Step \/ Emit
         \/ Decide \/ PublishOutcome \/ CloseChannel \/ Teardown

RecordNext == \/ GetCall \/ Get
              \/ \E c \in Cancellers : CancelFlag(c) \/ WakeWaiters(c)
              \/ ShutdownCancels
              \/ Actor

(* Callers inside a call are scheduled.  Nothing is asked of the actor: it may be deep *)
(* in a generation for as long as it likes.                                            *)
RecordFairness == /\ WF_requestVars(Get)
                  /\ \A c \in Cancellers : WF_requestVars(WakeWaiters(c))

RecordSpec == RecordInit /\ [][RecordNext]_requestVars
RecordFairSpec == RecordSpec /\ RecordFairness

-----------------------------------------------------------------------------
RecordTypeOK ==
  /\ mFinished \in BOOLEAN
  /\ mCancelled \in BOOLEAN
  /\ outcomePublished \in BOOLEAN
  /\ status \in Statuses \cup {None}
  /\ verdict \in Statuses \cup {None}
  /\ reason \in {"kEndId", "kCancelled", "kError", None}
  /\ actorPc \in {"queued", "seated", "poll", "step", "emit", "decide", "publish", "close",
                  "teardown", "over"}
  /\ getPc \in {"idle", "check", "holding", "waiting", "read", "returned"}
  /\ getResult \in Statuses \cup {None}
  /\ getPc = "returned" => getResult # None
  /\ cancelPc \in [Cancellers -> {"idle", "wake", "done"}]
  /\ stopping \in BOOLEAN

Asked == stopping \/ \E c \in Cancellers : cancelPc[c] # "idle"

(* get() says "cancelled" only of a request somebody asked to cancel: a failure is     *)
(* never hidden behind the cancel flag terminate() leaves on its channel.              *)
ErrorsAreReported == getResult = "kCancelled" => Asked

(* get() may say "cancelled" before the actor knows (requestEngine.h, get).  The       *)
(* outcome published later is then never "completed" (publishOutcomes: cancel wins),   *)
(* but for a stream that nobody finished: a sequence its seated prefill ended.         *)
CancelIsNotContradicted ==
  getResult = "kCancelled" /\ status = "kCompleted" => ~mFinished /\ reason = "kEndId"

(* What get() returns once the outcome is out is that outcome (publishOutcome's flag). *)
ResultIsOutcome ==
  [][getResult' # getResult /\ outcomePublished => getResult' = status]_requestVars

(* get() returns once there is an outcome, and to a caller that cancelled although the *)
(* actor makes no further step, unless its stream had finished (publishOutcome,        *)
(* wakeWaiters).                                                                       *)
GetReturns ==
  /\ (getPc # "idle" /\ outcomePublished) ~> getPc = "returned"
  /\ \A c \in Cancellers :
       (getPc # "idle" /\ cancelPc[c] = "done") ~> (getPc = "returned" \/ mFinished)
=============================================================================
