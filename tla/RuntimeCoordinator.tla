-------------------------- MODULE RuntimeCoordinator --------------------------
(***************************************************************************)
(* cpp/runtime/multiDevice/runtimeCoordinator.cpp, thread launch: the      *)
(* calling thread posts one request at a time to one worker thread per     *)
(* tensor-parallel rank and waits for all of them.  The ranks meet in      *)
(* collectives (an all-reduce inside every forward pass, a broadcast of    *)
(* rank 0's cancellation state) and each decides for itself when the       *)
(* sequence ends (the single-row view of GenerationSession in              *)
(* cpp/runtime/llmRankRuntime.cpp).  A rank that fails aborts the          *)
(* communicators, which is what lets its peers out of a collective.        *)
(*                                                                         *)
(* Mutexes are explicit where a condition variable depends on them: a      *)
(* thread that found its predicate false still holds the mutex until it    *)
(* sleeps.  External: NCCL.  A collective on aborted communicators returns *)
(* (with an error or with garbage), it does not block.                     *)
(***************************************************************************)
EXTENDS Naturals, Sequences, FiniteSets

CONSTANTS NumRanks,        \* mLocalRanks.size() = mWorldSize
          Workload,        \* the requests the caller may dispatch
          MaxDispatches,   \* bound: requests posted to the workers
          NoThread,        \* owner of a free mutex
          NoRequest        \* outside dispatchRequest()

Ranks == 0 .. NumRanks - 1
Root == 0
Caller == NumRanks         \* the calling thread, as a mutex owner

(* A request, by what the ranks tell apart: whether it is streamed and at which      *)
(* interval, the tokens until EOS or the maximum length, the token that completes a  *)
(* stop string (0: none does), whether the prompt's own text contains one, and       *)
(* whether it is longer than the engine takes.                                       *)
Request == [streamed : BOOLEAN, interval : Nat \ {0}, length : Nat \ {0}, stop : Nat,
            stopInPrompt : BOOLEAN, tooLong : BOOLEAN]

ASSUME RanksAssumption == NumRanks \in Nat /\ NumRanks > 1
ASSUME WorkloadAssumption == Workload \subseteq Request
ASSUME BoundAssumption == MaxDispatches \in Nat

VARIABLES
  main,              \* where the calling thread is
  request,           \* the request being dispatched
  outcome,           \* what the last dispatch gave its caller
  workGeneration, workersDone, liveWorkers, workMutex,      \* guarded by mWorkMutex
  workersFinished, workerFailed, doneMutex,                 \* guarded by mDoneMutex
  reports,           \* mWorkerStartupReports
  aborted,           \* the runtime's communicators have been aborted
  cancelled,         \* the consumer has cancelled the stream's channel
  worker,            \* [Ranks -> where the worker thread is]
  localGeneration,   \* [Ranks -> the generation it took last]
  statuses, errors,  \* mWorkerTask: [Ranks -> ...]
  session            \* [Ranks -> the rank's generation session]

callVars == <<main, request, outcome>>
workVars == <<workGeneration, workersDone, liveWorkers, workMutex>>
doneVars == <<workersFinished, workerFailed, doneMutex>>
commVars == <<aborted, cancelled>>
taskVars == <<statuses, errors>>
vars == <<callVars, workVars, doneVars, reports, commVars, worker, localGeneration,
          taskVars, session>>

(* tokens generated; tokens looked at for stop strings; whether and how the row ended; *)
(* collectives entered of either kind, and what the root broadcast.                    *)
Fresh == [tokens |-> 0, sent |-> 0, ended |-> "no", inside |-> FALSE,
          reduces |-> 0, syncs |-> 0, words |-> <<>>]

Init == /\ main = "starting"
        /\ request = NoRequest
        /\ outcome = "none"
        /\ workGeneration = 0
        /\ workersDone = FALSE
        /\ liveWorkers = 0
        /\ workMutex = NoThread
        /\ workersFinished = 0
        /\ workerFailed = FALSE
        /\ doneMutex = NoThread
        /\ reports = 0
        /\ aborted = FALSE
        /\ cancelled = FALSE
        /\ worker = [r \in Ranks |-> "starting"]
        /\ localGeneration = [r \in Ranks |-> 0]
        /\ statuses = [r \in Ranks |-> 0]
        /\ errors = [r \in Ranks |-> "none"]
        /\ session = [r \in Ranks |-> Fresh]

GoTo(r, place) == worker' = [worker EXCEPT ![r] = place]

-----------------------------------------------------------------------------
(* A worker's life outside requests.                                       *)

Started(r) == /\ worker[r] = "starting"
              /\ workMutex = NoThread
              /\ reports' = reports + 1
              /\ liveWorkers' = liveWorkers + 1
              /\ GoTo(r, "look")
              /\ UNCHANGED <<callVars, workGeneration, workersDone, workMutex, doneVars, commVars,
                             localGeneration, taskVars, session>>

(* cudaSetDevice() throws. *)
DeviceFails(r) == /\ worker[r] = "starting"
                  /\ GoTo(r, "failed at start")
                  /\ UNCHANGED <<callVars, workVars, doneVars, reports, commVars,
                                 localGeneration, taskVars, session>>

ReportFailedStart(r) == /\ worker[r] = "report"
                        /\ workMutex = NoThread
                        /\ reports' = reports + 1
                        /\ GoTo(r, "gone")
                        /\ UNCHANGED <<callVars, workVars, doneVars, commVars,
                                       localGeneration, taskVars, session>>

(* The predicate of mWorkCv.wait(), evaluated under mWorkMutex. *)
Look(r) ==
  /\ worker[r] = "look"
  /\ workMutex = NoThread
  /\ IF workersDone
     THEN GoTo(r, "leaving") /\ UNCHANGED <<workMutex, localGeneration, session>>
     ELSE IF workGeneration > localGeneration[r]
     THEN /\ localGeneration' = [localGeneration EXCEPT ![r] = workGeneration]
          /\ session' = [session EXCEPT ![r] = Fresh]
          /\ GoTo(r, "begin")
          /\ UNCHANGED workMutex
     ELSE /\ workMutex' = r
          /\ GoTo(r, "drowsy")
          /\ UNCHANGED <<localGeneration, session>>
  /\ UNCHANGED <<callVars, workGeneration, workersDone, liveWorkers, doneVars, reports, commVars,
                 taskVars>>

Sleep(r) == /\ worker[r] = "drowsy"
            /\ workMutex' = NoThread
            /\ GoTo(r, "asleep")
            /\ UNCHANGED <<callVars, workGeneration, workersDone, liveWorkers, doneVars, reports,
                           commVars, localGeneration, taskVars, session>>

SpuriousWake(r) == /\ worker[r] = "asleep"
                   /\ GoTo(r, "look")
                   /\ UNCHANGED <<callVars, workVars, doneVars, reports, commVars,
                                  localGeneration, taskVars, session>>

Leave(r) == /\ worker[r] = "leaving"
            /\ workMutex = NoThread
            /\ liveWorkers' = liveWorkers - 1
            /\ GoTo(r, "gone")
            /\ UNCHANGED <<callVars, workGeneration, workersDone, workMutex, doneVars, reports,
                           commVars, localGeneration, taskVars, session>>

(* The wait throws: the worker withdraws, and answers for a generation it will not take. *)
Die(r) == /\ worker[r] = "look"
          /\ workMutex = NoThread
          /\ liveWorkers' = liveWorkers - 1
          /\ GoTo(r, IF workGeneration > localGeneration[r] THEN "dying in debt" ELSE "dying")
          /\ UNCHANGED <<callVars, workGeneration, workersDone, workMutex, doneVars, reports,
                         commVars, localGeneration, taskVars, session>>

-----------------------------------------------------------------------------
(* recordWorkerFailure() and publishWorkerCompletion().                    *)

(* The places are named for what is left to do. *)
RecordFailure(r) ==
  /\ doneMutex = NoThread
  /\ workerFailed' = TRUE
  /\ \/ worker[r] = "failed at start" /\ GoTo(r, "abort, report")
     \/ worker[r] = "failed"          /\ GoTo(r, "abort, publish")
     \/ worker[r] = "dying"           /\ GoTo(r, "abort, go")
     \/ worker[r] = "dying in debt"   /\ GoTo(r, "abort, publish, go")
  /\ UNCHANGED <<callVars, workVars, workersFinished, doneMutex, reports, commVars,
                 localGeneration, taskVars, session>>

AbortCollectives_Skipped(r) ==
  /\ \/ worker[r] = "abort, report"      /\ GoTo(r, "report")
     \/ worker[r] = "abort, publish"     /\ GoTo(r, "publish")
     \/ worker[r] = "abort, go"          /\ GoTo(r, "gone")
     \/ worker[r] = "abort, publish, go" /\ GoTo(r, "publish, go")
  /\ UNCHANGED <<callVars, workVars, doneVars, reports, commVars, localGeneration, taskVars, session>>

AbortCollectives(r) ==
  /\ aborted' = TRUE
  /\ \/ worker[r] = "abort, report"      /\ GoTo(r, "report")
     \/ worker[r] = "abort, publish"     /\ GoTo(r, "publish")
     \/ worker[r] = "abort, go"          /\ GoTo(r, "gone")
     \/ worker[r] = "abort, publish, go" /\ GoTo(r, "publish, go")
  /\ UNCHANGED <<callVars, workVars, doneVars, reports, cancelled, localGeneration,
                 taskVars, session>>

PublishCompletion(r) ==
  /\ doneMutex = NoThread
  /\ workersFinished' = workersFinished + 1
  /\ LET last == workersFinished + 1 = NumRanks
     IN  \/ worker[r] = "publish"     /\ GoTo(r, IF last THEN "notify" ELSE "look")
         \/ worker[r] = "publish, go" /\ GoTo(r, IF last THEN "notify, go" ELSE "gone")
  /\ UNCHANGED <<callVars, workVars, workerFailed, doneMutex, reports, commVars,
                 localGeneration, taskVars, session>>

NotifyDone(r) == /\ worker[r] \in {"notify", "notify, go"}
                 /\ main' = IF main = "asleep" THEN "await" ELSE main
                 /\ GoTo(r, IF worker[r] = "notify" THEN "look" ELSE "gone")
                 /\ UNCHANGED <<request, outcome, workVars, doneVars, reports, commVars,
                                localGeneration, taskVars, session>>

-----------------------------------------------------------------------------
(* LLMRankRuntime::handleRequest() on one rank.                            *)

AllReduces == {"prefill", "step"}
Broadcasts == {"first sync", "sync"}
Working == AllReduces \cup Broadcasts \cup {"begin", "settle", "finishing"}

(* Only rank 0 keeps the request's stream channels. *)
HasChannel(r) == request.streamed /\ r = Root

Begin(r) ==
  /\ worker[r] = "begin"
  /\ IF request.tooLong
     THEN /\ errors' = [errors EXCEPT ![r] = "too long"]
          /\ GoTo(r, "publish")
     ELSE /\ GoTo(r, "prefill")
          /\ UNCHANGED errors
  /\ UNCHANGED <<callVars, workVars, doneVars, reports, commVars, localGeneration,
                 statuses, session>>

Fail(r) == /\ worker[r] \in Working
           /\ ~session[r].inside
           /\ GoTo(r, "failed")
           /\ UNCHANGED <<callVars, workVars, doneVars, reports, commVars,
                          localGeneration, taskVars, session>>

EnterAllReduce(r) ==
  /\ worker[r] \in AllReduces
  /\ ~session[r].inside
  /\ session' = [session EXCEPT ![r].inside = TRUE, ![r].reduces = @ + 1]
  /\ UNCHANGED <<callVars, workVars, doneVars, reports, commVars, worker,
                 localGeneration, taskVars>>

(* applyCancellationToFinishStates() and synchronizeCancellationStates(). *)
EnterBroadcast(r) ==
  /\ worker[r] \in Broadcasts
  /\ ~session[r].inside
  /\ LET ended == IF HasChannel(r) /\ cancelled /\ session[r].ended = "no"
                  THEN "cancelled" ELSE session[r].ended
     IN  session' = [session EXCEPT ![r].inside = TRUE, ![r].syncs = @ + 1, ![r].ended = ended,
                                    ![r].words = Append(@, ended = "cancelled")]
  /\ UNCHANGED <<callVars, workVars, doneVars, reports, commVars, worker,
                 localGeneration, taskVars>>

(* An all-reduce needs every rank; a broadcast needs its root. *)
Met(r) ==
  IF worker[r] \in AllReduces
  THEN \A q \in Ranks : /\ localGeneration[q] = localGeneration[r]
                        /\ session[q].reduces >= session[r].reduces
  ELSE /\ localGeneration[Root] = localGeneration[r]
       /\ session[Root].syncs >= session[r].syncs

LeaveAllReduce(r) ==
  /\ worker[r] \in AllReduces
  /\ session[r].inside
  /\ Met(r) \/ aborted
  /\ session' = [session EXCEPT ![r].inside = FALSE, ![r].tokens = @ + 1]
  /\ GoTo(r, IF worker[r] = "prefill" /\ request.streamed THEN "first sync" ELSE "settle")
  /\ UNCHANGED <<callVars, workVars, doneVars, reports, commVars, localGeneration, taskVars>>

LeaveBroadcast_Ignored(r) ==
  /\ worker[r] \in Broadcasts
  /\ session[r].inside
  /\ Met(r) \/ aborted
  /\ session' = [session EXCEPT ![r].inside = FALSE]
  /\ GoTo(r, IF worker[r] = "first sync" THEN "settle" ELSE "step")
  /\ UNCHANGED <<callVars, workVars, doneVars, reports, commVars, localGeneration, taskVars>>

LeaveBroadcast(r) ==
  /\ worker[r] \in Broadcasts
  /\ session[r].inside
  /\ Met(r) \/ aborted
  /\ \E word \in BOOLEAN :
       /\ Met(r) => word = session[Root].words[session[r].syncs]
       /\ session' = [session EXCEPT ![r].inside = FALSE,
                                     ![r].ended = IF word /\ @ = "no" THEN "cancelled" ELSE @]
  /\ GoTo(r, IF worker[r] = "first sync" THEN "settle" ELSE "step")
  /\ UNCHANGED <<callVars, workVars, doneVars, reports, commVars, localGeneration, taskVars>>

CollectiveFails(r) == /\ worker[r] \in AllReduces \cup Broadcasts
                      /\ session[r].inside
                      /\ aborted
                      /\ session' = [session EXCEPT ![r].inside = FALSE]
                      /\ GoTo(r, "failed")
                      /\ UNCHANGED <<callVars, workVars, doneVars, reports, commVars,
                                     localGeneration, taskVars>>

(* decodePerSlot(): a slot with a channel waits until its interval is filled; a         *)
(* founding slot without one starts looking at token 0, the prompt's first.             *)
LooksForStops(r) == HasChannel(r) => \/ session[r].ended # "no"
                                     \/ session[r].tokens - session[r].sent >= request.interval
FindsStop(r) == /\ LooksForStops(r)
                /\ \/ request.stop # 0 /\ session[r].tokens >= request.stop
                   \/ request.stopInPrompt /\ ~HasChannel(r)

(* decodePerSlot(), updateFinishStates() and the eviction of a row that ended. *)
Settle(r) ==
  /\ worker[r] = "settle"
  /\ LET s == session[r]
         ended == IF FindsStop(r) /\ s.ended # "cancelled" THEN "stop"
                  ELSE IF s.ended = "no" /\ s.tokens >= request.length THEN "length"
                  ELSE s.ended
     IN  /\ session' = [session EXCEPT ![r].ended = ended,
                                       ![r].sent = IF LooksForStops(r) THEN s.tokens ELSE @]
         /\ GoTo(r, IF ended # "no" THEN "finishing"
                    ELSE IF request.streamed THEN "sync" ELSE "step")
  /\ UNCHANGED <<callVars, workVars, doneVars, reports, commVars, localGeneration, taskVars>>

Finish(r) == /\ worker[r] = "finishing"
             /\ statuses' = [statuses EXCEPT ![r] = 1]
             /\ GoTo(r, "publish")
             /\ UNCHANGED <<callVars, workVars, doneVars, reports, commVars,
                            localGeneration, errors, session>>

-----------------------------------------------------------------------------
(* The calling thread.                                                     *)

Return(answer) == main' = "idle" /\ outcome' = answer /\ request' = NoRequest

(* The end of startWorkers(): the constructor returns, or cleans up and throws. *)
WorkersReported ==
  /\ main = "starting"
  /\ reports = NumRanks
  /\ workMutex = NoThread
  /\ IF workerFailed \/ liveWorkers # NumRanks
     THEN main' = "stop" /\ aborted' = TRUE
     ELSE main' = "idle" /\ UNCHANGED aborted
  /\ UNCHANGED <<request, outcome, workVars, doneVars, reports, cancelled, worker,
                 localGeneration, taskVars, session>>

(* dispatchRequest() up to the work lock: refused, not preparable, or on to the post. *)
Dispatch == /\ main = "idle"
            /\ workGeneration < MaxDispatches
            /\ \/ Return("refused")
               \/ ~workerFailed /\ main' = "post" /\ outcome' = "none" /\ UNCHANGED request
            /\ UNCHANGED <<workVars, doneVars, reports, commVars, worker,
                           localGeneration, taskVars, session>>

PostRefused == /\ main = "post"
               /\ workMutex = NoThread
               /\ workerFailed \/ liveWorkers # NumRanks
               /\ Return("refused")
               /\ UNCHANGED <<workVars, doneVars, reports, commVars, worker,
                              localGeneration, taskVars, session>>

(* prepareRankRequests() throws half-way: some statuses are reset, nothing is announced. *)
PostThrows == /\ main = "post"
              /\ workMutex = NoThread
              /\ ~workerFailed
              /\ liveWorkers = NumRanks
              /\ \E reached \in SUBSET Ranks :
                   statuses' = [r \in Ranks |-> IF r \in reached THEN 0 ELSE statuses[r]]
              /\ Return("failed")
              /\ UNCHANGED <<workVars, doneVars, reports, commVars, worker, localGeneration, errors,
                             session>>

Post_KeepsCount == /\ main = "post"
                   /\ workMutex = NoThread
                   /\ doneMutex = NoThread
                   /\ ~workerFailed
                   /\ liveWorkers = NumRanks
                   /\ request' \in Workload
                   /\ cancelled' = FALSE
                   /\ statuses' = [r \in Ranks |-> 0]
                   /\ errors' = [r \in Ranks |-> "none"]
                   /\ workGeneration' = workGeneration + 1
                   /\ main' = "announce"
                   /\ UNCHANGED <<outcome, workersDone, liveWorkers, workMutex, doneVars, reports,
                                  aborted, worker, localGeneration, session>>

(* The task is written and the generation announced under both mutexes. *)
Post == /\ main = "post"
        /\ workMutex = NoThread
        /\ doneMutex = NoThread
        /\ ~workerFailed
        /\ liveWorkers = NumRanks
        /\ request' \in Workload
        /\ cancelled' = FALSE
        /\ statuses' = [r \in Ranks |-> 0]
        /\ errors' = [r \in Ranks |-> "none"]
        /\ workersFinished' = 0
        /\ workGeneration' = workGeneration + 1
        /\ main' = "announce"
        /\ UNCHANGED <<outcome, workersDone, liveWorkers, workMutex, workerFailed, doneMutex,
                       reports, aborted, worker, localGeneration, session>>

(* mWorkCv.notify_all(), after the work lock. *)
WakeWorkers(next) ==
  /\ worker' = [r \in Ranks |-> IF worker[r] = "asleep" THEN "look" ELSE worker[r]]
  /\ main' = next
  /\ UNCHANGED <<request, outcome, workVars, doneVars, reports, commVars,
                 localGeneration, taskVars, session>>

Announce == main = "announce" /\ WakeWorkers("await")

(* What dispatchRequest() answers, and LLMInferenceRuntime::handleRequest() after it. *)
Answer == CASE workerFailed                                 -> "failed"
            [] ~workerFailed /\ \E r \in Ranks : errors[r] # "none" -> "too long"
            [] OTHER -> IF \A r \in Ranks : statuses[r] = 1 THEN "succeeded" ELSE "failed"

(* The predicate of mDoneCv.wait(); what follows it is read under the same lock. *)
Await == /\ main = "await"
         /\ doneMutex = NoThread
         /\ IF workersFinished >= NumRanks
            THEN Return(Answer) /\ UNCHANGED doneMutex
            ELSE main' = "drowsy" /\ doneMutex' = Caller /\ UNCHANGED <<request, outcome>>
         /\ UNCHANGED <<workVars, workersFinished, workerFailed, reports, commVars,
                        worker, localGeneration, taskVars, session>>

CallerSleeps == /\ main = "drowsy"
                /\ main' = "asleep"
                /\ doneMutex' = NoThread
                /\ UNCHANGED <<request, outcome, workVars, workersFinished, workerFailed, reports,
                               commVars, worker, localGeneration, taskVars, session>>

CallerWakesSpuriously == /\ main = "asleep"
                         /\ main' = "await"
                         /\ UNCHANGED <<request, outcome, workVars, doneVars, reports, commVars,
                                        worker, localGeneration, taskVars, session>>

(* captureDecodingCUDAGraph() and genAndSaveSystemPromptKVCache() run threads of their *)
(* own, joined before the call returns: all they leave here is a failure.              *)
SideCallFails == /\ main = "idle"
                 /\ ~workerFailed
                 /\ doneMutex = NoThread
                 /\ workerFailed' = TRUE
                 /\ aborted' = TRUE
                 /\ UNCHANGED <<callVars, workVars, workersFinished, doneMutex, reports, cancelled,
                                worker, localGeneration, taskVars, session>>

Cancel == /\ main \in {"announce", "await", "drowsy", "asleep"}
          /\ request.streamed
          /\ ~cancelled
          /\ cancelled' = TRUE
          /\ UNCHANGED <<callVars, workVars, doneVars, reports, aborted, worker,
                         localGeneration, taskVars, session>>

(* ~RuntimeCoordinator() and stopWorkers(). *)
Destroy == /\ main = "idle"
           /\ main' = "stop"
           /\ UNCHANGED <<request, outcome, workVars, doneVars, reports, commVars, worker,
                          localGeneration, taskVars, session>>

StopWorkers == /\ main = "stop"
               /\ workMutex = NoThread
               /\ workersDone' = TRUE
               /\ main' = "stopping"
               /\ UNCHANGED <<request, outcome, workGeneration, liveWorkers, workMutex, doneVars,
                              reports, commVars, worker, localGeneration, taskVars, session>>

WakeToStop == main = "stopping" /\ WakeWorkers("join")

Join == /\ main = "join"
        /\ \A r \in Ranks : worker[r] = "gone"
        /\ main' = "closed"
        /\ UNCHANGED <<request, outcome, workVars, doneVars, reports, commVars, worker,
                       localGeneration, taskVars, session>>

-----------------------------------------------------------------------------
(* What a worker, and the caller inside a call, go on doing by themselves. *)
HandleRequest(r) == \/ Begin(r) \/ EnterAllReduce(r) \/ LeaveAllReduce(r) \/ EnterBroadcast(r)
                    \/ LeaveBroadcast(r) \/ CollectiveFails(r) \/ Settle(r) \/ Finish(r)
Worker(r) == \/ Started(r) \/ ReportFailedStart(r) \/ Look(r) \/ Sleep(r) \/ Leave(r)
             \/ HandleRequest(r) \/ RecordFailure(r) \/ AbortCollectives(r) \/ PublishCompletion(r)
             \/ NotifyDone(r)
Call == \/ WorkersReported \/ PostRefused \/ PostThrows \/ Post \/ Announce \/ Await \/ CallerSleeps
        \/ StopWorkers \/ WakeToStop \/ Join

Next == \/ Call \/ Dispatch \/ CallerWakesSpuriously \/ SideCallFails \/ Cancel \/ Destroy
        \/ \E r \in Ranks : \/ Worker(r) \/ DeviceFails(r) \/ SpuriousWake(r) \/ Die(r) \/ Fail(r)

(* Threads are scheduled, and a mutex that is free again and again is obtained. *)
Fairness == SF_vars(Call) /\ \A r \in Ranks : SF_vars(Worker(r))

Spec == Init /\ [][Next]_vars
FairSpec == Spec /\ Fairness

-----------------------------------------------------------------------------
Places == Working \cup
  {"starting", "look", "drowsy", "asleep", "leaving", "gone", "failed at start", "report", "failed",
   "dying", "dying in debt", "abort, report", "abort, publish", "abort, go", "abort, publish, go",
   "publish", "publish, go", "notify", "notify, go"}

TypeOK ==
  /\ main \in {"starting", "idle", "post", "announce", "await", "drowsy", "asleep", "stop",
               "stopping", "join", "closed"}
  /\ request \in Workload \cup {NoRequest}
  /\ outcome \in {"none", "refused", "failed", "too long", "succeeded"}
  /\ workGeneration \in 0 .. MaxDispatches
  /\ liveWorkers \in 0 .. NumRanks
  /\ reports \in 0 .. NumRanks
  /\ workersFinished \in 0 .. NumRanks
  /\ workMutex \in Ranks \cup {NoThread}
  /\ doneMutex \in {Caller, NoThread}
  /\ {workersDone, workerFailed, aborted, cancelled} \subseteq BOOLEAN
  /\ worker \in [Ranks -> Places]
  /\ localGeneration \in [Ranks -> 0 .. MaxDispatches]
  /\ statuses \in [Ranks -> {0, 1}]
  /\ errors \in [Ranks -> {"none", "too long"}]

(* The task buffers are plain vectors that every rank reads and writes without a lock:   *)
(* outside a dispatch no worker is inside a request, so dispatchRequest() never rewrites *)
(* them under a rank, and the caller takes a response nobody still writes.               *)
TaskIsStable == main \notin {"announce", "await", "drowsy", "asleep"} =>
                  \A r \in Ranks : worker[r] \notin Working \cup {"failed"}

(* A dispatch that succeeded was carried out by every rank, in this generation, and the  *)
(* ranks ended the sequence at the same token for the same reason; the counter of        *)
(* finished workers is one number reset for each generation, which any of them raises.   *)
SuccessIsUnanimous ==
  main = "idle" /\ outcome = "succeeded" =>
    \A r \in Ranks : /\ localGeneration[r] = workGeneration
                     /\ session[r].ended # "no"
                     /\ session[r].ended = session[Root].ended
                     /\ session[r].tokens = session[Root].tokens

(* A rank that waits in a collective has not been left there: no peer has ended the      *)
(* sequence for itself and gone without it.                                              *)
RanksStayTogether ==
  \A r, q \in Ranks : session[r].inside /\ ~aborted /\ localGeneration[q] = localGeneration[r]
                         => worker[q] \in Working \cup {"failed", "abort, publish"} \/ Met(r)

(* The constructor, every dispatch and the destructor come back to their caller, with a  *)
(* rank failing at any moment, workers that die, and consumers that cancel.              *)
CallsReturn == main \notin {"idle", "closed"} ~> main \in {"idle", "closed"}
=============================================================================
