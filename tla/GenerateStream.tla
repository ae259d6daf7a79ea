---------------------------- MODULE GenerateStream ----------------------------
(***************************************************************************)
(* One stream of LLM.generate_stream() (experimental/server/runtime/       *)
(* engine.py): a thread that iterates it, a second one that cancels or     *)
(* closes it, and the producer behind its StreamChannel, which is a worker *)
(* thread inside handle_request() or the request engine's actor.  The      *)
(* generator runs on the thread that advances it, or on the one that       *)
(* closes it while it is suspended: gpc is where it is, runner who runs it.*)
(* A step goes from one read or write of what another thread uses to the   *)
(* next; a None of wait_pop() may be its timeout.                          *)
(***************************************************************************)
EXTENDS Naturals, Sequences

CONSTANTS Modes,        \* the deployments and callers to consider, see Mode
          MaxChunks     \* chunks before the terminal one

(* Under a request engine or not; a direct caller or the HTTP layer's prebuilt         *)
(* request, which brings its own admission; with on_metrics or not.                    *)
Mode == [engine : BOOLEAN, direct : BOOLEAN, metrics : BOOLEAN]

ASSUME ModesAssumption == Modes \subseteq Mode /\ MaxChunks \in Nat

None == 0                    \* no chunk
Last == MaxChunks + 1        \* the terminal chunk; the others are numbered

VARIABLES
  mode,
  started, finishedCleanly, cancelledByCaller, hasChannel, hasHandle,   \* state[...]
  reports,                              \* calls of on_metrics
  itClosing, itClosed, advancing,       \* CancellableIterator
  gpc, runner, chunk, sawFinished, exiting, failed,    \* the generator and its locals
  cpc, ret, received,                   \* the iterating thread, what next() returned
  kpc, closeNow,                        \* the thread in cancel() or close()
  crashed,                              \* a running generator was closed
  permit,                               \* _admission_sem, as far as this stream holds it
  prod, pending, sent, mFinished, mCancelled, outcome   \* the producer and its channel

stateVars == <<started, finishedCleanly, cancelledByCaller, hasChannel, hasHandle, reports>>
iterVars == <<itClosing, itClosed, advancing>>
genVars == <<gpc, runner, chunk, sawFinished, exiting, failed>>
callerVars == <<cpc, ret, received>>
closerVars == <<kpc, closeNow, crashed>>
prodVars == <<prod, pending, sent, mFinished, mCancelled, outcome>>
vars == <<mode, stateVars, iterVars, genVars, callerVars, closerVars, permit, prodVars>>

Init == /\ mode \in Modes
        /\ started = FALSE
        /\ finishedCleanly = FALSE
        /\ cancelledByCaller = FALSE
        /\ hasChannel = FALSE
        /\ hasHandle = FALSE
        /\ reports = 0
        /\ itClosing = FALSE
        /\ itClosed = FALSE
        /\ advancing = 0
        /\ gpc = "created"
        /\ runner = "none"
        /\ chunk = None
        /\ sawFinished = FALSE
        /\ exiting = FALSE
        /\ failed = FALSE
        /\ cpc = "idle"
        /\ ret = "none"
        /\ received = <<>>
        /\ kpc = "idle"
        /\ closeNow = FALSE
        /\ crashed = FALSE
        /\ permit = FALSE
        /\ prod = "idle"
        /\ pending = <<>>
        /\ sent = <<>>
        /\ mFinished = FALSE
        /\ mCancelled = FALSE
        /\ outcome = "none"

-----------------------------------------------------------------------------
(* CancellableIterator.__next__().                                         *)

NextEnter ==
  /\ cpc = "idle"
  /\ IF itClosing
     THEN cpc' = "over" /\ ret' = "stop" /\ UNCHANGED <<advancing, gpc, runner>>
     ELSE /\ advancing' = 1
          /\ cpc' = "inside"
          /\ runner' = "caller"
          /\ gpc' = IF gpc = "created" THEN "start" ELSE "resumed"
          /\ UNCHANGED ret
  /\ UNCHANGED <<mode, stateVars, itClosing, itClosed, chunk, sawFinished, exiting, failed,
                 received, closerVars, permit, prodVars>>

(* The last thread to leave closes the generator for a close() that found it running. *)
NextLeave ==
  /\ cpc = "leaving"
  /\ advancing' = 0
  /\ IF itClosing /\ ~itClosed
     THEN itClosed' = TRUE /\ cpc' = "closing"
     ELSE cpc' = "returning" /\ UNCHANGED itClosed
  /\ UNCHANGED <<mode, stateVars, itClosing, genVars, ret, received, closerVars, permit, prodVars>>

NextReturn ==
  /\ cpc = "returning"
  /\ IF ret = "item"
     THEN cpc' = "idle" /\ received' = Append(received, chunk)
     ELSE cpc' = "over" /\ UNCHANGED received
  /\ UNCHANGED <<mode, stateVars, iterVars, genVars, ret, closerVars, permit, prodVars>>

(* generator.close(): GeneratorExit at the yield of a suspended generator, nothing for *)
(* one that has not begun or has ended.                                                *)
GeneratorClose(thread) ==
  IF gpc = "yielded"
  THEN /\ runner' = thread
       /\ gpc' = "finally"
       /\ exiting' = TRUE
  ELSE /\ gpc' = "finished"
       /\ UNCHANGED <<runner, exiting>>

CallerCloses == /\ cpc = "closing"
                /\ GeneratorClose("caller")
                /\ cpc' = IF gpc = "yielded" THEN "inside" ELSE "returning"
                /\ UNCHANGED <<mode, stateVars, iterVars, chunk, sawFinished, failed, ret, received,
                               closerVars, permit, prodVars>>

-----------------------------------------------------------------------------
(* cancel(), close(), or the one and then the other, on a second thread.   *)

closerRest == <<mode, genVars, callerVars, advancing, permit>>

CallCancel == /\ kpc = "idle"
              /\ kpc' = "signal"
              /\ UNCHANGED <<closerRest, stateVars, itClosing, itClosed, closeNow, crashed, prodVars>>

CallClose_Always == /\ kpc \in {"idle", "done"}
                    /\ ~itClosing
                    /\ kpc' = "signal"
                    /\ itClosing' = TRUE
                    /\ closeNow' = ~itClosed
                    /\ itClosed' = TRUE
                    /\ UNCHANGED <<closerRest, stateVars, crashed, prodVars>>

CallClose == /\ kpc \in {"idle", "done"}
             /\ ~itClosing
             /\ kpc' = "signal"
             /\ itClosing' = TRUE
             /\ closeNow' = (advancing = 0 /\ ~itClosed)
             /\ itClosed' = (itClosed \/ advancing = 0)
             /\ UNCHANGED <<closerRest, stateVars, crashed, prodVars>>

(* _cancel(): a no-op after a clean end. *)
Signal == /\ kpc = "signal"
          /\ IF finishedCleanly
             THEN kpc' = "close" /\ UNCHANGED cancelledByCaller
             ELSE kpc' = "handle" /\ cancelledByCaller' = TRUE
          /\ UNCHANGED <<closerRest, started, finishedCleanly, hasChannel, hasHandle, reports,
                         itClosing, itClosed, closeNow, crashed, prodVars>>

(* handle.cancel(), then channel.cancel(): the handle's request streams to the channel. *)
SignalHandle == /\ kpc = "handle"
                /\ mCancelled' = (mCancelled \/ hasHandle)
                /\ kpc' = "channel"
                /\ UNCHANGED <<closerRest, stateVars, itClosing, itClosed, closeNow, crashed, prod,
                               pending, sent, mFinished, outcome>>

SignalChannel == /\ kpc = "channel"
                 /\ mCancelled' = (mCancelled \/ hasChannel)
                 /\ kpc' = "report"
                 /\ UNCHANGED <<closerRest, stateVars, itClosing, itClosed, closeNow, crashed, prod,
                                pending, sent, mFinished, outcome>>

(* report_metrics(): the callback is claimed before it is called. *)
ReportMetrics == reports' = IF mode.metrics THEN 1 ELSE reports

SignalReport == /\ kpc = "report"
                /\ IF started THEN UNCHANGED reports ELSE ReportMetrics
                /\ kpc' = "close"
                /\ UNCHANGED <<closerRest, started, finishedCleanly, cancelledByCaller, hasChannel,
                               hasHandle, itClosing, itClosed, closeNow, crashed, prodVars>>

CloserCloses ==
  /\ kpc = "close"
  /\ IF closeNow
     THEN IF runner = "caller"
          THEN crashed' = TRUE /\ kpc' = "done" /\ UNCHANGED <<gpc, runner, exiting>>
          ELSE /\ GeneratorClose("closer")
               /\ kpc' = IF gpc = "yielded" THEN "inside" ELSE "done"
               /\ UNCHANGED crashed
     ELSE kpc' = "done" /\ UNCHANGED <<gpc, runner, exiting, crashed>>
  /\ UNCHANGED <<mode, stateVars, iterVars, chunk, sawFinished, failed, callerVars, closeNow,
                 permit, prodVars>>

-----------------------------------------------------------------------------
(* _iterate(), up to the producer.                                         *)

HandBack(result) ==
  /\ runner' = "none"
  /\ IF runner = "closer"
     THEN kpc' = "done" /\ UNCHANGED <<cpc, ret>>
     ELSE IF exiting
          THEN cpc' = "returning" /\ UNCHANGED <<ret, kpc>>
          ELSE cpc' = "leaving" /\ ret' = result /\ UNCHANGED kpc

Raise == /\ gpc' = "finished"
         /\ failed' = TRUE
         /\ HandBack("raise")

GoTo(step) == /\ gpc' = step
              /\ UNCHANGED <<runner, failed, callerVars, kpc>>

bodyRest == <<mode, iterVars, received, closeNow, crashed>>
stepRest == <<bodyRest, chunk, sawFinished, exiting>>    \* of a step that takes no chunk

Begin == /\ gpc = "start"
         /\ started' = TRUE
         /\ GoTo("check")
         /\ UNCHANGED <<stepRest, finishedCleanly, cancelledByCaller, hasChannel, hasHandle,
                        reports, permit, prodVars>>

Check == /\ gpc = "check"
         /\ IF cancelledByCaller
            THEN ReportMetrics /\ gpc' = "finished" /\ HandBack("stop") /\ UNCHANGED failed
            ELSE GoTo("channel") /\ UNCHANGED reports
         /\ UNCHANGED <<stepRest, started, finishedCleanly, cancelledByCaller, hasChannel,
                        hasHandle, permit, prodVars>>

(* _ensure_open() may raise, here and once the permit is held. *)
CreateChannel == /\ gpc = "channel"
                 /\ \/ Raise /\ UNCHANGED hasChannel
                    \/ GoTo("build") /\ hasChannel' = TRUE
                 /\ UNCHANGED <<stepRest, started, finishedCleanly, cancelledByCaller, hasHandle,
                                reports, permit, prodVars>>

(* A direct caller acquires the gate, and releases it if the request cannot be built. *)
Build == /\ gpc = "build"
         /\ \/ Raise /\ UNCHANGED permit
            \/ GoTo("submit") /\ permit' = mode.direct
         /\ UNCHANGED <<stepRest, stateVars, prodVars>>

(* submit() may refuse, outside of both try blocks: the permit stays taken. *)
Submit == /\ gpc = "submit"
          /\ \/ mode.engine /\ Raise /\ UNCHANGED prod
             \/ /\ prod' = "queued"
                /\ GoTo(IF mode.engine THEN "handle" ELSE "pop")
          /\ UNCHANGED <<stepRest, stateVars, permit, pending, sent, mFinished, mCancelled, outcome>>

KeepHandle == /\ gpc = "handle"
              /\ hasHandle' = TRUE
              /\ GoTo("recheck")
              /\ UNCHANGED <<stepRest, started, finishedCleanly, cancelledByCaller, hasChannel,
                             reports, permit, prodVars>>

Recheck == /\ gpc = "recheck"
           /\ mCancelled' = (mCancelled \/ cancelledByCaller)
           /\ GoTo("pop")
           /\ UNCHANGED <<stepRest, stateVars, permit, prod, pending, sent, mFinished, outcome>>

-----------------------------------------------------------------------------
(* _iterate()'s loop.  A pop empties nothing but what it returns; None may *)
(* be a timeout, and the producer may go on after it.                      *)

popRest == <<bodyRest, stateVars, sawFinished, exiting, permit, prod, sent, mFinished, mCancelled,
             outcome>>

PopTo(found, none) ==
  IF pending = <<>>
  THEN chunk' = None /\ GoTo(none) /\ UNCHANGED pending
  ELSE chunk' = Head(pending) /\ pending' = Tail(pending) /\ GoTo(found)

WaitPop == gpc = "pop" /\ PopTo("popped", "popped") /\ UNCHANGED popRest

flagRest == <<stepRest, stateVars, permit, prodVars>>

Popped == /\ gpc = "popped"
          /\ GoTo(CASE cancelledByCaller -> "finally"
                     [] ~cancelledByCaller /\ chunk # None -> "deliver"
                     [] OTHER -> "empty")
          /\ UNCHANGED flagRest

Empty == /\ gpc = "empty"
         /\ GoTo(IF mCancelled THEN "finally" ELSE "ready")
         /\ UNCHANGED flagRest

Ready_WithoutTheHandle == /\ gpc = "ready"
                          /\ GoTo(IF mFinished THEN "drain" ELSE "pop")
                          /\ UNCHANGED flagRest

(* A stream nobody finishes ends with its handle. *)
Ready == /\ gpc = "ready"
         /\ GoTo(IF mFinished \/ (hasHandle /\ outcome # "none") THEN "drain" ELSE "pop")
         /\ UNCHANGED flagRest

Drain_Skipped == gpc = "drain" /\ GoTo("finally") /\ UNCHANGED flagRest

(* What was pushed after the pop that timed out. *)
Drain == gpc = "drain" /\ PopTo("deliver", "finally") /\ UNCHANGED popRest

Deliver == /\ gpc = "deliver"
           /\ finishedCleanly' = (finishedCleanly \/ chunk = Last)
           /\ gpc' = "yielded"
           /\ HandBack("item")
           /\ UNCHANGED <<stepRest, failed, started, cancelledByCaller, hasChannel, hasHandle,
                          reports, permit, prodVars>>

Resumed == /\ gpc = "resumed"
           /\ sawFinished' = (chunk = Last)
           /\ GoTo(IF chunk = Last THEN "finally" ELSE "pop")
           /\ UNCHANGED <<bodyRest, chunk, exiting, stateVars, permit, prodVars>>

-----------------------------------------------------------------------------
(* _iterate()'s finally, and what follows it.                              *)

Finally == /\ gpc = "finally"
           /\ GoTo(IF sawFinished \/ mFinished \/ mCancelled THEN "join" ELSE "stop")
           /\ UNCHANGED flagRest

StopProducer_Forgotten == gpc = "stop" /\ GoTo("join") /\ UNCHANGED flagRest

StopProducer == /\ gpc = "stop"
                /\ mCancelled' = TRUE
                /\ GoTo("join")
                /\ UNCHANGED <<stepRest, stateVars, permit, prod, pending, sent, mFinished, outcome>>

(* The worker is joined, and has released the permit; the actor's outcome is waited    *)
(* for only when metrics are to be reported.                                           *)
Join == /\ gpc = "join"
        /\ IF mode.engine
           THEN mode.metrics => outcome # "none"
           ELSE prod = "over"
        /\ gpc' = "report"
        /\ failed' = IF mode.engine
                     THEN mode.metrics /\ outcome # "kCompleted" /\ ~cancelledByCaller
                     ELSE outcome = "kExecutionError"
        /\ permit' = (permit /\ ~mode.engine)
        /\ UNCHANGED <<stepRest, stateVars, runner, callerVars, kpc, prodVars>>

(* The snapshots that are left, and the callback. *)
Report == /\ gpc = "report"
          /\ pending' = <<>>
          /\ ReportMetrics
          /\ IF mode.engine /\ ~mode.metrics /\ ~cancelledByCaller /\ ~exiting
             THEN GoTo("outcome")
             ELSE /\ gpc' = "finished"
                  /\ HandBack(IF failed THEN "raise" ELSE "stop")
                  /\ UNCHANGED failed
          /\ UNCHANGED <<stepRest, started, finishedCleanly, cancelledByCaller, hasChannel,
                         hasHandle, permit, prod, sent, mFinished, mCancelled, outcome>>

(* RequestHandle::get(). *)
Outcome == /\ gpc = "outcome"
           /\ outcome # "none" \/ (mCancelled /\ ~mFinished)
           /\ IF outcome = "kCompleted"
              THEN gpc' = "finished" /\ HandBack("stop") /\ UNCHANGED failed
              ELSE Raise
           /\ UNCHANGED <<stepRest, stateVars, permit, prodVars>>

-----------------------------------------------------------------------------
(* The producer: the runtime pushes, then finishes, then the worker returns*)
(* or the actor publishes the outcome (StreamChannel, terminate()).        *)

producerRest == <<mode, stateVars, iterVars, genVars, callerVars, closerVars>>

Push(item) == pending' = Append(pending, item) /\ sent' = Append(sent, item)

ProdStart == /\ prod = "queued"
             /\ prod' = "generating"
             /\ UNCHANGED <<producerRest, permit, pending, sent, mFinished, mCancelled, outcome>>

ProdChunk == /\ prod = "generating"
             /\ Len(sent) < MaxChunks
             /\ Push(Len(sent) + 1)
             /\ UNCHANGED <<producerRest, permit, prod, mFinished, mCancelled, outcome>>

ProdTerminal == /\ prod = "generating"
                /\ Push(Last)
                /\ prod' = "pushed"
                /\ UNCHANGED <<producerRest, permit, mFinished, mCancelled, outcome>>

ProdFinish == /\ prod = "pushed"
              /\ mFinished' = TRUE
              /\ prod' = "ended"
              /\ UNCHANGED <<producerRest, permit, pending, sent, mCancelled, outcome>>

(* Cancel wins over a natural end.  A request may be rejected or fail before its       *)
(* stream is touched, and one that joins a batch may complete without it.              *)
Verdicts == {"kExecutionError"}
            \cup (IF mode.engine /\ mCancelled THEN {"kCancelled"}
                  ELSE IF prod = "queued" THEN {} ELSE {"kCompleted"})

ProdSettle == /\ \/ prod \in {"queued", "ended"}
                 \/ mode.engine /\ prod = "generating" /\ sent = <<>>
              /\ outcome' \in Verdicts
              /\ prod' = IF outcome' # "kCompleted" THEN "dropping"
                         ELSE IF mode.engine THEN "over" ELSE "leaving"
              /\ UNCHANGED <<producerRest, permit, pending, sent, mFinished, mCancelled>>

ProdDrop == /\ prod = "dropping"
            /\ mCancelled' = TRUE
            /\ prod' = IF mode.engine THEN "over" ELSE "leaving"
            /\ UNCHANGED <<producerRest, permit, pending, sent, mFinished, outcome>>

WorkerLeaves == /\ prod = "leaving"
                /\ permit' = FALSE
                /\ prod' = "over"
                /\ UNCHANGED <<producerRest, pending, sent, mFinished, mCancelled, outcome>>

-----------------------------------------------------------------------------
Caller == NextLeave \/ NextReturn \/ CallerCloses
Closer == Signal \/ SignalHandle \/ SignalChannel \/ SignalReport \/ CloserCloses
Generator == \/ Begin \/ Check \/ CreateChannel \/ Build \/ Submit \/ KeepHandle \/ Recheck
             \/ WaitPop \/ Popped \/ Empty \/ Ready \/ Drain \/ Deliver \/ Resumed
             \/ Finally \/ StopProducer \/ Join \/ Report \/ Outcome
Producer == ProdStart \/ ProdChunk \/ ProdTerminal \/ ProdFinish \/ ProdSettle \/ ProdDrop
            \/ WorkerLeaves

Next == NextEnter \/ Caller \/ CallCancel \/ CallClose \/ Closer \/ Generator \/ Producer

(* Threads are scheduled and a generation ends; nobody has to call next() or cancel(). *)
Fairness == WF_vars(Caller) /\ WF_vars(Closer) /\ WF_vars(Generator) /\ WF_vars(Producer)

Spec == Init /\ [][Next]_vars
FairSpec == Spec /\ Fairness

-----------------------------------------------------------------------------
TypeOK ==
  /\ mode \in Modes
  /\ started \in BOOLEAN /\ finishedCleanly \in BOOLEAN /\ cancelledByCaller \in BOOLEAN
  /\ hasChannel \in BOOLEAN /\ hasHandle \in BOOLEAN
  /\ itClosing \in BOOLEAN /\ itClosed \in BOOLEAN /\ closeNow \in BOOLEAN
  /\ sawFinished \in BOOLEAN /\ exiting \in BOOLEAN /\ failed \in BOOLEAN
  /\ crashed \in BOOLEAN /\ permit \in BOOLEAN
  /\ mFinished \in BOOLEAN /\ mCancelled \in BOOLEAN
  /\ reports \in Nat
  /\ advancing \in {0, 1}
  /\ gpc \in {"created", "start", "check", "channel", "build", "submit", "handle", "recheck",
              "pop", "popped", "empty", "ready", "drain", "deliver", "yielded", "resumed",
              "finally", "stop", "join", "report", "outcome", "finished"}
  /\ runner \in {"none", "caller", "closer"}
  /\ chunk \in None..Last
  /\ cpc \in {"idle", "inside", "leaving", "closing", "returning", "over"}
  /\ ret \in {"none", "item", "stop", "raise"}
  /\ kpc \in {"idle", "signal", "handle", "channel", "report", "close", "inside", "done"}
  /\ prod \in {"idle", "queued", "generating", "pushed", "ended", "dropping", "leaving", "over"}
  /\ outcome \in {"none", "kCompleted", "kCancelled", "kExecutionError"}
  /\ received \in Seq(1..Last) /\ pending \in Seq(1..Last) /\ sent \in Seq(1..Last)

(* An iteration that ends without an exception and that nobody cancelled has delivered *)
(* every chunk pushed, in order, whichever of timeout, finished() and ready() ended it *)
(* (wait_pop() returns None for all three; the loop of generate_stream()).             *)
NothingIsLost == cpc = "over" /\ ret = "stop" /\ ~cancelledByCaller /\ ~itClosing
                   => received = sent

(* Nobody closes a generator another thread is running: CPython may segfault           *)
(* (CancellableIterator: the last thread to leave closes it).                          *)
NeverClosedWhileRunning == ~crashed

(* A generator that has ended leaves no generation behind it that was not told to      *)
(* stop, however cancel() and close() fall between the creation of the channel, the    *)
(* submission and the pops.                                                            *)
AbandonedIsStopped ==
  gpc = "finished" /\ prod \in {"queued", "generating"} => mCancelled

(* Metrics are reported at most once, not before the producer has stopped, and not     *)
(* never once a generation was submitted or a stream cancelled (report_metrics()).     *)
MetricsReportedOnce ==
  /\ reports <= 1
  /\ reports = 1 => prod = "idle" \/ outcome # "none"
  /\ mode.metrics /\ gpc = "finished" /\ kpc \in {"idle", "done"} /\ ~(failed /\ prod = "idle")
       => reports = 1

(* Whoever ends a stream settles it: the generation is over or told to stop, and its   *)
(* metrics went out once, although a consumer, a canceller and a closer may each come  *)
(* to the end first (generate_stream()'s finally block, report_metrics()).             *)
EndIsSettled == AbandonedIsStopped /\ MetricsReportedOnce

(* next() returns, and a stream somebody closes is closed, by the closer or by the     *)
(* last thread to leave: no timeout, lost race or stream nobody finishes keeps either. *)
StreamEnds == /\ cpc = "inside" ~> cpc # "inside"
              /\ itClosing ~> gpc = "finished"

(* test_ifb_stream_takes_and_releases_the_gate: the gate is "released when the stream  *)
(* ends".  Not when submit() refuses the request.                                      *)
GateIsReleased == gpc = "finished" /\ prod \in {"idle", "over"} => ~permit

(* generate_stream(): "a consumer that closes the stream right after the terminal      *)
(* delta must not be taken for a disconnect and cancel a request that completed".      *)
CleanEndIsNotCancelled ==
  received # <<>> /\ received[Len(received)] = Last /\ ~cancelledByCaller
    => outcome # "kCancelled"
=============================================================================
