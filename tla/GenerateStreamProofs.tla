------------------------- MODULE GenerateStreamProofs -------------------------
(***************************************************************************)
(* No generator is closed while it runs, an ended stream leaves nothing    *)
(* behind, and one that ends by itself has handed every chunk on, for any  *)
(* number of chunks and all deployments.                                   *)
(***************************************************************************)
EXTENDS GenerateStream, SequenceTheorems, TLAPS

(* The parts of the generator's way, and the two other threads. *)
Opening == Begin \/ Check \/ CreateChannel \/ Build \/ Submit \/ KeepHandle \/ Recheck
Loop == WaitPop \/ Popped \/ Empty \/ Ready \/ Drain \/ Deliver \/ Resumed
Ending == Finally \/ StopProducer \/ Join \/ Report \/ Outcome
CallerSteps == NextEnter \/ Caller
CloserSteps == CallCancel \/ CallClose \/ Closer

(* The generator is suspended, not begun or over: no thread runs it. *)
AtRest == {"created", "yielded", "finished"}

(* One thread runs the generator, and each knows where it is. *)
OneRunner ==
  /\ runner = "caller" <=> cpc = "inside"
  /\ runner = "closer" <=> kpc = "inside"
  /\ runner = "none" <=> gpc \in AtRest

(* Who closes: the closer only if nobody was advancing, the last to leave otherwise; *)
(* after that nobody enters.                                                         *)
Closing ==
  /\ itClosed => itClosing
  /\ exiting => itClosed
  /\ advancing = 1 <=> cpc = "leaving" \/ (cpc = "inside" /\ ~exiting)
  /\ cpc = "closing" => itClosed
  /\ closeNow => itClosed /\ cpc \in {"idle", "returning", "over"}
  /\ kpc = "inside" => closeNow
  /\ ~crashed

(* Until somebody closes it, a caller outside finds the generator where it left it. *)
Positions ==
  /\ gpc = "created" => cpc \in {"idle", "over"}
  /\ cpc = "idle" /\ ~itClosing => gpc \in {"created", "yielded"}
  /\ cpc \in {"leaving", "returning"} /\ ret = "item" /\ ~itClosing => gpc = "yielded"

Finale == {"finally", "stop", "join", "report", "outcome", "finished"}

(* next() returns a chunk, and nobody pops another one before it does. *)
Chunks ==
  /\ exiting => gpc \in Finale
  /\ runner = "closer" => exiting
  /\ gpc = "deliver" => chunk # None
  /\ cpc \in {"leaving", "closing", "returning"} \/ (cpc = "inside" /\ exiting)
       => (ret = "item" => chunk # None)

BeforeSubmit == {"created", "start", "check", "channel", "build", "submit"}
Unsubmitted == prod = "idle"
Streaming == prod \in {"idle", "queued", "generating"}     \* the terminal chunk is to come
Settled == outcome # "none"

(* The generation begins with the submission and is settled once. *)
Submission ==
  /\ gpc \in BeforeSubmit => Unsubmitted
  /\ gpc \notin BeforeSubmit \cup {"finished"} => ~Unsubmitted
  /\ gpc \in {"created", "start"} => ~started
  /\ gpc \notin {"created", "start", "finished"} => started
  /\ Settled <=> prod \in {"dropping", "leaving", "over"}
  /\ mFinished => prod \in {"ended", "dropping", "leaving", "over"}
  /\ outcome = "kCancelled" => mode.engine
  /\ prod = "dropping" => outcome # "kCompleted"
  /\ ~started => Unsubmitted

(* The terminal chunk is the last, wherever the stream's reader has come. *)
Terminal ==
  /\ Streaming => \A i \in 1..Len(sent) : sent[i] # Last
  /\ \A i \in 1..Len(sent) : sent[i] = Last => i = Len(sent)
  /\ Streaming => \A i \in 1..Len(pending) : pending[i] # Last
  /\ Streaming => chunk # Last /\ ~sawFinished

(* Past its finally block, the generator knows that the producer ends. *)
Stopped ==
  /\ gpc \in {"join", "report", "outcome"} => sawFinished \/ mFinished \/ mCancelled
  /\ gpc = "finished" => Unsubmitted \/ sawFinished \/ mFinished \/ mCancelled

(* The callback is claimed by a canceller before the start, or by the generator's end. *)
Reporting ==
  /\ reports \in {0, 1}
  /\ reports = 1 => /\ mode.metrics
                    /\ \/ gpc \in {"created", "start", "check"} /\ cancelledByCaller
                       \/ gpc = "finished" /\ (Unsubmitted \/ Settled)
  /\ kpc \in {"handle", "channel", "report"} => cancelledByCaller
  /\ finishedCleanly => started
  /\ kpc = "close" /\ ~started /\ mode.metrics => reports = 1
  /\ gpc = "report" /\ (mode.metrics \/ ~mode.engine) => Settled
  /\ gpc = "outcome" => ~mode.metrics
  /\ gpc = "finished" /\ mode.metrics /\ ~(failed /\ Unsubmitted) => reports = 1

-----------------------------------------------------------------------------
(* The chunks of a stream that nobody cancels or closes.                   *)

Undisturbed == ~cancelledByCaller /\ ~itClosing

(* A chunk has been popped and not yet returned. *)
InHand == \/ gpc \in {"popped", "deliver"} /\ chunk # None
          \/ gpc = "yielded" /\ cpc # "idle"
Hand == IF InHand THEN 1 ELSE 0

(* What was pushed has been received, is in hand or is pending, in this order. *)
Accounted ==
  /\ Len(sent) = Len(received) + Hand + Len(pending)
  /\ \A i \in 1..Len(received) : received[i] = sent[i]
  /\ InHand => chunk = sent[Len(received) + 1]
  /\ \A i \in 1..Len(pending) : pending[i] = sent[Len(received) + Hand + i]

Complete == received = sent /\ ~Streaming
Failed == Settled /\ outcome # "kCompleted"

InLoop == {"pop", "popped", "empty", "ready", "drain", "deliver", "yielded", "resumed"}
Reading ==
  Undisturbed =>
    /\ gpc \notin {"outcome", "finished"} => Accounted
    /\ gpc \in BeforeSubmit \cup {"handle", "recheck"} => received = <<>>
    /\ gpc \in BeforeSubmit \cup {"handle", "recheck"} \cup InLoop /\ mCancelled => Failed
    /\ gpc = "yielded" => cpc \in {"leaving", "returning", "idle"}
    /\ gpc = "yielded" /\ cpc # "idle" => ret = "item"
    /\ gpc = "resumed" \/ (gpc = "yielded" /\ cpc = "idle") =>
         received # <<>> /\ received[Len(received)] = chunk
    /\ gpc = "drain" => mFinished \/ Settled
    /\ gpc \in {"finally", "stop", "join", "report", "outcome"} => Complete \/ Failed
    /\ gpc = "report" /\ Failed => failed \/ (mode.engine /\ ~mode.metrics)
    /\ gpc = "outcome" => mode.engine
    /\ cpc \in {"leaving", "returning", "over"} /\ ret = "stop" => Complete

IInv == /\ TypeOK /\ OneRunner /\ Closing /\ Positions /\ Chunks /\ Submission /\ Terminal
        /\ Stopped /\ Reporting /\ Reading

(* The parts of the type invariant. *)
Flags ==
  /\ started \in BOOLEAN /\ finishedCleanly \in BOOLEAN /\ cancelledByCaller \in BOOLEAN
  /\ hasChannel \in BOOLEAN /\ hasHandle \in BOOLEAN
  /\ itClosing \in BOOLEAN /\ itClosed \in BOOLEAN /\ closeNow \in BOOLEAN
  /\ sawFinished \in BOOLEAN /\ exiting \in BOOLEAN /\ failed \in BOOLEAN
  /\ crashed \in BOOLEAN /\ permit \in BOOLEAN
  /\ mFinished \in BOOLEAN /\ mCancelled \in BOOLEAN
Controls ==
  /\ gpc \in {"created", "start", "check", "channel", "build", "submit", "handle", "recheck",
              "pop", "popped", "empty", "ready", "drain", "deliver", "yielded", "resumed",
              "finally", "stop", "join", "report", "outcome", "finished"}
  /\ runner \in {"none", "caller", "closer"}
  /\ cpc \in {"idle", "inside", "leaving", "closing", "returning", "over"}
  /\ ret \in {"none", "item", "stop", "raise"}
  /\ kpc \in {"idle", "signal", "handle", "channel", "report", "close", "inside", "done"}
  /\ prod \in {"idle", "queued", "generating", "pushed", "ended", "dropping", "leaving", "over"}
  /\ outcome \in {"none", "kCompleted", "kCancelled", "kExecutionError"}
Values ==
  /\ mode \in Modes /\ reports \in Nat /\ advancing \in {0, 1} /\ chunk \in None..Last
  /\ received \in Seq(1..Last) /\ pending \in Seq(1..Last) /\ sent \in Seq(1..Last)

-----------------------------------------------------------------------------
(* Steps and their pieces.                                                 *)

(* The steps by the thread that takes them. *)
LEMMA StepsAreGrouped ==
  Next => CallerSteps \/ CloserSteps \/ Opening \/ Loop \/ Ending \/ Producer
BY DEF Next, Generator, CallerSteps, CloserSteps, Opening, Loop, Ending

(* The type invariant in three parts. *)
LEMMA TypeParts == TypeOK <=> Flags /\ Controls /\ Values
BY DEF TypeOK, Flags, Controls, Values

(* close() reaches a generator that no thread runs. *)
LEMMA ClosedAtRest ==
  ASSUME IInv
  PROVE  /\ cpc = "closing" => gpc \in {"yielded", "finished"} /\ runner = "none"
         /\ kpc = "close" /\ closeNow => gpc \in AtRest /\ runner = "none"
BY TypeParts DEF IInv, Controls, OneRunner, Closing, Positions, AtRest

(* A pop takes the oldest chunk, or finds none. *)
LEMMA PopTakesOldest ==
  ASSUME Values, NEW found, NEW none, PopTo(found, none)
  PROVE  /\ pending = <<>> => gpc' = none /\ chunk' = None /\ pending' = pending
         /\ pending # <<>> => /\ gpc' = found /\ chunk' = pending[1] /\ chunk' \in 1..Last
                             /\ pending' \in Seq(1..Last) /\ Len(pending) \in Nat \ {0}
                             /\ Len(pending') = Len(pending) - 1
                             /\ \A i \in 1..Len(pending') : pending'[i] = pending[i + 1]
         /\ UNCHANGED <<runner, failed, callerVars, kpc>>
<1>1. CASE pending = <<>>
  BY <1>1 DEF PopTo, GoTo
<1>2. CASE pending # <<>>
  <2>1. /\ pending \in Seq(1..Last) /\ chunk' = Head(pending) /\ pending' = Tail(pending)
        /\ gpc' = found /\ UNCHANGED <<runner, failed, callerVars, kpc>>
    BY <1>2 DEF PopTo, GoTo, Values
  <2>2. Len(pending) \in Nat \ {0} /\ Head(pending) = pending[1] /\ Head(pending) \in 1..Last
    <3>1. Len(pending) \in Nat \ {0}
      BY <1>2, <2>1, EmptySeq
    <3>2. Head(pending) \in 1..Last
      BY <1>2, <2>1, HeadTailProperties
    <3> QED
      BY <2>1, <3>1, <3>2
  <2> QED
    BY <1>2, <2>1, <2>2, HeadTailProperties
<1> QED
  BY <1>1, <1>2

(* A chunk joins the ones sent and the ones pending. *)
LEMMA PushAddsLast ==
  ASSUME Values, NEW item \in 1..Last, Push(item)
  PROVE  /\ sent' \in Seq(1..Last) /\ Len(sent) \in Nat /\ Len(sent') = Len(sent) + 1
         /\ sent'[Len(sent) + 1] = item /\ \A i \in 1..Len(sent) : sent'[i] = sent[i]
         /\ pending' \in Seq(1..Last) /\ Len(pending) \in Nat /\ Len(pending') = Len(pending) + 1
         /\ pending'[Len(pending) + 1] = item /\ \A i \in 1..Len(pending) : pending'[i] = pending[i]
<1>1. sent \in Seq(1..Last) /\ pending \in Seq(1..Last)
  BY DEF Values
<1> QED
  BY <1>1, AppendProperties, LenProperties DEF Push

(* The terminal chunk is none of the numbered ones, and a chunk at all. *)
LEMMA NumberedChunks ==
  /\ Last \in Nat /\ Last \in 1..Last /\ None = 0
  /\ \A n \in Nat : n < MaxChunks => n + 1 \in 1..Last /\ n + 1 # Last
BY ModesAssumption DEF Last, None

-----------------------------------------------------------------------------
(* Types.                                                                  *)

(* Every step keeps the flags Boolean, *)
LEMMA FlagsKept ==
  ASSUME IInv, Next
  PROVE  Flags'
<1> USE DEF stateVars, iterVars, genVars, callerVars, closerVars, prodVars, bodyRest, stepRest
<1>0. Flags /\ Controls /\ Values
  BY TypeParts DEF IInv
<1>1. CASE CallerSteps
  <2>1. CASE NextEnter
    BY <1>0, <2>1 DEF Flags, NextEnter
  <2>2. CASE NextLeave
    <3>1. itClosed' \in BOOLEAN
      BY <1>0, <2>2 DEF Flags, NextLeave
    <3>2. UNCHANGED <<started, finishedCleanly, cancelledByCaller, hasChannel, hasHandle,
       itClosing, closeNow, sawFinished, exiting, failed, crashed, permit, mFinished,
       mCancelled>>
      BY <2>2 DEF NextLeave
    <3> QED
      BY <1>0, <3>1, <3>2 DEF Flags
  <2>3. CASE NextReturn
    BY <1>0, <2>3 DEF Flags, NextReturn
  <2>4. CASE CallerCloses
    <3>1. exiting' \in BOOLEAN
      BY <1>0, <2>4 DEF Flags, CallerCloses, GeneratorClose
    <3>2. UNCHANGED <<started, finishedCleanly, cancelledByCaller, hasChannel, hasHandle,
       itClosing, itClosed, closeNow, sawFinished, failed, crashed, permit, mFinished,
       mCancelled>>
      BY <2>4 DEF CallerCloses, GeneratorClose
    <3> QED
      BY <1>0, <3>1, <3>2 DEF Flags
  <2> QED
    BY <1>1, <2>1, <2>2, <2>3, <2>4 DEF CallerSteps, Caller
<1>2. CASE CloserSteps
  <2>1. CASE CallCancel
    BY <1>0, <2>1 DEF Flags, CallCancel, closerRest
  <2>2. CASE CallClose
    <3>1. itClosing' \in BOOLEAN /\ itClosed' \in BOOLEAN /\ closeNow' \in BOOLEAN
      BY <1>0, <2>2 DEF Flags, CallClose
    <3>2. UNCHANGED <<started, finishedCleanly, cancelledByCaller, hasChannel, hasHandle,
       sawFinished, exiting, failed, crashed, permit, mFinished, mCancelled>>
      BY <2>2 DEF CallClose, closerRest
    <3> QED
      BY <1>0, <3>1, <3>2 DEF Flags
  <2>3. CASE Signal
    <3>1. cancelledByCaller' \in BOOLEAN
      BY <1>0, <2>3 DEF Flags, Signal
    <3>2. UNCHANGED <<started, finishedCleanly, hasChannel, hasHandle, itClosing, itClosed,
       closeNow, sawFinished, exiting, failed, crashed, permit, mFinished, mCancelled>>
      BY <2>3 DEF Signal, closerRest
    <3> QED
      BY <1>0, <3>1, <3>2 DEF Flags
  <2>4. CASE SignalHandle
    <3>1. mCancelled' \in BOOLEAN
      BY <1>0, <2>4 DEF Flags, SignalHandle
    <3>2. UNCHANGED <<started, finishedCleanly, cancelledByCaller, hasChannel, hasHandle,
       itClosing, itClosed, closeNow, sawFinished, exiting, failed, crashed, permit,
       mFinished>>
      BY <2>4 DEF SignalHandle, closerRest
    <3> QED
      BY <1>0, <3>1, <3>2 DEF Flags
  <2>5. CASE SignalChannel
    <3>1. mCancelled' \in BOOLEAN
      BY <1>0, <2>5 DEF Flags, SignalChannel
    <3>2. UNCHANGED <<started, finishedCleanly, cancelledByCaller, hasChannel, hasHandle,
       itClosing, itClosed, closeNow, sawFinished, exiting, failed, crashed, permit,
       mFinished>>
      BY <2>5 DEF SignalChannel, closerRest
    <3> QED
      BY <1>0, <3>1, <3>2 DEF Flags
  <2>6. CASE SignalReport
    BY <1>0, <2>6 DEF Flags, SignalReport, closerRest
  <2>7. CASE CloserCloses
    <3>1. exiting' \in BOOLEAN /\ crashed' \in BOOLEAN
      BY <1>0, <2>7 DEF Flags, CloserCloses, GeneratorClose
    <3>2. UNCHANGED <<started, finishedCleanly, cancelledByCaller, hasChannel, hasHandle,
       itClosing, itClosed, closeNow, sawFinished, failed, permit, mFinished, mCancelled>>
      BY <2>7 DEF CloserCloses, GeneratorClose
    <3> QED
      BY <1>0, <3>1, <3>2 DEF Flags
  <2> QED
    BY <1>2, <2>1, <2>2, <2>3, <2>4, <2>5, <2>6, <2>7 DEF CloserSteps, Closer
<1>3. CASE Opening
  <2>1. CASE Begin
    BY <1>0, <2>1 DEF Flags, Begin, GoTo
  <2>2. CASE Check
    BY <1>0, <2>2 DEF Flags, Check, GoTo, HandBack
  <2>3. CASE CreateChannel
    <3>1. failed' \in BOOLEAN /\ hasChannel' \in BOOLEAN
      BY <1>0, <2>3 DEF Flags, CreateChannel, Raise, GoTo
    <3>2. UNCHANGED <<started, finishedCleanly, cancelledByCaller, hasHandle, itClosing,
       itClosed, closeNow, sawFinished, exiting, crashed, permit, mFinished, mCancelled>>
      BY <2>3 DEF CreateChannel, Raise, GoTo
    <3> QED
      BY <1>0, <3>1, <3>2 DEF Flags
  <2>4. CASE Build
    <3>1. failed' \in BOOLEAN /\ permit' \in BOOLEAN
      BY <1>0, <2>4, ModesAssumption DEF Flags, Values, Mode, Build, Raise, GoTo
    <3>2. UNCHANGED <<started, finishedCleanly, cancelledByCaller, hasChannel, hasHandle,
       itClosing, itClosed, closeNow, sawFinished, exiting, crashed, mFinished, mCancelled>>
      BY <2>4 DEF Build, Raise, GoTo
    <3> QED
      BY <1>0, <3>1, <3>2 DEF Flags
  <2>5. CASE Submit
    <3>1. failed' \in BOOLEAN
      BY <1>0, <2>5 DEF Flags, Submit, Raise, GoTo
    <3>2. UNCHANGED <<started, finishedCleanly, cancelledByCaller, hasChannel, hasHandle,
       itClosing, itClosed, closeNow, sawFinished, exiting, crashed, permit, mFinished,
       mCancelled>>
      BY <2>5 DEF Submit, Raise, GoTo
    <3> QED
      BY <1>0, <3>1, <3>2 DEF Flags
  <2>6. CASE KeepHandle
    BY <1>0, <2>6 DEF Flags, KeepHandle, GoTo
  <2>7. CASE Recheck
    BY <1>0, <2>7 DEF Flags, Recheck, GoTo
  <2> QED
    BY <1>3, <2>1, <2>2, <2>3, <2>4, <2>5, <2>6, <2>7 DEF Opening
<1>4. CASE Loop
  <2>1. CASE WaitPop
    BY <1>0, <2>1 DEF Flags, WaitPop, PopTo, GoTo, popRest
  <2>2. CASE Popped
    BY <1>0, <2>2 DEF Flags, Popped, GoTo, flagRest
  <2>3. CASE Empty
    BY <1>0, <2>3 DEF Flags, Empty, GoTo, flagRest
  <2>4. CASE Ready
    BY <1>0, <2>4 DEF Flags, Ready, GoTo, flagRest
  <2>5. CASE Drain
    BY <1>0, <2>5 DEF Flags, Drain, PopTo, GoTo, popRest
  <2>6. CASE Deliver
    BY <1>0, <2>6 DEF Flags, Deliver, HandBack
  <2>7. CASE Resumed
    BY <1>0, <2>7 DEF Flags, Resumed, GoTo
  <2> QED
    BY <1>4, <2>1, <2>2, <2>3, <2>4, <2>5, <2>6, <2>7 DEF Loop
<1>5. CASE Ending
  <2>1. CASE Finally
    BY <1>0, <2>1 DEF Flags, Finally, GoTo, flagRest
  <2>2. CASE StopProducer
    BY <1>0, <2>2 DEF Flags, StopProducer, GoTo
  <2>3. CASE Join
    <3>1. failed' \in BOOLEAN /\ permit' \in BOOLEAN
      BY <1>0, <2>3, ModesAssumption DEF Flags, Values, Mode, Join
    <3>2. UNCHANGED <<started, finishedCleanly, cancelledByCaller, hasChannel, hasHandle,
       itClosing, itClosed, closeNow, sawFinished, exiting, crashed, mFinished, mCancelled>>
      BY <2>3 DEF Join
    <3> QED
      BY <1>0, <3>1, <3>2 DEF Flags
  <2>4. CASE Report
    <3>1. failed' \in BOOLEAN
      BY <1>0, <2>4 DEF Flags, Report, GoTo
    <3>2. UNCHANGED <<started, finishedCleanly, cancelledByCaller, hasChannel, hasHandle,
       itClosing, itClosed, closeNow, sawFinished, exiting, crashed, permit, mFinished,
       mCancelled>>
      BY <2>4 DEF Report, GoTo
    <3> QED
      BY <1>0, <3>1, <3>2 DEF Flags
  <2>5. CASE Outcome
    <3>1. failed' \in BOOLEAN
      BY <1>0, <2>5 DEF Flags, Outcome, Raise
    <3>2. UNCHANGED <<started, finishedCleanly, cancelledByCaller, hasChannel, hasHandle,
       itClosing, itClosed, closeNow, sawFinished, exiting, crashed, permit, mFinished,
       mCancelled>>
      BY <2>5 DEF Outcome, Raise
    <3> QED
      BY <1>0, <3>1, <3>2 DEF Flags
  <2> QED
    BY <1>5, <2>1, <2>2, <2>3, <2>4, <2>5 DEF Ending
<1>6. CASE Producer
  <2>1. CASE ProdStart
    BY <1>0, <2>1 DEF Flags, ProdStart, producerRest
  <2>2. CASE ProdChunk
    BY <1>0, <2>2 DEF Flags, ProdChunk, producerRest
  <2>3. CASE ProdTerminal
    BY <1>0, <2>3 DEF Flags, ProdTerminal, producerRest
  <2>4. CASE ProdFinish
    BY <1>0, <2>4 DEF Flags, ProdFinish, producerRest
  <2>5. CASE ProdSettle
    BY <1>0, <2>5 DEF Flags, ProdSettle, Verdicts, producerRest
  <2>6. CASE ProdDrop
    BY <1>0, <2>6 DEF Flags, ProdDrop, producerRest
  <2>7. CASE WorkerLeaves
    <3>1. permit' \in BOOLEAN
      BY <1>0, <2>7 DEF Flags, WorkerLeaves
    <3>2. UNCHANGED <<started, finishedCleanly, cancelledByCaller, hasChannel, hasHandle,
       itClosing, itClosed, closeNow, sawFinished, exiting, failed, crashed, mFinished,
       mCancelled>>
      BY <2>7 DEF WorkerLeaves, producerRest
    <3> QED
      BY <1>0, <3>1, <3>2 DEF Flags
  <2> QED
    BY <1>6, <2>1, <2>2, <2>3, <2>4, <2>5, <2>6, <2>7 DEF Producer
<1> QED
  BY <1>1, <1>2, <1>3, <1>4, <1>5, <1>6, StepsAreGrouped

(* every thread at one of its places, *)
LEMMA ControlsKept ==
  ASSUME IInv, Next
  PROVE  Controls'
<1> USE DEF stateVars, iterVars, genVars, callerVars, closerVars, prodVars, bodyRest, stepRest
<1>0. Flags /\ Controls /\ Values
  BY TypeParts DEF IInv
<1>1. CASE CallerSteps
  <2>1. CASE NextEnter
    BY <1>0, <2>1 DEF Controls, NextEnter
  <2>2. CASE NextLeave
    BY <1>0, <2>2 DEF Controls, NextLeave
  <2>3. CASE NextReturn
    BY <1>0, <2>3 DEF Controls, NextReturn
  <2>4. CASE CallerCloses
    BY <1>0, <2>4 DEF Controls, CallerCloses, GeneratorClose
  <2> QED
    BY <1>1, <2>1, <2>2, <2>3, <2>4 DEF CallerSteps, Caller
<1>2. CASE CloserSteps
  <2>1. CASE CallCancel
    BY <1>0, <2>1 DEF Controls, CallCancel, closerRest
  <2>2. CASE CallClose
    BY <1>0, <2>2 DEF Controls, CallClose, closerRest
  <2>3. CASE Signal
    BY <1>0, <2>3 DEF Controls, Signal, closerRest
  <2>4. CASE SignalHandle
    BY <1>0, <2>4 DEF Controls, SignalHandle, closerRest
  <2>5. CASE SignalChannel
    BY <1>0, <2>5 DEF Controls, SignalChannel, closerRest
  <2>6. CASE SignalReport
    BY <1>0, <2>6 DEF Controls, SignalReport, closerRest
  <2>7. CASE CloserCloses
    BY <1>0, <2>7 DEF Controls, CloserCloses, GeneratorClose
  <2> QED
    BY <1>2, <2>1, <2>2, <2>3, <2>4, <2>5, <2>6, <2>7 DEF CloserSteps, Closer
<1>3. CASE Opening
  <2>1. CASE Begin
    BY <1>0, <2>1 DEF Controls, Begin, GoTo
  <2>2. CASE Check
    BY <1>0, <2>2 DEF Controls, Check, GoTo, HandBack
  <2>3. CASE CreateChannel
    BY <1>0, <2>3 DEF Controls, CreateChannel, Raise, GoTo, HandBack
  <2>4. CASE Build
    BY <1>0, <2>4 DEF Controls, Build, Raise, GoTo, HandBack
  <2>5. CASE Submit
    BY <1>0, <2>5 DEF Controls, Submit, Raise, GoTo, HandBack
  <2>6. CASE KeepHandle
    BY <1>0, <2>6 DEF Controls, KeepHandle, GoTo
  <2>7. CASE Recheck
    BY <1>0, <2>7 DEF Controls, Recheck, GoTo
  <2> QED
    BY <1>3, <2>1, <2>2, <2>3, <2>4, <2>5, <2>6, <2>7 DEF Opening
<1>4. CASE Loop
  <2>1. CASE WaitPop
    BY <1>0, <2>1 DEF Controls, WaitPop, PopTo, GoTo, popRest
  <2>2. CASE Popped
    BY <1>0, <2>2 DEF Controls, Popped, GoTo, flagRest
  <2>3. CASE Empty
    BY <1>0, <2>3 DEF Controls, Empty, GoTo, flagRest
  <2>4. CASE Ready
    BY <1>0, <2>4 DEF Controls, Ready, GoTo, flagRest
  <2>5. CASE Drain
    BY <1>0, <2>5 DEF Controls, Drain, PopTo, GoTo, popRest
  <2>6. CASE Deliver
    BY <1>0, <2>6 DEF Controls, Deliver, HandBack
  <2>7. CASE Resumed
    BY <1>0, <2>7 DEF Controls, Resumed, GoTo
  <2> QED
    BY <1>4, <2>1, <2>2, <2>3, <2>4, <2>5, <2>6, <2>7 DEF Loop
<1>5. CASE Ending
  <2>1. CASE Finally
    BY <1>0, <2>1 DEF Controls, Finally, GoTo, flagRest
  <2>2. CASE StopProducer
    BY <1>0, <2>2 DEF Controls, StopProducer, GoTo
  <2>3. CASE Join
    BY <1>0, <2>3 DEF Controls, Join
  <2>4. CASE Report
    BY <1>0, <2>4 DEF Controls, Report, GoTo, HandBack
  <2>5. CASE Outcome
    BY <1>0, <2>5 DEF Controls, Outcome, Raise, HandBack
  <2> QED
    BY <1>5, <2>1, <2>2, <2>3, <2>4, <2>5 DEF Ending
<1>6. CASE Producer
  <2>1. CASE ProdStart
    BY <1>0, <2>1 DEF Controls, ProdStart, producerRest
  <2>2. CASE ProdChunk
    BY <1>0, <2>2 DEF Controls, ProdChunk, producerRest
  <2>3. CASE ProdTerminal
    BY <1>0, <2>3 DEF Controls, ProdTerminal, producerRest
  <2>4. CASE ProdFinish
    BY <1>0, <2>4 DEF Controls, ProdFinish, producerRest
  <2>5. CASE ProdSettle
    BY <1>0, <2>5 DEF Controls, ProdSettle, Verdicts, producerRest
  <2>6. CASE ProdDrop
    BY <1>0, <2>6 DEF Controls, ProdDrop, producerRest
  <2>7. CASE WorkerLeaves
    BY <1>0, <2>7 DEF Controls, WorkerLeaves, producerRest
  <2> QED
    BY <1>6, <2>1, <2>2, <2>3, <2>4, <2>5, <2>6, <2>7 DEF Producer
<1> QED
  BY <1>1, <1>2, <1>3, <1>4, <1>5, <1>6, StepsAreGrouped

(* and the channel a line of chunks. *)
LEMMA ValuesKept ==
  ASSUME IInv, Next
  PROVE  Values'
<1> USE DEF IInv, TypeOK, Values, stateVars, iterVars, genVars, callerVars, closerVars,
   prodVars, bodyRest, stepRest
<1>1. CASE CallerSteps
  <2>1. CASE NextEnter \/ NextLeave \/ CallerCloses
    BY <2>1 DEF NextEnter, NextLeave, CallerCloses, GeneratorClose
  <2>2. CASE NextReturn
    <3>1. ret = "item" => chunk \in 1..Last
      BY <2>2, NumberedChunks DEF Chunks, NextReturn
    <3>2. received' \in Seq(1..Last)
      <4>1. received \in Seq(1..Last)
        OBVIOUS
      <4>2. ret = "item" => Append(received, chunk) \in Seq(1..Last)
        BY <3>1, <4>1, AppendProperties
      <4>3. received' = received \/ (ret = "item" /\ received' = Append(received, chunk))
        BY <2>2 DEF NextReturn
      <4> QED
        BY <4>1, <4>2, <4>3
    <3> QED
      BY <2>2, <3>2 DEF NextReturn
  <2> QED
    BY <1>1, <2>1, <2>2 DEF CallerSteps, Caller
<1>2. CASE CloserSteps
  BY <1>2 DEF CloserSteps, Closer, CallCancel, closerRest, CallClose, Signal, SignalHandle,
     SignalChannel, SignalReport, ReportMetrics, CloserCloses, GeneratorClose
<1>3. CASE Opening
  BY <1>3 DEF Opening, Begin, GoTo, Check, ReportMetrics, CreateChannel, Raise, Build,
     Submit, KeepHandle, Recheck
<1>4. CASE Loop
  <2>1. CASE Popped \/ Empty \/ Ready \/ Deliver \/ Resumed
    BY <2>1 DEF Popped, GoTo, flagRest, Empty, Ready, Deliver, Resumed
  <2>2. CASE WaitPop
    <3>1. chunk' \in None..Last /\ pending' \in Seq(1..Last)
      BY <2>2, PopTakesOldest, NumberedChunks DEF WaitPop
    <3> QED
      BY <2>2, <3>1 DEF WaitPop, popRest
  <2>3. CASE Drain
    <3>1. chunk' \in None..Last /\ pending' \in Seq(1..Last)
      BY <2>3, PopTakesOldest, NumberedChunks DEF Drain
    <3> QED
      BY <2>3, <3>1 DEF Drain, popRest
  <2> QED
    BY <1>4, <2>1, <2>2, <2>3 DEF Loop
<1>5. CASE Ending
  <2>1. CASE Finally \/ StopProducer \/ Join \/ Outcome
    BY <2>1 DEF Finally, GoTo, flagRest, StopProducer, Join, Outcome, Raise
  <2>2. CASE Report
    <3>1. pending' \in Seq(1..Last) /\ reports' \in Nat
      BY <2>2 DEF Report, ReportMetrics
    <3> QED
      BY <2>2, <3>1 DEF Report, GoTo
  <2> QED
    BY <1>5, <2>1, <2>2 DEF Ending
<1>6. CASE Producer
  <2>1. CASE ProdStart \/ ProdFinish \/ ProdSettle \/ ProdDrop \/ WorkerLeaves
    BY <2>1 DEF ProdStart, producerRest, ProdFinish, ProdSettle, ProdDrop, WorkerLeaves
  <2>2. CASE ProdChunk
    <3>1. Len(sent) + 1 \in 1..Last
      BY <2>2, NumberedChunks, LenProperties DEF ProdChunk
    <3>2. sent' \in Seq(1..Last) /\ pending' \in Seq(1..Last)
      BY <2>2, <3>1, PushAddsLast DEF ProdChunk
    <3> QED
      BY <2>2, <3>2 DEF ProdChunk, producerRest
  <2>3. CASE ProdTerminal
    <3>1. sent' \in Seq(1..Last) /\ pending' \in Seq(1..Last)
      BY <2>3, NumberedChunks, PushAddsLast DEF ProdTerminal
    <3> QED
      BY <2>3, <3>1 DEF ProdTerminal, producerRest
  <2> QED
    BY <1>6, <2>1, <2>2, <2>3 DEF Producer
<1> QED
  BY <1>1, <1>2, <1>3, <1>4, <1>5, <1>6, StepsAreGrouped

-----------------------------------------------------------------------------
(* The threads.                                                            *)

(* No step lets a second thread run the generator. *)
LEMMA OneRunnerKept ==
  ASSUME IInv, Next
  PROVE  OneRunner'
<1> USE DEF IInv, TypeOK, OneRunner, AtRest, Closing, stateVars, iterVars, genVars,
   callerVars, closerVars, prodVars, bodyRest, stepRest
<1>1. CASE CallerSteps
  <2>1. CASE NextEnter
    BY <2>1 DEF NextEnter
  <2>2. CASE NextLeave
    BY <2>2 DEF NextLeave
  <2>3. CASE NextReturn
    BY <2>3 DEF NextReturn
  <2>4. CASE CallerCloses
    BY <2>4 DEF CallerCloses, GeneratorClose
  <2> QED
    BY <1>1, <2>1, <2>2, <2>3, <2>4 DEF CallerSteps, Caller
<1>2. CASE CloserSteps
  <2>1. CASE CallCancel
    BY <2>1 DEF CallCancel, closerRest
  <2>2. CASE CallClose
    BY <2>2 DEF CallClose, closerRest
  <2>3. CASE Signal
    BY <2>3 DEF Signal, closerRest
  <2>4. CASE SignalHandle
    BY <2>4 DEF SignalHandle, closerRest
  <2>5. CASE SignalChannel
    BY <2>5 DEF SignalChannel, closerRest
  <2>6. CASE SignalReport
    BY <2>6 DEF SignalReport, closerRest, ReportMetrics
  <2>7. CASE CloserCloses
    BY <2>7 DEF CloserCloses, GeneratorClose
  <2> QED
    BY <1>2, <2>1, <2>2, <2>3, <2>4, <2>5, <2>6, <2>7 DEF CloserSteps, Closer
<1>3. CASE Opening
  BY <1>3 DEF Opening, Begin, GoTo, Check, ReportMetrics, HandBack, CreateChannel, Raise,
     Build, Submit, KeepHandle, Recheck
<1>4. CASE Loop
  BY <1>4 DEF Loop, WaitPop, PopTo, GoTo, popRest, Popped, flagRest, Empty, Ready, Drain,
     Deliver, HandBack, Resumed
<1>5. CASE Ending
  BY <1>5 DEF Ending, Finally, GoTo, flagRest, StopProducer, Join, Report, ReportMetrics,
     HandBack, Outcome, Raise
<1>6. CASE Producer
  BY <1>6 DEF Producer, ProdStart, producerRest, ProdChunk, Push, ProdTerminal, ProdFinish,
     ProdSettle, Verdicts, ProdDrop, WorkerLeaves
<1> QED
  BY <1>1, <1>2, <1>3, <1>4, <1>5, <1>6, StepsAreGrouped

(* close() leaves a running generator to the thread that runs it. *)
LEMMA ClosingKept ==
  ASSUME IInv, Next
  PROVE  Closing'
<1> USE DEF IInv, TypeOK, OneRunner, AtRest, Closing, stateVars, iterVars, genVars,
   callerVars, closerVars, prodVars, bodyRest, stepRest
<1>1. CASE CallerSteps
  BY <1>1 DEF CallerSteps, Caller, NextEnter, NextLeave, NextReturn, CallerCloses,
     GeneratorClose
<1>2. CASE CloserSteps
  <2>1. CASE CallCancel
    BY <2>1 DEF CallCancel, closerRest
  <2>2. CASE CallClose
    BY <2>2 DEF CallClose, closerRest
  <2>3. CASE Signal
    BY <2>3 DEF Signal, closerRest
  <2>4. CASE SignalHandle
    BY <2>4 DEF SignalHandle, closerRest
  <2>5. CASE SignalChannel
    BY <2>5 DEF SignalChannel, closerRest
  <2>6. CASE SignalReport
    BY <2>6 DEF SignalReport, closerRest, ReportMetrics
  <2>7. CASE CloserCloses
    BY <2>7 DEF CloserCloses, GeneratorClose
  <2> QED
    BY <1>2, <2>1, <2>2, <2>3, <2>4, <2>5, <2>6, <2>7 DEF CloserSteps, Closer
<1>3. CASE Opening
  <2>1. CASE Begin
    BY <2>1 DEF Begin, GoTo
  <2>2. CASE Check
    BY <2>2 DEF Check, ReportMetrics, HandBack, GoTo
  <2>3. CASE CreateChannel
    BY <2>3 DEF CreateChannel, Raise, HandBack, GoTo
  <2>4. CASE Build
    BY <2>4 DEF Build, Raise, HandBack, GoTo
  <2>5. CASE Submit
    BY <2>5 DEF Submit, Raise, HandBack, GoTo
  <2>6. CASE KeepHandle
    BY <2>6 DEF KeepHandle, GoTo
  <2>7. CASE Recheck
    BY <2>7 DEF Recheck, GoTo
  <2> QED
    BY <1>3, <2>1, <2>2, <2>3, <2>4, <2>5, <2>6, <2>7 DEF Opening
<1>4. CASE Loop
  <2>1. CASE WaitPop
    BY <2>1 DEF WaitPop, PopTo, GoTo, popRest
  <2>2. CASE Popped
    BY <2>2 DEF Popped, GoTo, flagRest
  <2>3. CASE Empty
    BY <2>3 DEF Empty, GoTo, flagRest
  <2>4. CASE Ready
    BY <2>4 DEF Ready, GoTo, flagRest
  <2>5. CASE Drain
    BY <2>5 DEF Drain, PopTo, GoTo, popRest
  <2>6. CASE Deliver
    BY <2>6 DEF Deliver, HandBack
  <2>7. CASE Resumed
    BY <2>7 DEF Resumed, GoTo
  <2> QED
    BY <1>4, <2>1, <2>2, <2>3, <2>4, <2>5, <2>6, <2>7 DEF Loop
<1>5. CASE Ending
  <2>1. CASE Finally
    BY <2>1 DEF Finally, GoTo, flagRest
  <2>2. CASE StopProducer
    BY <2>2 DEF StopProducer, GoTo
  <2>3. CASE Join
    BY <2>3 DEF Join
  <2>4. CASE Report
    BY <2>4 DEF Report, ReportMetrics, GoTo, HandBack
  <2>5. CASE Outcome
    BY <2>5 DEF Outcome, HandBack, Raise
  <2> QED
    BY <1>5, <2>1, <2>2, <2>3, <2>4, <2>5 DEF Ending
<1>6. CASE Producer
  BY <1>6 DEF Producer, ProdStart, producerRest, ProdChunk, Push, ProdTerminal, ProdFinish,
     ProdSettle, Verdicts, ProdDrop, WorkerLeaves
<1> QED
  BY <1>1, <1>2, <1>3, <1>4, <1>5, <1>6, StepsAreGrouped

(* Nobody moves the generator while it is suspended but the one who closes it. *)
LEMMA PositionsKept ==
  ASSUME IInv, Next
  PROVE  Positions'
<1> USE DEF IInv, OneRunner, AtRest, Closing, Positions, stateVars, iterVars, genVars,
   callerVars, closerVars, prodVars, bodyRest, stepRest
<1>1. CASE CallerSteps
  BY <1>1 DEF CallerSteps, Caller, NextEnter, NextLeave, NextReturn, CallerCloses,
     GeneratorClose
<1>2. CASE CloserSteps
  BY <1>2 DEF CloserSteps, Closer, CallCancel, closerRest, CallClose, Signal, SignalHandle,
     SignalChannel, SignalReport, ReportMetrics, CloserCloses, GeneratorClose
<1>3. CASE Opening
  BY <1>3 DEF Opening, Begin, GoTo, Check, ReportMetrics, HandBack, CreateChannel, Raise,
     Build, Submit, KeepHandle, Recheck
<1>4. CASE Loop
  BY <1>4 DEF Loop, WaitPop, PopTo, GoTo, popRest, Popped, flagRest, Empty, Ready, Drain,
     Deliver, HandBack, Resumed
<1>5. CASE Ending
  BY <1>5 DEF Ending, Finally, GoTo, flagRest, StopProducer, Join, Report, ReportMetrics,
     HandBack, Outcome, Raise
<1>6. CASE Producer
  BY <1>6 DEF Producer, ProdStart, producerRest, ProdChunk, Push, ProdTerminal, ProdFinish,
     ProdSettle, Verdicts, ProdDrop, WorkerLeaves
<1> QED
  BY <1>1, <1>2, <1>3, <1>4, <1>5, <1>6, StepsAreGrouped

(* next() returns a chunk or ends. *)
LEMMA ChunksKept ==
  ASSUME IInv, Next
  PROVE  Chunks'
<1> USE DEF IInv, TypeOK, OneRunner, AtRest, Closing, Chunks, Finale, stateVars, iterVars,
   genVars, callerVars, closerVars, prodVars, bodyRest, stepRest
<1>1. CASE CallerSteps
  BY <1>1 DEF CallerSteps, Caller, NextEnter, NextLeave, NextReturn, CallerCloses,
     GeneratorClose
<1>2. CASE CloserSteps
  BY <1>2 DEF CloserSteps, Closer, CallCancel, closerRest, CallClose, Signal, SignalHandle,
     SignalChannel, SignalReport, ReportMetrics, CloserCloses, GeneratorClose
<1>3. CASE Opening
  BY <1>3 DEF Opening, Begin, GoTo, Check, ReportMetrics, HandBack, CreateChannel, Raise,
     Build, Submit, KeepHandle, Recheck
<1>4. CASE Loop
  <2>1. CASE WaitPop \/ Popped \/ Empty \/ Ready \/ Deliver \/ Resumed
    BY <2>1 DEF WaitPop, PopTo, GoTo, popRest, Popped, flagRest, Empty, Ready, Deliver,
       HandBack, Resumed
  <2>2. CASE Drain
    <3>1. gpc' = "deliver" => chunk' # None
      BY <2>2, PopTakesOldest, TypeParts, NumberedChunks DEF Drain
    <3> QED
      BY <2>2, <3>1 DEF Drain, PopTo, GoTo, popRest
  <2> QED
    BY <1>4, <2>1, <2>2 DEF Loop
<1>5. CASE Ending
  BY <1>5 DEF Ending, Finally, GoTo, flagRest, StopProducer, Join, Report, ReportMetrics,
     HandBack, Outcome, Raise
<1>6. CASE Producer
  BY <1>6 DEF Producer, ProdStart, producerRest, ProdChunk, Push, ProdTerminal, ProdFinish,
     ProdSettle, Verdicts, ProdDrop, WorkerLeaves
<1> QED
  BY <1>1, <1>2, <1>3, <1>4, <1>5, <1>6, StepsAreGrouped

-----------------------------------------------------------------------------
(* The end of the generation.                                              *)

(* The generation begins with the submission and is settled once. *)
LEMMA SubmissionKept ==
  ASSUME IInv, Next
  PROVE  Submission'
<1> USE DEF IInv, OneRunner, AtRest, Closing, Positions, Submission, BeforeSubmit,
   Unsubmitted, Settled, stateVars, iterVars, genVars, callerVars, closerVars, prodVars,
   bodyRest, stepRest
<1>1. CASE CallerSteps
  BY <1>1 DEF CallerSteps, Caller, NextEnter, NextLeave, NextReturn, CallerCloses,
     GeneratorClose
<1>2. CASE CloserSteps
  BY <1>2 DEF CloserSteps, Closer, CallCancel, closerRest, CallClose, Signal, SignalHandle,
     SignalChannel, SignalReport, ReportMetrics, CloserCloses, GeneratorClose
<1>3. CASE Opening
  BY <1>3 DEF Opening, Begin, GoTo, Check, ReportMetrics, HandBack, CreateChannel, Raise,
     Build, Submit, KeepHandle, Recheck
<1>4. CASE Loop
  BY <1>4 DEF Loop, WaitPop, PopTo, GoTo, popRest, Popped, flagRest, Empty, Ready, Drain,
     Deliver, HandBack, Resumed
<1>5. CASE Ending
  BY <1>5 DEF Ending, Finally, GoTo, flagRest, StopProducer, Join, Report, ReportMetrics,
     HandBack, Outcome, Raise
<1>6. CASE Producer
  BY <1>6 DEF Producer, ProdStart, producerRest, ProdChunk, Push, ProdTerminal, ProdFinish,
     ProdSettle, Verdicts, ProdDrop, WorkerLeaves
<1> QED
  BY <1>1, <1>2, <1>3, <1>4, <1>5, <1>6, StepsAreGrouped

(* The finally block leaves no generation that was not told to stop. *)
LEMMA StoppedKept ==
  ASSUME IInv, Next
  PROVE  Stopped'
<1> USE DEF IInv, OneRunner, AtRest, Closing, Positions, Submission, Terminal, Streaming,
   BeforeSubmit, Stopped, Unsubmitted, Settled, stateVars, iterVars, genVars, callerVars,
   closerVars, prodVars, bodyRest, stepRest
<1>1. CASE CallerSteps
  <2>1. CASE NextEnter \/ NextLeave \/ NextReturn
    BY <2>1 DEF NextEnter, NextLeave, NextReturn
  <2>2. CASE CallerCloses
    BY <2>2, ClosedAtRest DEF CallerCloses, GeneratorClose
  <2> QED
    BY <1>1, <2>1, <2>2 DEF CallerSteps, Caller
<1>2. CASE CloserSteps
  <2>1. CASE CallCancel \/ CallClose \/ Signal \/ SignalHandle \/ SignalChannel \/ SignalReport
    BY <2>1 DEF CallCancel, closerRest, CallClose, Signal, SignalHandle, SignalChannel,
       SignalReport, ReportMetrics
  <2>2. CASE CloserCloses
    BY <2>2, ClosedAtRest DEF CloserCloses, GeneratorClose
  <2> QED
    BY <1>2, <2>1, <2>2 DEF CloserSteps, Closer
<1>3. CASE Opening
  BY <1>3 DEF Opening, Begin, GoTo, Check, ReportMetrics, HandBack, CreateChannel, Raise,
     Build, Submit, KeepHandle, Recheck
<1>4. CASE Loop
  BY <1>4 DEF Loop, WaitPop, PopTo, GoTo, popRest, Popped, flagRest, Empty, Ready, Drain,
     Deliver, HandBack, Resumed
<1>5. CASE Ending
  BY <1>5 DEF Ending, Finally, GoTo, flagRest, StopProducer, Join, Report, ReportMetrics,
     HandBack, Outcome, Raise
<1>6. CASE Producer
  BY <1>6 DEF Producer, ProdStart, producerRest, ProdChunk, Push, ProdTerminal, ProdFinish,
     ProdSettle, Verdicts, ProdDrop, WorkerLeaves
<1> QED
  BY <1>1, <1>2, <1>3, <1>4, <1>5, <1>6, StepsAreGrouped

(* The callback is claimed once. *)
LEMMA ReportingKept ==
  ASSUME IInv, Next
  PROVE  Reporting'
<1> USE DEF IInv, OneRunner, AtRest, Closing, Positions, Submission, BeforeSubmit,
   Unsubmitted, Settled, Reporting, Finale, stateVars, iterVars, genVars, callerVars,
   closerVars, prodVars, bodyRest, stepRest
<1>1. CASE CallerSteps
  <2>1. CASE NextEnter \/ NextLeave \/ NextReturn
    BY <2>1 DEF NextEnter, NextLeave, NextReturn
  <2>2. CASE CallerCloses
    BY <2>2, ClosedAtRest DEF CallerCloses, GeneratorClose
  <2> QED
    BY <1>1, <2>1, <2>2 DEF CallerSteps, Caller
<1>2. CASE CloserSteps
  <2>1. CASE CallCancel \/ CallClose \/ Signal \/ SignalHandle \/ SignalChannel \/ SignalReport
    BY <2>1 DEF CallCancel, closerRest, CallClose, Signal, SignalHandle, SignalChannel,
       SignalReport, ReportMetrics
  <2>2. CASE CloserCloses
    BY <2>2, ClosedAtRest DEF CloserCloses, GeneratorClose
  <2> QED
    BY <1>2, <2>1, <2>2 DEF CloserSteps, Closer
<1>3. CASE Opening
  BY <1>3 DEF Opening, Begin, GoTo, Check, ReportMetrics, HandBack, CreateChannel, Raise,
     Build, Submit, KeepHandle, Recheck
<1>4. CASE Loop
  BY <1>4 DEF Loop, WaitPop, PopTo, GoTo, popRest, Popped, flagRest, Empty, Ready, Drain,
     Deliver, HandBack, Resumed
<1>5. CASE Ending
  BY <1>5 DEF Ending, Finally, GoTo, flagRest, StopProducer, Join, Report, ReportMetrics,
     HandBack, Outcome, Raise
<1>6. CASE Producer
  BY <1>6 DEF Producer, ProdStart, producerRest, ProdChunk, Push, ProdTerminal, ProdFinish,
     ProdSettle, Verdicts, ProdDrop, WorkerLeaves
<1> QED
  BY <1>1, <1>2, <1>3, <1>4, <1>5, <1>6, StepsAreGrouped

(* Popping and pushing leave the terminal chunk the last. *)
LEMMA PopKeepsTerminal ==
  ASSUME Values, Terminal, NEW found, NEW none, PopTo(found, none),
         UNCHANGED <<prod, sent, sawFinished>>
  PROVE  Terminal'
<1>1. CASE pending = <<>>
  <2>1. chunk' # Last /\ pending' = pending
    BY <1>1, PopTakesOldest, NumberedChunks
  <2> QED
    BY <2>1 DEF Terminal, Streaming
<1>2. CASE pending # <<>>
  <2>1. /\ chunk' = pending[1] /\ Len(pending) \in Nat \ {0} /\ Len(pending') = Len(pending) - 1
        /\ \A i \in 1..Len(pending') : pending'[i] = pending[i + 1]
    BY <1>2, PopTakesOldest
  <2>2. Streaming => chunk' # Last /\ \A i \in 1..Len(pending') : pending'[i] # Last
    <3>1. Streaming => \A i \in 1..Len(pending) : pending[i] # Last
      BY DEF Terminal
    <3>2. 1 \in 1..Len(pending) /\ \A i \in 1..Len(pending') : i + 1 \in 1..Len(pending)
      BY <2>1
    <3> QED
      BY <2>1, <3>1, <3>2, Zenon
  <2> QED
    BY <2>2 DEF Terminal, Streaming
<1> QED
  BY <1>1, <1>2

(* Nothing is pushed after the terminal chunk. *)
LEMMA PushKeepsTerminal ==
  ASSUME Values, Terminal, Streaming, NEW item \in 1..Last, Push(item),
         UNCHANGED <<chunk, sawFinished>>, item = Last => ~Streaming'
  PROVE  Terminal'
<1>1. /\ Len(sent) \in Nat /\ Len(sent') = Len(sent) + 1
      /\ sent'[Len(sent) + 1] = item /\ \A i \in 1..Len(sent) : sent'[i] = sent[i]
      /\ Len(pending) \in Nat /\ Len(pending') = Len(pending) + 1
      /\ pending'[Len(pending) + 1] = item /\ \A i \in 1..Len(pending) : pending'[i] = pending[i]
  BY PushAddsLast
<1>2. \A i \in 1..Len(sent') : i \in 1..Len(sent) \/ (i = Len(sent') /\ sent'[i] = item)
  BY <1>1
<1>3. \A i \in 1..Len(pending') : i \in 1..Len(pending) \/ pending'[i] = item
  BY <1>1
<1>4. /\ \A i \in 1..Len(sent) : sent[i] # Last
      /\ \A i \in 1..Len(pending) : pending[i] # Last
      /\ chunk # Last /\ ~sawFinished
  BY DEF Terminal
<1>5. /\ \A i \in 1..Len(sent') : sent'[i] = Last => i = Len(sent') /\ item = Last
      /\ \A i \in 1..Len(pending') : pending'[i] = Last => item = Last
  BY <1>1, <1>2, <1>3, <1>4, Zenon
<1> QED
  BY <1>4, <1>5 DEF Terminal

(* Every step keeps the terminal chunk the last. *)
LEMMA TerminalKept ==
  ASSUME IInv, Next
  PROVE  Terminal'
<1> USE DEF IInv, TypeOK, OneRunner, AtRest, Submission, BeforeSubmit, Terminal, Streaming,
   stateVars, iterVars, genVars, callerVars, closerVars, prodVars, bodyRest, stepRest
<1>1. CASE CallerSteps
  BY <1>1 DEF CallerSteps, Caller, NextEnter, NextLeave, NextReturn, CallerCloses,
     GeneratorClose
<1>2. CASE CloserSteps
  BY <1>2 DEF CloserSteps, Closer, CallCancel, closerRest, CallClose, Signal, SignalHandle,
     SignalChannel, SignalReport, ReportMetrics, CloserCloses, GeneratorClose
<1>3. CASE Opening
  <2>1. CASE Begin \/ Check \/ CreateChannel \/ Build \/ KeepHandle \/ Recheck
    BY <2>1 DEF Begin, GoTo, Check, ReportMetrics, HandBack, CreateChannel, Raise, Build,
       KeepHandle, Recheck
  <2>2. CASE Submit
    <3>1. Streaming /\ Terminal /\ Streaming' /\ UNCHANGED <<sent, pending, chunk, sawFinished>>
      BY <2>2 DEF Submit, Unsubmitted, Raise, GoTo
    <3> QED
      BY <3>1
  <2> QED
    BY <1>3, <2>1, <2>2 DEF Opening
<1>4. CASE Loop
  <2>1. CASE Popped \/ Empty \/ Ready \/ Deliver \/ Resumed
    BY <2>1 DEF Popped, GoTo, flagRest, Empty, Ready, Deliver, HandBack, Resumed
  <2>2. CASE WaitPop
    <3>1. Values /\ Terminal /\ UNCHANGED <<prod, sent, sawFinished>>
      BY <2>2, TypeParts DEF WaitPop, popRest, stateVars, bodyRest
    <3> QED
      BY <3>1, <2>2, PopKeepsTerminal DEF WaitPop
  <2>3. CASE Drain
    <3>1. Values /\ Terminal /\ UNCHANGED <<prod, sent, sawFinished>>
      BY <2>3, TypeParts DEF Drain, popRest, stateVars, bodyRest
    <3> QED
      BY <3>1, <2>3, PopKeepsTerminal DEF Drain
  <2> QED
    BY <1>4, <2>1, <2>2, <2>3 DEF Loop
<1>5. CASE Ending
  BY <1>5 DEF Ending, Finally, GoTo, flagRest, StopProducer, Join, Report, ReportMetrics,
     HandBack, Outcome, Raise
<1>6. CASE Producer
  <2>1. CASE ProdStart \/ ProdFinish \/ ProdSettle \/ ProdDrop \/ WorkerLeaves
    BY <2>1 DEF ProdStart, producerRest, ProdFinish, ProdSettle, Verdicts, ProdDrop,
       WorkerLeaves
  <2>2. CASE ProdChunk
    <3>1. /\ Terminal /\ Values /\ Streaming /\ Streaming' /\ UNCHANGED <<chunk, sawFinished>>
          /\ Len(sent) < MaxChunks /\ Push(Len(sent) + 1)
      BY <2>2, TypeParts DEF ProdChunk, producerRest
    <3>2. Len(sent) \in Nat
      BY <3>1, LenProperties DEF Values
    <3>3. Len(sent) + 1 \in 1..Last /\ Len(sent) + 1 # Last
      BY <3>1, <3>2, NumberedChunks
    <3> HIDE DEF Terminal, Streaming
    <3> QED
      BY <3>1, <3>3, PushKeepsTerminal
  <2>3. CASE ProdTerminal
    <3>1. /\ Terminal /\ Values /\ Streaming /\ ~Streaming' /\ Push(Last)
          /\ UNCHANGED <<chunk, sawFinished>>
      BY <2>3, TypeParts DEF ProdTerminal, producerRest
    <3> HIDE DEF Terminal, Streaming
    <3> QED
      BY <3>1, NumberedChunks, PushKeepsTerminal
  <2> QED
    BY <1>6, <2>1, <2>2, <2>3 DEF Producer
<1> QED
  BY <1>1, <1>2, <1>3, <1>4, <1>5, <1>6, StepsAreGrouped

-----------------------------------------------------------------------------
(* The chunks.  A pop takes one in hand, next() returns it, a push adds one*)
(* at the end; the account stays even, and closes once nothing is pending. *)

(* A pop moves the oldest pending chunk into the hand, or finds none. *)
LEMMA PopKeepsAccount ==
  ASSUME Values, Accounted, ~InHand, NEW found, NEW none, PopTo(found, none),
         UNCHANGED <<sent, received>>, InHand' <=> pending # <<>>
  PROVE  Accounted'
<1>1. CASE pending = <<>>
  BY <1>1, PopTakesOldest DEF Accounted, Hand
<1>2. CASE pending # <<>>
  <2>1. /\ chunk' = pending[1] /\ Len(pending) \in Nat \ {0} /\ Len(pending') = Len(pending) - 1
        /\ \A i \in 1..Len(pending') : pending'[i] = pending[i + 1]
    BY <1>2, PopTakesOldest
  <2>2. Len(received) \in Nat
    BY LenProperties DEF Values
  <2>3. /\ Len(sent) = Len(received) + Len(pending)
        /\ \A i \in 1..Len(received) : received[i] = sent[i]
        /\ \A i \in 1..Len(pending) : pending[i] = sent[Len(received) + i]
    BY <2>1, <2>2 DEF Accounted, Hand
  <2>4. \A i \in 1..Len(pending') : pending'[i] = sent[Len(received) + (i + 1)]
    <3>1. \A i \in 1..Len(pending') : i + 1 \in 1..Len(pending)
      BY <2>1
    <3> QED
      BY <2>1, <2>3, <3>1, Zenon
  <2>5. /\ chunk' = sent[Len(received) + 1]
        /\ \A i \in 1..Len(pending') : pending'[i] = sent[Len(received) + 1 + i]
    BY <2>1, <2>2, <2>3, <2>4
  <2> QED
    <3>1. /\ Len(sent') = Len(received') + 1 + Len(pending')
          /\ \A i \in 1..Len(received') : received'[i] = sent'[i]
          /\ chunk' = sent'[Len(received') + 1]
          /\ \A i \in 1..Len(pending') : pending'[i] = sent'[Len(received') + 1 + i]
      <4>1. received' = received /\ sent' = sent
        OBVIOUS
      <4>2. Len(sent) = Len(received) + 1 + Len(pending')
        BY <2>1, <2>2, <2>3
      <4> QED
        BY <4>1, <4>2, <2>3, <2>5
    <3> QED
      BY <1>2, <3>1 DEF Accounted, Hand
<1> QED
  BY <1>1, <1>2

(* A push joins the chunks sent and the chunks pending at the end of both. *)
LEMMA PushKeepsAccount ==
  ASSUME Values, Accounted, NEW item \in 1..Last, Push(item),
         UNCHANGED <<gpc, cpc, chunk, received>>
  PROVE  Accounted'
<1>1. /\ Len(sent) \in Nat /\ Len(sent') = Len(sent) + 1
      /\ sent'[Len(sent) + 1] = item /\ \A i \in 1..Len(sent) : sent'[i] = sent[i]
      /\ Len(pending) \in Nat /\ Len(pending') = Len(pending) + 1
      /\ pending'[Len(pending) + 1] = item /\ \A i \in 1..Len(pending) : pending'[i] = pending[i]
  BY PushAddsLast
<1>2. Len(received) \in Nat /\ Hand \in {0, 1} /\ Hand' = Hand /\ InHand' = InHand
      /\ (InHand => Hand = 1)
  BY LenProperties DEF Values, Hand, InHand
<1>3. /\ Len(sent) = Len(received) + Hand + Len(pending)
      /\ \A i \in 1..Len(received) : received[i] = sent[i]
      /\ InHand => chunk = sent[Len(received) + 1]
      /\ \A i \in 1..Len(pending) : pending[i] = sent[Len(received) + Hand + i]
  BY DEF Accounted
<1>4. /\ Len(sent') = Len(received) + Hand + Len(pending')
      /\ \A i \in 1..Len(received) : received[i] = sent'[i]
      /\ InHand => chunk = sent'[Len(received) + 1]
  BY <1>1, <1>2, <1>3
<1>5. \A i \in 1..Len(pending') : pending'[i] = sent'[Len(received) + Hand + i]
  <2>1. TAKE i \in 1..Len(pending')
  <2>2. CASE i \in 1..Len(pending)
    <3>1. Len(received) + Hand + i \in 1..Len(sent)
      BY <1>1, <1>2, <1>3, <2>2
    <3> QED
      BY <1>1, <1>3, <2>2, <3>1
  <2>3. CASE i = Len(pending) + 1
    <3>1. Len(received) + Hand + i = Len(sent) + 1
      BY <1>1, <1>2, <1>3, <2>3
    <3> QED
      BY <1>1, <2>3, <3>1
  <2> QED
    BY <1>1, <2>2, <2>3
<1> QED
  BY <1>2, <1>4, <1>5 DEF Accounted

(* The chunk in hand becomes the last one received. *)
LEMMA ReturnKeepsAccount ==
  ASSUME Values, chunk \in 1..Last, Accounted, InHand, ~InHand',
         received' = Append(received, chunk), UNCHANGED <<sent, pending, chunk>>
  PROVE  Accounted' /\ received' # <<>> /\ received'[Len(received')] = chunk
<1>1. /\ received \in Seq(1..Last) /\ Len(received) \in Nat /\ Len(pending) \in Nat
  BY LenProperties DEF Values
<1>2. /\ Len(received') = Len(received) + 1
      /\ received'[Len(received) + 1] = chunk
      /\ \A i \in 1..Len(received) : received'[i] = received[i]
      /\ received' # <<>>
  BY <1>1, AppendProperties
<1>3. /\ Len(sent) = Len(received) + 1 + Len(pending)
      /\ \A i \in 1..Len(received) : received[i] = sent[i]
      /\ chunk = sent[Len(received) + 1]
      /\ \A i \in 1..Len(pending) : pending[i] = sent[Len(received) + 1 + i]
  BY DEF Accounted, Hand
<1>4. \A i \in 1..Len(received') : i \in 1..Len(received) \/ i = Len(received) + 1
  BY <1>1, <1>2
<1>5. \A i \in 1..Len(received') : received'[i] = sent[i]
  BY <1>2, <1>3, <1>4, Zenon
<1>6. /\ Len(sent) = Len(received') + Len(pending)
      /\ \A i \in 1..Len(pending) : pending[i] = sent[Len(received') + 0 + i]
  BY <1>1, <1>2, <1>3
<1> QED
  BY <1>1, <1>2, <1>5, <1>6 DEF Accounted, Hand

(* As many chunks received as sent, each in its place, are all of them. *)
LEMMA SameWhenEven ==
  ASSUME Values, Len(received) = Len(sent), \A i \in 1..Len(received) : received[i] = sent[i]
  PROVE  received = sent
<1>1. received \in Seq(1..Last) /\ sent \in Seq(1..Last)
  BY DEF Values
<1> QED
  BY <1>1, SeqEqual

(* After the terminal chunk a pop that finds nothing has all of them received. *)
LEMMA EmptyClosesAccount ==
  ASSUME Values, Accounted, ~InHand, pending = <<>>, ~Streaming
  PROVE  Complete
<1>1. Len(received) \in Nat /\ Len(pending) = 0
  BY LenProperties DEF Values
<1>2. Len(received) = Len(sent) /\ \A i \in 1..Len(received) : received[i] = sent[i]
  BY <1>1 DEF Accounted, Hand
<1> QED
  BY <1>2, SameWhenEven DEF Complete

(* So has a reader that received the terminal chunk. *)
LEMMA LastClosesAccount ==
  ASSUME Values, Terminal, Accounted, ~InHand, received # <<>>, received[Len(received)] = Last
  PROVE  Complete
<1>1. received \in Seq(1..Last) /\ Len(received) \in Nat \ {0} /\ Len(pending) \in Nat
  <2>1. received \in Seq(1..Last) /\ pending \in Seq(1..Last)
    BY DEF Values
  <2> QED
    BY <2>1, EmptySeq, LenProperties
<1>2. /\ Len(sent) = Len(received) + Len(pending)
      /\ \A i \in 1..Len(received) : received[i] = sent[i]
  BY <1>1 DEF Accounted, Hand
<1>3. Len(received) \in 1..Len(received) /\ Len(received) \in 1..Len(sent)
  BY <1>1, <1>2
<1>4. sent[Len(received)] = Last
  BY <1>2, <1>3
<1>5. Len(received) = Len(sent) /\ ~Streaming
  BY <1>3, <1>4 DEF Terminal
<1> QED
  BY <1>2, <1>5, SameWhenEven DEF Complete

(* Every step of an undisturbed stream keeps the account of its chunks. *)
LEMMA ReadingKept ==
  ASSUME IInv, Next
  PROVE  Reading'
<1> USE DEF IInv, TypeOK, OneRunner, AtRest, Closing, Positions, Chunks, Finale, Submission,
   BeforeSubmit, Unsubmitted, Terminal, Streaming, Settled, Reporting, Reading, Accounted,
   InHand, Hand, Undisturbed, Complete, Failed, InLoop, stateVars, iterVars, genVars,
   callerVars, closerVars, prodVars, bodyRest, stepRest
<1>1. CASE CallerSteps
  <2>1. CASE NextEnter
    BY <2>1 DEF NextEnter
  <2>2. CASE NextLeave
    BY <2>2 DEF NextLeave
  <2>3. CASE NextReturn
    <3>1. /\ cpc = "returning" /\ Values
          /\ cpc' = IF ret = "item" THEN "idle" ELSE "over"
          /\ received' = IF ret = "item" THEN Append(received, chunk) ELSE received
          /\ UNCHANGED <<mode, gpc, sent, pending, prod, chunk, ret, mCancelled, outcome>>
          /\ UNCHANGED <<cancelledByCaller, itClosing>>
          /\ UNCHANGED <<mFinished, failed>>
      BY <2>3, TypeParts DEF NextReturn
    <3>2. CASE Undisturbed /\ ret = "item"
      <4>1. gpc = "yielded" /\ Accounted /\ InHand /\ chunk \in 1..Last /\ (mCancelled => Failed)
        BY <3>1, <3>2, NumberedChunks
      <4>2. ~InHand'
        BY <3>1, <3>2, <4>1
      <4>3. Accounted' /\ received' # <<>> /\ received'[Len(received')] = chunk
        <5> HIDE DEF Accounted, InHand
        <5> QED
          BY <3>1, <3>2, <4>1, <4>2, ReturnKeepsAccount
      <4> HIDE DEF Accounted, InHand, Hand, Complete
      <4> QED
        BY <3>1, <3>2, <4>1, <4>3
    <3>3. CASE ~(Undisturbed /\ ret = "item")
      <4>1. CASE ~Undisturbed
        BY <3>1, <4>1
      <4>2. CASE Undisturbed /\ ret # "item"
        <5>1. gpc # "yielded" /\ cpc' = "over" /\ received' = received
          BY <3>1, <4>2
        <5>2. (Accounted => Accounted') /\ (Complete => Complete') /\ (Failed => Failed')
          BY <3>1, <5>1
        <5> HIDE DEF Accounted, InHand, Hand, Complete, Failed, Terminal
        <5> QED
          BY <3>1, <4>2, <5>1, <5>2
      <4> QED
        BY <3>3, <4>1, <4>2
    <3> QED
      BY <3>2, <3>3
  <2>4. CASE CallerCloses
    BY <2>4 DEF CallerCloses, GeneratorClose
  <2> QED
    BY <1>1, <2>1, <2>2, <2>3, <2>4 DEF CallerSteps, Caller
<1>2. CASE CloserSteps
  <2>1. CASE CallCancel
    BY <2>1 DEF CallCancel, closerRest
  <2>2. CASE CallClose
    BY <2>2 DEF CallClose, closerRest
  <2>3. CASE Signal
    BY <2>3 DEF Signal, closerRest
  <2>4. CASE SignalHandle
    BY <2>4 DEF SignalHandle, closerRest
  <2>5. CASE SignalChannel
    BY <2>5 DEF SignalChannel, closerRest
  <2>6. CASE SignalReport
    BY <2>6 DEF SignalReport, closerRest, ReportMetrics
  <2>7. CASE CloserCloses
    BY <2>7 DEF CloserCloses, GeneratorClose
  <2> QED
    BY <1>2, <2>1, <2>2, <2>3, <2>4, <2>5, <2>6, <2>7 DEF CloserSteps, Closer
<1>3. CASE Opening
  <2>1. CASE Begin
    BY <2>1 DEF Begin, GoTo
  <2>2. CASE Check
    BY <2>2 DEF Check, ReportMetrics, HandBack, GoTo
  <2>3. CASE CreateChannel
    BY <2>3 DEF CreateChannel, Raise, HandBack, GoTo
  <2>4. CASE Build
    BY <2>4 DEF Build, Raise, HandBack, GoTo
  <2>5. CASE Submit
    BY <2>5 DEF Submit, Raise, HandBack, GoTo
  <2>6. CASE KeepHandle
    BY <2>6 DEF KeepHandle, GoTo
  <2>7. CASE Recheck
    BY <2>7 DEF Recheck, GoTo
  <2> QED
    BY <1>3, <2>1, <2>2, <2>3, <2>4, <2>5, <2>6, <2>7 DEF Opening
<1>4. CASE Loop
  <2>1. CASE WaitPop
    <3>1. /\ gpc = "pop" /\ Values /\ PopTo("popped", "popped")
          /\ UNCHANGED <<mode, sent, received, cpc, ret, mCancelled, outcome>>
          /\ UNCHANGED <<cancelledByCaller, itClosing>>
      BY <2>1, TypeParts DEF WaitPop, PopTo, GoTo, popRest
    <3>2. Undisturbed => Accounted /\ ~InHand /\ cpc = "inside" /\ (mCancelled => Failed)
      BY <3>1
    <3>3. gpc' = "popped" /\ (InHand' <=> pending # <<>>)
      BY <3>1, PopTakesOldest, NumberedChunks DEF InHand
    <3>4. Undisturbed => Accounted'
      <4> HIDE DEF Accounted, InHand, Undisturbed
      <4> QED
        BY <3>1, <3>2, <3>3, PopKeepsAccount
    <3> HIDE DEF Accounted, InHand, Hand, Complete
    <3> QED
      BY <3>1, <3>2, <3>3, <3>4
  <2>2. CASE Popped
    BY <2>2 DEF Popped, GoTo, flagRest
  <2>3. CASE Empty
    BY <2>3 DEF Empty, GoTo, flagRest
  <2>4. CASE Ready
    BY <2>4 DEF Ready, GoTo, flagRest
  <2>5. CASE Drain
    <3>1. /\ gpc = "drain" /\ Values /\ PopTo("deliver", "finally")
          /\ UNCHANGED <<mode, sent, received, prod, cpc, ret, mCancelled, outcome>>
          /\ UNCHANGED <<cancelledByCaller, itClosing>>
      BY <2>5, TypeParts DEF Drain, PopTo, GoTo, popRest
    <3>2. Undisturbed => /\ Accounted /\ ~InHand /\ cpc = "inside" /\ ~Streaming
                         /\ (mCancelled => Failed)
      BY <3>1
    <3>3. /\ InHand' <=> pending # <<>>
          /\ gpc' = IF pending = <<>> THEN "finally" ELSE "deliver"
          /\ Undisturbed /\ pending = <<>> => Complete
      <4>1. gpc' = IF pending = <<>> THEN "finally" ELSE "deliver"
        BY <3>1, PopTakesOldest
      <4>2. InHand' <=> pending # <<>>
        BY <4>1, <3>1, PopTakesOldest, NumberedChunks DEF InHand
      <4>3. Undisturbed /\ pending = <<>> => Complete
        <5> HIDE DEF Accounted, InHand, Undisturbed, Complete, Streaming
        <5> QED
          BY <3>1, <3>2, EmptyClosesAccount
      <4> QED
        BY <4>1, <4>2, <4>3
    <3>4. Undisturbed => Accounted'
      <4> HIDE DEF Accounted, InHand, Undisturbed
      <4> QED
        BY <3>1, <3>2, <3>3, PopKeepsAccount
    <3>5. Complete => Complete'
      BY <3>1
    <3> HIDE DEF Accounted, InHand, Hand, Complete
    <3> QED
      BY <3>1, <3>2, <3>3, <3>4, <3>5
  <2>6. CASE Deliver
    BY <2>6 DEF Deliver, HandBack
  <2>7. CASE Resumed
    <3>1. /\ gpc = "resumed" /\ Values /\ Terminal
          /\ gpc' = IF chunk = Last THEN "finally" ELSE "pop"
          /\ UNCHANGED <<mode, sent, received, pending, prod, chunk, cpc, ret, mCancelled, outcome>>
          /\ UNCHANGED <<cancelledByCaller, itClosing>>
      BY <2>7, TypeParts DEF Resumed, GoTo
    <3>2. Undisturbed => /\ Accounted /\ ~InHand /\ cpc = "inside" /\ (mCancelled => Failed)
                         /\ received # <<>> /\ received[Len(received)] = chunk
      BY <3>1
    <3>3. Undisturbed /\ chunk = Last => Complete
      <4> HIDE DEF Accounted, InHand, Undisturbed, Complete, Terminal
      <4> QED
        BY <3>1, <3>2, LastClosesAccount
    <3>4. (Undisturbed => Accounted') /\ (Complete => Complete')
      BY <3>1, <3>2
    <3> HIDE DEF Accounted, InHand, Hand, Complete, Terminal
    <3> QED
      BY <3>1, <3>2, <3>3, <3>4
  <2> QED
    BY <1>4, <2>1, <2>2, <2>3, <2>4, <2>5, <2>6, <2>7 DEF Loop
<1>5. CASE Ending
  <2>1. CASE Finally
    BY <2>1 DEF Finally, GoTo, flagRest
  <2>2. CASE StopProducer
    BY <2>2 DEF StopProducer, GoTo
  <2>3. CASE Join
    BY <2>3 DEF Join
  <2>4. CASE Report
    BY <2>4 DEF Report, ReportMetrics, GoTo, HandBack
  <2>5. CASE Outcome
    BY <2>5 DEF Outcome, HandBack, Raise
  <2> QED
    BY <1>5, <2>1, <2>2, <2>3, <2>4, <2>5 DEF Ending
<1>6. CASE Producer
  <2>1. CASE ProdStart
    BY <2>1 DEF ProdStart, producerRest
  <2>2. CASE ProdChunk
    <3>1. /\ Values /\ Reading /\ Streaming /\ Push(Len(sent) + 1) /\ Len(sent) + 1 \in 1..Last
          /\ UNCHANGED <<mode, cancelledByCaller, itClosing, gpc, chunk, cpc, ret, received>>
          /\ UNCHANGED <<mCancelled, mFinished, outcome, failed>>
      <4>1. Len(sent) \in Nat
        BY TypeParts, LenProperties DEF Values
      <4> QED
        BY <2>2, <4>1, TypeParts, NumberedChunks DEF ProdChunk, producerRest
    <3>2. Undisturbed /\ gpc \notin {"outcome", "finished"} => Accounted'
      <4>1. Accounted => Accounted'
        <5> HIDE DEF Accounted
        <5> QED
          BY <3>1, PushKeepsAccount
      <4> QED
        BY <3>1, <4>1
    <3>3. ~Complete /\ ~Settled
      BY <3>1
    <3> HIDE DEF Accounted, Complete, Streaming
    <3> QED
      BY <3>1, <3>2, <3>3
  <2>3. CASE ProdTerminal
    <3>1. /\ Values /\ Reading /\ Streaming /\ Push(Last)
          /\ UNCHANGED <<mode, cancelledByCaller, itClosing, gpc, chunk, cpc, ret, received>>
          /\ UNCHANGED <<mCancelled, mFinished, outcome, failed>>
      BY <2>3, TypeParts DEF ProdTerminal, producerRest
    <3>2. Undisturbed /\ gpc \notin {"outcome", "finished"} => Accounted'
      <4>1. Accounted => Accounted'
        <5> HIDE DEF Accounted
        <5> QED
          BY <3>1, NumberedChunks, PushKeepsAccount
      <4> QED
        BY <3>1, <4>1
    <3>3. ~Complete /\ ~Settled
      BY <3>1
    <3> HIDE DEF Accounted, Complete, Streaming
    <3> QED
      BY <3>1, <3>2, <3>3
  <2>4. CASE ProdFinish
    BY <2>4 DEF ProdFinish, producerRest
  <2>5. CASE ProdSettle
    BY <2>5 DEF ProdSettle, producerRest, Verdicts
  <2>6. CASE ProdDrop
    BY <2>6 DEF ProdDrop, producerRest
  <2>7. CASE WorkerLeaves
    BY <2>7 DEF WorkerLeaves, producerRest
  <2> QED
    BY <1>6, <2>1, <2>2, <2>3, <2>4, <2>5, <2>6, <2>7 DEF Producer
<1> QED
  BY <1>1, <1>2, <1>3, <1>4, <1>5, <1>6, StepsAreGrouped

-----------------------------------------------------------------------------
(* The invariant.                                                          *)

(* The invariant holds at the start. *)
LEMMA InitInvariant == Init => IInv
<1> SUFFICES ASSUME Init
             PROVE  IInv
  OBVIOUS
<1>1. Values
  <2>1. received \in Seq(1..Last) /\ pending \in Seq(1..Last) /\ sent \in Seq(1..Last)
    BY EmptySeq DEF Init
  <2> QED
    BY <2>1, NumberedChunks DEF Init, Values
<1>2. Flags /\ Controls
  BY DEF Init, Flags, Controls
<1>3. /\ OneRunner /\ Closing /\ Positions /\ Chunks /\ Submission /\ Stopped /\ Reporting
  BY DEF Init, OneRunner, AtRest, Closing, Positions, Chunks, Finale, Submission, BeforeSubmit,
     Unsubmitted, Settled, Stopped, Reporting
<1>4. Len(sent) = 0 /\ Len(pending) = 0 /\ Len(received) = 0
  BY LenProperties, EmptySeq DEF Init
<1>5. Terminal
  BY <1>4, NumberedChunks DEF Init, Terminal, Streaming
<1>6. Reading
  BY <1>4 DEF Init, Reading, Accounted, InHand, Hand, BeforeSubmit, InLoop, Undisturbed
<1> QED
  BY <1>1, <1>2, <1>3, <1>5, <1>6, TypeParts DEF IInv

(* Every step keeps it. *)
LEMMA NextInvariant == IInv /\ [Next]_vars => IInv'
<1> SUFFICES ASSUME IInv, [Next]_vars
             PROVE  IInv'
  OBVIOUS
<1>1. CASE Next
  <2>1. TypeOK'
    BY <1>1, FlagsKept, ControlsKept, ValuesKept, TypeParts, PTL
  <2> QED
    BY <1>1, <2>1, OneRunnerKept, ClosingKept, PositionsKept, ChunksKept, SubmissionKept,
       TerminalKept, StoppedKept, ReportingKept, ReadingKept DEF IInv
<1>2. CASE UNCHANGED vars
  <2> USE <1>2 DEF vars, stateVars, iterVars, genVars, callerVars, closerVars, prodVars
  <2>1. TypeOK' = TypeOK
    BY DEF TypeOK
  <2>2. OneRunner' = OneRunner /\ Closing' = Closing /\ Positions' = Positions
    BY DEF OneRunner, Closing, Positions
  <2>3. Chunks' = Chunks /\ Submission' = Submission /\ Terminal' = Terminal
    BY DEF Chunks, Submission, Terminal, Unsubmitted, Settled, Streaming
  <2>4. Stopped' = Stopped /\ Reporting' = Reporting
    BY DEF Stopped, Reporting, Unsubmitted, Settled
  <2>5. Reading' = Reading
    BY DEF Reading, Undisturbed, Accounted, InHand, Hand, Complete, Failed, Streaming, Settled
  <2> QED
    BY <2>1, <2>2, <2>3, <2>4, <2>5 DEF IInv
<1> QED
  BY <1>1, <1>2

(* Runner, closer, producer and reader agree in every reachable state of the stream. *)
THEOREM Invariance == Spec => []IInv
<1>1. Init => IInv
  BY InitInvariant
<1>2. IInv /\ [Next]_vars => IInv'
  BY NextInvariant
<1> QED
  BY <1>1, <1>2, PTL DEF Spec

(* Every thread is at one of its steps and the channel holds numbered chunks, whatever *)
(* the interleaving of next(), cancel(), close() and the producer.                     *)
THEOREM TypeCorrect == Spec => []TypeOK
<1>1. IInv => TypeOK
  BY DEF IInv
<1> QED
  BY <1>1, Invariance, PTL

(* Nobody closes a generator another thread is running: close() leaves that to the     *)
(* last thread that leaves __next__() (CancellableIterator).                           *)
THEOREM ClosedAtRestOnly == Spec => []NeverClosedWhileRunning
<1>1. IInv => NeverClosedWhileRunning
  BY DEF IInv, Closing, NeverClosedWhileRunning
<1> QED
  BY <1>1, Invariance, PTL

(* A generator that has ended leaves no generation behind that was not told to stop,   *)
(* and its metrics went out once and not before the producer settled, whoever came to  *)
(* its end first (generate_stream()'s finally block, report_metrics()).                *)
THEOREM EndedIsSettled == Spec => []EndIsSettled
<1>1. IInv => AbandonedIsStopped
  BY DEF IInv, Stopped, Submission, Terminal, Streaming, Settled, Unsubmitted, AbandonedIsStopped
<1>2. IInv => MetricsReportedOnce
  <2> SUFFICES ASSUME IInv
               PROVE  MetricsReportedOnce
    OBVIOUS
  <2>1. reports <= 1
    BY DEF IInv, Reporting
  <2>2. reports = 1 => prod = "idle" \/ outcome # "none"
    BY DEF IInv, Reporting, Submission, BeforeSubmit, Unsubmitted, Settled
  <2>3. mode.metrics /\ gpc = "finished" /\ ~(failed /\ prod = "idle") => reports = 1
    BY DEF IInv, Reporting, Unsubmitted
  <2> QED
    BY <2>1, <2>2, <2>3 DEF MetricsReportedOnce
<1>3. IInv => EndIsSettled
  BY <1>1, <1>2 DEF EndIsSettled
<1> QED
  BY <1>3, Invariance, PTL

(* A stream that ends by itself and that nobody cancelled or closed has handed on      *)
(* every chunk pushed, in order, whether the terminal chunk, finished() or the         *)
(* handle's outcome ended it (the loop of generate_stream()).                          *)
THEOREM StreamIsComplete == Spec => []NothingIsLost
<1>1. IInv => NothingIsLost
  BY DEF IInv, Reading, Undisturbed, Complete, NothingIsLost
<1> QED
  BY <1>1, Invariance, PTL
=============================================================================
