----------------------- MODULE RuntimeCoordinatorProofs -----------------------
(***************************************************************************)
(* No task is rewritten under a rank, for every number of ranks, every     *)
(* workload and every failure.  The argument is the books of a generation: *)
(* a rank that may still touch the task, or has yet to take it, owes one   *)
(* completion, and completions counted and completions owed never exceed   *)
(* the number of ranks.  The caller leaves dispatchRequest() when all have *)
(* been counted, so nothing is owed any more.                              *)
(*                                                                         *)
(* And the ranks of a dispatch that succeeds have done the same: whoever   *)
(* has a token has met all the others in the all-reduce that made it, and  *)
(* whoever is cancelled has been told so by the broadcast that told all.   *)
(*                                                                         *)
(* The types come last; two of the counters are head counts.               *)
(***************************************************************************)
EXTENDS RuntimeCoordinator, FiniteSetTheorems, TLAPS

Waiting == {"announce", "await", "drowsy", "asleep"}

(* A worker between requests, one inside the request it took, and one that owes a *)
(* completion for that request or for one it will not take.                       *)
Resting == {"starting", "look", "drowsy", "asleep", "notify"}
Engaged == Working \cup {"failed", "abort, publish", "publish"}
Owing == Engaged \cup {"dying in debt", "abort, publish, go", "publish, go"}

(* The ranks that owe a completion of the generation announced last. *)
Owes(r) == \/ worker[r] \in Owing
           \/ worker[r] \in Resting /\ localGeneration[r] < workGeneration
Pending == {r \in Ranks : Owes(r)}

Typed == /\ workGeneration \in Nat
         /\ workersFinished \in Nat
         /\ localGeneration \in [Ranks -> Nat]
         /\ worker \in [Ranks -> Places]

(* Inside a dispatch the completions counted and those owed are at most the ranks. *)
Books == main \in Waiting => workersFinished + Cardinality(Pending) <= NumRanks
(* Outside a dispatch nothing is owed. *)
Quiet == main \notin Waiting => Pending = {}
(* A rank inside a request has taken the generation announced last. *)
Current == \A r \in Ranks : worker[r] \in Engaged => localGeneration[r] >= workGeneration

IInv == Typed /\ Current /\ Books /\ Quiet

USE DEF Ranks

(* There are NumRanks ranks, and fewer that owe something. *)
LEMMA RanksAreFinite ==
  /\ IsFiniteSet(Ranks)
  /\ Cardinality(Ranks) = NumRanks
  /\ \A S \in SUBSET Ranks : IsFiniteSet(S) /\ Cardinality(S) \in Nat /\ Cardinality(S) <= NumRanks
<1>1. NumRanks \in Nat /\ NumRanks > 1
  BY RanksAssumption
<1>2. IsFiniteSet(Ranks) /\ Cardinality(Ranks) = NumRanks
  BY <1>1, FS_Interval, SMTT(30)
<1>3. ASSUME NEW S \in SUBSET Ranks
      PROVE  IsFiniteSet(S) /\ Cardinality(S) \in Nat /\ Cardinality(S) <= NumRanks
  BY <1>2, <1>3, FS_Subset, FS_CardinalityType
<1> QED
  BY <1>2, <1>3

-----------------------------------------------------------------------------
(* Every step keeps the types. *)
LEMMA TypedStep ==
  ASSUME Typed, [Next]_vars
  PROVE  Typed'
<1> USE DEF Typed, GoTo
<1>1. CASE Call
  <2>1. CASE Post
    BY <2>1 DEF Post
  <2>2. CASE Announce \/ WakeToStop
    BY <2>2 DEF Announce, WakeToStop, WakeWorkers, workVars, doneVars, Places
  <2>3. CASE \/ WorkersReported \/ PostRefused \/ PostThrows \/ Await \/ CallerSleeps
            \/ StopWorkers \/ Join
    BY <2>3 DEF WorkersReported, PostRefused, PostThrows, Await, CallerSleeps, StopWorkers, Join,
       Return, workVars, doneVars
  <2> QED
    BY <1>1, <2>1, <2>2, <2>3 DEF Call
<1>2. CASE Dispatch \/ CallerWakesSpuriously \/ SideCallFails \/ Cancel \/ Destroy
  BY <1>2 DEF Dispatch, CallerWakesSpuriously, SideCallFails, Cancel, Destroy, workVars, doneVars
<1>3. ASSUME NEW r \in Ranks, Worker(r)
      PROVE  Typed'
  <2>1. CASE Started(r) \/ ReportFailedStart(r) \/ Sleep(r) \/ Leave(r)
    BY <2>1 DEF Started, ReportFailedStart, Sleep, Leave, workVars, doneVars, Places
  <2>7. CASE Look(r)
    BY <2>7 DEF Look, workVars, doneVars, Places, Working
  <2>2. CASE HandleRequest(r)
    <3>0. {"publish", "prefill", "failed", "first sync", "sync", "settle", "step", "finishing"}
            \subseteq Places
      BY DEF Places, Working, AllReduces, Broadcasts
    <3>1. UNCHANGED <<workVars, doneVars, localGeneration>>
      BY <2>2 DEF HandleRequest, Begin, EnterAllReduce, LeaveAllReduce, EnterBroadcast,
         LeaveBroadcast, CollectiveFails, Settle, Finish
    <3>2. worker' = worker \/ \E place \in Places : worker' = [worker EXCEPT ![r] = place]
      <4>1. CASE Begin(r) \/ Finish(r)
        BY <3>0, <4>1 DEF Begin, Finish
      <4>2. CASE EnterAllReduce(r) \/ EnterBroadcast(r)
        BY <4>2 DEF EnterAllReduce, EnterBroadcast
      <4>3. CASE LeaveAllReduce(r) \/ CollectiveFails(r)
        BY <3>0, <4>3 DEF LeaveAllReduce, CollectiveFails
      <4>4. CASE LeaveBroadcast(r) \/ Settle(r)
        BY <3>0, <4>4 DEF LeaveBroadcast, Settle
      <4> QED
        BY <2>2, <4>1, <4>2, <4>3, <4>4 DEF HandleRequest
    <3>3. /\ workGeneration' = workGeneration /\ workersFinished' = workersFinished
          /\ localGeneration' = localGeneration
      BY <3>1 DEF workVars, doneVars
    <3>4. worker' \in [Ranks -> Places]
      BY <3>2
    <3> QED
      BY <3>3, <3>4
  <2>3. CASE RecordFailure(r)
    BY <2>3 DEF RecordFailure, workVars, doneVars, Places
  <2>4. CASE AbortCollectives(r)
    BY <2>4 DEF AbortCollectives, workVars, doneVars, Places
  <2>5. CASE PublishCompletion(r)
    <3>1. UNCHANGED <<workGeneration, localGeneration>> /\ workersFinished' = workersFinished + 1
      BY <2>5 DEF PublishCompletion, workVars
    <3>2. \E place \in Places : worker' = [worker EXCEPT ![r] = place]
      <4>1. CASE workersFinished + 1 = NumRanks
        BY <2>5, <4>1 DEF PublishCompletion, Places
      <4>2. CASE workersFinished + 1 # NumRanks
        BY <2>5, <4>2 DEF PublishCompletion, Places
      <4> QED
        BY <4>1, <4>2
    <3> QED
      BY <3>1, <3>2
  <2>6. CASE NotifyDone(r)
    BY <2>6 DEF NotifyDone, workVars, doneVars, Places
  <2> QED
    BY <1>3, <2>1, <2>2, <2>3, <2>4, <2>5, <2>6, <2>7 DEF Worker
<1>4. ASSUME NEW r \in Ranks, DeviceFails(r) \/ SpuriousWake(r) \/ Die(r) \/ Fail(r)
      PROVE  Typed'
  BY <1>4 DEF DeviceFails, SpuriousWake, Die, Fail, workVars, doneVars, Places
<1>5. CASE UNCHANGED vars
  BY <1>5 DEF vars, workVars, doneVars
<1> QED
  BY <1>1, <1>2, <1>3, <1>4, <1>5 DEF Next

-----------------------------------------------------------------------------
(* What a step leaves of the debts: none is added, and none is counted.              *)
NothingBooked == /\ workersFinished' = workersFinished
                 /\ main' \in Waiting <=> main \in Waiting
                 /\ Pending' \subseteq Pending
                 /\ Current => Current'

(* A step of one worker that owes nothing new by it. *)
OwesNoMore(r) == /\ \A q \in Ranks \ {r} : /\ worker'[q] = worker[q]
                                         /\ localGeneration'[q] = localGeneration[q]
                 /\ workGeneration' = workGeneration
                 /\ workersFinished' = workersFinished
                 /\ main' \in Waiting <=> main \in Waiting
                 /\ Owes(r)' => Owes(r)
                 /\ worker'[r] \in Engaged =>
                      \/ localGeneration'[r] = workGeneration
                      \/ worker[r] \in Engaged /\ localGeneration'[r] = localGeneration[r]

(* Whoever owes nothing new by its step changes nothing in the books. *)
LEMMA OneWorkerMoves ==
  ASSUME Typed, Typed', NEW r \in Ranks, OwesNoMore(r)
  PROVE  NothingBooked
  BY DEF OwesNoMore, NothingBooked, Current, Pending, Owes, Typed

(* No step of a worker but the publication of a completion touches the books. *)
LEMMA WorkersOweNoMore ==
  ASSUME Typed, Typed', NEW r \in Ranks,
         \/ Worker(r) /\ ~PublishCompletion(r)
         \/ DeviceFails(r) \/ SpuriousWake(r) \/ Die(r) \/ Fail(r)
  PROVE  NothingBooked
<1> SUFFICES OwesNoMore(r)
  BY OneWorkerMoves
<1> USE DEF OwesNoMore, GoTo, Typed, Owes, Owing, Engaged, Resting, Working, AllReduces, Broadcasts, Waiting, callVars,
    workVars, doneVars
<1>1. CASE Started(r) \/ ReportFailedStart(r) \/ Sleep(r) \/ Leave(r)
  BY <1>1 DEF Started, ReportFailedStart, Sleep, Leave
<1>2. CASE Look(r)
  BY <1>2 DEF Look
<1>3. CASE Begin(r) \/ Finish(r)
  BY <1>3 DEF Begin, Finish
<1>4. CASE EnterAllReduce(r) \/ EnterBroadcast(r)
  BY <1>4 DEF EnterAllReduce, EnterBroadcast
<1>5. CASE LeaveAllReduce(r) \/ LeaveBroadcast(r)
  BY <1>5 DEF LeaveAllReduce, LeaveBroadcast
<1>6. CASE CollectiveFails(r)
  BY <1>6 DEF CollectiveFails
<1>7. CASE Settle(r)
  BY <1>7 DEF Settle
<1>8. CASE RecordFailure(r)
  BY <1>8 DEF RecordFailure
<1>9. CASE AbortCollectives(r)
  BY <1>9 DEF AbortCollectives
<1>10. CASE NotifyDone(r)
  <2>1. CASE worker[r] = "notify"
    BY <1>10, <2>1 DEF NotifyDone
  <2>2. CASE worker[r] = "notify, go"
    BY <1>10, <2>2 DEF NotifyDone
  <2> QED
    BY <1>10, <2>1, <2>2 DEF NotifyDone
<1>11. CASE DeviceFails(r) \/ SpuriousWake(r) \/ Die(r) \/ Fail(r)
  BY <1>11 DEF DeviceFails, SpuriousWake, Die, Fail
<1> QED
  BY <1>1, <1>2, <1>3, <1>4, <1>5, <1>6, <1>7, <1>8, <1>9, <1>10, <1>11 DEF Worker, HandleRequest

(* A completion published is a debt paid. *)
LEMMA PublicationPays ==
  ASSUME Typed, Typed', Current, NEW r \in Ranks, PublishCompletion(r)
  PROVE  /\ workersFinished' = workersFinished + 1
         /\ main' = main
         /\ r \in Pending
         /\ Pending' \subseteq Pending \ {r}
         /\ Current'
<1>1. /\ UNCHANGED <<main, workGeneration, localGeneration>>
      /\ workersFinished' = workersFinished + 1
      /\ worker[r] \in {"publish", "publish, go"}
  BY DEF PublishCompletion, callVars, workVars
<1>2. /\ \A q \in Ranks \ {r} : worker'[q] = worker[q]
      /\ worker'[r] \notin Owing
      /\ worker'[r] \in Resting => worker[r] = "publish"
  <2> USE DEF PublishCompletion, GoTo, Typed, Owing, Engaged, Resting, Working, AllReduces, Broadcasts
  <2>1. CASE workersFinished + 1 = NumRanks
    BY <2>1
  <2>2. CASE workersFinished + 1 # NumRanks
    BY <2>2
  <2> QED
    BY <2>1, <2>2
<1>3. r \in Pending
  BY <1>1 DEF Pending, Owes, Owing, Engaged
<1>4. r \notin Pending'
  <2>1. worker[r] = "publish" => ~(localGeneration[r] < workGeneration)
    <3>1. worker[r] = "publish" => localGeneration[r] >= workGeneration
      BY DEF Current, Engaged
    <3>2. localGeneration[r] \in Nat /\ workGeneration \in Nat
      BY DEF Typed
    <3> QED
      BY <3>1, <3>2
  <2> QED
    BY <1>1, <1>2, <2>1 DEF Pending, Owes
<1>5. Pending' \subseteq Pending \ {r}
  BY <1>1, <1>2, <1>4 DEF Pending, Owes
<1>6. Current'
  BY <1>1, <1>2 DEF Current, Owing
<1> QED
  BY <1>1, <1>3, <1>5, <1>6

(* Outside Post and the return of Await, the calling thread does not touch the books. *)
LEMMA CallerOwesNothing ==
  ASSUME Typed, Typed',
         \/ WorkersReported \/ PostRefused \/ PostThrows \/ Announce \/ CallerSleeps
         \/ StopWorkers \/ WakeToStop \/ Join \/ Dispatch \/ CallerWakesSpuriously
         \/ SideCallFails \/ Cancel \/ Destroy \/ UNCHANGED vars
  PROVE  NothingBooked
<1>1. CASE WorkersReported \/ PostRefused \/ PostThrows \/ CallerSleeps \/ StopWorkers \/ Join
  BY <1>1 DEF WorkersReported, PostRefused, PostThrows, CallerSleeps, StopWorkers, Join, Return,
     NothingBooked, Pending, Owes, Current, Waiting, callVars,
     workVars, doneVars
<1>2. CASE Announce \/ WakeToStop
  <2>1. worker' = [r \in Ranks |-> IF worker[r] = "asleep" THEN "look" ELSE worker[r]]
    BY <1>2 DEF Announce, WakeToStop, WakeWorkers
  <2>2. /\ workGeneration' = workGeneration
        /\ localGeneration' = localGeneration
        /\ workersFinished' = workersFinished
        /\ main' \in Waiting <=> main \in Waiting
    BY <1>2 DEF Announce, WakeToStop, WakeWorkers, Waiting, workVars, doneVars
  <2>3. ASSUME NEW r \in Ranks
        PROVE  /\ Owes(r)' => Owes(r)
               /\ worker'[r] \in Engaged => worker[r] \in Engaged
    <3>1. \/ worker'[r] = worker[r]
          \/ worker[r] = "asleep" /\ worker'[r] = "look"
      <4>1. CASE worker[r] = "asleep"
        BY <2>1, <4>1
      <4>2. CASE worker[r] # "asleep"
        BY <2>1, <4>2
      <4> QED
        BY <4>1, <4>2
    <3>2. "look" \notin Owing /\ {"look", "asleep"} \subseteq Resting /\ Engaged \subseteq Owing
      BY DEF Owing, Engaged, Resting, Working, AllReduces, Broadcasts
    <3> QED
      BY <2>2, <3>1, <3>2 DEF Owes
  <2>4. ASSUME Current
        PROVE  Current'
    <3>1. ASSUME NEW r \in Ranks, worker'[r] \in Engaged
          PROVE  localGeneration'[r] >= workGeneration'
      BY <2>2, <2>3, <2>4, <3>1 DEF Current
    <3> QED
      BY <3>1 DEF Current
  <2>5. Pending' \subseteq Pending
    BY <2>3 DEF Pending
  <2> QED
    BY <2>2, <2>4, <2>5 DEF NothingBooked
<1>3. CASE Dispatch \/ CallerWakesSpuriously \/ SideCallFails \/ Cancel \/ Destroy
  BY <1>3 DEF Dispatch, CallerWakesSpuriously, SideCallFails, Cancel, Destroy, Return,
     NothingBooked, Pending, Owes, Current, Waiting, callVars,
     workVars, doneVars
<1>4. CASE UNCHANGED vars
  BY <1>4 DEF vars, NothingBooked, Pending, Owes, Current, Waiting, callVars, workVars, doneVars
<1> QED
  BY <1>1, <1>2, <1>3, <1>4

-----------------------------------------------------------------------------
(* Every step keeps the books. *)
LEMMA BooksStep ==
  ASSUME IInv, [Next]_vars
  PROVE  IInv'
<1> USE DEF IInv
<1>1. Typed'
  BY TypedStep
<1>2. CASE NothingBooked
  <2>1. Cardinality(Pending') <= Cardinality(Pending)
    BY <1>2, RanksAreFinite, FS_Subset DEF NothingBooked, Pending
  <2>2. Cardinality(Pending') \in Nat /\ Cardinality(Pending) \in Nat
    BY RanksAreFinite DEF Pending
  <2>3. Books'
    BY <1>2, <2>1, <2>2, RanksAssumption DEF NothingBooked, Books, Typed
  <2> QED
    BY <1>1, <1>2, <2>3 DEF NothingBooked, Quiet
<1>3. ASSUME NEW r \in Ranks, PublishCompletion(r)
      PROVE  IInv'
  <2>1. /\ workersFinished' = workersFinished + 1 /\ main' = main /\ Current'
        /\ r \in Pending /\ Pending' \subseteq Pending \ {r}
    BY <1>1, <1>3, PublicationPays
  <2>2. main \in Waiting
    BY <2>1 DEF Quiet
  <2>3. IsFiniteSet(Pending) /\ Cardinality(Pending) \in Nat
    BY RanksAreFinite DEF Pending
  <2>4. IsFiniteSet(Pending \ {r}) /\ Cardinality(Pending \ {r}) = Cardinality(Pending) - 1
    BY <2>1, <2>3, FS_RemoveElement
  <2>5. Cardinality(Pending') \in Nat /\ Cardinality(Pending') <= Cardinality(Pending) - 1
    <3>1. Cardinality(Pending') \in Nat
      BY RanksAreFinite DEF Pending
    <3>2. Cardinality(Pending') <= Cardinality(Pending \ {r})
      BY <2>1, <2>4, FS_Subset
    <3> QED
      BY <2>4, <3>1, <3>2
  <2>6. Books'
    BY <2>1, <2>2, <2>3, <2>5, RanksAssumption DEF Books, Typed
  <2> QED
    BY <1>1, <2>1, <2>2, <2>6 DEF Quiet
<1>4. CASE Post
  <2>1. main = "post" /\ main' = "announce" /\ workersFinished' = 0 /\ worker' = worker
    BY <1>4 DEF Post
  <2>2. Pending = {}
    BY <2>1 DEF Quiet, Waiting
  <2>3. \A r \in Ranks : worker[r] \notin Engaged
    BY <2>2 DEF Pending, Owes, Owing
  <2>4. Cardinality(Pending') \in Nat /\ Cardinality(Pending') <= NumRanks
    BY RanksAreFinite DEF Pending
  <2> QED
    BY <1>1, <2>1, <2>3, <2>4, RanksAssumption DEF Current, Books, Quiet, Waiting
<1>5. CASE Await
  <2>1. /\ UNCHANGED <<worker, workGeneration, localGeneration, workersFinished>>
        /\ main \in Waiting
        /\ main' \in Waiting \/ workersFinished >= NumRanks
    BY <1>5 DEF Await, Return, workVars, Waiting
  <2>2. Pending' = Pending /\ Current'
    BY <2>1 DEF Pending, Owes, Current
  <2>3. IsFiniteSet(Pending) /\ Cardinality(Pending) \in Nat
    BY RanksAreFinite DEF Pending
  <2>4. main' \notin Waiting => Cardinality(Pending) = 0
    BY <2>1, <2>3, RanksAssumption DEF Books, Typed
  <2>5. main' \notin Waiting => Pending = {}
    BY <2>3, <2>4, FS_EmptySet
  <2> QED
    BY <1>1, <2>1, <2>2, <2>5 DEF Books, Quiet
<1> QED
  BY <1>1, <1>2, <1>3, <1>4, <1>5, WorkersOweNoMore, CallerOwesNothing DEF Next, Call

-----------------------------------------------------------------------------
(* Completions counted and completions owed never exceed the ranks, and outside a      *)
(* dispatch nothing is owed (RuntimeCoordinator::dispatchRequest(), workerLoop()).     *)
THEOREM Invariance == Spec => []IInv
<1>1. Init => IInv
  <2> SUFFICES ASSUME Init PROVE IInv
    OBVIOUS
  <2>1. Typed
    BY DEF Init, Typed, Places
  <2>2. Pending = {}
    <3>1. \A r \in Ranks : worker[r] = "starting" /\ localGeneration[r] = 0 /\ workGeneration = 0
      BY DEF Init
    <3>2. "starting" \notin Owing
      BY DEF Owing, Engaged, Working, AllReduces, Broadcasts
    <3> QED
      BY <3>1, <3>2 DEF Pending, Owes
  <2> QED
    BY <2>1, <2>2 DEF Init, IInv, Current, Books, Quiet, Waiting, Engaged, Working, AllReduces,
       Broadcasts
<1>2. IInv /\ [Next]_vars => IInv'
  BY BooksStep
<1> QED
  BY <1>1, <1>2, PTL DEF Spec

(* TaskIsStable: dispatchRequest() never rewrites mWorkerTask while a rank is inside  *)
(* handleRequest(), and never returns a response a rank still writes.                 *)
THEOREM TaskAlwaysStable == Spec => []TaskIsStable
<1>1. IInv => TaskIsStable
  BY DEF IInv, Quiet, TaskIsStable, Waiting, Pending, Owes, Owing, Engaged
<1> QED
  BY <1>1, Invariance, PTL
-----------------------------------------------------------------------------
(* What the ranks agree on.  An all-reduce brings every rank as far as the *)
(* one that leaves it, and a broadcast tells every rank what it told its   *)
(* root; this is read while no rank has failed, for a failure is answered  *)
(* in place of the ranks.                                                  *)

Session == [tokens : Nat, sent : Nat, ended : {"no", "stop", "length", "cancelled"},
            inside : BOOLEAN, reduces : Nat, syncs : Nat, words : Seq(BOOLEAN)]

(* The ranks that have taken the generation announced last. *)
In(r) == localGeneration[r] = workGeneration

(* The requests whose tokens every rank judges in the same way: a streamed one is      *)
(* looked through for stop strings after each token, or has none, and none in its      *)
(* prompt, which the root alone would leave out.                                       *)
RanksJudgeAlike ==
  \A q \in Workload : q.streamed => (q.interval = 1 \/ q.stop = 0) /\ ~q.stopInPrompt

Verdict(tokens) == IF (request.stop # 0 /\ tokens >= request.stop) \/ request.stopInPrompt
                   THEN "stop" ELSE "length"

(* Where a rank is in the loop of the request, by what it has counted. *)
Steady(r) ==
  /\ session[r].inside => worker[r] \in AllReduces \cup Broadcasts
  /\ session[r].reduces = IF session[r].inside /\ worker[r] \in AllReduces
                          THEN session[r].tokens + 1 ELSE session[r].tokens
  /\ session[r].sent <= session[r].tokens
  /\ worker[r] \in {"first sync", "settle"} => session[r].sent < session[r].tokens
  /\ worker[r] \in {"begin", "prefill"} => session[r].tokens = 0 /\ session[r].sent = 0

Ending(r) ==
  /\ worker[r] \in {"begin", "prefill"} => session[r].ended = "no"
  /\ worker[r] \in Broadcasts /\ ~(r = Root /\ session[r].inside) => session[r].ended = "no"
  /\ worker[r] \in Working \ {"finishing"} => session[r].ended \in {"no", "cancelled"}
  /\ worker[r] = "finishing" => session[r].ended # "no"
  /\ RanksJudgeAlike /\ session[r].ended \in {"stop", "length"} =>
       session[r].ended = Verdict(session[r].tokens)

(* A streamed request is synchronized once for each token, an other one never. *)
Marching(r) ==
  /\ request.streamed =>
       /\ worker[r] \in {"begin", "prefill"} => session[r].syncs = 0
       /\ worker[r] = "first sync" =>
            session[r].tokens = 1 /\ session[r].syncs = IF session[r].inside THEN 1 ELSE 0
       /\ worker[r] = "sync" =>
            session[r].syncs = IF session[r].inside THEN session[r].tokens + 1
                                                    ELSE session[r].tokens
       /\ worker[r] \in {"settle", "finishing"} => session[r].syncs = session[r].tokens
       /\ worker[r] = "step" => session[r].syncs = session[r].tokens + 1
  /\ ~request.streamed => session[r].syncs = 0 /\ worker[r] \notin Broadcasts

(* Whoever has a token has met every rank in the all-reduce that made it. *)
Joined(r) ==
  session[r].tokens >= 1 =>
    \A q \in Ranks : In(q) /\ session[q].reduces >= session[r].tokens

(* The last broadcast a rank has heard: the root hears its own when it sends it. *)
Heard(r) == IF r # Root /\ session[r].inside /\ worker[r] \in Broadcasts
            THEN session[r].syncs - 1 ELSE session[r].syncs

(* A rank is cancelled by the word that told it, and by nothing else. *)
Told(r) ==
  /\ Heard(r) >= 1 => In(Root) /\ session[Root].syncs >= Heard(r)
  /\ session[r].ended = "cancelled" <=> Heard(r) >= 1 /\ session[Root].words[Heard(r)]

(* A rank that reported success has ended the sequence. *)
Answered(r) ==
  statuses[r] = 1 =>
    /\ In(r) /\ worker[r] \notin Working /\ session[r].ended # "no"
    /\ request.streamed => session[r].syncs = session[r].tokens

Mine(r) == Steady(r) /\ Ending(r) /\ Marching(r) /\ Joined(r) /\ Told(r)

Together == /\ request \in Workload
            /\ In(Root) => Len(session[Root].words) = session[Root].syncs
            /\ \A r \in Ranks : Answered(r)
            /\ \A r \in Ranks : In(r) => Mine(r)

(* Nothing has failed yet in the dispatch under way. *)
Sound == main \in Waiting /\ ~workerFailed

Meeting == Sound => Together

(* What is left of a success while its caller has it. *)
Agreed ==
  /\ main = "starting" => outcome # "succeeded"
  /\ main = "idle" /\ outcome = "succeeded" =>
       \A r \in Ranks : /\ In(r)
                        /\ session[r].ended # "no"
                        /\ session[r].tokens = session[Root].tokens
                        /\ RanksJudgeAlike => session[r].ended = session[Root].ended

Aborting == {"abort, report", "abort, publish", "abort, go", "abort, publish, go"}

(* Communicators are aborted after the failure is recorded, or for good. *)
FailureFirst ==
  /\ \A r \in Ranks : worker[r] \in Aborting => workerFailed
  /\ aborted => workerFailed \/ main \in {"stop", "stopping", "join", "closed"}

SessionTyped == /\ session \in [Ranks -> Session]
                /\ statuses \in [Ranks -> {0, 1}]
                /\ workerFailed \in BOOLEAN /\ aborted \in BOOLEAN
                /\ \A r \in Ranks : localGeneration[r] <= workGeneration

Unison == SessionTyped /\ FailureFirst /\ Meeting /\ Agreed

-----------------------------------------------------------------------------
(* What the step of one rank leaves to the others: its own counters only grow, and     *)
(* what it has broadcast is not taken back.                                             *)
Onward(r) ==
  /\ request' = request /\ workGeneration' = workGeneration
  /\ \A q \in Ranks \ {r} : /\ session'[q] = session[q]
                            /\ worker'[q] = worker[q]
                            /\ localGeneration'[q] = localGeneration[q]
                            /\ statuses'[q] = statuses[q]
  /\ In(r) => /\ localGeneration'[r] = localGeneration[r]
              /\ session'[r].reduces >= session[r].reduces
              /\ session'[r].syncs >= session[r].syncs
              /\ \A i \in 1 .. Len(session[r].words) :
                    session'[r].words[i] = session[r].words[i]

Moves(r) == /\ Onward(r)
            /\ In(r)' => Mine(r)'
            /\ Answered(r)'
            /\ r = Root /\ In(Root)' => Len(session'[Root].words) = session'[Root].syncs

(* The numbers of a rank are numbers. *)
LEMMA Numbers ==
  ASSUME NEW S \in [Ranks -> Session], NEW r \in Ranks
  PROVE  /\ S[r].tokens \in Nat /\ S[r].sent \in Nat
         /\ S[r].reduces \in Nat /\ S[r].syncs \in Nat
         /\ S[r].inside \in BOOLEAN /\ S[r].words \in Seq(BOOLEAN)
         /\ S[r].ended \in {"no", "stop", "length", "cancelled"}
         /\ Len(S[r].words) \in Nat
<1>1. S[r] \in Session
  OBVIOUS
<1> QED
  BY <1>1 DEF Session

(* Root is a rank. *)
LEMMA RootIsRank == Root \in Ranks
  BY RanksAssumption DEF Root

(* The step of a rank disturbs nothing that is known of an other one. *)
LEMMA OthersStay ==
  ASSUME Typed, SessionTyped, SessionTyped', Together, NEW r \in Ranks, Onward(r),
         NEW p \in Ranks, p # r
  PROVE  /\ In(p)' => Mine(p)'
         /\ Answered(p)'
<1>1. /\ request' = request /\ workGeneration' = workGeneration
      /\ session'[p] = session[p] /\ worker'[p] = worker[p]
      /\ localGeneration'[p] = localGeneration[p] /\ statuses'[p] = statuses[p]
  BY DEF Onward
<1>2. In(p)' <=> In(p)
  BY <1>1 DEF In
<1>3. Answered(p)'
  BY <1>1, <1>2 DEF Together, Answered
<1>4. ASSUME In(p)
      PROVE  Mine(p)'
  <2>1. Steady(p) /\ Ending(p) /\ Marching(p) /\ Joined(p) /\ Told(p)
    BY <1>4 DEF Together, Mine
  <2>2. Steady(p)'
    BY <1>1, <2>1 DEF Steady
  <2>3. Ending(p)'
    BY <1>1, <2>1 DEF Ending, Verdict
  <2>4. Marching(p)'
    BY <1>1, <2>1 DEF Marching
  <2>5. Joined(p)'
    <3> SUFFICES ASSUME session[p].tokens >= 1, NEW q \in Ranks
                 PROVE  In(q)' /\ session'[q].reduces >= session[p].tokens
      BY <1>1 DEF Joined
    <3>1. In(q) /\ session[q].reduces >= session[p].tokens
      BY <2>1 DEF Joined
    <3>2. CASE q # r
      BY <1>1, <3>1, <3>2 DEF Onward, In
    <3>3. CASE q = r
      <4>1. localGeneration'[r] = localGeneration[r] /\ session'[r].reduces >= session[r].reduces
        BY <3>1, <3>3 DEF Onward
      <4>2. /\ session'[r].reduces \in Nat /\ session[r].reduces \in Nat
            /\ session[p].tokens \in Nat
        BY Numbers DEF SessionTyped
      <4>3. In(q)'
        BY <1>1, <3>1, <3>3, <4>1 DEF In
      <4> QED
        BY <3>1, <3>3, <4>1, <4>2, <4>3
    <3> QED
      BY <3>2, <3>3
  <2>6. Told(p)'
    <3>1. Heard(p)' = Heard(p)
      BY <1>1 DEF Heard
    <3>2. CASE r # Root
      BY <1>1, <2>1, <3>1, <3>2, RootIsRank DEF Told, Onward, In
    <3>3. CASE r = Root /\ ~In(Root)
      <4>1. ~(Heard(p) >= 1)
        BY <2>1, <3>3 DEF Told
      <4> QED
        BY <1>1, <2>1, <3>1, <4>1 DEF Told
    <3>4. CASE r = Root /\ In(Root)
      <4>1. /\ localGeneration'[Root] = localGeneration[Root]
            /\ session'[Root].syncs >= session[Root].syncs
            /\ \A i \in 1 .. Len(session[Root].words) :
                 session'[Root].words[i] = session[Root].words[i]
        BY <3>4 DEF Onward
      <4>2. Len(session[Root].words) = session[Root].syncs
        BY <3>4 DEF Together
      <4>3. session[Root].syncs \in Nat /\ session[p].syncs \in Nat
        BY Numbers, RootIsRank DEF SessionTyped
      <4>4. session'[Root].syncs \in Nat
        BY Numbers, RootIsRank DEF SessionTyped
      <4>5. Heard(p) \in Int
        BY <4>3 DEF Heard
      <4>6. In(Root)'
        BY <1>1, <3>4, <4>1 DEF In
      <4>7. Heard(p) >= 1 => /\ session'[Root].syncs >= Heard(p)
                             /\ session'[Root].words[Heard(p)] = session[Root].words[Heard(p)]
        <5> SUFFICES ASSUME Heard(p) >= 1
                     PROVE  /\ session'[Root].syncs >= Heard(p)
                            /\ session'[Root].words[Heard(p)] = session[Root].words[Heard(p)]
          OBVIOUS
        <5>1. session[Root].syncs >= Heard(p)
          BY <2>1 DEF Told
        <5>2. Heard(p) \in 1 .. Len(session[Root].words)
          BY <4>2, <4>3, <4>5, <5>1
        <5>3. session'[Root].syncs >= Heard(p)
          BY <4>1, <4>3, <4>4, <4>5, <5>1
        <5> QED
          BY <4>1, <5>2, <5>3
      <4> QED
        BY <1>1, <2>1, <3>1, <4>6, <4>7 DEF Told
    <3> QED
      BY <3>2, <3>3, <3>4
  <2> QED
    BY <2>2, <2>3, <2>4, <2>5, <2>6 DEF Mine
<1> QED
  BY <1>2, <1>3, <1>4

(* So a step that carries one rank on carries them all. *)
LEMMA OneMoves ==
  ASSUME Typed, SessionTyped, SessionTyped', Together, NEW r \in Ranks, Moves(r)
  PROVE  Together'
<1>1. request' \in Workload
  BY DEF Moves, Onward, Together
<1>2. \A p \in Ranks : In(p)' => Mine(p)'
  BY OthersStay DEF Moves
<1>3. \A p \in Ranks : Answered(p)'
  BY OthersStay DEF Moves
<1>4. In(Root)' => Len(session'[Root].words) = session'[Root].syncs
  BY RootIsRank DEF Moves, Onward, Together, In
<1> QED
  BY <1>1, <1>2, <1>3, <1>4 DEF Together

-----------------------------------------------------------------------------
(* A rank outside its request, or on its way out of it, carries its session along.     *)
LEMMA RestMoves ==
  ASSUME SessionTyped, Together, NEW r \in Ranks,
         UNCHANGED <<request, workGeneration, localGeneration, session, statuses>>,
         \A q \in Ranks \ {r} : worker'[q] = worker[q],
         worker'[r] \notin Working,
         worker[r] \in Working => ~session[r].inside
  PROVE  Moves(r)
<1>1. In(r)' <=> In(r)
  BY DEF In
<1>2. Answered(r)'
  BY <1>1 DEF Together, Answered
<1>3. ASSUME In(r)
      PROVE  Mine(r)'
  <2>1. Steady(r) /\ Ending(r) /\ Marching(r) /\ Joined(r) /\ Told(r)
    BY <1>3 DEF Together, Mine
  <2>2. session[r].inside => worker[r] \in Working
    BY <2>1 DEF Steady, Working
  <2>3. ~session[r].inside
    BY <2>2
  <2>4. /\ worker'[r] \notin AllReduces \cup Broadcasts
        /\ worker'[r] \notin {"first sync", "sync", "settle", "begin", "prefill", "step", "finishing"}
    BY DEF Working, AllReduces, Broadcasts
  <2>5. Steady(r)'
    BY <2>1, <2>3, <2>4 DEF Steady
  <2>6. Ending(r)'
    BY <2>1, <2>3, <2>4 DEF Ending, Verdict
  <2>7. Marching(r)'
    BY <2>1, <2>3, <2>4 DEF Marching
  <2>8. Joined(r)'
    BY <2>1 DEF Joined, In
  <2>9. Heard(r)' = Heard(r)
    BY <2>3 DEF Heard
  <2>10. Told(r)'
    BY <2>1, <2>9 DEF Told, In
  <2> QED
    BY <2>5, <2>6, <2>7, <2>8, <2>10 DEF Mine
<1>4. Onward(r)
  <2>1. session[r].reduces \in Nat /\ session[r].syncs \in Nat
    BY Numbers DEF SessionTyped
  <2> QED
    BY <2>1 DEF Onward
<1> QED
  BY <1>1, <1>2, <1>3, <1>4 DEF Moves, Together, In

(* Look() takes the generation with a fresh session. *)
LEMMA TakingMoves ==
  ASSUME Typed, SessionTyped, Together, NEW r \in Ranks, Look(r)
  PROVE  Moves(r)
<1>1. UNCHANGED <<request, workGeneration, statuses>>
  BY DEF Look, callVars, taskVars
<1>2. /\ \A q \in Ranks \ {r} : worker'[q] = worker[q]
      /\ worker'[r] \in {"leaving", "begin", "drowsy"}
      /\ worker[r] = "look"
  BY DEF Look, GoTo, Typed
<1>3. CASE UNCHANGED <<localGeneration, session>>
  <2>1. worker'[r] \notin Working
    <3>1. worker'[r] # "begin"
      <4>1. worker'[r] = "begin" => localGeneration'[r] = workGeneration /\ workGeneration > localGeneration[r]
        BY DEF Look, GoTo, Typed
      <4>2. localGeneration[r] \in Nat /\ workGeneration \in Nat
        BY DEF Typed
      <4> QED
        BY <1>3, <4>1, <4>2
    <3> QED
      BY <1>2, <3>1 DEF Working, AllReduces, Broadcasts
  <2>2. worker[r] \notin Working
    BY <1>2 DEF Working, AllReduces, Broadcasts
  <2> QED
    BY <1>1, <1>2, <1>3, <2>1, <2>2, RestMoves
<1>4. CASE ~ UNCHANGED <<localGeneration, session>>
  <2>1. /\ workGeneration > localGeneration[r]
        /\ localGeneration' = [localGeneration EXCEPT ![r] = workGeneration]
        /\ session' = [session EXCEPT ![r] = Fresh]
        /\ worker' = [worker EXCEPT ![r] = "begin"]
    BY <1>4 DEF Look, GoTo
  <2>2. ~In(r)
    <3>1. localGeneration[r] \in Nat /\ workGeneration \in Nat
      BY DEF Typed
    <3> QED
      BY <2>1, <3>1 DEF In
  <2>3. /\ localGeneration'[r] = workGeneration /\ worker'[r] = "begin"
        /\ session'[r] = Fresh
        /\ \A q \in Ranks \ {r} : /\ localGeneration'[q] = localGeneration[q]
                                  /\ session'[q] = session[q]
    BY <2>1 DEF Typed, SessionTyped
  <2>4. Onward(r)
    BY <1>1, <1>2, <2>2, <2>3 DEF Onward
  <2>5. Answered(r)'
    BY <1>1, <2>2 DEF Answered, Together
  <2>6. Mine(r)'
    <3>1. /\ session'[r].tokens = 0 /\ session'[r].sent = 0 /\ session'[r].ended = "no"
          /\ session'[r].inside = FALSE /\ session'[r].reduces = 0 /\ session'[r].syncs = 0
      BY <2>3 DEF Fresh
    <3>2. worker'[r] \notin AllReduces \cup Broadcasts
      BY <2>3 DEF AllReduces, Broadcasts
    <3>3. Steady(r)'
      BY <2>3, <3>1, <3>2 DEF Steady
    <3>4. Ending(r)'
      BY <2>3, <3>1, <3>2 DEF Ending
    <3>5. Marching(r)'
      BY <2>3, <3>1, <3>2 DEF Marching
    <3>6. Joined(r)'
      BY <3>1 DEF Joined
    <3>7. Told(r)'
      BY <3>1 DEF Told, Heard
    <3> QED
      BY <3>3, <3>4, <3>5, <3>6, <3>7 DEF Mine
  <2>7. r = Root => Len(session'[Root].words) = session'[Root].syncs
    BY <2>3 DEF Fresh
  <2> QED
    BY <2>4, <2>5, <2>6, <2>7 DEF Moves
<1> QED
  BY <1>3, <1>4

(* Begin() refuses a request that is too long, or goes to the prefill. *)
LEMMA BeginMoves ==
  ASSUME Typed, SessionTyped, Together, NEW r \in Ranks, In(r), Begin(r)
  PROVE  Moves(r)
<1>1. /\ UNCHANGED <<request, workGeneration, localGeneration, session, statuses>>
      /\ worker[r] = "begin"
      /\ worker' \in {[worker EXCEPT ![r] = "publish"], [worker EXCEPT ![r] = "prefill"]}
  BY DEF Begin, GoTo, callVars, workVars
<1>2. /\ \A q \in Ranks \ {r} : worker'[q] = worker[q]
      /\ worker'[r] \in {"publish", "prefill"}
  BY <1>1 DEF Typed
<1>3. Steady(r) /\ Ending(r) /\ Marching(r) /\ Joined(r) /\ Told(r)
  BY DEF Together, Mine
<1>4. ~session[r].inside
  BY <1>1, <1>3 DEF Steady, AllReduces, Broadcasts
<1>5. CASE worker'[r] = "publish"
  <2>1. worker'[r] \notin Working
    BY <1>5 DEF Working, AllReduces, Broadcasts
  <2> QED
    BY <1>1, <1>2, <1>4, <2>1, RestMoves
<1>6. CASE worker'[r] = "prefill"
  <2>1. In(r)'
    BY <1>1 DEF In
  <2>2. Steady(r)'
    BY <1>1, <1>3, <1>4, <1>6 DEF Steady, AllReduces, Broadcasts
  <2>3. Ending(r)'
    BY <1>1, <1>3, <1>6 DEF Ending, Verdict, Working, AllReduces, Broadcasts
  <2>4. Marching(r)'
    BY <1>1, <1>3, <1>6 DEF Marching, Broadcasts
  <2>5. Joined(r)'
    BY <1>1, <1>3 DEF Joined, In
  <2>6. Told(r)'
    <3>1. Heard(r)' = Heard(r)
      BY <1>1, <1>4 DEF Heard
    <3> QED
      BY <1>1, <1>3, <3>1 DEF Told, In
  <2>7. Answered(r)'
    <3>1. statuses[r] # 1
      BY <1>1 DEF Together, Answered, Working
    <3> QED
      BY <1>1, <3>1 DEF Answered
  <2>8. Onward(r)
    <3>1. session[r].reduces \in Nat /\ session[r].syncs \in Nat
      BY Numbers DEF SessionTyped
    <3> QED
      BY <1>1, <1>2, <3>1 DEF Onward
  <2> QED
    BY <1>1, <2>2, <2>3, <2>4, <2>5, <2>6, <2>7, <2>8 DEF Moves, Mine, Together, In
<1> QED
  BY <1>2, <1>5, <1>6

(* A rank that works has not answered, and what is known of it is known in parts. *)
LEMMA AtWork ==
  ASSUME Together, NEW r \in Ranks, In(r), worker[r] \in Working
  PROVE  /\ Steady(r) /\ Ending(r) /\ Marching(r) /\ Joined(r) /\ Told(r)
         /\ statuses[r] # 1
         /\ request \in Workload
  BY DEF Together, Mine, Answered

(* EnterAllReduce() counts the all-reduce the rank is now inside of. *)
LEMMA EnterAllReduceMoves ==
  ASSUME Typed, SessionTyped, Together, NEW r \in Ranks, In(r), EnterAllReduce(r)
  PROVE  Moves(r)
<1>1. /\ UNCHANGED <<request, workGeneration, localGeneration, worker, statuses>>
      /\ worker[r] \in AllReduces /\ ~session[r].inside
  BY DEF EnterAllReduce, callVars, workVars, taskVars
<1>2. /\ \A q \in Ranks \ {r} : session'[q] = session[q]
      /\ session'[r].inside = TRUE /\ session'[r].reduces = session[r].reduces + 1
      /\ session'[r].tokens = session[r].tokens /\ session'[r].sent = session[r].sent
      /\ session'[r].syncs = session[r].syncs /\ session'[r].ended = session[r].ended
      /\ session'[r].words = session[r].words
  <2>1. session' = [session EXCEPT ![r] = [session[r] EXCEPT !.inside = TRUE, !.reduces = @ + 1]]
    BY DEF EnterAllReduce, SessionTyped
  <2>2. session[r] \in Session
    BY DEF SessionTyped
  <2> QED
    BY <2>1, <2>2 DEF SessionTyped, Session
<1>3. /\ session[r].tokens \in Nat /\ session[r].reduces \in Nat /\ session[r].syncs \in Nat
  BY Numbers DEF SessionTyped
<1>4. /\ Steady(r) /\ Ending(r) /\ Marching(r) /\ Joined(r) /\ Told(r) /\ statuses[r] # 1
  BY <1>1, AtWork DEF Working
<1>5. worker[r] \notin Broadcasts \cup {"first sync", "sync", "settle", "finishing"}
  BY <1>1 DEF AllReduces, Broadcasts
<1>6. Steady(r)'
  BY <1>1, <1>2, <1>3, <1>4, <1>5 DEF Steady
<1>7. Ending(r)'
  BY <1>1, <1>2, <1>4, <1>5 DEF Ending, Verdict
<1>8. Marching(r)'
  BY <1>1, <1>2, <1>4, <1>5 DEF Marching
<1>9. Joined(r)'
  <2> SUFFICES ASSUME session[r].tokens >= 1, NEW q \in Ranks
               PROVE  In(q)' /\ session'[q].reduces >= session[r].tokens
    BY <1>2 DEF Joined
  <2>1. In(q) /\ session[q].reduces >= session[r].tokens
    BY <1>4 DEF Joined
  <2> QED
    BY <1>1, <1>2, <1>3, <2>1 DEF In
<1>10. Told(r)'
  <2>1. Heard(r)' = Heard(r)
    BY <1>1, <1>2, <1>5 DEF Heard
  <2>2. session'[Root].syncs = session[Root].syncs /\ session'[Root].words = session[Root].words
    BY <1>2, RootIsRank
  <2> QED
    BY <1>1, <1>2, <1>4, <2>1, <2>2 DEF Told, In
<1>11. Onward(r)
  BY <1>1, <1>2, <1>3 DEF Onward
<1> QED
  BY <1>1, <1>2, <1>4, <1>6, <1>7, <1>8, <1>9, <1>10, <1>11 DEF Moves, Mine, Answered, Together, In

(* LeaveAllReduce() ends with one token more, and every rank has come as far. *)
LEMMA LeaveAllReduceMoves ==
  ASSUME Typed, SessionTyped, Together, NEW r \in Ranks, In(r), LeaveAllReduce(r), ~aborted
  PROVE  Moves(r)
<1>1. /\ UNCHANGED <<request, workGeneration, localGeneration, statuses>>
      /\ worker[r] \in AllReduces /\ session[r].inside
      /\ worker' = [worker EXCEPT ![r] = IF worker[r] = "prefill" /\ request.streamed
                                         THEN "first sync" ELSE "settle"]
  BY DEF LeaveAllReduce, callVars, workVars, taskVars, GoTo
<1>2. /\ \A q \in Ranks \ {r} : session'[q] = session[q] /\ worker'[q] = worker[q]
      /\ worker'[r] = IF worker[r] = "prefill" /\ request.streamed THEN "first sync" ELSE "settle"
      /\ session'[r].inside = FALSE /\ session'[r].reduces = session[r].reduces
      /\ session'[r].tokens = session[r].tokens + 1 /\ session'[r].sent = session[r].sent
      /\ session'[r].syncs = session[r].syncs /\ session'[r].ended = session[r].ended
      /\ session'[r].words = session[r].words
  <2>1. session' = [session EXCEPT ![r] = [session[r] EXCEPT !.inside = FALSE, !.tokens = @ + 1]]
    BY DEF LeaveAllReduce, SessionTyped
  <2>2. session[r] \in Session
    BY DEF SessionTyped
  <2> QED
    BY <1>1, <2>1, <2>2 DEF SessionTyped, Session, Typed
<1>3. /\ session[r].tokens \in Nat /\ session[r].reduces \in Nat /\ session[r].syncs \in Nat
      /\ session[r].sent \in Nat
  BY Numbers DEF SessionTyped
<1>4. /\ Steady(r) /\ Ending(r) /\ Marching(r) /\ Joined(r) /\ Told(r) /\ statuses[r] # 1
      /\ request \in Workload
  BY <1>1, AtWork DEF Working
<1>5. worker[r] \notin Broadcasts \cup {"first sync", "sync", "settle", "finishing", "begin"}
  BY <1>1 DEF AllReduces, Broadcasts
<1>6. session[r].reduces = session[r].tokens + 1
  BY <1>1, <1>4 DEF Steady
<1>7. /\ worker'[r] \in {"first sync", "settle"} /\ worker'[r] \notin AllReduces
      /\ worker'[r] \notin {"begin", "prefill", "sync", "step", "finishing"}
      /\ worker'[r] \in Broadcasts <=> worker'[r] = "first sync"
  BY <1>2 DEF AllReduces, Broadcasts
<1>8. Steady(r)'
  <2>1. session[r].sent <= session[r].tokens
    BY <1>4 DEF Steady
  <2>2. session[r].sent < session[r].tokens + 1 /\ session[r].sent <= session[r].tokens + 1
    BY <1>3, <2>1
  <2> QED
    BY <1>1, <1>2, <1>6, <1>7, <2>2 DEF Steady
<1>9. session[r].ended \in {"no", "cancelled"} /\ (worker[r] = "prefill" => session[r].ended = "no")
  BY <1>1, <1>4, <1>5 DEF Ending, Working
<1>10. Ending(r)'
  BY <1>2, <1>7, <1>9 DEF Ending
<1>11. Marching(r)'
  <2>1. worker[r] = "prefill" => session[r].tokens = 0
    BY <1>4 DEF Steady
  <2>2. worker[r] \in {"prefill", "step"}
    BY <1>1 DEF AllReduces
  <2>3. CASE request.streamed /\ worker[r] = "prefill"
    <3>1. worker'[r] = "first sync" /\ session'[r].syncs = 0 /\ session'[r].tokens = 1
      <4>1. session[r].syncs = 0
        BY <1>4, <2>3 DEF Marching
      <4>2. session[r].tokens = 0
        BY <2>1, <2>3
      <4>3. session'[r].syncs = session[r].syncs /\ session'[r].tokens = session[r].tokens + 1
        BY <1>2
      <4>4. worker'[r] = "first sync"
        BY <1>2, <2>3
      <4> QED
        <5>1. session'[r].syncs = 0
          BY <4>1, <4>3
        <5>2. session[r].tokens + 1 = 1
          BY <4>2
        <5>3. session'[r].tokens = 1
          BY <4>3, <5>2
        <5> QED
          BY <4>4, <5>1, <5>3
    <3> QED
      BY <1>1, <1>2, <2>3, <3>1 DEF Marching
  <2>4. CASE request.streamed /\ worker[r] = "step"
    <3>1. worker'[r] = "settle" /\ session'[r].syncs = session'[r].tokens
      BY <1>2, <1>4, <2>4 DEF Marching
    <3> QED
      BY <1>1, <2>4, <3>1 DEF Marching
  <2>5. CASE ~request.streamed
    <3>1. worker'[r] = "settle" /\ session'[r].syncs = 0
      BY <1>2, <1>4, <2>5 DEF Marching
    <3> QED
      BY <1>1, <1>7, <2>5, <3>1 DEF Marching
  <2> QED
    BY <2>2, <2>3, <2>4, <2>5
<1>12. Joined(r)'
  <2> SUFFICES ASSUME NEW q \in Ranks
               PROVE  In(q)' /\ session'[q].reduces >= session[r].tokens + 1
    BY <1>2 DEF Joined
  <2>1. localGeneration[q] = localGeneration[r] /\ session[q].reduces >= session[r].reduces
    BY <1>1 DEF LeaveAllReduce, Met
  <2>2. In(q)'
    BY <1>1, <2>1 DEF In
  <2>3. session'[q].reduces = session[q].reduces
    BY <1>2
  <2> QED
    BY <1>6, <2>1, <2>2, <2>3
<1>13. Told(r)'
  <2>1. Heard(r)' = Heard(r)
    BY <1>2, <1>5 DEF Heard
  <2>2. session'[Root].syncs = session[Root].syncs /\ session'[Root].words = session[Root].words
    BY <1>2, RootIsRank
  <2> QED
    BY <1>1, <1>2, <1>4, <2>1, <2>2 DEF Told, In
<1>14. Onward(r)
  <2>1. session'[r].reduces >= session[r].reduces /\ session'[r].syncs >= session[r].syncs
    <3>1. session'[r].reduces = session[r].reduces /\ session'[r].syncs = session[r].syncs
      BY <1>2
    <3> QED
      BY <1>3, <3>1
  <2>2. \A q \in Ranks \ {r} : session'[q] = session[q] /\ worker'[q] = worker[q]
    BY <1>2
  <2>3. session'[r].words = session[r].words
    BY <1>2
  <2> QED
    BY <1>1, <2>1, <2>2, <2>3 DEF Onward
<1> QED
  BY <1>1, <1>2, <1>4, <1>8, <1>10, <1>11, <1>12, <1>13, <1>14 DEF Moves, Mine, Answered, Together, In

(* EnterBroadcast(): the root broadcasts what it decides there and then, the others    *)
(* have heard nothing yet.                                                              *)
LEMMA EnterBroadcastMoves ==
  ASSUME Typed, SessionTyped, Together, NEW r \in Ranks, In(r), EnterBroadcast(r)
  PROVE  Moves(r)
<1>1. /\ UNCHANGED <<request, workGeneration, localGeneration, worker, statuses>>
      /\ worker[r] \in Broadcasts /\ ~session[r].inside
  BY DEF EnterBroadcast, callVars, workVars, taskVars
<1>2. PICK ended : /\ ended = IF HasChannel(r) /\ cancelled /\ session[r].ended = "no"
                              THEN "cancelled" ELSE session[r].ended
                   /\ session' = [session EXCEPT ![r].inside = TRUE, ![r].syncs = @ + 1,
                                    ![r].ended = ended, ![r].words = Append(@, ended = "cancelled")]
  BY DEF EnterBroadcast
<1>3. PICK word : word = (ended = "cancelled")
  OBVIOUS
<1>4. /\ \A q \in Ranks \ {r} : session'[q] = session[q]
      /\ session'[r].inside = TRUE /\ session'[r].reduces = session[r].reduces
      /\ session'[r].tokens = session[r].tokens /\ session'[r].sent = session[r].sent
      /\ session'[r].syncs = session[r].syncs + 1 /\ session'[r].ended = ended
      /\ session'[r].words = Append(session[r].words, word)
  <2>1. session' = [session EXCEPT ![r] = [session[r] EXCEPT !.inside = TRUE, !.syncs = @ + 1,
                               !.ended = ended, !.words = Append(@, word)]]
    BY <1>2, <1>3 DEF SessionTyped
  <2>2. session[r] \in Session
    BY DEF SessionTyped
  <2> QED
    BY <2>1, <2>2 DEF SessionTyped, Session
<1>5. /\ session[r].tokens \in Nat /\ session[r].reduces \in Nat /\ session[r].syncs \in Nat
      /\ session[r].words \in Seq(BOOLEAN) /\ session[r].sent \in Nat
  BY Numbers DEF SessionTyped
<1>6. /\ Steady(r) /\ Ending(r) /\ Marching(r) /\ Joined(r) /\ Told(r) /\ statuses[r] # 1
  BY <1>1, AtWork DEF Working
<1>7. worker[r] \notin AllReduces \cup {"settle", "finishing", "begin", "prefill", "step"}
  BY <1>1 DEF AllReduces, Broadcasts
<1>8. /\ session[r].ended = "no"
      /\ ended \in {"no", "cancelled"}
      /\ ended = "cancelled" => r = Root
  <2>1. session[r].ended = "no"
    BY <1>1, <1>6 DEF Ending
  <2> QED
    BY <1>2, <2>1 DEF HasChannel
<1>9. Steady(r)'
  BY <1>1, <1>4, <1>6, <1>7 DEF Steady
<1>10. Ending(r)'
  <2>1. worker[r] \in Broadcasts /\ ~(r = Root) => ended = "no"
    BY <1>8
  <2> QED
    BY <1>1, <1>4, <1>7, <1>8, <2>1 DEF Ending
<1>11. Marching(r)'
  <2>1. request.streamed
    BY <1>1, <1>6 DEF Marching
  <2>2. worker[r] = "first sync" => session[r].tokens = 1 /\ session[r].syncs = 0
    BY <1>1, <1>6, <2>1 DEF Marching
  <2>3. worker[r] = "sync" => session[r].syncs = session[r].tokens
    BY <1>1, <1>6, <2>1 DEF Marching
  <2>4. worker[r] = "first sync" => session'[r].tokens = 1 /\ session'[r].syncs = 1
    <3>1. session'[r].syncs = session[r].syncs + 1 /\ session'[r].tokens = session[r].tokens
      BY <1>4
    <3>2. session[r].syncs = 0 => session[r].syncs + 1 = 1
      OBVIOUS
    <3> QED
      BY <2>2, <3>1, <3>2
  <2>5. worker[r] = "sync" => session'[r].syncs = session'[r].tokens + 1
    BY <1>4, <2>3
  <2> QED
    BY <1>1, <1>4, <1>7, <2>1, <2>4, <2>5 DEF Marching
<1>12. Joined(r)'
  <2> SUFFICES ASSUME session[r].tokens >= 1, NEW q \in Ranks
               PROVE  In(q)' /\ session'[q].reduces >= session[r].tokens
    BY <1>4 DEF Joined
  <2>1. In(q) /\ session[q].reduces >= session[r].tokens
    BY <1>6 DEF Joined
  <2> QED
    BY <1>1, <1>4, <2>1 DEF In
<1>13. Told(r)'
  <2>1. CASE r # Root
    <3>1. session'[Root] = session[Root]
      BY <1>4, <2>1, RootIsRank
    <3>2. Heard(r)' = Heard(r)
      BY <1>1, <1>4, <1>5, <2>1 DEF Heard
    <3>3. ended = session[r].ended
      BY <1>8, <2>1
    <3> QED
      BY <1>1, <1>4, <1>6, <3>1, <3>2, <3>3 DEF Told, In
  <2>2. CASE r = Root
    <3>1. Heard(r)' = session[r].syncs + 1
      BY <1>4, <2>2 DEF Heard
    <3>2. Len(session[r].words) = session[r].syncs
      BY <2>2 DEF Together
    <3>3. session'[r].words[session[r].syncs + 1] = word
      BY <1>4, <1>5, <3>2
    <3>4. In(r)'
      BY <1>1 DEF In
    <3>5. session[r].syncs + 1 >= 1
      BY <1>5
    <3>6. session'[r].ended = "cancelled" <=> session'[r].words[Heard(r)']
      BY <1>3, <1>4, <3>1, <3>3
    <3>7. session'[r].syncs >= Heard(r)' /\ Heard(r)' >= 1
      BY <1>4, <1>5, <3>1, <3>5
    <3> QED
      BY <2>2, <3>4, <3>6, <3>7 DEF Told
  <2> QED
    BY <2>1, <2>2
<1>14. Onward(r)
  <2>1. /\ session'[r].reduces >= session[r].reduces /\ session'[r].syncs >= session[r].syncs
    BY <1>4, <1>5
  <2>2. \A i \in 1 .. Len(session[r].words) : session'[r].words[i] = session[r].words[i]
    BY <1>4, <1>5
  <2> QED
    BY <1>1, <1>4, <2>1, <2>2 DEF Onward
<1>15. r = Root => Len(session'[Root].words) = session'[Root].syncs
  BY <1>4, <1>5 DEF Together
<1> QED
  BY <1>1, <1>6, <1>9, <1>10, <1>11, <1>12, <1>13, <1>14, <1>15 DEF Moves, Mine, Answered

(* LeaveBroadcast() takes the word of the root.                                         *)
LEMMA LeaveBroadcastMoves ==
  ASSUME Typed, SessionTyped, Together, NEW r \in Ranks, In(r), LeaveBroadcast(r), ~aborted
  PROVE  Moves(r)
<1>1. /\ UNCHANGED <<request, workGeneration, localGeneration, statuses>>
      /\ worker[r] \in Broadcasts /\ session[r].inside /\ Met(r)
      /\ worker' = [worker EXCEPT ![r] = IF worker[r] = "first sync" THEN "settle" ELSE "step"]
  BY DEF LeaveBroadcast, callVars, workVars, taskVars, GoTo
<1>2. PICK word : /\ word = session[Root].words[session[r].syncs]
                  /\ session' = [session EXCEPT ![r].inside = FALSE,
                                   ![r].ended = IF word /\ @ = "no" THEN "cancelled" ELSE @]
  BY <1>1 DEF LeaveBroadcast
<1>3. PICK ended : ended = IF word /\ session[r].ended = "no" THEN "cancelled" ELSE session[r].ended
  OBVIOUS
<1>4. /\ \A q \in Ranks \ {r} : session'[q] = session[q]
      /\ session'[r].inside = FALSE /\ session'[r].reduces = session[r].reduces
      /\ session'[r].tokens = session[r].tokens /\ session'[r].sent = session[r].sent
      /\ session'[r].syncs = session[r].syncs /\ session'[r].ended = ended
      /\ session'[r].words = session[r].words
  <2>1. session' = [session EXCEPT ![r] = [session[r] EXCEPT !.inside = FALSE, !.ended = ended]]
    BY <1>2, <1>3 DEF SessionTyped
  <2>2. session[r] \in Session
    BY DEF SessionTyped
  <2> QED
    BY <2>1, <2>2 DEF SessionTyped, Session
<1>5. /\ session[r].tokens \in Nat /\ session[r].reduces \in Nat /\ session[r].syncs \in Nat
      /\ session[r].words \in Seq(BOOLEAN) /\ session[r].sent \in Nat
      /\ session[Root].syncs \in Nat
  BY Numbers, RootIsRank DEF SessionTyped
<1>6. /\ Steady(r) /\ Ending(r) /\ Marching(r) /\ Joined(r) /\ Told(r) /\ statuses[r] # 1
  BY <1>1, AtWork DEF Working
<1>7. /\ worker[r] \in {"first sync", "sync"} /\ worker[r] \notin AllReduces
      /\ worker'[r] = IF worker[r] = "first sync" THEN "settle" ELSE "step"
      /\ \A q \in Ranks \ {r} : worker'[q] = worker[q]
  BY <1>1 DEF Broadcasts, AllReduces, Typed
<1>8. worker'[r] \in {"settle", "step"} /\ worker'[r] \notin Broadcasts /\ worker'[r] # "first sync"
      /\ worker'[r] \notin {"begin", "prefill", "sync", "finishing"}
  BY <1>7 DEF Broadcasts
<1>9. /\ session[r].ended \in {"no", "cancelled"} /\ ended \in {"no", "cancelled"}
      /\ r # Root => session[r].ended = "no"
  <2>1. worker[r] # "finishing"
    BY <1>7
  <2>2. session[r].ended \in {"no", "cancelled"} /\ (r # Root => session[r].ended = "no")
    BY <1>1, <1>6, <2>1 DEF Ending, Working
  <2> QED
    BY <1>3, <2>2
<1>10. Steady(r)'
  BY <1>4, <1>6, <1>7, <1>8 DEF Steady
<1>11. Ending(r)'
  BY <1>4, <1>8, <1>9 DEF Ending
<1>12. request.streamed
  BY <1>1, <1>6 DEF Marching
<1>13. /\ worker[r] = "first sync" => session[r].tokens = 1 /\ session[r].syncs = 1
       /\ worker[r] = "sync" => session[r].syncs = session[r].tokens + 1
  BY <1>1, <1>6, <1>12 DEF Marching
<1>14. Marching(r)'
  <2>1. CASE worker[r] = "first sync"
    <3>1. worker'[r] = "settle" /\ session'[r].syncs = session'[r].tokens
      BY <1>4, <1>7, <1>13, <2>1
    <3> QED
      BY <1>1, <1>12, <3>1 DEF Marching
  <2>2. CASE worker[r] = "sync"
    <3>1. worker'[r] = "step"
      BY <1>7, <2>2
    <3>2. session'[r].syncs = session'[r].tokens + 1
      BY <1>4, <1>13, <2>2
    <3> QED
      BY <1>1, <1>12, <3>1, <3>2 DEF Marching
  <2> QED
    BY <1>7, <2>1, <2>2
<1>15. Joined(r)'
  <2> SUFFICES ASSUME session[r].tokens >= 1, NEW q \in Ranks
               PROVE  In(q)' /\ session'[q].reduces >= session[r].tokens
    BY <1>4 DEF Joined
  <2>1. In(q) /\ session[q].reduces >= session[r].tokens
    BY <1>6 DEF Joined
  <2> QED
    BY <1>1, <1>4, <2>1 DEF In
<1>16. session[r].syncs >= 1
  <2>1. CASE worker[r] = "first sync"
    <3>1. session[r].syncs = 1
      BY <1>13, <2>1
    <3> QED
      BY <3>1
  <2>2. CASE worker[r] = "sync"
    <3>1. session[r].syncs = session[r].tokens + 1
      BY <1>13, <2>2
    <3> QED
      BY <1>5, <3>1
  <2> QED
    BY <1>7, <2>1, <2>2
<1>17. Told(r)'
  <2>1. Heard(r)' = session[r].syncs
    BY <1>4 DEF Heard
  <2>2. /\ localGeneration[Root] = localGeneration[r]
        /\ session[Root].syncs >= session[r].syncs
    BY <1>1, <1>7 DEF Met
  <2>3. In(Root)'
    BY <1>1, <2>2 DEF In
  <2>4. session'[Root].syncs = session[Root].syncs /\ session'[Root].words = session[Root].words
    BY <1>4, RootIsRank
  <2>5. ended = "cancelled" <=> word
    <3>1. CASE r # Root
      BY <1>3, <1>9, <3>1
    <3>2. CASE r = Root
      <4>1. Heard(r) = session[r].syncs
        BY <3>2 DEF Heard
      <4>2. session[r].ended = "cancelled" <=> word
        BY <1>2, <1>6, <1>16, <4>1 DEF Told
      <4> QED
        BY <1>3, <1>9, <4>2
    <3> QED
      BY <3>1, <3>2
  <2>6. session'[Root].syncs >= Heard(r)'
    BY <2>1, <2>2, <2>4
  <2>7. session'[r].ended = "cancelled" <=> session'[Root].words[Heard(r)']
    BY <1>2, <1>4, <2>1, <2>4, <2>5
  <2>8. Heard(r)' >= 1
    BY <1>16, <2>1
  <2> QED
    BY <2>3, <2>6, <2>7, <2>8 DEF Told
<1>18. Onward(r)
  <2>1. session'[r].reduces >= session[r].reduces /\ session'[r].syncs >= session[r].syncs
    BY <1>4, <1>5
  <2> QED
    BY <1>1, <1>4, <1>7, <2>1 DEF Onward
<1>19. r = Root => Len(session'[Root].words) = session'[Root].syncs
  BY <1>4 DEF Together
<1> QED
  BY <1>1, <1>6, <1>10, <1>11, <1>14, <1>15, <1>17, <1>18, <1>19 DEF Moves, Mine, Answered

(* Settle() ends the sequence with the verdict on its tokens, unless the row has been  *)
(* cancelled.                                                                            *)
LEMMA SettleMoves ==
  ASSUME Typed, SessionTyped, Together, NEW r \in Ranks, In(r), Settle(r)
  PROVE  Moves(r)
<1>1. /\ UNCHANGED <<request, workGeneration, localGeneration, statuses>>
      /\ worker[r] = "settle"
  BY DEF Settle, callVars, workVars, taskVars
<1>2. PICK ended, sent :
        /\ ended = IF FindsStop(r) /\ session[r].ended # "cancelled" THEN "stop"
                   ELSE IF session[r].ended = "no" /\ session[r].tokens >= request.length
                   THEN "length" ELSE session[r].ended
        /\ sent \in {session[r].tokens, session[r].sent}
        /\ session' = [session EXCEPT ![r].ended = ended, ![r].sent = sent]
        /\ worker' = [worker EXCEPT ![r] = IF ended # "no" THEN "finishing"
                                           ELSE IF request.streamed THEN "sync" ELSE "step"]
  <2> DEFINE e == IF FindsStop(r) /\ session[r].ended # "cancelled" THEN "stop"
                  ELSE IF session[r].ended = "no" /\ session[r].tokens >= request.length
                  THEN "length" ELSE session[r].ended
             s == IF LooksForStops(r) THEN session[r].tokens ELSE session[r].sent
  <2>1. session' = [session EXCEPT ![r].ended = e, ![r].sent = s]
    BY DEF Settle, SessionTyped
  <2>2. worker' = [worker EXCEPT ![r] = IF e # "no" THEN "finishing"
                                        ELSE IF request.streamed THEN "sync" ELSE "step"]
    BY DEF Settle, GoTo
  <2>3. s \in {session[r].tokens, session[r].sent}
    OBVIOUS
  <2> QED
    BY <2>1, <2>2, <2>3
<1>3. /\ \A q \in Ranks \ {r} : session'[q] = session[q]
      /\ session'[r].inside = session[r].inside /\ session'[r].reduces = session[r].reduces
      /\ session'[r].tokens = session[r].tokens /\ session'[r].sent = sent
      /\ session'[r].syncs = session[r].syncs /\ session'[r].ended = ended
      /\ session'[r].words = session[r].words
  <2>1. session' = [session EXCEPT ![r] = [session[r] EXCEPT !.ended = ended, !.sent = sent]]
    BY <1>2 DEF SessionTyped
  <2>2. session[r] \in Session
    BY DEF SessionTyped
  <2> QED
    BY <2>1, <2>2 DEF SessionTyped, Session
<1>4. /\ session[r].tokens \in Nat /\ session[r].reduces \in Nat /\ session[r].syncs \in Nat
      /\ session[r].sent \in Nat
  BY Numbers DEF SessionTyped
<1>5. /\ Steady(r) /\ Ending(r) /\ Marching(r) /\ Joined(r) /\ Told(r) /\ statuses[r] # 1
      /\ request \in Workload
  BY <1>1, AtWork DEF Working
<1>6. ~session[r].inside
  BY <1>1, <1>5 DEF Steady, AllReduces, Broadcasts
<1>7. /\ worker'[r] = IF ended # "no" THEN "finishing"
                      ELSE IF request.streamed THEN "sync" ELSE "step"
      /\ \A q \in Ranks \ {r} : worker'[q] = worker[q]
  BY <1>2 DEF Typed
<1>8. worker'[r] \in {"finishing", "sync", "step"}
      /\ worker'[r] \notin {"begin", "prefill", "first sync", "settle"}
  BY <1>7
<1>9. session[r].sent < session[r].tokens /\ session[r].reduces = session[r].tokens
  BY <1>1, <1>5, <1>6 DEF Steady
<1>10. session[r].ended \in {"no", "cancelled"}
  BY <1>1, <1>5 DEF Ending, Working
<1>11. Steady(r)'
  <2>1. sent <= session[r].tokens
    BY <1>2, <1>4, <1>9
  <2> QED
    BY <1>3, <1>6, <1>8, <1>9, <2>1 DEF Steady
<1>12. RanksJudgeAlike => (FindsStop(r) <=> Verdict(session[r].tokens) = "stop")
  <2> SUFFICES ASSUME RanksJudgeAlike
               PROVE  FindsStop(r) <=> Verdict(session[r].tokens) = "stop"
    OBVIOUS
  <2>1. request.streamed => (request.interval = 1 \/ request.stop = 0) /\ ~request.stopInPrompt
    BY <1>5 DEF RanksJudgeAlike
  <2>2. request.interval = 1 => session[r].tokens - session[r].sent >= request.interval
    BY <1>4, <1>9
  <2>3. LooksForStops(r) \/ (request.streamed /\ request.stop = 0)
    BY <2>1, <2>2 DEF LooksForStops, HasChannel
  <2> QED
    BY <2>1, <2>3 DEF FindsStop, Verdict, HasChannel
<1>13. RanksJudgeAlike /\ ended \in {"stop", "length"} => ended = Verdict(session[r].tokens)
  <2> SUFFICES ASSUME RanksJudgeAlike, ended \in {"stop", "length"}
               PROVE  ended = Verdict(session[r].tokens)
    OBVIOUS
  <2>1. Verdict(session[r].tokens) \in {"stop", "length"}
    BY DEF Verdict
  <2>2. ended = "stop" => FindsStop(r)
    BY <1>2, <1>10
  <2>3. ended = "length" => ~FindsStop(r)
    BY <1>2, <1>10
  <2> QED
    BY <1>12, <2>1, <2>2, <2>3
<1>14. ended = "no" \/ ended = "cancelled" \/ ended \in {"stop", "length"}
  BY <1>2, <1>10
<1>15. Ending(r)'
  <2>1. worker'[r] = "finishing" <=> ended # "no"
    BY <1>7
  <2>2. Verdict(session[r].tokens)' = Verdict(session[r].tokens)
    BY <1>1, <1>3 DEF Verdict
  <2>3. worker'[r] \in Working /\ worker'[r] # "finishing" => ended = "no"
    BY <2>1
  <2> QED
    BY <1>3, <1>8, <1>13, <2>1, <2>2, <2>3 DEF Ending, Working, Broadcasts
<1>16. Marching(r)'
  <2>1. CASE request.streamed
    <3>1. session[r].syncs = session[r].tokens
      BY <1>1, <1>5, <2>1 DEF Marching
    <3>2. worker'[r] \in {"finishing", "sync"}
      BY <1>7, <2>1
    <3> QED
      BY <1>1, <1>3, <1>6, <2>1, <3>1, <3>2 DEF Marching
  <2>2. CASE ~request.streamed
    <3>1. session[r].syncs = 0
      BY <1>5, <2>2 DEF Marching
    <3>2. worker'[r] \in {"finishing", "step"}
      BY <1>7, <2>2
    <3> QED
      BY <1>1, <1>3, <2>2, <3>1, <3>2 DEF Marching, Broadcasts
  <2> QED
    BY <2>1, <2>2
<1>17. Joined(r)'
  <2> SUFFICES ASSUME session[r].tokens >= 1, NEW q \in Ranks
               PROVE  In(q)' /\ session'[q].reduces >= session[r].tokens
    BY <1>3 DEF Joined
  <2>1. In(q) /\ session[q].reduces >= session[r].tokens
    BY <1>5 DEF Joined
  <2> QED
    BY <1>1, <1>3, <2>1 DEF In
<1>18. Told(r)'
  <2>1. Heard(r)' = Heard(r)
    BY <1>3, <1>6 DEF Heard
  <2>2. session'[Root].syncs = session[Root].syncs /\ session'[Root].words = session[Root].words
    BY <1>3, RootIsRank
  <2>3. ended = "cancelled" <=> session[r].ended = "cancelled"
    BY <1>2
  <2> QED
    BY <1>1, <1>3, <1>5, <2>1, <2>2, <2>3 DEF Told, In
<1>19. Onward(r)
  <2>1. session'[r].reduces >= session[r].reduces /\ session'[r].syncs >= session[r].syncs
    BY <1>3, <1>4
  <2> QED
    BY <1>1, <1>3, <1>7, <2>1 DEF Onward
<1>20. r = Root /\ In(Root)' => Len(session'[Root].words) = session'[Root].syncs
  BY <1>1, <1>3 DEF Together, In
<1> QED
  BY <1>1, <1>5, <1>11, <1>15, <1>16, <1>17, <1>18, <1>19, <1>20 DEF Moves, Mine, Answered

(* Finish() answers for a sequence that has ended.                                      *)
LEMMA FinishMoves ==
  ASSUME Typed, SessionTyped, Together, NEW r \in Ranks, In(r), Finish(r)
  PROVE  Moves(r)
<1>1. /\ UNCHANGED <<request, workGeneration, localGeneration, session>>
      /\ worker[r] = "finishing"
      /\ worker' = [worker EXCEPT ![r] = "publish"]
      /\ statuses' = [statuses EXCEPT ![r] = 1]
  BY DEF Finish, callVars, workVars, GoTo
<1>2. /\ \A q \in Ranks \ {r} : worker'[q] = worker[q] /\ statuses'[q] = statuses[q]
      /\ worker'[r] = "publish"
  BY <1>1 DEF Typed, SessionTyped
<1>3. /\ Steady(r) /\ Ending(r) /\ Marching(r) /\ Joined(r) /\ Told(r)
  BY DEF Together, Mine
<1>4. worker'[r] \notin Working /\ worker'[r] \notin AllReduces \cup Broadcasts
  BY <1>2 DEF Working, AllReduces, Broadcasts
<1>5. ~session[r].inside
  BY <1>1, <1>3 DEF Steady, AllReduces, Broadcasts
<1>6. In(r)'
  BY <1>1 DEF In
<1>7. Answered(r)'
  BY <1>1, <1>3, <1>4, <1>6 DEF Answered, Ending, Marching
<1>8. Steady(r)'
  BY <1>1, <1>2, <1>3, <1>4, <1>5 DEF Steady
<1>9. Ending(r)'
  BY <1>1, <1>2, <1>3, <1>4 DEF Ending, Verdict
<1>10. Marching(r)'
  BY <1>1, <1>2, <1>3, <1>4 DEF Marching
<1>11. Joined(r)'
  BY <1>1, <1>3 DEF Joined, In
<1>12. Told(r)'
  <2>1. Heard(r)' = Heard(r)
    BY <1>1, <1>5 DEF Heard
  <2> QED
    BY <1>1, <1>3, <2>1 DEF Told, In
<1>13. Onward(r)
  <2>1. session[r].reduces \in Nat /\ session[r].syncs \in Nat
    BY Numbers DEF SessionTyped
  <2> QED
    BY <1>1, <1>2, <2>1 DEF Onward
<1> QED
  BY <1>1, <1>7, <1>8, <1>9, <1>10, <1>11, <1>12, <1>13 DEF Moves, Mine, Together, In

-----------------------------------------------------------------------------
(* Every step keeps the types of the sessions.                                          *)
LEMMA SessionTypedStep ==
  ASSUME Typed, SessionTyped, [Next]_vars
  PROVE  SessionTyped'
<1>1. /\ session \in [Ranks -> Session] /\ statuses \in [Ranks -> {0, 1}]
      /\ workerFailed \in BOOLEAN /\ aborted \in BOOLEAN
      /\ \A r \in Ranks : localGeneration[r] <= workGeneration
  BY DEF SessionTyped
<1>2. CASE UNCHANGED <<session, localGeneration, workGeneration>>
  <2>1. workerFailed' \in BOOLEAN /\ aborted' \in BOOLEAN /\ statuses' \in [Ranks -> {0, 1}]
    <3>1. CASE UNCHANGED <<workerFailed, aborted, statuses>>
      BY <1>1, <3>1
    <3>2. CASE SideCallFails \/ WorkersReported \/ PostThrows
      BY <1>1, <3>2 DEF SideCallFails, WorkersReported, PostThrows, doneVars, commVars, taskVars
    <3>3. ASSUME NEW r \in Ranks, RecordFailure(r) \/ AbortCollectives(r) \/ Finish(r)
          PROVE  workerFailed' \in BOOLEAN /\ aborted' \in BOOLEAN /\ statuses' \in [Ranks -> {0, 1}]
      BY <1>1, <3>3 DEF RecordFailure, AbortCollectives, Finish, doneVars, commVars, taskVars
    <3>4. CASE Post
      <4>1. workGeneration' = workGeneration + 1 /\ workGeneration \in Nat
        BY <3>4 DEF Post, Typed
      <4> QED
        BY <1>2, <4>1
    <3>5. ASSUME NEW r \in Ranks, Worker(r), ~RecordFailure(r), ~AbortCollectives(r), ~Finish(r)
          PROVE  UNCHANGED <<workerFailed, aborted, statuses>>
      BY <3>5 DEF Worker, HandleRequest, Started, ReportFailedStart, Look, Sleep, Leave, Begin,
         EnterAllReduce, LeaveAllReduce, EnterBroadcast, LeaveBroadcast, CollectiveFails, Settle,
         PublishCompletion, NotifyDone, doneVars, commVars, taskVars
    <3>6. ASSUME NEW r \in Ranks, DeviceFails(r) \/ SpuriousWake(r) \/ Die(r) \/ Fail(r)
          PROVE  UNCHANGED <<workerFailed, aborted, statuses>>
      BY <3>6 DEF DeviceFails, SpuriousWake, Die, Fail, doneVars, commVars, taskVars
    <3>7. CASE \/ PostRefused \/ Announce \/ Await \/ CallerSleeps \/ StopWorkers \/ WakeToStop
               \/ Join \/ Dispatch \/ CallerWakesSpuriously \/ Cancel \/ Destroy \/ UNCHANGED vars
      BY <1>1, <3>7 DEF PostRefused, Announce, Await, CallerSleeps, StopWorkers, WakeToStop, Join,
         WakeWorkers, Dispatch, CallerWakesSpuriously, Cancel, Destroy, vars, doneVars, commVars,
         taskVars
    <3> QED
      BY <3>1, <3>2, <3>3, <3>4, <3>5, <3>6, <3>7 DEF Next, Call
  <2> QED
    BY <1>1, <1>2, <2>1 DEF SessionTyped
<1>3. CASE Post
  <2>1. /\ UNCHANGED <<session, localGeneration, workerFailed, aborted>>
        /\ workGeneration' = workGeneration + 1
        /\ statuses' = [r \in Ranks |-> 0]
    BY <1>3 DEF Post
  <2>2. \A r \in Ranks : localGeneration'[r] <= workGeneration'
    BY <1>1, <2>1 DEF Typed
  <2> QED
    BY <1>1, <2>1, <2>2 DEF SessionTyped
<1>4. ASSUME NEW r \in Ranks, Look(r)
      PROVE  SessionTyped'
  <2>1. Fresh \in Session
    BY DEF Fresh, Session
  <2>2. UNCHANGED <<workGeneration, workerFailed, aborted, statuses>>
    BY <1>4 DEF Look, doneVars, commVars, taskVars
  <2>3. \/ UNCHANGED <<session, localGeneration>>
        \/ /\ session' = [session EXCEPT ![r] = Fresh]
           /\ localGeneration' = [localGeneration EXCEPT ![r] = workGeneration]
    BY <1>4 DEF Look
  <2>4. session' \in [Ranks -> Session]
    BY <1>1, <2>1, <2>3
  <2>5. \A q \in Ranks : localGeneration'[q] <= workGeneration
    <3>1. workGeneration \in Nat /\ workGeneration <= workGeneration
      BY DEF Typed
    <3>2. \A q \in Ranks : \/ localGeneration'[q] = localGeneration[q]
                           \/ localGeneration'[q] = workGeneration
      BY <2>3 DEF Typed
    <3> QED
      BY <1>1, <3>1, <3>2
  <2> QED
    BY <1>1, <2>2, <2>4, <2>5 DEF SessionTyped
<1>5. ASSUME NEW r \in Ranks, NEW s \in Session, session' = [session EXCEPT ![r] = s],
             UNCHANGED <<workGeneration, localGeneration, workerFailed, aborted, statuses>>
      PROVE  SessionTyped'
  BY <1>1, <1>5 DEF SessionTyped
<1>6. ASSUME NEW r \in Ranks,
             \/ EnterAllReduce(r) \/ LeaveAllReduce(r) \/ EnterBroadcast(r)
             \/ LeaveBroadcast(r) \/ CollectiveFails(r) \/ Settle(r)
      PROVE  SessionTyped'
  <2>1. UNCHANGED <<workGeneration, localGeneration, workerFailed, aborted, statuses>>
    BY <1>6 DEF EnterAllReduce, LeaveAllReduce, EnterBroadcast, LeaveBroadcast, CollectiveFails,
       Settle, workVars, doneVars, commVars, taskVars
  <2>2. /\ session[r].tokens \in Nat /\ session[r].sent \in Nat
        /\ session[r].reduces \in Nat /\ session[r].syncs \in Nat
        /\ session[r].words \in Seq(BOOLEAN)
        /\ session[r].ended \in {"no", "stop", "length", "cancelled"}
        /\ session[r] \in Session
    BY <1>1, Numbers
  <2>3. CASE EnterAllReduce(r)
    <3>1. session' = [session EXCEPT ![r] = [session[r] EXCEPT !.inside = TRUE, !.reduces = @ + 1]]
      BY <1>1, <2>3 DEF EnterAllReduce
    <3>2. PICK n \in Nat : n = session[r].reduces + 1
      BY <2>2
    <3>3. [session[r] EXCEPT !.inside = TRUE, !.reduces = n] \in Session
      BY <2>2 DEF Session
    <3>4. [session[r] EXCEPT !.inside = TRUE, !.reduces = @ + 1] \in Session
      BY <3>2, <3>3
    <3> QED
      BY <1>5, <2>1, <3>1, <3>4
  <2>4. CASE LeaveAllReduce(r)
    <3>1. session' = [session EXCEPT ![r] = [session[r] EXCEPT !.inside = FALSE, !.tokens = @ + 1]]
      BY <1>1, <2>4 DEF LeaveAllReduce
    <3>2. PICK n \in Nat : n = session[r].tokens + 1
      BY <2>2
    <3>3. [session[r] EXCEPT !.inside = FALSE, !.tokens = n] \in Session
      BY <2>2 DEF Session
    <3>4. [session[r] EXCEPT !.inside = FALSE, !.tokens = @ + 1] \in Session
      BY <3>2, <3>3
    <3> QED
      BY <1>5, <2>1, <3>1, <3>4
  <2>5. CASE CollectiveFails(r)
    <3>1. session' = [session EXCEPT ![r] = [session[r] EXCEPT !.inside = FALSE]]
      BY <1>1, <2>5 DEF CollectiveFails
    <3>2. [session[r] EXCEPT !.inside = FALSE] \in Session
      BY <2>2 DEF Session
    <3> QED
      BY <1>5, <2>1, <3>1, <3>2
  <2>6. CASE EnterBroadcast(r)
    <3>1. PICK ended : /\ ended = IF HasChannel(r) /\ cancelled /\ session[r].ended = "no"
                                  THEN "cancelled" ELSE session[r].ended
                       /\ session' = [session EXCEPT ![r].inside = TRUE, ![r].syncs = @ + 1,
                                   ![r].ended = ended, ![r].words = Append(@, ended = "cancelled")]
      BY <2>6 DEF EnterBroadcast
    <3>2. PICK words : words = Append(session[r].words, ended = "cancelled")
      OBVIOUS
    <3>3. words \in Seq(BOOLEAN)
      <4>1. (ended = "cancelled") \in BOOLEAN
        OBVIOUS
      <4> QED
        BY <2>2, <3>2, <4>1
    <3>4. session' = [session EXCEPT ![r] = [session[r] EXCEPT !.inside = TRUE, !.syncs = @ + 1,
                                               !.ended = ended, !.words = words]]
      BY <1>1, <3>1, <3>2
    <3>5. ended \in {"no", "stop", "length", "cancelled"}
      BY <2>2, <3>1
    <3>6. [session[r] EXCEPT !.inside = TRUE, !.syncs = @ + 1, !.ended = ended, !.words = words]
            \in Session
      <4>1. PICK n \in Nat : n = session[r].syncs + 1
        BY <2>2
      <4>2. [session[r] EXCEPT !.inside = TRUE, !.syncs = n, !.ended = ended, !.words = words]
              \in Session
        BY <2>2, <3>3, <3>5 DEF Session
      <4> QED
        BY <4>1, <4>2
    <3> QED
      BY <1>5, <2>1, <3>4, <3>6
  <2>7. CASE LeaveBroadcast(r)
    <3>1. PICK word \in BOOLEAN :
            session' = [session EXCEPT ![r].inside = FALSE,
                                       ![r].ended = IF word /\ @ = "no" THEN "cancelled" ELSE @]
      BY <2>7 DEF LeaveBroadcast
    <3>2. PICK ended : ended = IF word /\ session[r].ended = "no" THEN "cancelled"
                               ELSE session[r].ended
      OBVIOUS
    <3>3. session' = [session EXCEPT ![r] = [session[r] EXCEPT !.inside = FALSE, !.ended = ended]]
      BY <1>1, <3>1, <3>2
    <3>4. ended \in {"no", "stop", "length", "cancelled"}
      BY <2>2, <3>2
    <3>5. [session[r] EXCEPT !.inside = FALSE, !.ended = ended] \in Session
      BY <2>2, <3>4 DEF Session
    <3> QED
      BY <1>5, <2>1, <3>3, <3>5
  <2>8. CASE Settle(r)
    <3> DEFINE e == IF FindsStop(r) /\ session[r].ended # "cancelled" THEN "stop"
                    ELSE IF session[r].ended = "no" /\ session[r].tokens >= request.length
                    THEN "length" ELSE session[r].ended
               s == IF LooksForStops(r) THEN session[r].tokens ELSE session[r].sent
    <3>1. session' = [session EXCEPT ![r] = [session[r] EXCEPT !.ended = e, !.sent = s]]
      BY <1>1, <2>8 DEF Settle
    <3>2. e \in {"stop", "length", session[r].ended} /\ s \in {session[r].tokens, session[r].sent}
      OBVIOUS
    <3> HIDE DEF e, s
    <3>3. [session[r] EXCEPT !.ended = e, !.sent = s] \in Session
      BY <2>2, <3>2 DEF Session
    <3> QED
      BY <1>5, <2>1, <3>1, <3>3
  <2> QED
    BY <1>6, <2>3, <2>4, <2>5, <2>6, <2>7, <2>8
<1>7. ASSUME NEW r \in Ranks, Worker(r),
             ~(\/ Look(r) \/ EnterAllReduce(r) \/ LeaveAllReduce(r) \/ EnterBroadcast(r)
               \/ LeaveBroadcast(r) \/ CollectiveFails(r) \/ Settle(r))
      PROVE  UNCHANGED <<session, localGeneration, workGeneration>>
  BY <1>7 DEF Worker, HandleRequest, Started, ReportFailedStart, Sleep, Leave, Begin, Finish,
     RecordFailure, AbortCollectives, PublishCompletion, NotifyDone, workVars
<1>8. ASSUME NEW r \in Ranks, DeviceFails(r) \/ SpuriousWake(r) \/ Die(r) \/ Fail(r)
      PROVE  UNCHANGED <<session, localGeneration, workGeneration>>
  BY <1>8 DEF DeviceFails, SpuriousWake, Die, Fail, workVars
<1>9. ASSUME \/ WorkersReported \/ PostRefused \/ PostThrows \/ Announce \/ Await \/ CallerSleeps
             \/ StopWorkers \/ WakeToStop \/ Join \/ Dispatch \/ CallerWakesSpuriously
             \/ SideCallFails \/ Cancel \/ Destroy \/ UNCHANGED vars
      PROVE  UNCHANGED <<session, localGeneration, workGeneration>>
  <2>1. CASE WorkersReported \/ PostRefused \/ PostThrows \/ Announce \/ Await \/ CallerSleeps
    BY <2>1 DEF WorkersReported, PostRefused, PostThrows, Announce, Await, CallerSleeps,
       WakeWorkers, workVars
  <2>2. CASE StopWorkers \/ WakeToStop \/ Join \/ Dispatch \/ CallerWakesSpuriously
    BY <2>2 DEF StopWorkers, WakeToStop, Join, Dispatch, CallerWakesSpuriously, WakeWorkers, workVars
  <2>3. CASE SideCallFails \/ Cancel \/ Destroy \/ UNCHANGED vars
    BY <2>3 DEF SideCallFails, Cancel, Destroy, vars, workVars
  <2> QED
    BY <1>9, <2>1, <2>2, <2>3
<1> QED
  BY <1>2, <1>3, <1>4, <1>6, <1>7, <1>8, <1>9 DEF Next, Call

(* A failure is recorded before the communicators are aborted for it.                   *)
LEMMA FailureFirstStep ==
  ASSUME Typed, FailureFirst, [Next]_vars
  PROVE  FailureFirst'
<1> DEFINE Over == {"stop", "stopping", "join", "closed"}
<1>1. /\ \A q \in Ranks : worker[q] \in Aborting => workerFailed
      /\ aborted => workerFailed \/ main \in Over
  BY DEF FailureFirst
<1>2. CASE /\ workerFailed => workerFailed'
           /\ main \in Over => main' \in Over
           /\ aborted' = aborted
           /\ \A q \in Ranks : worker'[q] \in Aborting => worker[q] \in Aborting
  BY <1>1, <1>2 DEF FailureFirst
<1>3. ASSUME NEW r \in Ranks, RecordFailure(r)
      PROVE  FailureFirst'
  BY <1>3 DEF RecordFailure, FailureFirst
<1>4. ASSUME NEW r \in Ranks, AbortCollectives(r)
      PROVE  FailureFirst'
  <2>1. worker[r] \in Aborting /\ UNCHANGED workerFailed
    BY <1>4 DEF AbortCollectives, Aborting, doneVars
  <2> QED
    BY <1>1, <2>1 DEF FailureFirst
<1>5. CASE WorkersReported
  BY <1>1, <1>5 DEF WorkersReported, FailureFirst, doneVars
<1>6. CASE SideCallFails
  BY <1>6 DEF SideCallFails, FailureFirst
<1>7. ASSUME NEW r \in Ranks, GoTo(r, worker'[r]), worker'[r] \notin Aborting,
             UNCHANGED <<workerFailed, aborted>>, main \in Over => main' \in Over
      PROVE  FailureFirst'
  BY <1>1, <1>7 DEF FailureFirst, GoTo, Typed
<1>8. ASSUME NEW r \in Ranks, Worker(r), ~RecordFailure(r), ~AbortCollectives(r)
      PROVE  FailureFirst'
  <2>1. UNCHANGED <<workerFailed, aborted>> /\ (main \in Over => main' \in Over)
    BY <1>8 DEF Worker, HandleRequest, Started, ReportFailedStart, Look, Sleep, Leave, Begin,
         EnterAllReduce, LeaveAllReduce, EnterBroadcast, LeaveBroadcast, CollectiveFails, Settle,
         Finish, PublishCompletion, NotifyDone, doneVars, commVars, callVars
  <2>2. CASE EnterAllReduce(r) \/ EnterBroadcast(r)
    BY <1>2, <2>1, <2>2 DEF EnterAllReduce, EnterBroadcast
  <2>3. CASE ~(EnterAllReduce(r) \/ EnterBroadcast(r))
    <3>1. /\ GoTo(r, worker'[r]) /\ worker'[r] \notin Aborting
      <4> USE DEF Aborting, GoTo, Typed
      <4>1. CASE Started(r) \/ ReportFailedStart(r) \/ Sleep(r) \/ Leave(r)
        BY <4>1 DEF Started, ReportFailedStart, Sleep, Leave
      <4>2. CASE Look(r)
        BY <4>2 DEF Look
      <4>3. CASE Begin(r) \/ LeaveAllReduce(r) \/ LeaveBroadcast(r) \/ CollectiveFails(r)
                 \/ Settle(r) \/ Finish(r)
        BY <4>3 DEF Begin, LeaveAllReduce, LeaveBroadcast, CollectiveFails, Settle, Finish
      <4>4. CASE PublishCompletion(r)
        <5>1. CASE workersFinished + 1 = NumRanks
          BY <4>4, <5>1 DEF PublishCompletion
        <5>2. CASE workersFinished + 1 # NumRanks
          BY <4>4, <5>2 DEF PublishCompletion
        <5> QED
          BY <5>1, <5>2
      <4>5. CASE NotifyDone(r)
        <5>1. CASE worker[r] = "notify"
          BY <4>5, <5>1 DEF NotifyDone
        <5>2. CASE worker[r] # "notify"
          BY <4>5, <5>2 DEF NotifyDone
        <5> QED
          BY <5>1, <5>2
      <4> QED
        BY <1>8, <2>3, <4>1, <4>2, <4>3, <4>4, <4>5 DEF Worker, HandleRequest
    <3> QED
      BY <1>7, <2>1, <3>1
  <2> QED
    BY <2>2, <2>3
<1>9. ASSUME NEW r \in Ranks, DeviceFails(r) \/ SpuriousWake(r) \/ Die(r) \/ Fail(r)
      PROVE  FailureFirst'
  <2>1. /\ UNCHANGED <<workerFailed, aborted, main>>
        /\ GoTo(r, worker'[r]) /\ worker'[r] \notin Aborting
    BY <1>9 DEF DeviceFails, SpuriousWake, Die, Fail, GoTo, Aborting, doneVars, commVars, callVars,
       Typed
  <2> QED
    BY <1>7, <2>1
<1>10. CASE \/ PostRefused \/ PostThrows \/ Post \/ Await \/ CallerSleeps \/ StopWorkers \/ Join
            \/ Dispatch \/ CallerWakesSpuriously \/ Cancel \/ Destroy
  <2>1. UNCHANGED <<workerFailed, aborted, worker>> /\ (main \in Over => main' \in Over)
    BY <1>10 DEF PostRefused, PostThrows, Post, Await, CallerSleeps, StopWorkers, Join,
       Dispatch, CallerWakesSpuriously, Cancel, Destroy, Return, doneVars, commVars, callVars
  <2> QED
    BY <1>2, <2>1
<1>11. CASE Announce \/ WakeToStop
  <2>1. /\ UNCHANGED <<workerFailed, aborted>> /\ (main \in Over => main' \in Over)
        /\ worker' = [r \in Ranks |-> IF worker[r] = "asleep" THEN "look" ELSE worker[r]]
    BY <1>11 DEF Announce, WakeToStop, WakeWorkers, doneVars, commVars
  <2>2. \A q \in Ranks : worker'[q] \in Aborting => worker[q] \in Aborting
    BY <2>1 DEF Aborting
  <2> QED
    BY <1>2, <2>1, <2>2
<1>12. CASE UNCHANGED vars
  BY <1>2, <1>12 DEF vars, doneVars, commVars, callVars
<1> QED
  BY <1>3, <1>4, <1>5, <1>6, <1>8, <1>9, <1>10, <1>11, <1>12 DEF Next, Call

-----------------------------------------------------------------------------
(* A rank that works has taken the generation announced last. *)
LEMMA WorkersAreIn ==
  ASSUME Typed, Current, SessionTyped, NEW r \in Ranks, worker[r] \in Working
  PROVE  In(r)
<1>1. localGeneration[r] >= workGeneration /\ localGeneration[r] <= workGeneration
  BY DEF Current, Engaged, SessionTyped
<1>2. localGeneration[r] \in Nat /\ workGeneration \in Nat
  BY DEF Typed
<1> QED
  BY <1>1, <1>2 DEF In

(* While nothing has failed, the communicators are whole. *)
LEMMA SoundIsWhole ==
  ASSUME SessionTyped, FailureFirst, Sound
  PROVE  ~aborted
  BY DEF SessionTyped, FailureFirst, Sound, Waiting

(* Nothing a rank does makes a dispatch sound that was not. *)
LEMMA SoundBefore ==
  ASSUME SessionTyped, NEW r \in Ranks,
         Worker(r) \/ DeviceFails(r) \/ SpuriousWake(r) \/ Die(r) \/ Fail(r), Sound'
  PROVE  Sound
<1>1. CASE RecordFailure(r)
  BY <1>1 DEF RecordFailure, Sound
<1>2. CASE NotifyDone(r)
  BY <1>2 DEF NotifyDone, Sound, Waiting, doneVars
<1>3. CASE UNCHANGED <<main, workerFailed>>
  BY <1>3 DEF Sound
<1>4. CASE Worker(r) /\ ~RecordFailure(r) /\ ~NotifyDone(r)
  <2>1. UNCHANGED <<main, workerFailed>>
    BY <1>4 DEF Worker, HandleRequest, Started, ReportFailedStart, Look, Sleep, Leave, Begin,
       EnterAllReduce, LeaveAllReduce, EnterBroadcast, LeaveBroadcast, CollectiveFails, Settle,
       Finish, AbortCollectives, PublishCompletion, doneVars, callVars
  <2> QED
    BY <1>3, <2>1
<1>5. CASE DeviceFails(r) \/ SpuriousWake(r) \/ Die(r) \/ Fail(r)
  <2>1. UNCHANGED <<main, workerFailed>>
    BY <1>5 DEF DeviceFails, SpuriousWake, Die, Fail, doneVars, callVars
  <2> QED
    BY <1>3, <2>1
<1> QED
  BY <1>1, <1>2, <1>4, <1>5

(* While nothing has failed, whatever a rank does carries it on. *)
LEMMA RanksMove ==
  ASSUME IInv, SessionTyped, FailureFirst, Together, Sound, NEW r \in Ranks,
         Worker(r) \/ DeviceFails(r) \/ SpuriousWake(r) \/ Die(r) \/ Fail(r)
  PROVE  Moves(r)
<1>1. Typed /\ Current /\ ~aborted
  BY SoundIsWhole DEF IInv
<1>2. CASE Look(r)
  BY <1>1, <1>2, TakingMoves
<1>3. worker[r] \in Working => In(r)
  BY <1>1, WorkersAreIn
<1>4. CASE Begin(r)
  BY <1>1, <1>3, <1>4, BeginMoves DEF Begin, Working
<1>5. CASE EnterAllReduce(r)
  BY <1>1, <1>3, <1>5, EnterAllReduceMoves DEF EnterAllReduce, Working
<1>6. CASE LeaveAllReduce(r)
  BY <1>1, <1>3, <1>6, LeaveAllReduceMoves DEF LeaveAllReduce, Working
<1>7. CASE EnterBroadcast(r)
  BY <1>1, <1>3, <1>7, EnterBroadcastMoves DEF EnterBroadcast, Working
<1>8. CASE LeaveBroadcast(r)
  BY <1>1, <1>3, <1>8, LeaveBroadcastMoves DEF LeaveBroadcast, Working
<1>9. CASE CollectiveFails(r)
  BY <1>1, <1>9 DEF CollectiveFails
<1>10. CASE Settle(r)
  BY <1>1, <1>3, <1>10, SettleMoves DEF Settle, Working
<1>11. CASE Finish(r)
  BY <1>1, <1>3, <1>11, FinishMoves DEF Finish, Working
<1>12. ASSUME UNCHANGED <<request, workGeneration, localGeneration, session, statuses>>,
              GoTo(r, worker'[r]), worker'[r] \notin Working,
              worker[r] \in Working => ~session[r].inside
       PROVE  Moves(r)
  <2>1. \A q \in Ranks \ {r} : worker'[q] = worker[q]
    BY <1>1, <1>12 DEF GoTo, Typed
  <2> QED
    BY <1>12, <2>1, RestMoves
<1> USE DEF GoTo, Typed, Working, AllReduces, Broadcasts, callVars, workVars, taskVars
<1>13. CASE \/ Started(r) \/ ReportFailedStart(r) \/ Sleep(r) \/ Leave(r) \/ RecordFailure(r)
            \/ AbortCollectives(r)
  BY <1>1, <1>12, <1>13 DEF Started, ReportFailedStart, Sleep, Leave, RecordFailure, AbortCollectives
<1>14. CASE PublishCompletion(r)
  <2>1. CASE workersFinished + 1 = NumRanks
    BY <1>1, <1>12, <1>14, <2>1 DEF PublishCompletion
  <2>2. CASE workersFinished + 1 # NumRanks
    BY <1>1, <1>12, <1>14, <2>2 DEF PublishCompletion
  <2> QED
    BY <2>1, <2>2
<1>15. CASE NotifyDone(r)
  <2>1. CASE worker[r] = "notify"
    BY <1>1, <1>12, <1>15, <2>1 DEF NotifyDone
  <2>2. CASE worker[r] # "notify"
    BY <1>1, <1>12, <1>15, <2>2 DEF NotifyDone
  <2> QED
    BY <2>1, <2>2
<1>16. CASE DeviceFails(r) \/ SpuriousWake(r) \/ Die(r) \/ Fail(r)
  BY <1>1, <1>12, <1>16 DEF DeviceFails, SpuriousWake, Die, Fail
<1> QED
  BY <1>2, <1>4, <1>5, <1>6, <1>7, <1>8, <1>9, <1>10, <1>11, <1>13, <1>14, <1>15, <1>16
  DEF Worker, HandleRequest

(* A step that leaves the request, its task and its sessions alone.                     *)
LEMMA CallerMoves ==
  ASSUME Together,
         UNCHANGED <<request, workGeneration, localGeneration, session, statuses>>,
         \A q \in Ranks : \/ worker'[q] = worker[q]
                          \/ worker[q] = "asleep" /\ worker'[q] = "look"
  PROVE  Together'
<1>1. \A q \in Ranks : In(q)' <=> In(q)
  BY DEF In
<1>2. ASSUME NEW q \in Ranks
      PROVE  worker'[q] \in Working <=> worker[q] \in Working
  BY DEF Working, AllReduces, Broadcasts
<1>3. ASSUME NEW q \in Ranks
      PROVE  Answered(q)'
  BY <1>1, <1>2 DEF Together, Answered
<1>4. ASSUME NEW q \in Ranks, In(q)
      PROVE  Mine(q)'
  <2>1. Steady(q) /\ Ending(q) /\ Marching(q) /\ Joined(q) /\ Told(q)
    BY <1>4 DEF Together, Mine
  <2>2. CASE worker'[q] = worker[q]
    <3>1. Heard(q)' = Heard(q)
      BY <2>2 DEF Heard
    <3>2. Steady(q)'
      BY <2>1, <2>2 DEF Steady
    <3>3. Ending(q)'
      BY <2>1, <2>2 DEF Ending, Verdict
    <3>4. Marching(q)'
      BY <2>1, <2>2 DEF Marching
    <3>5. Joined(q)' /\ Told(q)'
      BY <2>1, <3>1 DEF Joined, Told, In
    <3> QED
      BY <3>2, <3>3, <3>4, <3>5 DEF Mine
  <2>3. CASE worker[q] = "asleep" /\ worker'[q] = "look"
    <3>1. /\ worker[q] \notin AllReduces \cup Broadcasts \cup Working
          /\ worker'[q] \notin AllReduces \cup Broadcasts \cup Working
      BY <2>3 DEF Working, AllReduces, Broadcasts
    <3>2. Heard(q)' = Heard(q)
      BY <3>1 DEF Heard
    <3>3. Steady(q)' /\ Joined(q)' /\ Told(q)'
      BY <2>1, <2>3, <3>1, <3>2 DEF Steady, Joined, Told, In
    <3>4. Ending(q)'
      BY <2>1, <2>3, <3>1 DEF Ending, Verdict
    <3>5. Marching(q)'
      BY <2>1, <2>3, <3>1 DEF Marching
    <3> QED
      BY <3>3, <3>4, <3>5 DEF Mine
  <2> QED
    BY <2>2, <2>3
<1>5. request' \in Workload /\ (In(Root)' => Len(session'[Root].words) = session'[Root].syncs)
  BY <1>1, RootIsRank DEF Together
<1> QED
  BY <1>1, <1>3, <1>4, <1>5 DEF Together

(* Meeting is kept by every step.                                                       *)
LEMMA MeetingStep ==
  ASSUME IInv, SessionTyped, SessionTyped', FailureFirst, Meeting, [Next]_vars
  PROVE  Meeting'
<1> SUFFICES ASSUME Sound' PROVE Together'
  BY DEF Meeting
<1>1. ASSUME NEW r \in Ranks,
             Worker(r) \/ DeviceFails(r) \/ SpuriousWake(r) \/ Die(r) \/ Fail(r)
      PROVE  Together'
  <2>1. Sound
    BY <1>1, SoundBefore
  <2>2. Together /\ Typed
    BY <2>1 DEF Meeting, IInv
  <2> QED
    BY <1>1, <2>1, <2>2, RanksMove, OneMoves
<1>2. CASE Post
  <2>1. /\ request' \in Workload /\ workGeneration' = workGeneration + 1
        /\ localGeneration' = localGeneration
        /\ statuses' = [r \in Ranks |-> 0]
    BY <1>2 DEF Post
  <2>2. ASSUME NEW q \in Ranks
        PROVE  ~In(q)'
    <3>1. localGeneration[q] <= workGeneration /\ localGeneration[q] \in Nat /\ workGeneration \in Nat
      BY DEF IInv, Typed, SessionTyped
    <3> QED
      BY <2>1, <3>1 DEF In
  <2>3. \A q \in Ranks : Answered(q)'
    BY <2>1 DEF Answered
  <2> QED
    BY <2>1, <2>2, <2>3, RootIsRank DEF Together
<1>3. ASSUME Sound,
             UNCHANGED <<request, workGeneration, localGeneration, session, statuses>>,
             \A q \in Ranks : \/ worker'[q] = worker[q]
                              \/ worker[q] = "asleep" /\ worker'[q] = "look"
      PROVE  Together'
  BY <1>3, CallerMoves DEF Meeting
<1>4. CASE Announce \/ CallerSleeps \/ CallerWakesSpuriously \/ Cancel \/ UNCHANGED vars
  <2>1. Sound /\ UNCHANGED <<request, workGeneration, localGeneration, session, statuses>>
    BY <1>4 DEF Announce, WakeWorkers, CallerSleeps, CallerWakesSpuriously, Cancel, Sound,
       Waiting, vars, callVars, workVars, doneVars, taskVars
  <2>2. ASSUME NEW q \in Ranks
        PROVE  \/ worker'[q] = worker[q]
               \/ worker[q] = "asleep" /\ worker'[q] = "look"
    <3>1. CASE Announce
      BY <3>1 DEF Announce, WakeWorkers
    <3>2. CASE CallerSleeps \/ CallerWakesSpuriously \/ Cancel \/ UNCHANGED vars
      BY <3>2 DEF CallerSleeps, CallerWakesSpuriously, Cancel, vars
    <3> QED
      BY <1>4, <3>1, <3>2
  <2> QED
    BY <1>3, <2>1, <2>2
<1>5. CASE Await
  <2>1. /\ UNCHANGED <<workGeneration, localGeneration, session, statuses, worker, workerFailed>>
        /\ main = "await"
        /\ main' = "drowsy" /\ UNCHANGED request
    BY <1>5 DEF Await, Return, workVars, taskVars, Sound, Waiting
  <2>2. Sound
    BY <2>1 DEF Sound, Waiting
  <2> QED
    BY <1>3, <2>1, <2>2
<1>6. CASE \/ WorkersReported \/ PostRefused \/ PostThrows \/ StopWorkers \/ WakeToStop \/ Join
           \/ Dispatch \/ SideCallFails \/ Destroy
  BY <1>6 DEF WorkersReported, PostRefused, PostThrows, StopWorkers, WakeToStop, WakeWorkers, Join,
     Dispatch, SideCallFails, Destroy, Return, Sound, Waiting, callVars
<1> QED
  BY <1>1, <1>2, <1>4, <1>5, <1>6 DEF Next, Call


(* A dispatch that succeeds has brought every rank to the same token: each has met all *)
(* the others in the all-reduce of its last one.                                        *)
LEMMA SuccessAgrees ==
  ASSUME IInv, SessionTyped, Together, \A r \in Ranks : statuses[r] = 1, NEW r \in Ranks
  PROVE  /\ In(r)
         /\ session[r].ended # "no"
         /\ session[r].tokens = session[Root].tokens
         /\ RanksJudgeAlike => session[r].ended = session[Root].ended
<1>1. ASSUME NEW q \in Ranks
      PROVE  /\ In(q) /\ session[q].ended # "no" /\ worker[q] \notin Working
             /\ Steady(q) /\ Ending(q) /\ Marching(q) /\ Joined(q) /\ Told(q)
             /\ request.streamed => session[q].syncs = session[q].tokens
             /\ ~request.streamed => session[q].syncs = 0
             /\ session[q].reduces = session[q].tokens /\ Heard(q) = session[q].syncs
  <2>1. In(q) /\ session[q].ended # "no" /\ worker[q] \notin Working
    BY DEF Together, Answered
  <2>2. Steady(q) /\ Ending(q) /\ Marching(q) /\ Joined(q) /\ Told(q)
    BY <2>1 DEF Together, Mine
  <2>3. worker[q] \notin AllReduces \cup Broadcasts
    BY <2>1 DEF Working
  <2>4. session[q].reduces = session[q].tokens
    BY <2>2, <2>3 DEF Steady
  <2>5. Heard(q) = session[q].syncs
    BY <2>3 DEF Heard
  <2>6. request.streamed => session[q].syncs = session[q].tokens
    BY DEF Together, Answered
  <2>7. ~request.streamed => session[q].syncs = 0
    BY <2>2 DEF Marching
  <2> QED
    BY <2>1, <2>2, <2>4, <2>5, <2>6, <2>7
<1>2. ASSUME NEW p \in Ranks, NEW q \in Ranks
      PROVE  session[p].tokens <= session[q].tokens
  <2>1. session[p].tokens \in Nat /\ session[q].tokens \in Nat /\ session[q].reduces \in Nat
    BY Numbers DEF SessionTyped
  <2>2. session[p].tokens >= 1 => session[q].reduces >= session[p].tokens
    BY <1>1 DEF Joined
  <2>3. session[q].reduces = session[q].tokens
    BY <1>1
  <2> QED
    BY <2>1, <2>2, <2>3
<1>3. session[r].tokens = session[Root].tokens
  <2>1. session[r].tokens \in Nat /\ session[Root].tokens \in Nat
    BY Numbers, RootIsRank DEF SessionTyped
  <2>2. session[r].tokens <= session[Root].tokens /\ session[Root].tokens <= session[r].tokens
    BY <1>2, RootIsRank
  <2> QED
    BY <2>1, <2>2
<1>4. Heard(r) = Heard(Root)
  BY <1>1, <1>3, RootIsRank
<1>5. session[r].ended = "cancelled" <=> session[Root].ended = "cancelled"
  BY <1>1, <1>4, RootIsRank DEF Told
<1>6. ASSUME RanksJudgeAlike
      PROVE  session[r].ended = session[Root].ended
  <2>1. \A q \in Ranks : session[q].ended \in {"stop", "length", "cancelled"}
    BY <1>1, Numbers DEF SessionTyped
  <2>2. ASSUME NEW q \in Ranks, session[q].ended # "cancelled"
        PROVE  session[q].ended = Verdict(session[q].tokens)
    BY <1>1, <1>6, <2>1, <2>2 DEF Ending
  <2> QED
    BY <1>3, <1>5, <2>1, <2>2, RootIsRank
<1> QED
  BY <1>1, <1>3, <1>6

(* What is left of a success stays, until the caller dispatches again.                  *)
LEMMA AgreedStep ==
  ASSUME IInv, SessionTyped, Meeting, Agreed, [Next]_vars
  PROVE  Agreed'
<1>1. CASE main' \notin {"starting", "idle"}
  BY <1>1 DEF Agreed
<1>2. ASSUME main' \in {"starting", "idle"}, main' = main, outcome' = outcome,
             main = "idle" => UNCHANGED <<workGeneration, localGeneration, session>>
      PROVE  Agreed'
  BY <1>2, RootIsRank DEF Agreed, In
<1>3. CASE Await /\ main' = "idle"
  <2>1. /\ main = "await" /\ outcome' = Answer
        /\ UNCHANGED <<workGeneration, localGeneration, session>>
    BY <1>3 DEF Await, Return, workVars
  <2>2. ASSUME outcome' = "succeeded"
        PROVE  ~workerFailed /\ \A r \in Ranks : statuses[r] = 1
    <3>1. Answer = "succeeded"
      BY <2>1, <2>2
    <3>2. ~workerFailed
      BY <3>1 DEF Answer
    <3>3. ~(\E r \in Ranks : errors[r] # "none")
      BY <3>1 DEF Answer
    <3> QED
      BY <3>1, <3>2, <3>3 DEF Answer
  <2>3. ASSUME outcome' = "succeeded", NEW r \in Ranks
        PROVE  /\ In(r)
               /\ session[r].ended # "no"
               /\ session[r].tokens = session[Root].tokens
               /\ RanksJudgeAlike => session[r].ended = session[Root].ended
    <3>1. Together
      BY <2>1, <2>2, <2>3 DEF Meeting, Sound, Waiting
    <3> QED
      BY <2>2, <2>3, <3>1, SuccessAgrees
  <2> QED
    BY <1>3, <2>1, <2>3 DEF Agreed, In
<1>4. CASE WorkersReported /\ main' = "idle"
  BY <1>4 DEF WorkersReported, Agreed
<1>5. CASE PostRefused \/ PostThrows \/ (Dispatch /\ main' = "idle")
  BY <1>5 DEF PostRefused, PostThrows, Dispatch, Return, Agreed
<1>6. ASSUME NEW r \in Ranks,
             Worker(r) \/ DeviceFails(r) \/ SpuriousWake(r) \/ Die(r) \/ Fail(r),
             main' \in {"starting", "idle"}
      PROVE  Agreed'
  <2>1. main' = main /\ outcome' = outcome /\ workGeneration' = workGeneration
    BY <1>6 DEF Worker, HandleRequest, Started, ReportFailedStart, Look, Sleep, Leave, Begin,
       EnterAllReduce, LeaveAllReduce, EnterBroadcast, LeaveBroadcast, CollectiveFails, Settle,
       Finish, RecordFailure, AbortCollectives, PublishCompletion, NotifyDone,
       DeviceFails, SpuriousWake, Die, Fail, callVars, workVars
  <2>2. main = "idle" => ~Owes(r)
    BY DEF IInv, Quiet, Pending, Waiting
  <2>3. main = "idle" => worker[r] \notin Working
    BY <2>2 DEF Owes, Owing, Engaged
  <2>4. main = "idle" /\ worker[r] = "look" => ~(workGeneration > localGeneration[r])
    <3>1. localGeneration[r] \in Nat /\ workGeneration \in Nat
      BY DEF IInv, Typed
    <3> QED
      BY <2>2, <3>1 DEF Owes, Resting
  <2>5. main = "idle" => UNCHANGED <<localGeneration, session>>
    <3> SUFFICES ASSUME main = "idle" PROVE UNCHANGED <<localGeneration, session>>
      OBVIOUS
    <3>1. CASE Look(r)
      BY <2>4, <3>1 DEF Look
    <3>2. ~HandleRequest(r)
      BY <2>3 DEF HandleRequest, Begin, EnterAllReduce, LeaveAllReduce, EnterBroadcast,
         LeaveBroadcast, CollectiveFails, Settle, Finish, Working
    <3> QED
      BY <1>6, <3>1, <3>2 DEF Worker, Started, ReportFailedStart, Sleep, Leave,
         RecordFailure, AbortCollectives, PublishCompletion, NotifyDone,
         DeviceFails, SpuriousWake, Die, Fail
  <2> QED
    BY <1>2, <1>6, <2>1, <2>5
<1>7. CASE Post \/ Announce \/ CallerSleeps \/ CallerWakesSpuriously \/ StopWorkers \/ WakeToStop
           \/ Join \/ Destroy
  <2>1. main' \notin {"starting", "idle"}
    BY <1>7 DEF Post, Announce, CallerSleeps, CallerWakesSpuriously, StopWorkers, WakeToStop,
       WakeWorkers, Join, Destroy
  <2> QED
    BY <1>1, <2>1
<1>8. CASE (SideCallFails \/ Cancel \/ UNCHANGED vars) /\ main' \in {"starting", "idle"}
  <2>1. main' = main /\ outcome' = outcome /\ UNCHANGED <<workGeneration, localGeneration, session>>
    BY <1>8 DEF SideCallFails, Cancel, vars, callVars, workVars
  <2> QED
    BY <1>2, <1>8, <2>1
<1> QED
  BY <1>1, <1>3, <1>4, <1>5, <1>6, <1>7, <1>8 DEF Next, Call, Await, WorkersReported, Dispatch, Return

-----------------------------------------------------------------------------
(* The ranks of a dispatch in which nothing has failed are never further apart than    *)
(* their last collective (GenerationSession in cpp/runtime/llmRankRuntime.cpp).         *)
THEOREM RanksInUnison == Spec => []Unison
<1>1. Init => Unison
  <2> SUFFICES ASSUME Init PROVE Unison
    OBVIOUS
  <2>1. Fresh \in Session
    BY DEF Fresh, Session
  <2>2. SessionTyped
    <3>1. \A r \in Ranks : localGeneration[r] = 0 /\ workGeneration = 0
      BY DEF Init
    <3>2. \A r \in Ranks : localGeneration[r] <= workGeneration
      BY <3>1
    <3>3. /\ session \in [Ranks -> Session] /\ statuses \in [Ranks -> {0, 1}]
          /\ workerFailed \in BOOLEAN /\ aborted \in BOOLEAN
      BY <2>1 DEF Init
    <3> QED
      BY <3>2, <3>3 DEF SessionTyped
  <2>3. FailureFirst /\ Meeting /\ Agreed
    BY DEF Init, FailureFirst, Meeting, Agreed, Sound, Waiting, Aborting
  <2> QED
    BY <2>2, <2>3 DEF Unison
<1>2. IInv /\ Unison /\ [Next]_vars => Unison'
  <2> SUFFICES ASSUME IInv, Unison, [Next]_vars PROVE Unison'
    OBVIOUS
  <2>1. SessionTyped /\ FailureFirst /\ Meeting /\ Agreed /\ Typed
    BY DEF Unison, IInv
  <2>2. SessionTyped'
    BY <2>1, SessionTypedStep
  <2> QED
    BY <2>1, <2>2, FailureFirstStep, MeetingStep, AgreedStep DEF Unison
<1> QED
  BY <1>1, <1>2, Invariance, PTL DEF Spec

(* A dispatch that succeeded was carried out by every rank in this generation, and all *)
(* ended the sequence at the same token, whatever intervals and stop strings its        *)
(* request had.                                                                         *)
EndedTogether ==
  main = "idle" /\ outcome = "succeeded" =>
    \A r \in Ranks : /\ localGeneration[r] = workGeneration
                     /\ session[r].ended # "no"
                     /\ session[r].tokens = session[Root].tokens

(* EndedTogether holds of every run, for every number of ranks and every workload.      *)
THEOREM RanksEndTogether == Spec => []EndedTogether
<1>1. Unison => EndedTogether
  BY DEF Unison, Agreed, EndedTogether, In
<1> QED
  BY <1>1, RanksInUnison, PTL

(* SuccessIsUnanimous, for the requests whose ranks look for stop strings at the same   *)
(* tokens (RanksJudgeAlike): the ranks also end for the same reason.                    *)
THEOREM SuccessAlwaysUnanimous ==
  ASSUME RanksJudgeAlike
  PROVE  Spec => []SuccessIsUnanimous
<1>1. Unison => SuccessIsUnanimous
  BY DEF Unison, Agreed, SuccessIsUnanimous, In
<1> QED
  BY <1>1, RanksInUnison, PTL
-----------------------------------------------------------------------------
(* The types.  Two of them are head counts: a rank reports its start once,  *)
(* and is among the live ones until it withdraws, so neither counter can    *)
(* pass the number of ranks, and the second one is never taken below zero.  *)

Live == Working \cup {"look", "drowsy", "asleep", "leaving", "failed", "abort, publish",
                      "publish", "notify"}
Reported == Places \ {"starting", "failed at start", "abort, report", "report"}

At(S) == {r \in Ranks : worker[r] \in S}

Census == liveWorkers = Cardinality(At(Live)) /\ reports = Cardinality(At(Reported))

(* The bounds of the caller's counters, and the types no count is needed for. *)
Bounded == /\ workGeneration <= MaxDispatches
           /\ main = "post" => workGeneration < MaxDispatches
           /\ workersFinished <= NumRanks

CallTyped ==
  /\ main \in {"starting", "idle", "post", "announce", "await", "drowsy", "asleep", "stop",
               "stopping", "join", "closed"}
  /\ request \in Workload \cup {NoRequest}
  /\ outcome \in {"none", "refused", "failed", "too long", "succeeded"}
  /\ Bounded
  /\ workMutex \in Ranks \cup {NoThread}
  /\ doneMutex \in {Caller, NoThread}
  /\ workersDone \in BOOLEAN /\ cancelled \in BOOLEAN
  /\ errors \in [Ranks -> {"none", "too long"}]

(* What one rank's step does to a head count. *)
Enters(S, r) == worker[r] \notin S /\ worker'[r] \in S
Leaves(S, r) == worker[r] \in S /\ worker'[r] \notin S
Remains(S, r) == worker[r] \in S <=> worker'[r] \in S

(* A count goes up by the one that enters and down by the one that leaves. *)
LEMMA CountOfOne ==
  ASSUME NEW S, NEW r \in Ranks, \A q \in Ranks \ {r} : worker'[q] = worker[q]
  PROVE  /\ Enters(S, r) => Cardinality(At(S)') = Cardinality(At(S)) + 1
         /\ Leaves(S, r) => Cardinality(At(S)') = Cardinality(At(S)) - 1
         /\ Remains(S, r) => Cardinality(At(S)') = Cardinality(At(S))
<1>1. IsFiniteSet(At(S)) /\ IsFiniteSet(At(S)')
  BY RanksAreFinite DEF At
<1>2. ASSUME Enters(S, r)
      PROVE  Cardinality(At(S)') = Cardinality(At(S)) + 1
  <2>1. At(S)' = At(S) \cup {r} /\ r \notin At(S)
    BY <1>2 DEF At, Enters
  <2> QED
    BY <1>1, <2>1, FS_AddElement
<1>3. ASSUME Leaves(S, r)
      PROVE  Cardinality(At(S)') = Cardinality(At(S)) - 1
  <2>1. At(S)' = At(S) \ {r} /\ r \in At(S)
    BY <1>3 DEF At, Leaves
  <2> QED
    BY <1>1, <2>1, FS_RemoveElement
<1>4. ASSUME Remains(S, r)
      PROVE  Cardinality(At(S)') = Cardinality(At(S))
  <2>1. At(S)' = At(S)
    BY <1>4 DEF At, Remains
  <2> QED
    BY <2>1
<1> QED
  BY <1>2, <1>3, <1>4

(* The counters follow the step of one rank. *)
Counts(r) ==
  /\ \A q \in Ranks \ {r} : worker'[q] = worker[q]
  /\ \/ Remains(Live, r) /\ liveWorkers' = liveWorkers
     \/ Enters(Live, r) /\ liveWorkers' = liveWorkers + 1
     \/ Leaves(Live, r) /\ liveWorkers' = liveWorkers - 1
  /\ \/ Remains(Reported, r) /\ reports' = reports
     \/ Enters(Reported, r) /\ reports' = reports + 1

(* A rank is counted when it starts and until it withdraws (the worker thread of *)
(* RuntimeCoordinator::startWorkers()).                                          *)
LEMMA RankCounts ==
  ASSUME Typed, NEW r \in Ranks,
         Worker(r) \/ DeviceFails(r) \/ SpuriousWake(r) \/ Die(r) \/ Fail(r)
  PROVE  Counts(r)
<1> USE DEF Typed, GoTo, Counts, Remains, Enters, Leaves, Live, Reported, Places, Working,
    AllReduces, Broadcasts
<1>1. CASE Started(r) \/ DeviceFails(r) \/ ReportFailedStart(r)
  BY <1>1 DEF Started, DeviceFails, ReportFailedStart, workVars
<1>2. CASE Look(r)
  BY <1>2 DEF Look
<1>3. CASE Sleep(r) \/ SpuriousWake(r) \/ Leave(r)
  BY <1>3 DEF Sleep, SpuriousWake, Leave, workVars
<1>4. CASE Die(r)
  BY <1>4 DEF Die
<1>5. CASE Begin(r) \/ Finish(r) \/ Fail(r)
  BY <1>5 DEF Begin, Finish, Fail, workVars
<1>6. CASE EnterAllReduce(r) \/ EnterBroadcast(r)
  BY <1>6 DEF EnterAllReduce, EnterBroadcast, workVars
<1>7. CASE LeaveAllReduce(r) \/ CollectiveFails(r)
  BY <1>7 DEF LeaveAllReduce, CollectiveFails, workVars
<1>8. CASE LeaveBroadcast(r)
  BY <1>8 DEF LeaveBroadcast, workVars
<1>9. CASE Settle(r)
  <2>1. /\ worker[r] = "settle" /\ UNCHANGED <<liveWorkers, reports>>
        /\ \E place \in {"finishing", "sync", "step"} : GoTo(r, place)
    BY <1>9 DEF Settle, workVars
  <2> QED
    BY <2>1
<1>10. CASE RecordFailure(r)
  BY <1>10 DEF RecordFailure, workVars
<1>11. CASE AbortCollectives(r)
  BY <1>11 DEF AbortCollectives, workVars
<1>12. CASE PublishCompletion(r)
  BY <1>12 DEF PublishCompletion, workVars
<1>13. CASE NotifyDone(r)
  BY <1>13 DEF NotifyDone, workVars
<1> QED
  BY <1>1, <1>2, <1>3, <1>4, <1>5, <1>6, <1>7, <1>8, <1>9, <1>10, <1>11, <1>12, <1>13
     DEF Worker, HandleRequest

(* Every step keeps the head counts. *)
LEMMA CensusStep ==
  ASSUME Typed, Census, [Next]_vars
  PROVE  Census'
<1>1. ASSUME NEW r \in Ranks,
             Worker(r) \/ DeviceFails(r) \/ SpuriousWake(r) \/ Die(r) \/ Fail(r)
      PROVE  Census'
  <2>1. Counts(r)
    BY <1>1, RankCounts
  <2>2. liveWorkers' = Cardinality(At(Live)')
    BY <2>1, CountOfOne DEF Census, Counts
  <2>3. reports' = Cardinality(At(Reported)')
    BY <2>1, CountOfOne DEF Census, Counts
  <2> QED
    BY <2>2, <2>3 DEF Census
<1>2. ASSUME UNCHANGED <<liveWorkers, reports>>,
             \A r \in Ranks : \/ worker'[r] = worker[r]
                              \/ {worker[r], worker'[r]} \subseteq {"asleep", "look"}
      PROVE  Census'
  <2>1. {"asleep", "look"} \subseteq Live \cap Reported
    BY DEF Live, Reported, Places
  <2>2. At(Live)' = At(Live) /\ At(Reported)' = At(Reported)
    BY <1>2, <2>1 DEF At
  <2> QED
    BY <1>2, <2>2 DEF Census
<1>3. CASE Announce \/ WakeToStop
  <2>1. /\ UNCHANGED <<liveWorkers, reports>>
        /\ worker' = [r \in Ranks |-> IF worker[r] = "asleep" THEN "look" ELSE worker[r]]
    BY <1>3 DEF Announce, WakeToStop, WakeWorkers, workVars
  <2> QED
    BY <1>2, <2>1
<1>4. CASE \/ WorkersReported \/ PostRefused \/ PostThrows \/ Post \/ Await \/ CallerSleeps
           \/ StopWorkers \/ Join
  <2>1. UNCHANGED <<liveWorkers, reports, worker>>
    BY <1>4 DEF WorkersReported, PostRefused, PostThrows, Post, Await, CallerSleeps, StopWorkers,
       Join, workVars
  <2> QED
    BY <1>2, <2>1
<1>5. CASE Dispatch \/ CallerWakesSpuriously \/ SideCallFails \/ Cancel \/ Destroy \/ UNCHANGED vars
  <2>1. UNCHANGED <<liveWorkers, reports, worker>>
    BY <1>5 DEF Dispatch, CallerWakesSpuriously, SideCallFails, Cancel, Destroy, vars, workVars
  <2> QED
    BY <1>2, <2>1
<1> QED
  BY <1>1, <1>3, <1>4, <1>5 DEF Next, Call

(* Every step keeps the other types: a completion is published only while one is owed, *)
(* so that the counter has room for it.                                                *)
LEMMA CallTypedStep ==
  ASSUME IInv, IInv', CallTyped, [Next]_vars
  PROVE  CallTyped'
<1>1. /\ workGeneration \in Nat /\ workersFinished \in Nat /\ MaxDispatches \in Nat
      /\ NumRanks \in Nat
  BY BoundAssumption, RanksAssumption DEF IInv, Typed
<1>2. ASSUME NEW r \in Ranks, PublishCompletion(r)
      PROVE  CallTyped'
  <2>1. workersFinished' <= NumRanks
    <3>1. /\ workersFinished' = workersFinished + 1 /\ r \in Pending
      BY <1>2, PublicationPays DEF IInv
    <3>2. main \in Waiting
      BY <3>1 DEF IInv, Quiet
    <3>3. IsFiniteSet(Pending) /\ Cardinality(Pending) \in Nat
      BY RanksAreFinite DEF Pending
    <3>4. Cardinality(Pending) # 0
      BY <3>1, <3>3, FS_EmptySet
    <3>5. workersFinished + Cardinality(Pending) <= NumRanks
      BY <3>2 DEF IInv, Books
    <3> QED
      BY <1>1, <3>1, <3>3, <3>4, <3>5
  <2>2. UNCHANGED <<callVars, workVars, doneMutex, commVars, taskVars>>
    BY <1>2 DEF PublishCompletion
  <2>3. Bounded'
    BY <2>1, <2>2 DEF CallTyped, Bounded, callVars, workVars
  <2> QED
    BY <2>2, <2>3 DEF CallTyped, callVars, workVars, commVars, taskVars
<1>3. ASSUME NEW r \in Ranks, Look(r) \/ Sleep(r) \/ Begin(r) \/ NotifyDone(r)
      PROVE  CallTyped'
  <2>1. CASE Look(r) \/ Sleep(r)
    <3>1. /\ workMutex' \in {workMutex, r, NoThread}
          /\ UNCHANGED <<main, request, outcome, workGeneration, workersFinished, doneMutex,
                         workersDone, cancelled, errors>>
      BY <2>1 DEF Look, Sleep, callVars, doneVars, commVars, taskVars
    <3> QED
      BY <3>1 DEF CallTyped, Bounded
  <2>2. CASE Begin(r)
    BY <2>2 DEF Begin, CallTyped, Bounded, callVars, workVars, doneVars, commVars
  <2>3. CASE NotifyDone(r)
    BY <2>3 DEF NotifyDone, CallTyped, Bounded, workVars, doneVars, commVars, taskVars
  <2> QED
    BY <1>3, <2>1, <2>2, <2>3
<1>4. ASSUME NEW r \in Ranks,
             \/ Worker(r) /\ ~(\/ PublishCompletion(r) \/ Look(r) \/ Sleep(r) \/ Begin(r)
                               \/ NotifyDone(r))
             \/ DeviceFails(r) \/ SpuriousWake(r) \/ Die(r) \/ Fail(r)
      PROVE  CallTyped'
  <2>1. UNCHANGED <<main, request, outcome, workGeneration, workersFinished, workMutex, doneMutex,
                    workersDone, cancelled, errors>>
    BY <1>4 DEF Worker, HandleRequest, Started, ReportFailedStart, Leave, EnterAllReduce,
       LeaveAllReduce, EnterBroadcast, LeaveBroadcast, CollectiveFails, Settle, Finish,
       RecordFailure, AbortCollectives, DeviceFails, SpuriousWake, Die, Fail,
       callVars, workVars, doneVars, commVars, taskVars
  <2> QED
    BY <2>1 DEF CallTyped, Bounded
<1>5. CASE Post
  <2>1. /\ main = "post" /\ main' = "announce" /\ request' \in Workload /\ cancelled' = FALSE
        /\ errors' = [r \in Ranks |-> "none"]
        /\ workersFinished' = 0 /\ workGeneration' = workGeneration + 1
        /\ UNCHANGED <<outcome, workersDone, workMutex, doneMutex>>
    BY <1>5 DEF Post
  <2>2. Bounded
    BY DEF CallTyped
  <2>3. Bounded'
    BY <1>1, <2>1, <2>2 DEF Bounded
  <2> QED
    BY <2>1, <2>3 DEF CallTyped
<1>6. CASE PostRefused \/ PostThrows \/ Dispatch
  BY <1>6 DEF PostRefused, PostThrows, Dispatch, Return, CallTyped, Bounded, workVars, doneVars,
     commVars, taskVars
<1>7. CASE Await
  <2>1. Answer \in {"failed", "too long", "succeeded"}
    BY DEF Answer
  <2> QED
    BY <1>7, <2>1 DEF Await, Return, CallTyped, Bounded, workVars, commVars, taskVars
<1>8. CASE WorkersReported \/ CallerSleeps \/ StopWorkers \/ Join \/ Announce \/ WakeToStop
  BY <1>8 DEF WorkersReported, CallerSleeps, StopWorkers, Join, Announce, WakeToStop, WakeWorkers,
     CallTyped, Bounded, workVars, doneVars, commVars, taskVars
<1>9. CASE CallerWakesSpuriously \/ Cancel \/ Destroy
  <2>1. /\ main' \in {main, "await", "stop"} /\ cancelled' \in {cancelled, TRUE}
        /\ UNCHANGED <<request, outcome, workGeneration, workersFinished, workMutex, doneMutex,
                       workersDone, errors>>
    BY <1>9 DEF CallerWakesSpuriously, Cancel, Destroy, callVars, workVars, doneVars, commVars,
       taskVars
  <2>2. Bounded'
    <3>1. Bounded /\ (main' = "post" => main = "post")
      BY <2>1 DEF CallTyped
    <3> QED
      BY <2>1, <3>1 DEF Bounded
  <2>3. /\ main' \in {"starting", "idle", "post", "announce", "await", "drowsy", "asleep", "stop",
                     "stopping", "join", "closed"}
        /\ cancelled' \in BOOLEAN
    <3>1. /\ main \in {"starting", "idle", "post", "announce", "await", "drowsy", "asleep", "stop",
                      "stopping", "join", "closed"}
          /\ cancelled \in BOOLEAN
      BY DEF CallTyped
    <3> QED
      BY <2>1, <3>1
  <2>4. UNCHANGED <<request, outcome, workMutex, doneMutex, workersDone, errors>>
    BY <2>1
  <2> QED
    BY <2>2, <2>3, <2>4 DEF CallTyped
<1>10. CASE SideCallFails \/ UNCHANGED vars
  <2>1. UNCHANGED <<main, request, outcome, workGeneration, workersFinished, workMutex, doneMutex,
                    workersDone, cancelled, errors>>
    BY <1>10 DEF SideCallFails, vars, callVars, workVars, doneVars, commVars, taskVars
  <2>2. Bounded' <=> Bounded
    BY <2>1 DEF Bounded
  <2> QED
    BY <2>1, <2>2 DEF CallTyped
<1> QED
  BY <1>2, <1>3, <1>4, <1>5, <1>6, <1>7, <1>8, <1>9, <1>10 DEF Next, Call

(* TypeOK: in particular mWorkersFinished, mLiveWorkers and mWorkerStartupReports stay *)
(* between zero and the number of ranks, through every failure and withdrawal.         *)
THEOREM TypeCorrect == Spec => []TypeOK
<1>1. Init => Census /\ CallTyped
  <2> SUFFICES ASSUME Init PROVE Census /\ CallTyped
    OBVIOUS
  <2>1. At(Live) = {} /\ At(Reported) = {}
    BY DEF Init, At, Live, Reported, Working, AllReduces, Broadcasts
  <2>2. Census
    BY <2>1, FS_EmptySet DEF Init, Census
  <2>3. Bounded
    BY BoundAssumption, RanksAssumption DEF Init, Bounded
  <2>4. CallTyped
    BY <2>3 DEF Init, CallTyped
  <2> QED
    BY <2>2, <2>4
<1>2. IInv /\ IInv' /\ Census /\ CallTyped /\ [Next]_vars => Census' /\ CallTyped'
  BY CensusStep, CallTypedStep DEF IInv
<1>3. IInv /\ Unison /\ Census /\ CallTyped => TypeOK
  <2> SUFFICES ASSUME IInv, Unison, Census, CallTyped PROVE TypeOK
    OBVIOUS
  <2>1. /\ workGeneration \in Nat /\ workersFinished \in Nat /\ localGeneration \in [Ranks -> Nat]
        /\ worker \in [Ranks -> Places] /\ NumRanks \in Nat /\ MaxDispatches \in Nat
    BY BoundAssumption, RanksAssumption DEF IInv, Typed
  <2>2. workGeneration \in 0 .. MaxDispatches /\ workersFinished \in 0 .. NumRanks
    <3>1. Bounded
      BY DEF CallTyped
    <3> QED
      BY <2>1, <3>1 DEF Bounded
  <2>3. localGeneration \in [Ranks -> 0 .. MaxDispatches]
    <3>1. ASSUME NEW r \in Ranks PROVE localGeneration[r] \in 0 .. MaxDispatches
      <4>1. localGeneration[r] \in Nat /\ localGeneration[r] <= workGeneration
        BY <2>1 DEF Unison, SessionTyped
      <4>2. workGeneration <= MaxDispatches
        BY DEF CallTyped, Bounded
      <4> QED
        BY <2>1, <4>1, <4>2
    <3> QED
      BY <2>1, <3>1
  <2>4. liveWorkers \in 0 .. NumRanks /\ reports \in 0 .. NumRanks
    <3>1. At(Live) \in SUBSET Ranks /\ At(Reported) \in SUBSET Ranks
      BY DEF At
    <3>2. \A S \in SUBSET Ranks : Cardinality(S) \in 0 .. NumRanks
      BY <2>1, RanksAreFinite
    <3> QED
      BY <3>1, <3>2 DEF Census
  <2>5. {workersDone, workerFailed, aborted, cancelled} \subseteq BOOLEAN
    BY DEF CallTyped, Unison, SessionTyped
  <2> QED
    BY <2>1, <2>2, <2>3, <2>4, <2>5 DEF TypeOK, CallTyped, Unison, SessionTyped
<1> QED
  BY <1>1, <1>2, <1>3, Invariance, RanksInUnison, PTL DEF Spec
=============================================================================
