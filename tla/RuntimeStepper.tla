---------------------------- MODULE RuntimeStepper ----------------------------
(***************************************************************************)
(* One stepped batch, below the scheduler: the runtime's execution rows    *)
(* (decodingInferenceContext), the pool of resident slots, the stepper's   *)
(* tables keyed by original index (cpp/runtime/runtimeStepper) and the     *)
(* scheduler's table keyed by slot (requestCoordinator).  They name the    *)
(* same sequences in four ways and are updated at different moments; a     *)
(* sequence that leaves frees a slot the next admission takes at once.     *)
(* One thread drives all of it: an action is one tick of the scheduler.    *)
(* Module RequestEngine says when ticks happen; here they are free.        *)
(***************************************************************************)
EXTENDS ResidentSlotPool, Integers, FiniteSets

CONSTANTS MaxBatchSize,        \* EngineConfig; at most the pool's capacity
          MaxPrompt,           \* prompts have 1..MaxPrompt tokens
          MaxGenerateLength,
          MaxIndex,            \* bound: original indices handed out to one batch
          MaxEpoch             \* bound: roll back no admission beyond this epoch

ASSUME StepperAssumption == /\ MaxBatchSize \in 1..Capacity
                            /\ MaxPrompt \in Nat \ {0}
                            /\ MaxGenerateLength \in Nat \ {0}
                            /\ MaxIndex \in Nat \ {0}
                            /\ MaxEpoch \in Nat \ {0}

NoRef == [slot |-> -1, epoch |-> 0]     \* a default ResidentRef; "none" for an optional
Live == "kNotFinished"
Reasons == {"kEndId", "kCancelled", "kError"}

VARIABLES
  phase,         \* "idle", "tick", "decode" (after a refused admission), "failing"
  pool,          \* residentSlots
  rows,          \* the execution rows: [index, ref, tokens, generated, reason]
  mRefs,         \* original index -> reference
  mReported,     \* original index -> tokens reported by deltas
  mPending,      \* the seated admission: its row's number, or 0
  awaiting,      \* the scheduler's awaitingPrefill
  nextIndex,     \* the scheduler's mNextAdmittedIndex
  table,         \* the coordinator's mResidents: slot -> [ref, request]
  retired,       \* history: references of this batch that were released
  prompts,       \* history: index -> prompt tokens a sequence starts from
  delivered,     \* history: index -> tokens its deltas carried
  outcomes       \* history: [index, request] for each outcome filed

schedVars == <<awaiting, nextIndex, table>>
stepperVars == <<mRefs, mReported, mPending>>
historyVars == <<retired, prompts, delivered, outcomes>>
vars == <<phase, pool, rows, stepperVars, schedVars, historyVars>>

-----------------------------------------------------------------------------
Entry(key, value) == [k \in {key} |-> value]
Extended(f, key, value) == [k \in DOMAIN f \cup {key} |-> IF k = key THEN value ELSE f[k]]
Less(f, keys) == [k \in DOMAIN f \ keys |-> f[k]]
Empty == [k \in {} |-> 0]

Indices(someRows) == {someRows[i].index : i \in DOMAIN someRows}
RefsOf(someRows) == {someRows[i].ref : i \in DOMAIN someRows}
RowOf(someRows, index) ==
  someRows[CHOOSE i \in DOMAIN someRows : someRows[i].index = index]

Init == /\ phase = "idle"
        /\ pool = Reset
        /\ rows = <<>>
        /\ mRefs = Empty
        /\ mReported = Empty
        /\ mPending = 0
        /\ awaiting = NoRef
        /\ nextIndex = 0
        /\ table = Empty
        /\ retired = {}
        /\ prompts = Empty
        /\ delivered = Empty
        /\ outcomes = {}

(* beginStepped() and the tables over it: the founder, with the token its prefill     *)
(* produced, which the founding prefill tick is to report.                            *)
Found(prompt) ==
  LET ref == Acquired(Reset)
  IN  /\ phase = "idle"
      /\ pool' = AfterAcquire(Reset)
      /\ rows' = <<[index |-> 0, ref |-> ref, tokens |-> prompt + 1, generated |-> 1,
                    reason |-> Live]>>
      /\ mRefs' = Entry(0, ref)
      /\ mReported' = Entry(0, prompt)
      /\ mPending' = 0
      /\ table' = Entry(ref.slot, [ref |-> ref, request |-> 0])
      /\ awaiting' = ref
      /\ nextIndex' = 1
      /\ phase' = "tick"
      /\ retired' = {}
      /\ prompts' = Entry(0, prompt)
      /\ delivered' = Entry(0, 0)
      /\ outcomes' = {}

-----------------------------------------------------------------------------
(* admit()                                                                 *)

MayOffer == /\ phase = "tick"
            /\ awaiting = NoRef
            /\ rows # <<>>
            /\ Len(rows) < MaxBatchSize
            /\ nextIndex <= MaxIndex

(* Refused before anything was reserved: the decode of the same tick follows. *)
AdmitRefused ==
  /\ MayOffer
  /\ phase' = "decode"
  /\ UNCHANGED <<pool, rows, stepperVars, schedVars, historyVars>>

AdmitRolledBack_KeepsSlot ==
  /\ MayOffer
  /\ Available(pool) > 0
  /\ pool' = AfterAcquire(pool)
  /\ phase' = "decode"
  /\ UNCHANGED <<rows, stepperVars, schedVars, historyVars>>

(* The lease is refused, fails or throws, or appendSlot() throws: the slot goes back, *)
(* the tables forget the index, which the next admission uses again.                  *)
AdmitRolledBack ==
  /\ MayOffer
  /\ Available(pool) > 0
  /\ LET ref == Acquired(pool)
     IN  /\ ref.epoch < MaxEpoch
         /\ pool' = AfterRelease(AfterAcquire(pool), <<ref>>)
         /\ retired' = retired \cup {ref}
  /\ phase' = "decode"
  /\ UNCHANGED <<rows, stepperVars, schedVars, prompts, delivered, outcomes>>

AdmitSeated_ReportsPrompt(prompt) ==
  LET ref == Acquired(pool)
  IN  /\ MayOffer
      /\ Available(pool) > 0
      /\ pool' = AfterAcquire(pool)
      /\ rows' = Append(rows, [index |-> nextIndex, ref |-> ref, tokens |-> prompt,
                               generated |-> 0, reason |-> Live])
      /\ mRefs' = Extended(mRefs, nextIndex, ref)
      /\ mReported' = Extended(mReported, nextIndex, 0)
      /\ mPending' = Len(rows) + 1
      /\ table' = Extended(table, ref.slot, [ref |-> ref, request |-> nextIndex])
      /\ awaiting' = ref
      /\ nextIndex' = nextIndex + 1
      /\ prompts' = Extended(prompts, nextIndex, prompt)
      /\ delivered' = Extended(delivered, nextIndex, 0)
      /\ UNCHANGED <<phase, retired, outcomes>>

(* Seated: a slot, a row at the end, an entry in every table; its prefill is next. *)
AdmitSeated(prompt) ==
  LET ref == Acquired(pool)
  IN  /\ MayOffer
      /\ Available(pool) > 0
      /\ pool' = AfterAcquire(pool)
      /\ rows' = Append(rows, [index |-> nextIndex, ref |-> ref, tokens |-> prompt,
                               generated |-> 0, reason |-> Live])
      /\ mRefs' = Extended(mRefs, nextIndex, ref)
      /\ mReported' = Extended(mReported, nextIndex, prompt)
      /\ mPending' = Len(rows) + 1
      /\ table' = Extended(table, ref.slot, [ref |-> ref, request |-> nextIndex])
      /\ awaiting' = ref
      /\ nextIndex' = nextIndex + 1
      /\ prompts' = Extended(prompts, nextIndex, prompt)
      /\ delivered' = Extended(delivered, nextIndex, 0)
      /\ UNCHANGED <<phase, retired, outcomes>>

-----------------------------------------------------------------------------
(* What every step ends with.                                              *)

(* finalizeResult(): deltas of the rows that are still there, by original index. *)
ReportDeltas(kept) ==
  /\ mReported' = [index \in DOMAIN mReported \cap Indices(kept) |-> RowOf(kept, index).tokens]
  /\ delivered' = [index \in DOMAIN delivered |->
                     IF index \in Indices(kept)
                     THEN delivered[index] + RowOf(kept, index).tokens - mReported[index]
                     ELSE delivered[index]]

FinalizeResult(kept) ==
  /\ ReportDeltas(kept)
  /\ mRefs' = [index \in DOMAIN mRefs \cap Indices(kept) |-> mRefs[index]]

(* performBatchEvict(): release the slots of the rows that ended, compact the others. *)
(* What a row that ended had generated travels in its snapshot, not in a delta.       *)
Evict(ended, kept) ==
  /\ pool' = AfterRelease(pool, [i \in DOMAIN ended |-> ended[i].ref])
  /\ rows' = kept
  /\ retired' = retired \cup RefsOf(ended)

CommitTable_ByRow(ended) ==
  /\ outcomes' = outcomes \cup
       {[index |-> ended[i].index,
         request |-> table[CHOOSE slot \in DOMAIN table : TRUE].request] : i \in DOMAIN ended}
  /\ table' = Less(table, {ref.slot : ref \in RefsOf(ended)})

(* commit(): an outcome for each finished reference, to the request its slot names. *)
CommitTable(ended) ==
  /\ outcomes' = outcomes \cup
       {[index |-> ended[i].index, request |-> table[ended[i].ref.slot].request] :
          i \in DOMAIN ended}
  /\ table' = Less(table, {ref.slot : ref \in RefsOf(ended)})

(* The numbers of some rows in ascending order: evictedIndices, and the rows that        *)
(* batchMapping keeps.                                                                   *)
Ascending(numbers) == {order \in [1 .. Cardinality(numbers) -> numbers] :
                         \A i, j \in DOMAIN order : i < j => order[i] < order[j]}
TheseRows(someRows, order) == [i \in DOMAIN order |-> someRows[order[i]]]

IsLive(row) == row.reason = Live

Complete(stepped) ==
  \E live \in Ascending({i \in DOMAIN stepped : IsLive(stepped[i])}),
     over \in Ascending({i \in DOMAIN stepped : ~IsLive(stepped[i])}) :
  LET kept == TheseRows(stepped, live)
      ended == TheseRows(stepped, over)
  IN  /\ Evict(ended, kept)
      /\ FinalizeResult(kept)
      /\ CommitTable(ended)
      /\ mPending' = 0
      /\ awaiting' = NoRef
      /\ phase' = "tick"
      /\ UNCHANGED <<nextIndex, prompts>>

(* The step returns false, its deltas reported, or throws before they are: nothing    *)
(* was evicted, and the scheduler gives the batch up.                                 *)
Fail(stepped) ==
  /\ rows' = stepped
  /\ \/ ReportDeltas(stepped)
     \/ UNCHANGED <<mReported, delivered>>
  /\ mPending' = 0
  /\ awaiting' = NoRef
  /\ phase' = "failing"
  /\ UNCHANGED <<pool, mRefs, nextIndex, table, retired, prompts, outcomes>>

WithToken(row) == [row EXCEPT !.tokens = @ + 1, !.generated = @ + 1]
Ending(row) == IF row.generated >= MaxGenerateLength THEN Reasons \ {"kError"}
               ELSE (Reasons \ {"kError"}) \cup {Live}

-----------------------------------------------------------------------------
(* prefill() and decode()                                                  *)

(* The founding prefill tick: its token was generated by beginStepped(). *)
PrefillFounder ==
  /\ phase = "tick"
  /\ awaiting # NoRef
  /\ mPending = 0
  /\ \E reason \in Ending(rows[1]) :
       LET stepped == [rows EXCEPT ![1].reason = reason]
       IN  Complete(stepped) \/ Fail(stepped)

(* The seated prefill of the pending row alone: it yields a token, which may end the  *)
(* sequence, or fails before or after it and is filed as an error.                    *)
PrefillSeated ==
  /\ phase = "tick"
  /\ awaiting # NoRef
  /\ mPending # 0
  /\ LET row == rows[mPending]
     IN  \E after \in {[row EXCEPT !.reason = "kError"],
                       [WithToken(row) EXCEPT !.reason = "kError"]}
                      \cup {[WithToken(row) EXCEPT !.reason = reason] :
                              reason \in Ending(WithToken(row)) \ {"kCancelled"}} :
           LET stepped == [rows EXCEPT ![mPending] = after]
           IN  Complete(stepped) \/ Fail(stepped)

Decode ==
  /\ phase \in {"tick", "decode"}
  /\ awaiting = NoRef
  /\ rows # <<>>
  /\ \/ \E reasons \in [DOMAIN rows -> Reasons \cup {Live}] :
          LET stepped == [i \in DOMAIN rows |->
                            [WithToken(rows[i]) EXCEPT !.reason = reasons[i]]]
          IN  /\ \A i \in DOMAIN rows : reasons[i] \in Ending(WithToken(rows[i]))
              /\ Complete(stepped) \/ Fail(stepped)
     \/ Fail(rows)

-----------------------------------------------------------------------------
(* The end of the batch: failEverything() answers whoever is left, and the session,   *)
(* its rows and its pool go away with finish().                                       *)
EndBatch ==
  /\ phase = "failing" \/ (phase = "tick" /\ rows = <<>>)
  /\ outcomes' = outcomes \cup
       {[index |-> (CHOOSE i \in DOMAIN mRefs : mRefs[i] = table[slot].ref),
         request |-> table[slot].request] : slot \in DOMAIN table}
  /\ table' = Empty
  /\ rows' = <<>>
  /\ mRefs' = Empty
  /\ mReported' = Empty
  /\ phase' = "idle"
  /\ UNCHANGED <<pool, mPending, awaiting, nextIndex, retired, prompts, delivered>>

Next == \/ \E prompt \in 1..MaxPrompt : Found(prompt) \/ AdmitSeated(prompt)
        \/ AdmitRefused \/ AdmitRolledBack
        \/ PrefillFounder \/ PrefillSeated \/ Decode
        \/ EndBatch

Spec == Init /\ [][Next]_vars

-----------------------------------------------------------------------------
Rows == [index : Nat, ref : Refs, tokens : Nat, generated : Nat, reason : Reasons \cup {Live}]

TypeOK ==
  /\ phase \in {"idle", "tick", "decode", "failing"}
  /\ pool \in Pools
  /\ rows \in Seq(Rows)
  /\ mPending \in Nat
  /\ awaiting \in Refs \cup {NoRef}
  /\ nextIndex \in 0..(MaxIndex + 1)
  /\ \A f \in {mReported, prompts, delivered} : \A index \in DOMAIN f : f[index] \in Nat
  /\ \A index \in DOMAIN mRefs : mRefs[index] \in Refs
  /\ \A slot \in DOMAIN table : table[slot] \in [ref : Refs, request : Nat]
  /\ retired \subseteq Refs

Running == phase # "idle"

(* Whatever happened to admissions and steps, the four names of a row agree, so that  *)
(* none of the checks in residents(), finalizeResult(), add() and commit() can fail;  *)
(* no slot leaks and none is shared: the occupied slots are exactly those of the rows,*)
(* and a batch below its limit finds a free one (reserveAdmission, seatSlot and       *)
(* performBatchEvict roll back and release).                                          *)
TablesAgree ==
  Running => /\ DOMAIN mRefs = Indices(rows)
             /\ DOMAIN mReported = Indices(rows)
             /\ DOMAIN table = {ref.slot : ref \in RefsOf(rows)}
             /\ \A i \in DOMAIN rows :
                  /\ Contains(pool, rows[i].ref)
                  /\ mRefs[rows[i].index] = rows[i].ref
                  /\ table[rows[i].ref.slot].ref = rows[i].ref
             /\ Consistent(pool)
             /\ pool.occupied = {ref.slot : ref \in RefsOf(rows)}
             /\ Cardinality(pool.occupied) = Len(rows)
             /\ Len(rows) < MaxBatchSize => Available(pool) > 0

(* The index the scheduler offers next was never used in this batch, the pending      *)
(* admission is the youngest row (the checks of admit(), appendSlot() and prefill()), *)
(* and a reference that left never names a row again, however often its slot is       *)
(* reused (ResidentSlotPool::release).                                                *)
SeatsAreFresh ==
  /\ Running => /\ \A index \in DOMAIN prompts : index < nextIndex
                /\ mPending # 0 => /\ mPending = Len(rows)
                                   /\ mPending > 1
                                   /\ rows[mPending].ref = awaiting
  /\ \A ref \in retired : ~Contains(pool, ref)

(* Each token a surviving sequence generated has been in exactly one delta.           *)
DeltasAreExact ==
  phase \in {"tick", "decode"} =>
    \A i \in DOMAIN rows :
      LET row == rows[i]
      IN  row.ref # awaiting => prompts[row.index] + delivered[row.index] = row.tokens

(* Every sequence of a batch that is over has one outcome, filed under the request    *)
(* that owns it, and none has two.                                                    *)
OutcomesReachOwners ==
  /\ \A o \in outcomes : o.index = o.request
  /\ Running => {o.index : o \in outcomes} \cap Indices(rows) = {}
  /\ ~Running => {o.index : o \in outcomes} = DOMAIN prompts
=============================================================================
