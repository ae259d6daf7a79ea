---------------------------- MODULE ContextCache ----------------------------
(***************************************************************************)
(* The context cache of a vanilla attention deployment, one generation at  *)
(* a time: the coordinator (cpp/runtime/state/contextCache/                *)
(* contextCacheCoordinator.cpp), the device page table it keeps            *)
(* (state/kvPageTable.cpp), the calls the rank runtime makes of it, and    *)
(* the KV that the kernels write through the table.                        *)
(***************************************************************************)
EXTENDS ContextCacheManager

CONSTANTS Slots,            \* resident slots, 0 .. maxBatchSize - 1
          MaxPagesPerSeq,   \* the page table's width
          Prompts,          \* token sequences a client may send
          Sampled,          \* tokens a step may sample
          Lookups,          \* per sequence: may it use the cache (ContextCacheLookupPolicy)
          Commits,          \* per request: are generated tokens published (ContextCacheCommitPolicy)
          MaxGenerate,      \* request.maxGenerateLength
          UploadFailures,   \* a failed upload leaves the rows "before" or "after" the copies
          SeatedThrows,     \* may a seated prefill throw, rather than return false
          MaxAdmissions     \* bound: sequences admitted in a behaviour

ASSUME TableAssumption ==
  /\ IsFiniteSet(Slots) /\ Slots = 0 .. Cardinality(Slots) - 1 /\ Slots # {}
  /\ MaxPagesPerSeq \in Nat \ {0}
(* The pool holds every slot's longest sequence (KVCacheManager), and the rows start as *)
(* the identity layout over it (KVPageTable::setIdentity).                              *)
ASSUME PoolAssumption == 0 .. Cardinality(Slots) * MaxPagesPerSeq - 1 \subseteq Pages
ASSUME InputAssumption ==
  /\ \A prompt \in Prompts : /\ prompt \in Seq(Range(prompt))
                              /\ Len(prompt) \in 1 .. MaxPagesPerSeq * PageSize - 1
  /\ Lookups \subseteq BOOLEAN /\ Commits \subseteq BOOLEAN /\ SeatedThrows \subseteq BOOLEAN
  /\ UploadFailures \subseteq {"before", "after"}
  /\ MaxGenerate \in Nat \ {0} /\ MaxAdmissions \in Nat

VARIABLES pc,           \* where the runtime's loop is between two calls
          manager,      \* the ContextCacheManager
          table,        \* the page table: host rows, rows last uploaded, rows on the device
          seqs,         \* RequestHandle::Impl::sequences, in batch order
          commit,       \* the batch's commit policy
          budget,       \* context.maxGenerateLength, clamped to the KV capacity
          pending,      \* deviceWorkPending
          poisoned,     \* mPoisoned
          quarantined,  \* the leases of mQuarantinedRequests
          content,      \* per page and offset: the prefix whose last token's KV is there
          inflight,     \* pages that kernels not known to be finished may write
          admitted      \* sequences admitted so far (bounded)
vars == <<pc, manager, table, seqs, commit, budget, pending, poisoned, quarantined,
          content, inflight, admitted>>

Capacity == MaxPagesPerSeq * PageSize
Blank == [o \in 1 .. PageSize |-> <<>>]

-----------------------------------------------------------------------------
(* The page table.                                                         *)

IdentityTable ==
  LET rows == [s \in Slots |-> [j \in 1 .. MaxPagesPerSeq |-> s * MaxPagesPerSeq + j - 1]]
  IN [host |-> rows, uploaded |-> rows, device |-> rows]

SetRows(t, rows) ==
  [t EXCEPT !.host = [s \in Slots |-> IF s \in {r.slot : r \in rows}
                                      THEN (CHOOSE r \in rows : r.slot = s).pages ELSE @[s]]]
ClearRows(t, rows) == SetRows(t, {[r EXCEPT !.pages = <<>>] : r \in rows})

DirtyRows(t) == {s \in Slots : t.host[s] # t.uploaded[s]}
Copied(t) == [t EXCEPT !.device = [s \in Slots |-> IF s \in DirtyRows(t) THEN t.host[s] ELSE @[s]]]
Upload(t) == [Copied(t) EXCEPT !.uploaded = t.host]

(* upload() throws at a copy or at the event after them; the rows stay dirty. *)
FailedUploads(t) ==
  IF DirtyRows(t) = {} THEN {}
  ELSE {IF when = "after" THEN Copied(t) ELSE t : when \in UploadFailures}

-----------------------------------------------------------------------------
(* Sequences, leases and the kernels' writes.                              *)

NewRow(prompt, lookup, slot, lease) ==
  [slot |-> slot, pages |-> lease.pages, tokens |-> prompt, input |-> Len(prompt),
   lookup |-> lookup, committed |-> lease.reuse * PageSize, published |-> 0, ended |-> "no"]

(* clampMaxGenerateLengthForKVCapacity() *)
Clamped(lengths, requested) ==
  Min({requested} \cup {Max({0, Capacity - n - 1}) : n \in lengths})

PagesOf(rows) == [i \in DOMAIN rows |-> rows[i].pages]

ReleaseAll(m, leases) ==
  LET released[k \in 0 .. Len(leases)] ==
        IF k = 0 THEN m ELSE ReleaseLease(released[k - 1], leases[k])
  IN released[Len(leases)]

PageIndex(n) == (n - 1) \div PageSize + 1
OffsetOf(n) == ((n - 1) % PageSize) + 1

PrefillSpan(row) == row.committed + 1 .. Len(row.tokens)
DecodeSpan(row) == {row.committed + 1}

(* The pages a kernel reaches for these positions, through the device's table. *)
KernelPages(t, row, span) ==
  {t.device[row.slot][PageIndex(n)] : n \in {k \in span : PageIndex(k) <= Len(t.device[row.slot])}}

(* Every row's span goes through the device's row; of two writers of a position the last *)
(* row's is what stays.                                                                   *)
Written(spans) ==
  LET DeviceRow(i) == table.device[seqs[i].slot]
      At(i, p, o) == {n \in spans[i] : /\ PageIndex(n) <= Len(DeviceRow(i))
                                       /\ DeviceRow(i)[PageIndex(n)] = p
                                       /\ OffsetOf(n) = o}
      Writers(p, o) == {i \in DOMAIN spans : At(i, p, o) # {}}
  IN [p \in Pages |-> [o \in 1 .. PageSize |->
        IF Writers(p, o) = {} THEN content[p][o]
        ELSE LET last == Max(Writers(p, o)) IN SubSeq(seqs[last].tokens, 1, Max(At(last, p, o)))]]

(* A free page holds nothing anybody may rely on. *)
Settled(m, kv) == [p \in Pages |-> IF p \in Range(m.free) THEN Blank ELSE kv[p]]

-----------------------------------------------------------------------------
(* Publication: publishReadyEndpoint() of the rows that have come to a point. *)

(* Mutant: the sampled token, whose KV is not written yet, is counted. *)
ReadyBlocks_WithSampled(row) == Len(row.tokens) \div PageSize

(* Only positions whose KV is written: the last token is sampled, not computed. *)
ReadyBlocks(row) == row.committed \div PageSize

Publishable(row, point) ==
  /\ row.lookup
  /\ point = "decodeEnd" => commit /\ row.ended = "finished"
  /\ ReadyBlocks(row) > row.published

PublishRow(m, row, point) ==
  IF Publishable(row, point) THEN Publish(m, row.tokens, row.pages, ReadyBlocks(row)) ELSE m

PublishRows(m, rows, point) ==
  LET published[k \in 0 .. Len(rows)] ==
        IF k = 0 THEN m ELSE PublishRow(published[k - 1], rows[k], point)
  IN published[Len(rows)]

MarkPublished(rows, point) ==
  [i \in DOMAIN rows |-> IF Publishable(rows[i], point)
                         THEN [rows[i] EXCEPT !.published = ReadyBlocks(rows[i])] ELSE rows[i]]

(* A live row's step: its token, and the end of a row that stops or is at its length. *)
Advanced(row, token, committed, stops) ==
  [row EXCEPT !.tokens = Append(@, token), !.committed = committed,
              !.ended = IF stops \/ Len(row.tokens) + 1 - row.input >= budget
                        THEN "finished" ELSE @]

Boundary(rows) == IF \E i \in DOMAIN rows : rows[i].ended # "no" THEN "evicting" ELSE "settled"

-----------------------------------------------------------------------------
Init ==
  /\ pc = "idle"
  /\ manager = NewManager
  /\ table = IdentityTable
  /\ seqs = <<>> /\ commit = FALSE /\ budget = 0
  /\ pending = FALSE /\ poisoned = FALSE /\ quarantined = <<>>
  /\ content = [p \in Pages |-> Blank]
  /\ inflight = {}
  /\ admitted = 0

(* beginRequest(): a founding batch takes its leases one by one, up to the first refusal. *)
Take(acc, prompt, lookup) ==
  LET lease == Acquire(acc.manager, prompt, lookup) IN
  IF acc.ok /\ lease.acquired
  THEN [ok |-> TRUE, manager |-> lease.manager,
        rows |-> Append(acc.rows, NewRow(prompt, lookup, Len(acc.rows), lease))]
  ELSE [acc EXCEPT !.ok = FALSE]

Taken(prompts, lookups) ==
  LET taken[k \in 0 .. Len(prompts)] ==
        IF k = 0 THEN [ok |-> TRUE, manager |-> manager, rows |-> <<>>]
        ELSE Take(taken[k - 1], prompts[k], lookups[k])
  IN taken[Len(prompts)]

(* A refusal gives back the leases before it, while what was evicted for them stays *)
(* evicted.                                                                         *)
Begin ==
  /\ pc = "idle" /\ ~poisoned
  /\ \E size \in 1 .. Cardinality(Slots) : \E prompts \in [1 .. size -> Prompts],
        lookups \in [1 .. size -> Lookups], generated \in Commits :
       LET taken == Taken(prompts, lookups)
       IN /\ admitted + size <= MaxAdmissions
          /\ admitted' = admitted + size
          /\ IF taken.ok
             THEN /\ pc' = "begun" /\ seqs' = taken.rows /\ commit' = generated
                  /\ manager' = taken.manager
             ELSE /\ manager' = ReleaseAll(taken.manager, PagesOf(taken.rows))
                  /\ UNCHANGED <<pc, seqs, commit>>
  /\ content' = Settled(manager', content)
  /\ UNCHANGED <<table, budget, pending, poisoned, quarantined, inflight>>

(* preparePrefill(), then the budget: the request is executing before its rows are bound. *)
PreparePrefill ==
  /\ pc = "begun"
  /\ pending' = TRUE
  /\ budget' = Clamped({row.input : row \in Range(seqs)}, MaxGenerate)
  /\ LET bound == SetRows(table, Range(seqs)) IN
     \/ /\ table' = Upload(bound)
        /\ IF budget' = 0 THEN pc' = "failed" /\ inflight' = {}
           ELSE /\ pc' = "prefilling"
                /\ inflight' = UNION {KernelPages(table', row, PrefillSpan(row)) : row \in Range(seqs)}
     \/ table' \in FailedUploads(bound) /\ pc' = "failed" /\ UNCHANGED inflight
  /\ UNCHANGED <<manager, seqs, commit, poisoned, quarantined, content, admitted>>

(* finalizePrefillPublication() for the founders, finalizeSequenceAdmission() for a joiner. *)
PrefillCompletes ==
  /\ pc \in {"prefilling", "seating"}
  /\ LET new == IF pc = "prefilling" THEN DOMAIN seqs ELSE {Len(seqs)} IN
     \E sampled \in [new -> Sampled], stops \in SUBSET new :
       LET rows == [i \in DOMAIN seqs |->
                      IF i \in new THEN Advanced(seqs[i], sampled[i], Len(seqs[i].tokens), i \in stops)
                      ELSE seqs[i]]
           ready == [i \in DOMAIN rows |-> IF i \in new THEN rows[i] ELSE [rows[i] EXCEPT !.lookup = FALSE]]
       IN /\ manager' = PublishRows(manager, ready, "prefillEnd")
          /\ seqs' = [i \in DOMAIN rows |-> IF i \in new THEN MarkPublished(rows, "prefillEnd")[i] ELSE rows[i]]
          /\ content' = Settled(manager', Written([i \in new |-> PrefillSpan(seqs[i])]))
          /\ pc' = Boundary(rows)
  /\ pending' = FALSE
  /\ inflight' = {}
  /\ UNCHANGED <<table, commit, budget, poisoned, quarantined, admitted>>

-----------------------------------------------------------------------------
(* reserveAdmission() and admitSequence(): a joiner that would not lower the batch's *)
(* budget leases pages under the first row's policy and binds its row; when the      *)
(* upload fails, the lease and the row are taken back.                               *)
Join ==
  /\ pc = "settled" /\ ~poisoned
  /\ Len(seqs) < Cardinality(Slots)
  /\ admitted < MaxAdmissions
  /\ \E prompt \in Prompts, slot \in Slots \ {row.slot : row \in Range(seqs)} :
       LET lease == Acquire(manager, prompt, seqs[1].lookup)
           row == NewRow(prompt, seqs[1].lookup, slot, lease)
           bound == SetRows(table, {row})
           Withdrawn(failed) == ClearRows(failed, {row})
       IN /\ Clamped({Len(prompt)}, budget) = budget
          /\ IF ~lease.acquired
             THEN manager' = lease.manager /\ UNCHANGED <<pc, table, seqs, poisoned>>
             ELSE \/ /\ table' = Upload(bound)
                     /\ manager' = lease.manager /\ seqs' = Append(seqs, row) /\ pc' = "seating"
                     /\ UNCHANGED poisoned
                  \/ /\ \E failed \in FailedUploads(bound) :
                          \/ table' = Upload(Withdrawn(failed)) /\ UNCHANGED poisoned
                          \/ table' \in FailedUploads(Withdrawn(failed)) /\ poisoned' = TRUE
                     /\ manager' = ReleaseLease(lease.manager, lease.pages)
                     /\ UNCHANGED <<pc, seqs>>
  /\ admitted' = admitted + 1
  /\ content' = Settled(manager', content)
  /\ UNCHANGED <<commit, budget, pending, quarantined, inflight>>

(* retractSequenceAdmission(): the runtime could not append the row of the joiner. *)
Retract ==
  /\ pc = "seating"
  /\ LET cleared == ClearRows(table, {Last(seqs)}) IN
     \/ table' = Upload(cleared) /\ UNCHANGED poisoned
     \/ table' \in FailedUploads(cleared) /\ poisoned' = TRUE
  /\ manager' = ReleaseLease(manager, Last(seqs).pages)
  /\ content' = Settled(manager', content)
  /\ seqs' = Front(seqs)
  /\ pc' = "settled"
  /\ UNCHANGED <<commit, budget, pending, quarantined, inflight, admitted>>

(* prefillSeated() when the prefill fails: the row is terminal from birth, and the same *)
(* tick compacts it away (RuntimeStepper::prefill), the device work still unsettled.    *)
SeatedPrefillFails ==
  /\ pc = "seating"
  /\ \E throws \in SeatedThrows :
       /\ pc' = IF throws THEN "failed" ELSE "compacting"
       /\ pending' = ~throws
  /\ seqs' = [seqs EXCEPT ![Len(seqs)].ended = "dropped"]
  /\ inflight' = KernelPages(table, Last(seqs), PrefillSpan(Last(seqs)))
  /\ UNCHANGED <<manager, table, commit, budget, poisoned, quarantined, content, admitted>>

-----------------------------------------------------------------------------
(* prepareDecodeStep() for one row: pages up to the position of the next write. *)
GrowRow(acc, i) ==
  LET row == acc.rows[i]
      need == PagesFor(row.committed + 1)
      lease == GrowPages(acc.manager, row.pages, need - Len(row.pages))
      refused == \/ ~acc.ok
                 \/ need > MaxPagesPerSeq
                 \/ need > Len(row.pages) /\ ~lease.acquired
  IN IF refused THEN [acc EXCEPT !.ok = FALSE]
     ELSE IF need <= Len(row.pages) THEN acc
     ELSE [acc EXCEPT !.manager = lease.manager, !.rows[i].pages = lease.pages]

Grown(rows) ==
  LET grown[k \in 0 .. Len(rows)] ==
        IF k = 0 THEN [ok |-> TRUE, manager |-> manager, rows |-> rows]
        ELSE GrowRow(grown[k - 1], k)
  IN grown[Len(rows)]

(* advance() up to the kernels: the rows cancelled since the last step, the rows' growth. *)
(* A row that was cancelled is still computed; a batch that cannot grow is given up.      *)
PrepareDecode ==
  /\ pc = "settled"
  /\ \E cancelled \in SUBSET DOMAIN seqs :
       LET rows == [i \in DOMAIN seqs |-> IF i \in cancelled THEN [seqs[i] EXCEPT !.ended = "dropped"]
                                          ELSE seqs[i]]
           grown == Grown(rows)
           bound == SetRows(table, Range(grown.rows) \ Range(rows))
       IN /\ manager' = grown.manager
          /\ seqs' = grown.rows
          /\ IF ~grown.ok
             THEN pc' = "failed" /\ UNCHANGED <<table, pending, inflight>>
             ELSE \/ /\ table' = Upload(bound)
                     /\ pc' = "decoding" /\ pending' = TRUE
                     /\ inflight' = UNION {KernelPages(table', row, DecodeSpan(row)) : row \in Range(seqs')}
                  \/ /\ table' \in FailedUploads(bound)
                     /\ pc' = "failed" /\ UNCHANGED <<pending, inflight>>
  /\ content' = Settled(manager', content)
  /\ UNCHANGED <<commit, budget, poisoned, quarantined, admitted>>

(* completeDecodeStep(): the rows that were live advance by one token; those that end by *)
(* themselves are published, those that were cancelled keep their state.                 *)
DecodeCompletes ==
  /\ pc = "decoding"
  /\ LET live == {i \in DOMAIN seqs : seqs[i].ended = "no"} IN
     \E sampled \in [live -> Sampled], stops \in SUBSET live :
       LET rows == [i \in DOMAIN seqs |->
                      IF i \in live THEN Advanced(seqs[i], sampled[i], seqs[i].committed + 1, i \in stops)
                      ELSE seqs[i]]
       IN /\ manager' = PublishRows(manager, rows, "decodeEnd")
          /\ seqs' = MarkPublished(rows, "decodeEnd")
          /\ content' = Settled(manager', Written([i \in DOMAIN seqs |-> DecodeSpan(seqs[i])]))
          /\ pc' = Boundary(rows)
  /\ pending' = FALSE
  /\ inflight' = {}
  /\ UNCHANGED <<table, commit, budget, poisoned, quarantined, admitted>>

-----------------------------------------------------------------------------
(* beginBatchCompaction() *)
BeginCompaction ==
  /\ pc = "evicting"
  /\ pending' = TRUE
  /\ pc' = "compacting"
  /\ UNCHANGED <<manager, table, seqs, commit, budget, poisoned, quarantined, content, inflight, admitted>>

(* The request and the generation's context are gone. *)
RequestEnds ==
  /\ pc' = "idle"
  /\ seqs' = <<>> /\ commit' = FALSE /\ budget' = 0 /\ pending' = FALSE

(* quarantine(): the whole request is set aside, its pages still leased. *)
Quarantine ==
  /\ quarantined' = quarantined \o PagesOf(seqs)
  /\ poisoned' = TRUE
  /\ RequestEnds
  /\ UNCHANGED <<manager, content, inflight>>

(* compactBatch(): the rows of the retired slots are cleared on the device, the stream is *)
(* drained, and only then do their leases go.                                             *)
CompactBatch ==
  /\ pc = "compacting"
  /\ LET retired == InOrder(seqs, {i \in DOMAIN seqs : seqs[i].ended # "no"})
         kept == InOrder(seqs, {i \in DOMAIN seqs : seqs[i].ended = "no"})
         cleared == ClearRows(table, Range(retired))
     IN \/ /\ table' \in FailedUploads(cleared)
           /\ pc' = "failed"
           /\ UNCHANGED <<manager, seqs, commit, budget, pending, poisoned, quarantined, content,
                          inflight>>
        \/ table' = Upload(cleared) /\ Quarantine
        \/ /\ table' = Upload(cleared)
           /\ manager' = ReleaseAll(manager, PagesOf(retired))
           /\ content' = Settled(manager', content)
           /\ seqs' = kept
           /\ pending' = FALSE
           /\ inflight' = {}
           /\ pc' = IF kept = <<>> THEN "finishing" ELSE "settled"
           /\ UNCHANGED <<commit, budget, poisoned, quarantined>>
  /\ UNCHANGED admitted

(* finish() of an empty batch: nothing is pending after the compaction that emptied it. *)
Finish ==
  /\ pc = "finishing"
  /\ RequestEnds
  /\ UNCHANGED <<manager, table, poisoned, quarantined, content, inflight, admitted>>

-----------------------------------------------------------------------------
(* Mutant: abandon() takes the device to be idle. *)
MustDrain_Never == FALSE

(* hasPendingDeviceWork(), what abandon() goes by *)
MustDrain == pending

(* ~RequestHandle() and abandon(): whatever throws, fails or stops the generation, its *)
(* leases go once the stream is drained, or are quarantined.                           *)
Abandon ==
  /\ pc \notin {"idle", "closed"}
  /\ \/ MustDrain /\ Quarantine
     \/ /\ manager' = ReleaseAll(manager, PagesOf(seqs))
        /\ content' = Settled(manager', content)
        /\ inflight' = IF MustDrain THEN {} ELSE inflight
        /\ RequestEnds
        /\ UNCHANGED <<poisoned, quarantined>>
  /\ UNCHANGED <<table, admitted>>

(* shutdown() in ~LLMRankRuntime(): what was quarantined goes once its stream is drained; *)
(* when that fails again the process is terminated with the pages held.                   *)
Shutdown ==
  /\ pc = "idle"
  /\ pc' = "closed"
  /\ \/ /\ manager' = ReleaseAll(manager, quarantined)
        /\ content' = Settled(manager', content)
        /\ quarantined' = <<>>
        /\ inflight' = {}
     \/ /\ quarantined # <<>>
        /\ UNCHANGED <<manager, content, quarantined, inflight>>
  /\ UNCHANGED <<table, seqs, commit, budget, pending, poisoned, admitted>>

Terminated == pc = "closed" /\ UNCHANGED vars

Next == \/ Begin \/ PreparePrefill \/ PrefillCompletes
        \/ Join \/ Retract \/ SeatedPrefillFails
        \/ PrepareDecode \/ DecodeCompletes
        \/ BeginCompaction \/ CompactBatch \/ Finish
        \/ Abandon \/ Shutdown \/ Terminated

Spec == Init /\ [][Next]_vars

-----------------------------------------------------------------------------
Leases == PagesOf(seqs) \o quarantined
Leased == UNION {Range(Leases[i]) : i \in DOMAIN Leases}

TypeOK ==
  /\ pc \in {"idle", "begun", "prefilling", "settled", "seating", "decoding", "evicting",
             "compacting", "finishing", "failed", "closed"}
  /\ \A s \in Slots : /\ Range(table.host[s]) \cup Range(table.device[s]) \subseteq Pages
                      /\ Len(table.host[s]) <= MaxPagesPerSeq
  /\ \A row \in Range(seqs) : /\ row.slot \in Slots
                              /\ row.committed <= Len(row.tokens)
                              /\ Len(row.pages) <= MaxPagesPerSeq
  /\ inflight \subseteq Pages /\ poisoned \in BOOLEAN /\ pending \in BOOLEAN

(* No page is lost or owned twice, through reuse, growth, eviction, compaction,         *)
(* retraction, abandonment and quarantine: the counts are the leases and the records    *)
(* there are, the free ring is exactly what nobody counts, each once, and the index is  *)
(* one block for each cached page (ResourcePools, CacheRequestLease).                   *)
PagesAreCounted ==
  /\ \A p \in Pages :
       /\ manager.active[p] = Cardinality({i \in DOMAIN Leases : p \in Range(Leases[i])})
       /\ manager.cached[p] = Cardinality({r \in Range(manager.records) : p \in Range(r.pages)})
  /\ Range(manager.free) = {p \in Pages : manager.active[p] = 0 /\ manager.cached[p] = 0}
  /\ Len(manager.free) = Cardinality(Range(manager.free))
  /\ Range(manager.index) = {p \in Pages : manager.cached[p] > 0}
  /\ Cardinality(DOMAIN manager.index) = Cardinality(Range(manager.index))

(* "An abnormal exit drains the bound stream before releasing active page references"   *)
(* (contextCacheCoordinator.h): no kernel writes a page its lease has given back.       *)
ReleasedPagesAreQuiet == inflight \subseteq Leased

(* The pages are counted, and what a kernel may still write is leased (abandon). *)
PagesAreConserved == PagesAreCounted /\ ReleasedPagesAreQuiet

(* What the device computes with is right: an indexed page holds the KV of its block, a *)
(* sequence's committed positions hold its own and leave it a token to compute, the     *)
(* kernels that run go through rows that are the leases, and what they write is shared  *)
(* with nobody (reuse plans and their rewind, publication at committed boundaries,      *)
(* canonical pages, uploads before each step).                                          *)
CacheIsTruthful ==
  /\ \A block \in DOMAIN manager.index : \A o \in 1 .. PageSize :
       content[manager.index[block]][o] = SubSeq(block, 1, Len(block) - PageSize + o)
  /\ \A row \in Range(seqs) : row.committed < Len(row.tokens)
  /\ \A row \in Range(seqs) : \A n \in 1 .. row.committed :
       content[row.pages[PageIndex(n)]][OffsetOf(n)] = SubSeq(row.tokens, 1, n)
  /\ pc \in {"prefilling", "seating", "decoding"} =>
       \A row \in Range(seqs) : table.device[row.slot] = row.pages
  /\ \A p \in inflight : manager.active[p] = 1 /\ manager.cached[p] = 0

PagesHeld ==
  Cardinality({held \in (DOMAIN seqs) \X (1 .. MaxPagesPerSeq) : held[2] <= Len(seqs[held[1]].pages)})

(* The pool never refuses what the engine's limits allow, however its pages are shared  *)
(* by records: every resident can grow to its longest and every free slot be taken, by  *)
(* a plan with or without reuse; the cold retry is never needed (evictable pages of     *)
(* EvictionPlanner, the pool's minimum size).                                           *)
ResidentsFit ==
  quarantined = <<>> =>
    /\ Feasible(manager, Cardinality(Slots) * MaxPagesPerSeq - PagesHeld)
    /\ Len(seqs) < Cardinality(Slots) => \A prompt \in Prompts :
         AcquirePlan(manager, prompt, ReusableBlocks(manager, prompt)).acquired
=============================================================================
