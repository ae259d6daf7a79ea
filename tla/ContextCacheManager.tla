------------------------- MODULE ContextCacheManager -------------------------
(***************************************************************************)
(* cpp/runtime/state/contextCache/contextCacheManager.cpp with the pools,  *)
(* index, records, reuse plan and eviction planner beside it, for the      *)
(* vanilla mode: one pool of base KV pages.  The manager is a value m; an  *)
(* operation is an operator that gives the next one.                       *)
(*                                                                         *)
(* Tokens are real: the hash of a block chains over all tokens up to its   *)
(* end, and stands here for that prefix (no collisions).                   *)
(***************************************************************************)
EXTENDS Integers, Sequences, SequencesExt, FiniteSets, FiniteSetsExt, Functions

CONSTANTS Pages,       \* page ids, 0 .. numPages - 1
          PageSize,    \* kTOKENS_PER_PAGE
          MaxRecords   \* ContextCacheConfig::maxRecords

ASSUME PagesAssumption == IsFiniteSet(Pages) /\ Pages \subseteq Nat
ASSUME PageSizeAssumption == PageSize \in Nat \ {0}
ASSUME MaxRecordsAssumption == MaxRecords \in Nat

(* pageCountForStateLength() *)
PagesFor(length) == (length + PageSize - 1) \div PageSize

(* hashRequestFullBlocks(): the identity of block i of a token sequence. *)
Block(tokens, i) == SubSeq(tokens, 1, i * PageSize)

Ascending(numbers) ==
  CHOOSE order \in [1 .. Cardinality(numbers) -> numbers] :
    \A i, j \in 1 .. Cardinality(numbers) : i < j => order[i] < order[j]

(* The items at some positions, in their order. *)
InOrder(items, positions) ==
  [i \in 1 .. Cardinality(positions) |-> items[Ascending(positions)[i]]]

(* free: the ring of free pages, oldest first; active, cached: reference counts;  *)
(* index: from a block to the page that holds its KV; records: from the least to  *)
(* the most recently used, each a published block and the path of pages up to it. *)
NewManager ==
  [free |-> Ascending(Pages), active |-> [p \in Pages |-> 0],
   cached |-> [p \in Pages |-> 0], index |-> <<>>, records |-> <<>>]

-----------------------------------------------------------------------------
(* Resource pools.  A lease, like a path, has each of its pages once.      *)

AllocateInto(m, count) ==
  LET taken == Range(SubSeq(m.free, 1, count)) IN
  [m EXCEPT !.free = SubSeq(@, count + 1, Len(@)),
            !.active = [p \in Pages |-> IF p \in taken THEN 1 ELSE @[p]],
            !.cached = [p \in Pages |-> IF p \in taken THEN 0 ELSE @[p]]]

AddRefs(count, pages) == [p \in Pages |-> IF p \in Range(pages) THEN count[p] + 1 ELSE count[p]]
DropRefs(count, pages) == [p \in Pages |-> IF p \in Range(pages) THEN count[p] - 1 ELSE count[p]]

ReleaseIfUnused(m, pages) ==
  [m EXCEPT !.free = @ \o InOrder(pages, {i \in DOMAIN pages : /\ m.active[pages[i]] = 0
                                                               /\ m.cached[pages[i]] = 0
                                                               /\ pages[i] \notin Range(m.free)})]

ReleaseLease(m, pages) == ReleaseIfUnused([m EXCEPT !.active = DropRefs(@, pages)], pages)

-----------------------------------------------------------------------------
(* Eviction.                                                               *)

EraseFromIndex(index, pages) == Restrict(index, {block \in DOMAIN index : index[block] \notin pages})

(* evictRecord() of the least recently used one *)
EvictOldest(m) ==
  LET path == Head(m.records).pages
      cached == DropRefs(m.cached, path)
  IN ReleaseIfUnused([m EXCEPT !.records = Tail(@), !.cached = cached,
                               !.index = EraseFromIndex(@, {p \in Range(path) : cached[p] = 0})],
                     path)

EvictFirst(m, victims) ==
  LET evicted[k \in 0 .. victims] == IF k = 0 THEN m ELSE EvictOldest(evicted[k - 1])
  IN evicted[victims]

Oldest(m, k) == Range(SubSeq(m.records, 1, k))

(* Mutant: a page is freed by the one record that holds it, never by several. *)
Reclaimed_SingleRecord(m, k) ==
  {p \in Pages : /\ m.active[p] = 0
                 /\ m.cached[p] = 1
                 /\ m.cached[p] = Cardinality({r \in Oldest(m, k) : p \in Range(r.pages)})}

(* The pages that come free when the first k records go. *)
Reclaimed(m, k) ==
  {p \in Pages : /\ m.active[p] = 0
                 /\ m.cached[p] > 0
                 /\ m.cached[p] = Cardinality({r \in Oldest(m, k) : p \in Range(r.pages)})}

Satisfies(m, k, demand) == Len(m.free) + Cardinality(Reclaimed(m, k)) >= demand

Feasible(m, demand) == \E k \in 0 .. Len(m.records) : Satisfies(m, k, demand)

(* EvictionPlanner::plan() and applyEviction(): the fewest records, least recently used first. *)
Evict(m, demand) ==
  EvictFirst(m, Min({k \in 0 .. Len(m.records) : Satisfies(m, k, demand)}))

-----------------------------------------------------------------------------
(* Leases.                                                                 *)

Refused(m) == [acquired |-> FALSE, manager |-> m, pages |-> <<>>, reuse |-> 0]

(* growPages(): demand more pages for a lease that holds these. *)
GrowPages(m, pages, demand) ==
  IF ~Feasible(m, demand) THEN Refused(m)
  ELSE LET room == Evict(m, demand) IN
       [acquired |-> TRUE, manager |-> AllocateInto(room, demand),
        pages |-> pages \o SubSeq(room.free, 1, demand), reuse |-> Len(pages)]

(* The blocks found in a row; a match of the whole input gives its last page back, *)
(* since somebody has to compute the first logits.                                 *)
Matched(m, tokens) ==
  Max({n \in 0 .. Len(tokens) \div PageSize :
         \A i \in 1 .. n : Block(tokens, i) \in DOMAIN m.index})

ReusableBlocks(m, tokens) ==
  LET matched == Matched(m, tokens) IN
  IF matched > 0 /\ matched * PageSize = Len(tokens) THEN matched - 1 ELSE matched

(* acquire() of a plan that reuses so many blocks, its demand raised by             *)
(* requireKvPageCoverage() to the input and one token.  The reused pages are pinned *)
(* first, so that making room cannot free them; a refusal unpins them again.        *)
AcquirePlan(m, tokens, blocks) ==
  LET bound == [i \in 1 .. blocks |-> m.index[Block(tokens, i)]]
      lease == GrowPages([m EXCEPT !.active = AddRefs(@, bound)], bound,
                         PagesFor(Len(tokens) + 1) - blocks)
  IN IF lease.acquired THEN lease ELSE Refused(m)

(* acquireSequence(): a plan that cannot be met is tried once more without reuse. *)
Acquire(m, tokens, lookup) ==
  LET planned == AcquirePlan(m, tokens, IF lookup THEN ReusableBlocks(m, tokens) ELSE 0) IN
  IF planned.acquired THEN planned ELSE AcquirePlan(m, tokens, 0)

-----------------------------------------------------------------------------
(* Publication.                                                            *)

Touch(m, i) == [m EXCEPT !.records = Append(RemoveAt(@, i), @[i])]

(* prepareBaseProjection(): the page of an indexed block is canonical, the rest of the *)
(* path is the producer's own.                                                         *)
CanonicalPath(m, tokens, pages, blocks) ==
  [i \in 1 .. blocks |-> IF Block(tokens, i) \in DOMAIN m.index
                         THEN m.index[Block(tokens, i)] ELSE pages[i]]

(* The mappings that the index lacks are inserted. *)
Mapped(index, tokens, pages, blocks) ==
  [b \in DOMAIN index \cup {Block(tokens, i) : i \in 1 .. blocks} |->
     IF b \in DOMAIN index THEN index[b]
     ELSE pages[CHOOSE i \in 1 .. blocks : Block(tokens, i) = b]]

(* commitPreparedPublication(): references, mappings, the record. *)
AddRecord(m, tokens, pages, blocks) ==
  LET path == CanonicalPath(m, tokens, pages, blocks) IN
  [m EXCEPT !.cached = AddRefs(@, path), !.index = Mapped(@, tokens, pages, blocks),
            !.records = Append(@, [block |-> Block(tokens, blocks), pages |-> path])]

(* publish(): a record of the first blocks of a lease.  At the limit the oldest record goes *)
(* once the new one is there, which is the oldest itself where no record may be kept.       *)
Publish(m, tokens, pages, blocks) ==
  LET added == AddRecord(m, tokens, pages, blocks)
      existing == {i \in DOMAIN m.records : m.records[i].block = Block(tokens, blocks)}
  IN CASE existing # {} -> Touch(m, CHOOSE i \in existing : TRUE)
       [] existing = {} /\ Len(m.records) = MaxRecords -> EvictOldest(added)
       [] existing = {} /\ Len(m.records) # MaxRecords -> added
=============================================================================
