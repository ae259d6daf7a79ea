------------------------- MODULE ContextCacheProofs -------------------------
(***************************************************************************)
(* Proofs about modules ContextCacheManager and ContextCache.  First the   *)
(* manager as a value: what each of its operations leaves, for any leases  *)
(* and records.  Then three invariants, each resting on the one before,    *)
(* with one lemma per action: Core, of the manager and the rows that hold  *)
(* its leases; Device, of the page table and the pages that kernels may    *)
(* write; and Truth, of what the pages hold.  The types come last.         *)
(***************************************************************************)
EXTENDS ContextCache, FiniteSetTheorems, SequenceTheorems, WellFoundedInduction, TLAPS

-----------------------------------------------------------------------------
(* What the invariants are made of.                                          *)

(* The tokens there can be. *)
Tokens == Sampled \cup UNION {Range(prompt) : prompt \in Prompts}

(* What rows, records, an index and a manager are made of. *)
Rows == [slot : Slots, pages : Seq(Pages), tokens : Seq(Tokens), input : Nat, lookup : BOOLEAN,
         committed : Nat, published : Nat, ended : {"no", "finished", "dropped"}]
Records == [block : Seq(Tokens), pages : Seq(Pages)]
Indexes == UNION {[blocks -> Pages] : blocks \in SUBSET Seq(Tokens)}
Managers == [free : Seq(Pages), active : [Pages -> Nat], cached : [Pages -> Nat],
             index : Indexes, records : Seq(Records)]

(* A count of the lists that have a page: of leases, or of the paths of records. *)
Holders(lists, p) == {i \in DOMAIN lists : p \in Range(lists[i])}

(* A count is, for every page, of how many of these lists have it; no list has a page *)
(* twice.                                                                             *)
Counts(count, lists) ==
  /\ IsFiniteSet(DOMAIN lists)
  /\ \A i \in DOMAIN lists : lists[i] \in Seq(Pages) /\ IsInjective(lists[i])
  /\ \A p \in Pages : count[p] = Cardinality(Holders(lists, p))

(* The paths of some records. *)
PathsOf(records) == [r \in Range(records) |-> r.pages]

(* The ring has, once each, the pages that nobody leases and no record has. *)
FreeAreUnused(m) ==
  /\ IsInjective(m.free)
  /\ Range(m.free) = {p \in Pages : m.active[p] = 0 /\ m.cached[p] = 0}

(* The index is one block for every page that a record has. *)
IndexIsOfCached(m) ==
  /\ IsInjective(m.index)
  /\ Range(m.index) = {p \in Pages : m.cached[p] > 0}

(* A record's path is the pages of the blocks of its own block, and no two are of one *)
(* block.                                                                             *)
RecordsIndexed(m) ==
  /\ \A r \in Range(m.records) :
       /\ Len(r.block) = Len(r.pages) * PageSize
       /\ \A i \in DOMAIN r.pages :
            Block(r.block, i) \in DOMAIN m.index /\ m.index[Block(r.block, i)] = r.pages[i]
  /\ \A i, j \in DOMAIN m.records : m.records[i].block = m.records[j].block => i = j

(* What every operation of the manager keeps. *)
ManagerOK(m) ==
  /\ FreeAreUnused(m) /\ Counts(m.cached, PathsOf(m.records))
  /\ IndexIsOfCached(m) /\ RecordsIndexed(m)

(* A row has a token whose KV is not there yet, its committed positions are in its *)
(* pages, and these are at most the table's width and all different.               *)
RowOK(row) ==
  /\ row.committed < Len(row.tokens)
  /\ row.committed <= Len(row.pages) * PageSize
  /\ Len(row.pages) <= MaxPagesPerSeq
  /\ IsInjective(row.pages)

(* A page of a row that a record has too is indexed by the row's own block, all of it *)
(* committed.                                                                         *)
RowIndexed(m, row) ==
  \A i \in DOMAIN row.pages :
    m.cached[row.pages[i]] > 0 =>
      /\ i * PageSize <= row.committed
      /\ Block(row.tokens, i) \in DOMAIN m.index /\ m.index[Block(row.tokens, i)] = row.pages[i]

(* Rows share a page only for a block they have in common, committed in both. *)
RowsAgree(rows) ==
  \A k, l \in DOMAIN rows : k # l =>
    \A i \in DOMAIN rows[k].pages, j \in DOMAIN rows[l].pages :
      rows[k].pages[i] = rows[l].pages[j] =>
        /\ i = j
        /\ i * PageSize <= rows[k].committed /\ i * PageSize <= rows[l].committed
        /\ Block(rows[k].tokens, i) = Block(rows[l].tokens, i)

(* A manager and the rows that hold its leases. *)
Sound(m, rows) ==
  /\ ManagerOK(m)
  /\ Counts(m.active, PagesOf(rows))
  /\ \A k \in DOMAIN rows : RowOK(rows[k]) /\ RowIndexed(m, rows[k])
  /\ RowsAgree(rows)

(* A row's pages hold all its tokens, or its next write. *)
Filled(row) == Len(row.tokens) <= Len(row.pages) * PageSize
Grows(row) == row.committed + 1 <= Len(row.pages) * PageSize

-----------------------------------------------------------------------------
(* Induction, and the arithmetic of pages.                                   *)

(* A nonempty set of naturals has a least element. *)
LEMMA LeastNat ==
  ASSUME NEW T, T \subseteq Nat, T # {}
  PROVE  \E m \in T : \A k \in T : m <= k
<1> DEFINE R == OpToRel(<, Nat)
<1>1. IsWellFoundedOn(R, Nat)
  BY NatLessThanWellFounded
<1>2. \A x, y \in Nat : x < y => <<x, y>> \in R
  BY DEF OpToRel
<1> HIDE DEF R
<1>3. PICK m \in T : \A k \in T : ~(<<k, m>> \in R)
  BY <1>1, WFMin
<1>4. ASSUME NEW k \in T PROVE m <= k
  <2>1. m \in Nat /\ k \in Nat
    OBVIOUS
  <2>2. ~(k < m)
    BY <1>2, <1>3, <2>1
  <2> QED
    BY <2>1, <2>2
<1> QED
  BY <1>4

(* Induction, for the predicate that a set stands for. *)
LEMMA SetInduction ==
  ASSUME NEW T, 0 \in T, \A n \in Nat : n \in T => n + 1 \in T
  PROVE  \A n \in Nat : n \in T
<1> SUFFICES ASSUME NEW n \in Nat, n \notin T PROVE FALSE
  OBVIOUS
<1>1. Nat \ T # {} /\ Nat \ T \subseteq Nat
  OBVIOUS
<1>2. PICK m \in Nat \ T : \A k \in Nat \ T : m <= k
  BY <1>1, LeastNat
<1>3. m # 0 /\ m - 1 \in Nat /\ ~(m <= m - 1)
  BY <1>2
<1>4. m - 1 \in T
  BY <1>2, <1>3
<1>5. (m - 1) + 1 = m
  BY <1>2
<1> QED
  BY <1>2, <1>3, <1>4, <1>5

(* The same up to a bound. *)
LEMMA BoundedInduction ==
  ASSUME NEW n \in Nat, NEW T, 0 \in T, \A k \in 0..(n - 1) : k \in T => k + 1 \in T
  PROVE  \A k \in 0..n : k \in T
<1> DEFINE U == {k \in Nat : k <= n => k \in T}
<1>1. 0 \in U
  OBVIOUS
<1>2. ASSUME NEW k \in Nat, k \in U PROVE k + 1 \in U
  <2>1. CASE k + 1 <= n
    <3>1. k \in 0..(n - 1) /\ k \in T
      BY <1>2, <2>1
    <3> QED
      BY <3>1
  <2>2. CASE ~(k + 1 <= n)
    BY <2>2
  <2> QED
    BY <2>1, <2>2
<1> HIDE DEF U
<1>3. \A k \in Nat : k \in U
  BY <1>1, <1>2, SetInduction
<1> QED
  BY <1>3 DEF U

(* The positions of a block end before those of the next. *)
LEMMA BlocksApart ==
  \A i, j \in Nat : i < j => i * PageSize + PageSize <= j * PageSize
<1> SUFFICES ASSUME NEW i \in Nat, NEW j \in Nat, i < j
             PROVE  i * PageSize + PageSize <= j * PageSize
  OBVIOUS
<1>1. PICK d \in Nat : j = i + 1 + d
  <2>1. j - i - 1 \in Nat /\ j = i + 1 + (j - i - 1)
    OBVIOUS
  <2> QED
    BY <2>1
<1>2. j * PageSize = i * PageSize + PageSize + d * PageSize
  BY <1>1, PageSizeAssumption
<1>3. d * PageSize >= 0
  BY PageSizeAssumption
<1> QED
  BY <1>2, <1>3, PageSizeAssumption

(* Whole pages keep the order of numbers. *)
LEMMA TimesPageSize ==
  \A i, j \in Nat : /\ i * PageSize \in Nat
                    /\ i <= j <=> i * PageSize <= j * PageSize
                    /\ i * PageSize = j * PageSize => i = j
<1> SUFFICES ASSUME NEW i \in Nat, NEW j \in Nat
             PROVE  /\ i * PageSize \in Nat
                    /\ i <= j <=> i * PageSize <= j * PageSize
                    /\ i * PageSize = j * PageSize => i = j
  OBVIOUS
<1>1. i * PageSize \in Nat /\ j * PageSize \in Nat
  BY PageSizeAssumption
<1>2. CASE i < j
  BY <1>1, <1>2, BlocksApart, PageSizeAssumption
<1>3. CASE j < i
  BY <1>1, <1>3, BlocksApart, PageSizeAssumption
<1>4. CASE i = j
  BY <1>1, <1>4
<1> QED
  BY <1>2, <1>3, <1>4

(* Division by the page size leaves less than a page. *)
LEMMA WholePages ==
  \A n \in Nat : /\ n \div PageSize \in Nat
                 /\ (n \div PageSize) * PageSize <= n
                 /\ n < (n \div PageSize) * PageSize + PageSize
  BY PageSizeAssumption

(* The pages for a length hold it, and no page less does. *)
LEMMA PagesForLength ==
  ASSUME NEW n \in Nat, NEW k \in Nat
  PROVE  /\ PagesFor(n) \in Nat
         /\ n <= PagesFor(n) * PageSize
         /\ n <= k * PageSize => PagesFor(n) <= k
         /\ PagesFor(n) <= k => n <= k * PageSize
<1> DEFINE q == PagesFor(n)
<1>1. /\ q \in Nat /\ q * PageSize <= n + PageSize - 1
      /\ n + PageSize - 1 < q * PageSize + PageSize
  <2>1. n + PageSize - 1 \in Nat
    BY PageSizeAssumption
  <2> QED
    BY <2>1, WholePages DEF PagesFor
<1> HIDE DEF q
<1>2. q * PageSize \in Nat /\ k * PageSize \in Nat
  BY <1>1, TimesPageSize
<1>3. n <= q * PageSize
  BY <1>1, <1>2, PageSizeAssumption
<1>4. ASSUME n <= k * PageSize PROVE q <= k
  <2>1. SUFFICES ASSUME k < q PROVE FALSE
    BY <1>1
  <2>2. k * PageSize + PageSize <= q * PageSize
    BY <1>1, <2>1, BlocksApart
  <2> QED
    BY <1>1, <1>2, <1>4, <2>2, PageSizeAssumption
<1>5. ASSUME q <= k PROVE n <= k * PageSize
  <2>1. q * PageSize <= k * PageSize
    BY <1>1, <1>5, TimesPageSize
  <2> QED
    BY <1>2, <1>3, <2>1
<1> QED
  BY <1>1, <1>3, <1>4, <1>5 DEF q

(* A block within the tokens. *)
LEMMA BlockOfTokens ==
  ASSUME NEW T, NEW tokens \in Seq(T), NEW i \in Nat, i * PageSize <= Len(tokens)
  PROVE  /\ Block(tokens, i) \in Seq(T)
         /\ Len(Block(tokens, i)) = i * PageSize
         /\ \A o \in 1..(i * PageSize) : Block(tokens, i)[o] = tokens[o]
<1>1. i * PageSize \in Nat
  BY TimesPageSize
<1> QED
  BY <1>1 DEF Block

(* Blocks of the same length of sequences that agree so far are the same. *)
LEMMA BlockOfPrefix ==
  ASSUME NEW T, NEW tokens \in Seq(T), NEW more \in Seq(T), NEW i \in Nat,
         i * PageSize <= Len(tokens), Len(tokens) <= Len(more),
         \A o \in 1..Len(tokens) : more[o] = tokens[o]
  PROVE  Block(more, i) = Block(tokens, i)
<1>1. i * PageSize \in Nat
  BY TimesPageSize
<1>2. /\ Block(tokens, i) \in Seq(T) /\ Len(Block(tokens, i)) = i * PageSize
      /\ \A o \in 1..(i * PageSize) : Block(tokens, i)[o] = tokens[o]
  BY BlockOfTokens
<1>3. /\ Block(more, i) \in Seq(T) /\ Len(Block(more, i)) = i * PageSize
      /\ \A o \in 1..(i * PageSize) : Block(more, i)[o] = more[o]
  BY <1>1, BlockOfTokens
<1>4. \A o \in 1..(i * PageSize) : Block(more, i)[o] = Block(tokens, i)[o]
  BY <1>1, <1>2, <1>3
<1> QED
  BY <1>1, <1>2, <1>3, <1>4

-----------------------------------------------------------------------------
(* Sequences whose items differ, and their parts.                            *)

(* A finite set of numbers has a greatest one. *)
LEMMA GreatestNumber ==
  ASSUME NEW n \in Nat, NEW S, S \subseteq 0..n, S # {}
  PROVE  \E m \in S : \A k \in S : k <= m
<1> DEFINE T == {m \in Nat : \A k \in S : k <= m}
<1>1. n \in T
  OBVIOUS
<1>2. T \subseteq Nat /\ T # {}
  BY <1>1
<1>3. PICK m \in T : \A k \in T : m <= k
  <2> HIDE DEF T
  <2> QED
    BY <1>2, LeastNat
<1>4. m \in Nat /\ \A k \in S : k <= m
  OBVIOUS
<1>5. m \in S
  <2>1. SUFFICES ASSUME m \notin S PROVE FALSE
    OBVIOUS
  <2>2. \A k \in S : k \in Nat /\ k <= m /\ k # m
    BY <1>4, <2>1
  <2>3. m - 1 \in T
    <3>1. PICK k \in S : TRUE
      OBVIOUS
    <3>2. m - 1 \in Nat
      BY <1>4, <2>2, <3>1
    <3>3. \A j \in S : j <= m - 1
      BY <1>4, <2>2
    <3> QED
      BY <3>2, <3>3
  <2> QED
    BY <1>3, <1>4, <2>3
<1> QED
  BY <1>4, <1>5

(* An order of numbers, from the least. *)
IsAscending(order, S) ==
  /\ order \in [1..Cardinality(S) -> S]
  /\ \A i, j \in 1..Cardinality(S) : i < j => order[i] < order[j]

(* Numbers from 1 to n are finitely many, and at most n. *)
LEMMA NumbersAreFinite ==
  ASSUME NEW n \in Nat, NEW S, S \subseteq 1..n
  PROVE  IsFiniteSet(S) /\ Cardinality(S) \in Nat /\ Cardinality(S) <= n
<1>1. 1 \in Int /\ n \in Int
  OBVIOUS
<1>2. IsFiniteSet(1..n) /\ Cardinality(1..n) = IF 1 > n THEN 0 ELSE n - 1 + 1
  BY <1>1, FS_Interval
<1>3. Cardinality(1..n) = n
  BY <1>2
<1> QED
  BY <1>2, <1>3, FS_Subset, FS_CardinalityType

(* There are n numbers from 1 to n. *)
LEMMA UpTo ==
  ASSUME NEW n \in Nat
  PROVE  IsFiniteSet(1..n) /\ Cardinality(1..n) = n
<1>1. 1 \in Int /\ n \in Int
  OBVIOUS
<1>2. IsFiniteSet(1..n) /\ Cardinality(1..n) = IF 1 > n THEN 0 ELSE n - 1 + 1
  BY <1>1, FS_Interval
<1> QED
  BY <1>2

(* Any numbers up to n have an ascending order. *)
LEMMA NumbersToAreFinite ==
  ASSUME NEW n \in Nat, NEW S, S \subseteq 0..n
  PROVE  IsFiniteSet(S) /\ Cardinality(S) \in Nat
<1>1. IsFiniteSet(0..n)
  BY FS_Interval
<1>2. IsFiniteSet(S)
  BY <1>1, FS_Subset
<1> QED
  BY <1>2, FS_CardinalityType

(* Finitely many numbers can be put in ascending order. *)
LEMMA AscendingExists ==
  ASSUME NEW n \in Nat, NEW S, S \subseteq 0..n
  PROVE  \E order : IsAscending(order, S)
<1> DEFINE T == {c \in Nat : \A R \in SUBSET (0..n) :
                               Cardinality(R) = c => \E order : IsAscending(order, R)}
<1>1. 0 \in T
  <2>1. ASSUME NEW R \in SUBSET (0..n), Cardinality(R) = 0 PROVE \E order : IsAscending(order, R)
    <3> DEFINE none == [i \in 1..0 |-> i]
    <3>1. IsAscending(none, R)
      BY <2>1 DEF IsAscending
    <3> QED
      BY <3>1
  <2> QED
    BY <2>1
<1>2. ASSUME NEW c \in Nat, c \in T PROVE c + 1 \in T
  <2>1. ASSUME NEW R \in SUBSET (0..n), Cardinality(R) = c + 1
        PROVE  \E order : IsAscending(order, R)
    <3>0. \A k \in R : k \in Nat
      OBVIOUS
    <3>1. IsFiniteSet(R)
      BY NumbersToAreFinite
    <3>2. R # {}
      BY <2>1, <3>1, FS_EmptySet
    <3>3. PICK last \in R : \A k \in R : k <= last
      BY <3>2, GreatestNumber
    <3> DEFINE rest == R \ {last}
    <3>4. /\ rest \in SUBSET (0..n) /\ Cardinality(rest) = c
      BY <2>1, <3>1, FS_RemoveElement
    <3>5. PICK order : IsAscending(order, rest)
      BY <1>2, <3>4
    <3>6. /\ order \in [1..c -> rest]
          /\ \A i, j \in 1..c : i < j => order[i] < order[j]
      BY <3>4, <3>5 DEF IsAscending
    <3> DEFINE longer == [i \in 1..(c + 1) |-> IF i <= c THEN order[i] ELSE last]
    <3>7. \A i \in 1..c : order[i] \in rest
      BY <3>6
    <3>8. longer \in [1..(c + 1) -> R]
      BY <3>7
    <3>9. ASSUME NEW i \in 1..(c + 1), NEW j \in 1..(c + 1), i < j
          PROVE  longer[i] < longer[j]
      <4>0. i \in 1..c /\ longer[i] = order[i]
        BY <3>9
      <4>1. CASE j <= c
        <5>1. j \in 1..c /\ longer[j] = order[j]
          BY <4>1
        <5> HIDE DEF longer
        <5> QED
          BY <3>6, <3>9, <4>0, <5>1
      <4>2. CASE ~(j <= c)
        <5>1. longer[j] = last
          BY <4>2
        <5>2. order[i] \in R /\ order[i] # last /\ order[i] <= last
          BY <3>3, <3>7, <4>0
        <5>3. order[i] \in Nat /\ last \in Nat
          BY <3>0, <5>2
        <5> HIDE DEF longer
        <5> QED
          BY <4>0, <5>1, <5>2, <5>3
      <4> QED
        BY <4>1, <4>2
    <3> HIDE DEF longer
    <3>10. IsAscending(longer, R)
      BY <2>1, <3>8, <3>9 DEF IsAscending
    <3> QED
      BY <3>10
  <2> QED
    BY <2>1
<1> HIDE DEF T
<1>3. \A c \in Nat : c \in T
  BY <1>1, <1>2, SetInduction
<1>4. Cardinality(S) \in T
  BY <1>3, NumbersToAreFinite
<1> QED
  BY <1>4 DEF T

(* The order has every number once. *)
LEMMA AscendingNumbers ==
  ASSUME NEW n \in Nat, NEW S, S \subseteq 0..n
  PROVE  /\ Ascending(S) \in [1..Cardinality(S) -> S]
         /\ \A i, j \in 1..Cardinality(S) : i < j => Ascending(S)[i] < Ascending(S)[j]
         /\ \A i, j \in 1..Cardinality(S) : Ascending(S)[i] = Ascending(S)[j] => i = j
         /\ \A k \in S : \E i \in 1..Cardinality(S) : Ascending(S)[i] = k
<1> DEFINE order == Ascending(S)
           m == Cardinality(S)
<1>1. IsAscending(order, S)
  <2>1. PICK some : IsAscending(some, S)
    BY AscendingExists
  <2> QED
    BY <2>1 DEF Ascending, IsAscending
<1> HIDE DEF order
<1>2. /\ order \in [1..m -> S]
      /\ \A i, j \in 1..m : i < j => order[i] < order[j]
  BY <1>1 DEF IsAscending
<1>3. IsFiniteSet(S) /\ m \in Nat
  BY NumbersToAreFinite
<1> HIDE DEF m
<1>4. ASSUME NEW i \in 1..m, NEW j \in 1..m, order[i] = order[j] PROVE i = j
  <2>0. \A k \in S : k \in Nat
    OBVIOUS
  <2>1. order[i] \in Nat /\ order[j] \in Nat
    BY <1>2, <2>0
  <2>2. ~(i < j) /\ ~(j < i)
    BY <1>2, <1>4, <2>1
  <2> QED
    BY <1>3, <2>2
<1>5. order \in Injection(1..m, S)
  BY <1>2, <1>4 DEF Injection, IsInjective
<1>6. IsFiniteSet(1..m) /\ Cardinality(1..m) = m
  BY <1>3, UpTo
<1>7. order \in Surjection(1..m, S)
  BY <1>3, <1>5, <1>6, FS_Injection DEF m
<1>8. \A k \in S : \E i \in 1..m : order[i] = k
  BY <1>7 DEF Surjection
<1> QED
  BY <1>2, <1>4, <1>8 DEF order, m

(* So they can where there is no 0. *)
LEMMA AscendingOrder ==
  ASSUME NEW n \in Nat, NEW S, S \subseteq 1..n
  PROVE  /\ Ascending(S) \in [1..Cardinality(S) -> S]
         /\ \A i, j \in 1..Cardinality(S) : i < j => Ascending(S)[i] < Ascending(S)[j]
         /\ \A i, j \in 1..Cardinality(S) : Ascending(S)[i] = Ascending(S)[j] => i = j
         /\ \A k \in S : \E i \in 1..Cardinality(S) : Ascending(S)[i] = k
<1>1. S \subseteq 0..n
  OBVIOUS
<1> QED
  BY <1>1, AscendingNumbers

(* Items at some positions. *)
LEMMA InOrderItems ==
  ASSUME NEW T, NEW items \in Seq(T), NEW S, S \subseteq DOMAIN items
  PROVE  /\ InOrder(items, S) \in Seq(T)
         /\ Len(InOrder(items, S)) = Cardinality(S)
         /\ DOMAIN InOrder(items, S) = 1..Cardinality(S)
         /\ Cardinality(S) \in Nat
         /\ Range(InOrder(items, S)) = {items[i] : i \in S}
         /\ \A k \in 1..Cardinality(S) : /\ Ascending(S)[k] \in S
                                         /\ InOrder(items, S)[k] = items[Ascending(S)[k]]
         /\ IsInjective(items) => IsInjective(InOrder(items, S))
<1> DEFINE order == Ascending(S)
           m == Cardinality(S)
           part == InOrder(items, S)
<1>1. S \subseteq 1..Len(items) /\ Len(items) \in Nat /\ DOMAIN items = 1..Len(items)
  OBVIOUS
<1>2. /\ order \in [1..m -> S]
      /\ \A i, j \in 1..m : order[i] = order[j] => i = j
      /\ \A k \in S : \E i \in 1..m : order[i] = k
  BY <1>1, AscendingOrder
<1>3. m \in Nat
  BY <1>1, NumbersAreFinite
<1>4. part = [i \in 1..m |-> items[order[i]]]
  BY DEF InOrder
<1> HIDE DEF order, m, part
<1>5. \A i \in 1..m : order[i] \in S /\ order[i] \in DOMAIN items /\ items[order[i]] \in T
  BY <1>1, <1>2
<1>6. part \in Seq(T) /\ Len(part) = m /\ DOMAIN part = 1..m
  BY <1>3, <1>4, <1>5
<1>7. \A i \in 1..m : part[i] = items[order[i]]
  BY <1>4
<1>8. Range(part) = {items[i] : i \in S}
  <2>1. ASSUME NEW x \in Range(part) PROVE x \in {items[i] : i \in S}
    BY <1>5, <1>6, <1>7 DEF Range
  <2>2. ASSUME NEW i \in S PROVE items[i] \in Range(part)
    <3>1. PICK k \in 1..m : order[k] = i
      BY <1>2
    <3> QED
      BY <1>6, <1>7, <3>1 DEF Range
  <2> QED
    BY <2>1, <2>2
<1>9. ASSUME IsInjective(items) PROVE IsInjective(part)
  <2>1. ASSUME NEW i \in 1..m, NEW j \in 1..m, part[i] = part[j] PROVE i = j
    BY <1>2, <1>5, <1>7, <1>9, <2>1 DEF IsInjective
  <2> QED
    BY <1>6, <2>1 DEF IsInjective
<1> QED
  BY <1>3, <1>5, <1>6, <1>7, <1>8, <1>9 DEF part, order, m

(* Two sequences of different items that share none make one. *)
LEMMA JoinDiffers ==
  ASSUME NEW T, NEW s \in Seq(T), NEW t \in Seq(T), IsInjective(s), IsInjective(t),
         \A x \in Range(s) : x \notin Range(t)
  PROVE  IsInjective(s \o t)
<1> DEFINE both == s \o t
<1>1. /\ both \in Seq(T) /\ Len(both) = Len(s) + Len(t) /\ DOMAIN both = 1..(Len(s) + Len(t))
      /\ \A i \in 1..(Len(s) + Len(t)) : both[i] = IF i <= Len(s) THEN s[i] ELSE t[i - Len(s)]
  OBVIOUS
<1>2. /\ Len(s) \in Nat /\ Len(t) \in Nat
      /\ DOMAIN s = 1..Len(s) /\ DOMAIN t = 1..Len(t)
  OBVIOUS
<1> HIDE DEF both
<1>3. ASSUME NEW i \in DOMAIN both, NEW j \in DOMAIN both, both[i] = both[j], i <= Len(s)
      PROVE  i = j
  <2>1. both[i] = s[i] /\ i \in DOMAIN s
    BY <1>1, <1>2, <1>3
  <2>2. both[i] \notin Range(t)
    BY <2>1 DEF Range
  <2>3. CASE j <= Len(s)
    <3>1. both[j] = s[j] /\ j \in DOMAIN s
      BY <1>1, <1>2, <2>3
    <3> QED
      BY <1>3, <2>1, <3>1 DEF IsInjective
  <2>4. CASE ~(j <= Len(s))
    <3>1. both[j] = t[j - Len(s)] /\ j - Len(s) \in DOMAIN t
      BY <1>1, <1>2, <2>4
    <3> QED
      BY <1>3, <2>2, <3>1 DEF Range
  <2> QED
    BY <2>3, <2>4
<1>4. ASSUME NEW i \in DOMAIN both, NEW j \in DOMAIN both, both[i] = both[j],
             ~(i <= Len(s)), ~(j <= Len(s))
      PROVE  i = j
  <2>1. /\ both[i] = t[i - Len(s)] /\ i - Len(s) \in DOMAIN t
        /\ both[j] = t[j - Len(s)] /\ j - Len(s) \in DOMAIN t
    BY <1>1, <1>2, <1>4
  <2>2. i - Len(s) = j - Len(s)
    BY <1>4, <2>1 DEF IsInjective
  <2> QED
    BY <1>1, <1>2, <2>2
<1> QED
  BY <1>3, <1>4 DEF IsInjective, both

(* A sequence of different items cut in two. *)
LEMMA CutDiffers ==
  ASSUME NEW T, NEW s \in Seq(T), IsInjective(s), NEW k \in 0..Len(s)
  PROVE  /\ SubSeq(s, 1, k) \in Seq(T) /\ SubSeq(s, k + 1, Len(s)) \in Seq(T)
         /\ Len(SubSeq(s, 1, k)) = k
         /\ IsInjective(SubSeq(s, 1, k)) /\ IsInjective(SubSeq(s, k + 1, Len(s)))
         /\ Range(SubSeq(s, 1, k)) \subseteq Range(s)
         /\ Range(SubSeq(s, k + 1, Len(s))) = Range(s) \ Range(SubSeq(s, 1, k))
<1> DEFINE n == Len(s)
           front == SubSeq(s, 1, k)
           back == SubSeq(s, k + 1, Len(s))
<1>1. /\ n \in Nat /\ k \in Nat /\ k <= n /\ DOMAIN s = 1..n
      /\ front \in Seq(T) /\ Len(front) = k /\ DOMAIN front = 1..k
      /\ \A i \in 1..k : front[i] = s[i]
      /\ back \in Seq(T) /\ Len(back) = n - k /\ DOMAIN back = 1..(n - k)
      /\ \A i \in 1..(n - k) : back[i] = s[k + i]
  OBVIOUS
<1> HIDE DEF n, front, back
<1>2. IsInjective(front)
  BY <1>1 DEF IsInjective
<1>3. IsInjective(back)
  <2>1. ASSUME NEW i \in 1..(n - k), NEW j \in 1..(n - k), back[i] = back[j] PROVE i = j
    <3>1. k + i \in 1..n /\ k + j \in 1..n /\ s[k + i] = s[k + j]
      BY <1>1, <2>1
    <3>2. k + i = k + j
      BY <1>1, <3>1 DEF IsInjective
    <3> QED
      BY <1>1, <3>2
  <2> QED
    BY <1>1, <2>1 DEF IsInjective
<1>4. Range(front) \subseteq Range(s)
  <2>1. ASSUME NEW j \in 1..k PROVE j \in 1..n /\ front[j] = s[j]
    BY <1>1, <2>1
  <2> QED
    BY <1>1, <2>1 DEF Range
<1>5. ASSUME NEW x \in Range(back) PROVE x \in Range(s) /\ x \notin Range(front)
  <2>1. PICK i \in 1..(n - k) : x = s[k + i]
    BY <1>1 DEF Range
  <2>2. k + i \in 1..n /\ k + i \notin 1..k
    BY <1>1
  <2>3. ASSUME NEW j \in 1..k, front[j] = x PROVE FALSE
    <3>1. j \in 1..n /\ s[j] = s[k + i]
      BY <1>1, <2>1, <2>3
    <3> QED
      BY <1>1, <2>2, <3>1 DEF IsInjective
  <2> QED
    BY <1>1, <2>1, <2>2, <2>3 DEF Range
<1>6. ASSUME NEW x \in Range(s), x \notin Range(front) PROVE x \in Range(back)
  <2>1. PICK i \in 1..n : x = s[i]
    BY <1>1 DEF Range
  <2>2. ~(i <= k)
    BY <1>1, <1>6, <2>1 DEF Range
  <2>3. i - k \in 1..(n - k) /\ k + (i - k) = i
    BY <1>1, <2>2
  <2>4. back[i - k] = x
    BY <1>1, <2>1, <2>3
  <2> QED
    BY <1>1, <2>3, <2>4 DEF Range
<1>7. Range(back) = Range(s) \ Range(front)
  BY <1>5, <1>6
<1> QED
  BY <1>1, <1>2, <1>3, <1>4, <1>7 DEF n, front, back

(* Two sequences one after the other have the items of both. *)
LEMMA RangeOfJoin ==
  ASSUME NEW T, NEW s \in Seq(T), NEW t \in Seq(T)
  PROVE  Range(s \o t) = Range(s) \cup Range(t)
  BY RangeConcatenation

-----------------------------------------------------------------------------
(* Counts of the lists that have a page.                                     *)

(* Finitely many lists have a page. *)
LEMMA HoldersAreFinite ==
  ASSUME NEW count, NEW lists, Counts(count, lists), NEW p
  PROVE  IsFiniteSet(Holders(lists, p)) /\ Cardinality(Holders(lists, p)) \in Nat
<1>1. IsFiniteSet(DOMAIN lists) /\ Holders(lists, p) \in SUBSET (DOMAIN lists)
  BY DEF Counts, Holders
<1> QED
  BY <1>1, FS_Subset, FS_CardinalityType

(* What is counted is in a list, and what is counted once in only one. *)
LEMMA CountedIsHeld ==
  ASSUME NEW count, NEW lists, Counts(count, lists), NEW p \in Pages
  PROVE  /\ count[p] \in Nat
         /\ count[p] > 0 <=> \E i \in DOMAIN lists : p \in Range(lists[i])
         /\ count[p] = 0 <=> \A i \in DOMAIN lists : p \notin Range(lists[i])
         /\ count[p] = 1 =>
              \A i, j \in DOMAIN lists : p \in Range(lists[i]) /\ p \in Range(lists[j]) => i = j
<1> DEFINE holders == Holders(lists, p)
<1>1. /\ IsFiniteSet(holders) /\ Cardinality(holders) \in Nat
      /\ count[p] = Cardinality(holders)
  BY HoldersAreFinite DEF Counts
<1>2. \A i : i \in holders <=> i \in DOMAIN lists /\ p \in Range(lists[i])
  BY DEF Holders
<1> HIDE DEF holders
<1>3. Cardinality(holders) = 0 <=> holders = {}
  BY <1>1, FS_EmptySet
<1>4. Cardinality(holders) = 1 <=> \E x : holders = {x}
  BY <1>1, FS_Singleton
<1>5. count[p] \in Nat
  BY <1>1
<1>6. count[p] = 0 <=> \A i \in DOMAIN lists : p \notin Range(lists[i])
  BY <1>1, <1>2, <1>3
<1>7. count[p] = 1 =>
        \A i, j \in DOMAIN lists : p \in Range(lists[i]) /\ p \in Range(lists[j]) => i = j
  BY <1>1, <1>2, <1>4
<1>8. count[p] > 0 <=> ~(count[p] = 0)
  BY <1>5
<1> QED
  BY <1>5, <1>6, <1>7, <1>8

(* Only one list has a page that only one can have. *)
LEMMA HeldByOneIsCountedOnce ==
  ASSUME NEW count, NEW lists, Counts(count, lists), NEW p \in Pages,
         NEW i \in DOMAIN lists, p \in Range(lists[i]),
         \A j \in DOMAIN lists : p \in Range(lists[j]) => j = i
  PROVE  count[p] = 1
<1>1. Holders(lists, p) = {i}
  BY DEF Holders
<1> QED
  BY <1>1, FS_Singleton DEF Counts

(* A list more. *)
AddsList(count, lists, x, pages, more) ==
  /\ count \in [Pages -> Nat] /\ Counts(count, lists)
  /\ x \notin DOMAIN lists /\ pages \in Seq(Pages) /\ IsInjective(pages)
  /\ DOMAIN more = DOMAIN lists \cup {x} /\ more[x] = pages
  /\ \A i \in DOMAIN lists : more[i] = lists[i]

(* The references that a new list adds count it (addRefs). *)
LEMMA ListAdded ==
  ASSUME NEW count, NEW lists, NEW x, NEW pages, NEW more,
         AddsList(count, lists, x, pages, more)
  PROVE  AddRefs(count, pages) \in [Pages -> Nat] /\ Counts(AddRefs(count, pages), more)
<1> USE DEF AddsList
<1>1. IsFiniteSet(DOMAIN more)
  BY FS_AddElement DEF Counts
<1>2. \A i \in DOMAIN more : more[i] \in Seq(Pages) /\ IsInjective(more[i])
  BY DEF Counts
<1>3. ASSUME NEW p \in Pages
      PROVE  AddRefs(count, pages)[p] = Cardinality(Holders(more, p))
  <2>1. IsFiniteSet(Holders(lists, p)) /\ count[p] = Cardinality(Holders(lists, p))
    BY HoldersAreFinite DEF Counts
  <2>2. x \notin Holders(lists, p)
    BY DEF Holders
  <2>3. CASE p \in Range(pages)
    <3>1. Holders(more, p) = Holders(lists, p) \cup {x}
      BY <2>3 DEF Holders
    <3>2. Cardinality(Holders(lists, p) \cup {x}) = Cardinality(Holders(lists, p)) + 1
      BY <2>1, <2>2, FS_AddElement
    <3> QED
      BY <2>1, <2>3, <3>1, <3>2 DEF AddRefs
  <2>4. CASE p \notin Range(pages)
    <3>1. Holders(more, p) = Holders(lists, p)
      BY <2>4 DEF Holders
    <3> QED
      BY <2>1, <2>4, <3>1 DEF AddRefs
  <2> QED
    BY <2>3, <2>4
<1>4. AddRefs(count, pages) \in [Pages -> Nat]
  BY DEF AddRefs
<1> QED
  BY <1>1, <1>2, <1>3, <1>4 DEF Counts

(* A list less. *)
LEMMA ListDropped ==
  ASSUME NEW count \in [Pages -> Nat], NEW lists, Counts(count, lists),
         NEW x \in DOMAIN lists,
         NEW rest, DOMAIN rest = DOMAIN lists \ {x}, \A i \in DOMAIN rest : rest[i] = lists[i]
  PROVE  /\ DropRefs(count, lists[x]) \in [Pages -> Nat]
         /\ Counts(DropRefs(count, lists[x]), rest)
<1>1. IsFiniteSet(DOMAIN rest)
  BY FS_RemoveElement DEF Counts
<1>2. \A i \in DOMAIN rest : rest[i] \in Seq(Pages) /\ IsInjective(rest[i])
  BY DEF Counts
<1>3. ASSUME NEW p \in Pages
      PROVE  DropRefs(count, lists[x])[p] = Cardinality(Holders(rest, p))
  <2>1. IsFiniteSet(Holders(lists, p)) /\ count[p] = Cardinality(Holders(lists, p))
    BY HoldersAreFinite DEF Counts
  <2>2. Holders(rest, p) = Holders(lists, p) \ {x}
    BY DEF Holders
  <2>3. CASE p \in Range(lists[x])
    <3>1. x \in Holders(lists, p)
      BY <2>3 DEF Holders
    <3>2. Cardinality(Holders(lists, p) \ {x}) = Cardinality(Holders(lists, p)) - 1
      BY <2>1, <3>1, FS_RemoveElement
    <3> QED
      BY <2>1, <2>2, <2>3, <3>2 DEF DropRefs
  <2>4. CASE p \notin Range(lists[x])
    <3>1. Holders(rest, p) = Holders(lists, p)
      BY <2>2, <2>4 DEF Holders
    <3> QED
      BY <2>1, <2>4, <3>1 DEF DropRefs
  <2> QED
    BY <2>3, <2>4
<1>4. Counts(DropRefs(count, lists[x]), rest)
  BY <1>1, <1>2, <1>3 DEF Counts
<1>5. ASSUME NEW p \in Pages PROVE DropRefs(count, lists[x])[p] \in Nat
  BY <1>3, <1>4, HoldersAreFinite
<1>6. DropRefs(count, lists[x]) = [p \in Pages |-> DropRefs(count, lists[x])[p]]
  BY DEF DropRefs
<1> QED
  BY <1>4, <1>5, <1>6

(* A list that takes pages nobody had. *)
TakesPages(count, lists, x, taken, pages, grown, after) ==
  /\ Counts(count, lists) /\ x \in DOMAIN lists
  /\ taken \in SUBSET Pages /\ \A p \in taken : count[p] = 0
  /\ pages \in Seq(Pages) /\ IsInjective(pages) /\ Range(pages) = Range(lists[x]) \cup taken
  /\ DOMAIN grown = DOMAIN lists /\ grown[x] = pages
  /\ \A i \in DOMAIN lists : i # x => grown[i] = lists[i]
  /\ \A p \in Pages : after[p] = IF p \in taken THEN 1 ELSE count[p]

(* Pages that nobody had, set to one reference, count the list that takes them *)
(* (allocateInto).                                                             *)
LEMMA ListGrown ==
  ASSUME NEW count, NEW lists, NEW x, NEW taken, NEW pages, NEW grown, NEW after,
         TakesPages(count, lists, x, taken, pages, grown, after)
  PROVE  Counts(after, grown)
<1> USE DEF TakesPages
<1>1. IsFiniteSet(DOMAIN grown)
  BY DEF Counts
<1>2. \A i \in DOMAIN grown : grown[i] \in Seq(Pages) /\ IsInjective(grown[i])
  BY DEF Counts
<1>3. ASSUME NEW p \in Pages PROVE after[p] = Cardinality(Holders(grown, p))
  <2>1. CASE p \in taken
    <3>1. \A i \in DOMAIN lists : p \notin Range(lists[i])
      BY <2>1, CountedIsHeld
    <3>2. Holders(grown, p) = {x}
      BY <2>1, <3>1 DEF Holders
    <3>3. Cardinality({x}) = 1
      BY FS_Singleton
    <3> QED
      BY <2>1, <3>2, <3>3
  <2>2. CASE p \notin taken
    <3>1. Holders(grown, p) = Holders(lists, p)
      BY <2>2 DEF Holders
    <3> QED
      BY <2>2, <3>1 DEF Counts
  <2> QED
    BY <2>1, <2>2
<1> QED
  BY <1>1, <1>2, <1>3 DEF Counts

(* The same lists under other names. *)
LEMMA ListsRenamed ==
  ASSUME NEW count, NEW lists, Counts(count, lists),
         NEW others, NEW name, name \in [DOMAIN others -> DOMAIN lists],
         \A i, j \in DOMAIN others : name[i] = name[j] => i = j,
         \A k \in DOMAIN lists : \E i \in DOMAIN others : name[i] = k,
         \A i \in DOMAIN others : others[i] = lists[name[i]]
  PROVE  Counts(count, others)
<1>1. name \in Injection(DOMAIN others, DOMAIN lists)
  BY DEF Injection, IsInjective
<1>2. IsFiniteSet(DOMAIN others)
  BY <1>1, FS_Injection DEF Counts
<1>3. \A i \in DOMAIN others : others[i] \in Seq(Pages) /\ IsInjective(others[i])
  BY DEF Counts
<1>4. ASSUME NEW p \in Pages PROVE count[p] = Cardinality(Holders(others, p))
  <2> DEFINE S == Holders(others, p)
             T == Holders(lists, p)
             f == [i \in S |-> name[i]]
  <2>1. \A i : i \in S <=> i \in DOMAIN others /\ p \in Range(lists[name[i]])
    BY DEF Holders
  <2>2. \A k : k \in T <=> k \in DOMAIN lists /\ p \in Range(lists[k])
    BY DEF Holders
  <2>3. IsFiniteSet(T) /\ count[p] = Cardinality(T)
    BY HoldersAreFinite DEF Counts
  <2> HIDE DEF S, T
  <2>4. f \in [S -> T] /\ \A i, j \in S : f[i] = f[j] => i = j
    BY <2>1, <2>2
  <2>5. \A k \in T : \E i \in S : f[i] = k
    <3>1. ASSUME NEW k \in T PROVE \E i \in S : f[i] = k
      <4>1. PICK i \in DOMAIN others : name[i] = k
        BY <2>2
      <4>2. i \in S
        BY <2>1, <2>2, <4>1
      <4> QED
        BY <4>1, <4>2
    <3> QED
      BY <3>1
  <2> HIDE DEF f
  <2>6. f \in Injection(S, T) /\ f \in Surjection(S, T)
    BY <2>4, <2>5 DEF Injection, Surjection, IsInjective
  <2> QED
    BY <2>3, <2>6, FS_Injection DEF S
<1> QED
  BY <1>2, <1>3, <1>4 DEF Counts

-----------------------------------------------------------------------------
(* Resource pools.                                                           *)

(* An index is a function from blocks to pages. *)
LEMMA IndexFields ==
  ASSUME NEW index \in Indexes
  PROVE  /\ index \in [DOMAIN index -> Pages]
         /\ DOMAIN index \subseteq Seq(Tokens)
  BY DEF Indexes

(* A function from blocks to pages is an index. *)
LEMMA IndexFrom ==
  ASSUME NEW blocks, blocks \subseteq Seq(Tokens), NEW index \in [blocks -> Pages]
  PROVE  index \in Indexes
  BY DEF Indexes

(* The pages of a list that nobody counts go to the end of the ring. *)
LEMMA UnusedAreReleased ==
  ASSUME NEW m \in Managers, NEW pages \in Seq(Pages), IsInjective(pages), IsInjective(m.free),
         \A p \in Range(m.free) : m.active[p] = 0 /\ m.cached[p] = 0,
         \A p \in Pages : m.active[p] = 0 /\ m.cached[p] = 0 /\ p \notin Range(m.free)
                            => p \in Range(pages)
  PROVE  LET released == ReleaseIfUnused(m, pages) IN
         /\ released \in Managers /\ FreeAreUnused(released)
         /\ released.active = m.active /\ released.cached = m.cached
         /\ released.index = m.index /\ released.records = m.records
<1> DEFINE S == {i \in DOMAIN pages : /\ m.active[pages[i]] = 0
                                      /\ m.cached[pages[i]] = 0
                                      /\ pages[i] \notin Range(m.free)}
           part == InOrder(pages, S)
           released == ReleaseIfUnused(m, pages)
<1>1. /\ part \in Seq(Pages) /\ IsInjective(part)
      /\ Range(part) = {pages[i] : i \in S}
  <2>1. S \subseteq DOMAIN pages
    OBVIOUS
  <2> HIDE DEF S
  <2> QED
    BY <2>1, InOrderItems
<1>2. released = [m EXCEPT !.free = @ \o part]
  BY DEF ReleaseIfUnused
<1>3. \A x \in Range(part) : /\ x \in Pages /\ m.active[x] = 0 /\ m.cached[x] = 0
                             /\ x \notin Range(m.free)
  <2>1. \A i \in S : pages[i] \in Pages
    OBVIOUS
  <2> QED
    BY <1>1, <2>1
<1>4. ASSUME NEW p \in Pages, m.active[p] = 0, m.cached[p] = 0, p \notin Range(m.free)
      PROVE  p \in Range(part)
  <2>1. PICK i \in DOMAIN pages : pages[i] = p
    BY <1>4 DEF Range
  <2>2. i \in S
    BY <1>4, <2>1
  <2> QED
    BY <1>1, <2>1, <2>2
<1>5. m.free \in Seq(Pages) /\ Range(m.free) \subseteq Pages
  <2>1. m.free \in Seq(Pages)
    BY DEF Managers
  <2> QED
    BY <2>1, RangeOfSeq
<1> HIDE DEF S, part, released
<1>6. m.free \o part \in Seq(Pages) /\ IsInjective(m.free \o part)
  BY <1>1, <1>3, <1>5, JoinDiffers
<1>7. Range(m.free \o part) = Range(m.free) \cup Range(part)
  BY <1>1, <1>5, RangeOfJoin
<1>8. /\ released \in Managers /\ released.free = m.free \o part
      /\ released.active = m.active /\ released.cached = m.cached
      /\ released.index = m.index /\ released.records = m.records
  BY <1>2, <1>6 DEF Managers
<1>9. Range(released.free) = {p \in Pages : released.active[p] = 0 /\ released.cached[p] = 0}
  BY <1>3, <1>4, <1>5, <1>7, <1>8
<1>10. FreeAreUnused(released)
  BY <1>6, <1>8, <1>9 DEF FreeAreUnused
<1> QED
  BY <1>8, <1>10 DEF released

(* What goes through m and what it was before agree, as far as anything is still cached. *)
Shrinks(m, less) ==
  /\ \A p \in Pages : less.cached[p] > 0 => m.cached[p] > 0
  /\ DOMAIN less.index \subseteq DOMAIN m.index
  /\ \A block \in DOMAIN less.index : less.index[block] = m.index[block]
  /\ \A block \in DOMAIN m.index :
       less.cached[m.index[block]] > 0 => block \in DOMAIN less.index

(* Losing entries twice is losing entries. *)
LEMMA ShrinksTwice ==
  ASSUME NEW a, NEW b, NEW c, Shrinks(a, b), Shrinks(b, c), a.index \in Indexes
  PROVE  Shrinks(a, c)
<1>1. \A block \in DOMAIN a.index : a.index[block] \in Pages
  BY IndexFields
<1> QED
  BY <1>1 DEF Shrinks

(* A row's pages that are still cached are still indexed by its blocks. *)
LEMMA ShrinksRowIndexed ==
  ASSUME NEW m, NEW less, Shrinks(m, less), NEW row, row.pages \in Seq(Pages),
         RowIndexed(m, row)
  PROVE  RowIndexed(less, row)
  BY DEF Shrinks, RowIndexed

(* A lease gives its pages back. *)
LEMMA LeaseReleased ==
  ASSUME NEW m \in Managers, ManagerOK(m), NEW leases, Counts(m.active, leases),
         NEW x \in DOMAIN leases, NEW rest, DOMAIN rest = DOMAIN leases \ {x},
         \A i \in DOMAIN rest : rest[i] = leases[i]
  PROVE  LET released == ReleaseLease(m, leases[x]) IN
         /\ released \in Managers /\ ManagerOK(released) /\ Counts(released.active, rest)
         /\ released.cached = m.cached /\ released.index = m.index
         /\ released.records = m.records
<1> DEFINE pages == leases[x]
           dropped == [m EXCEPT !.active = DropRefs(@, pages)]
           released == ReleaseLease(m, leases[x])
<1>1. pages \in Seq(Pages) /\ IsInjective(pages)
  BY DEF Counts
<1>2. m.active \in [Pages -> Nat]
  BY DEF Managers
<1>3. DropRefs(m.active, pages) \in [Pages -> Nat] /\ Counts(DropRefs(m.active, pages), rest)
  BY <1>2, ListDropped
<1>4. /\ dropped \in Managers /\ dropped.active = DropRefs(m.active, pages)
      /\ dropped.free = m.free /\ dropped.cached = m.cached
      /\ dropped.index = m.index /\ dropped.records = m.records
  BY <1>3 DEF Managers
<1>5. released = ReleaseIfUnused(dropped, pages)
  BY DEF ReleaseLease
<1> HIDE DEF dropped, released, pages
<1>6. /\ IsInjective(m.free)
      /\ \A p \in Range(m.free) : p \in Pages /\ m.active[p] = 0 /\ m.cached[p] = 0
      /\ \A p \in Pages : m.active[p] = 0 /\ m.cached[p] = 0 => p \in Range(m.free)
  BY DEF ManagerOK, FreeAreUnused
<1>7. \A p \in Pages : DropRefs(m.active, pages)[p] =
                         IF p \in Range(pages) THEN m.active[p] - 1 ELSE m.active[p]
  BY DEF DropRefs
<1>8. \A p \in Range(pages) : p \in Pages => m.active[p] > 0
  BY CountedIsHeld DEF pages
<1>9. \A p \in Range(dropped.free) : dropped.active[p] = 0 /\ dropped.cached[p] = 0
  <2>1. \A p \in Range(m.free) : p \in Pages /\ p \notin Range(pages)
    BY <1>6, <1>8
  <2> QED
    BY <1>4, <1>6, <1>7, <2>1
<1>10. \A p \in Pages : dropped.active[p] = 0 /\ dropped.cached[p] = 0
                          /\ p \notin Range(dropped.free) => p \in Range(pages)
  BY <1>4, <1>6, <1>7
<1>11. /\ released \in Managers /\ FreeAreUnused(released)
       /\ released.active = dropped.active /\ released.cached = dropped.cached
       /\ released.index = dropped.index /\ released.records = dropped.records
  BY <1>1, <1>4, <1>5, <1>6, <1>9, <1>10, UnusedAreReleased
<1>12. ManagerOK(released)
  BY <1>4, <1>11 DEF ManagerOK, IndexIsOfCached, RecordsIndexed
<1> QED
  BY <1>3, <1>4, <1>11, <1>12 DEF released

(* A sequence of different items without its first one. *)
LEMMA TailItems ==
  ASSUME NEW T, NEW s \in Seq(T), s # <<>>, IsInjective(s)
  PROVE  /\ Tail(s) \in Seq(T) /\ Head(s) \in T /\ Head(s) \in Range(s)
         /\ IsInjective(Tail(s))
         /\ Range(Tail(s)) = Range(s) \ {Head(s)}
<1> DEFINE n == Len(s)
           t == Tail(s)
<1>1. /\ n \in Nat /\ n >= 1 /\ DOMAIN s = 1..n /\ Head(s) = s[1] /\ 1 \in 1..n
      /\ t \in Seq(T) /\ DOMAIN t = 1..(n - 1) /\ \A i \in 1..(n - 1) : t[i] = s[i + 1]
  OBVIOUS
<1> HIDE DEF n, t
<1>2. \A i \in 1..(n - 1) : i + 1 \in 1..n /\ i + 1 # 1
  BY <1>1
<1>3. IsInjective(t)
  <2>1. ASSUME NEW i \in 1..(n - 1), NEW j \in 1..(n - 1), t[i] = t[j] PROVE i = j
    <3>1. i + 1 = j + 1
      BY <1>1, <1>2, <2>1 DEF IsInjective
    <3> QED
      BY <1>1, <3>1
  <2> QED
    BY <1>1, <2>1 DEF IsInjective
<1>4. ASSUME NEW x \in Range(t) PROVE x \in Range(s) /\ x # Head(s)
  <2>1. PICK i \in 1..(n - 1) : x = s[i + 1]
    BY <1>1 DEF Range
  <2> QED
    BY <1>1, <1>2, <2>1 DEF Range, IsInjective
<1>5. ASSUME NEW x \in Range(s), x # Head(s) PROVE x \in Range(t)
  <2>1. PICK i \in 1..n : x = s[i]
    BY <1>1 DEF Range
  <2>2. i - 1 \in 1..(n - 1) /\ (i - 1) + 1 = i
    BY <1>1, <1>5, <2>1
  <2>3. t[i - 1] = x
    BY <1>1, <2>1, <2>2
  <2> QED
    BY <1>1, <2>2, <2>3 DEF Range
<1>6. Range(t) = Range(s) \ {Head(s)}
  BY <1>4, <1>5
<1>7. Head(s) \in Range(s) /\ Head(s) \in T
  <2>1. s[1] \in T
    BY <1>1
  <2> QED
    BY <1>1, <2>1 DEF Range
<1> QED
  BY <1>1, <1>3, <1>6, <1>7 DEF t

(* Records differ by their blocks. *)
LEMMA RecordsDiffer ==
  ASSUME NEW m, RecordsIndexed(m)
  PROVE  IsInjective(m.records)
  BY DEF RecordsIndexed, IsInjective

(* A record's path is of different pages that are cached. *)
LEMMA PathFacts ==
  ASSUME NEW m \in Managers, ManagerOK(m)
  PROVE  /\ DOMAIN PathsOf(m.records) = Range(m.records)
         /\ \A r \in Range(m.records) : /\ PathsOf(m.records)[r] = r.pages /\ r \in Records
                                        /\ r.pages \in Seq(Pages) /\ IsInjective(r.pages)
                                        /\ \A p \in Range(r.pages) : p \in Pages /\ m.cached[p] > 0
<1>1. m.records \in Seq(Records)
  BY DEF Managers
<1>2. Range(m.records) \subseteq Records
  BY <1>1, RangeOfSeq
<1>3. /\ DOMAIN PathsOf(m.records) = Range(m.records)
      /\ \A r \in Range(m.records) : PathsOf(m.records)[r] = r.pages
  BY DEF PathsOf
<1>4. Counts(m.cached, PathsOf(m.records))
  BY DEF ManagerOK
<1>5. ASSUME NEW r \in Range(m.records)
      PROVE  /\ r.pages \in Seq(Pages) /\ IsInjective(r.pages)
             /\ \A p \in Range(r.pages) : p \in Pages /\ m.cached[p] > 0
  <2>1. r.pages \in Seq(Pages) /\ IsInjective(r.pages)
    BY <1>3, <1>4 DEF Counts
  <2>2. Range(r.pages) \subseteq Pages
    BY <2>1, RangeOfSeq
  <2> QED
    BY <1>3, <1>4, <2>1, <2>2, CountedIsHeld
<1> QED
  BY <1>2, <1>3, <1>5

(* The least recently used record goes. *)
LEMMA OldestEvicted ==
  ASSUME NEW m \in Managers, ManagerOK(m), m.records # <<>>
  PROVE  LET less == EvictOldest(m) IN
         /\ less \in Managers /\ ManagerOK(less) /\ Shrinks(m, less)
         /\ less.active = m.active /\ less.records = Tail(m.records)
<1> DEFINE h == Head(m.records)
           path == h.pages
           cached == DropRefs(m.cached, path)
           gone == {p \in Range(path) : cached[p] = 0}
           index == EraseFromIndex(m.index, gone)
           before == [m EXCEPT !.records = Tail(@), !.cached = cached, !.index = index]
           less == EvictOldest(m)
<1>1. /\ m.free \in Seq(Pages) /\ m.active \in [Pages -> Nat] /\ m.cached \in [Pages -> Nat]
      /\ m.index \in Indexes /\ m.records \in Seq(Records)
  BY DEF Managers
<1>2. FreeAreUnused(m) /\ Counts(m.cached, PathsOf(m.records)) /\ IndexIsOfCached(m)
      /\ RecordsIndexed(m)
  BY DEF ManagerOK
<1>3. /\ Tail(m.records) \in Seq(Records) /\ h \in Records /\ h \in Range(m.records)
      /\ Range(Tail(m.records)) = Range(m.records) \ {h}
  BY <1>1, <1>2, TailItems, RecordsDiffer
<1>4. path \in Seq(Pages) /\ IsInjective(path) /\ \A p \in Range(path) : p \in Pages /\ m.cached[p] > 0
  BY <1>3, PathFacts
<1>5. /\ DOMAIN PathsOf(m.records) = Range(m.records) /\ PathsOf(m.records)[h] = path
      /\ \A r \in Range(m.records) : PathsOf(m.records)[r] = r.pages
  BY <1>3, PathFacts
<1>6. /\ DOMAIN PathsOf(Tail(m.records)) = Range(Tail(m.records))
      /\ \A r \in Range(Tail(m.records)) : PathsOf(Tail(m.records))[r] = r.pages
  BY DEF PathsOf
<1>7. cached \in [Pages -> Nat] /\ Counts(cached, PathsOf(Tail(m.records)))
  <2> DEFINE lists == PathsOf(m.records)
             rest == PathsOf(Tail(m.records))
  <2>1. /\ Counts(m.cached, lists) /\ h \in DOMAIN lists /\ lists[h] = path
        /\ DOMAIN rest = DOMAIN lists \ {h} /\ \A r \in DOMAIN rest : rest[r] = lists[r]
    BY <1>2, <1>3, <1>5, <1>6
  <2> HIDE DEF lists, rest
  <2>2. /\ DropRefs(m.cached, lists[h]) \in [Pages -> Nat]
        /\ Counts(DropRefs(m.cached, lists[h]), rest)
    BY <1>1, <2>1, ListDropped
  <2> QED
    BY <2>1, <2>2 DEF rest
<1>8. \A p \in Pages : cached[p] = IF p \in Range(path) THEN m.cached[p] - 1 ELSE m.cached[p]
  BY DEF DropRefs
<1>9. /\ m.index \in [DOMAIN m.index -> Pages] /\ DOMAIN m.index \subseteq Seq(Tokens)
  BY <1>1, IndexFields
<1> HIDE DEF cached
<1>10. /\ DOMAIN index = {block \in DOMAIN m.index : m.index[block] \notin gone}
       /\ \A block \in DOMAIN index : index[block] = m.index[block]
       /\ index = [block \in {b \in DOMAIN m.index : m.index[b] \notin gone} |-> m.index[block]]
  BY DEF EraseFromIndex, Restrict
<1>11. index \in Indexes
  <2>1. DOMAIN index \subseteq Seq(Tokens)
    BY <1>9, <1>10
  <2>2. index \in [DOMAIN index -> Pages]
    BY <1>9, <1>10
  <2> QED
    BY <2>1, <2>2, IndexFrom
<1> HIDE DEF index
<1>12. less = ReleaseIfUnused(before, path)
  BY DEF EvictOldest, index, cached
<1>13. /\ before \in Managers /\ before.free = m.free /\ before.active = m.active
       /\ before.cached = cached /\ before.index = index /\ before.records = Tail(m.records)
  BY <1>3, <1>7, <1>11 DEF Managers
<1> HIDE DEF before, less, gone, path, h
<1>14. /\ IsInjective(m.free)
       /\ \A p \in Range(m.free) : p \in Pages /\ m.active[p] = 0 /\ m.cached[p] = 0
       /\ \A p \in Pages : m.active[p] = 0 /\ m.cached[p] = 0 => p \in Range(m.free)
  BY <1>2 DEF FreeAreUnused
<1>15. \A p \in Range(before.free) : before.active[p] = 0 /\ before.cached[p] = 0
  <2>1. \A p \in Range(m.free) : p \in Pages /\ p \notin Range(path)
    BY <1>4, <1>14
  <2> QED
    BY <1>8, <1>13, <1>14, <2>1
<1>16. \A p \in Pages : before.active[p] = 0 /\ before.cached[p] = 0
                          /\ p \notin Range(before.free) => p \in Range(path)
  BY <1>8, <1>13, <1>14
<1>17. /\ less \in Managers /\ FreeAreUnused(less)
       /\ less.active = m.active /\ less.cached = cached
       /\ less.index = index /\ less.records = Tail(m.records)
  BY <1>4, <1>12, <1>13, <1>14, <1>15, <1>16, UnusedAreReleased
<1>18. \A p \in gone : p \in Range(path) /\ cached[p] = 0
  BY DEF gone
<1>19. \A p \in Pages : cached[p] > 0 => m.cached[p] > 0 /\ p \notin gone
  <2>1. \A p \in Pages : cached[p] \in Nat /\ m.cached[p] \in Nat
    BY <1>1, <1>7
  <2> QED
    BY <1>8, <1>18, <2>1
<1>20. \A p \in Pages : m.cached[p] > 0 /\ p \notin gone => cached[p] > 0
  <2>1. \A p \in Pages : cached[p] \in Nat /\ m.cached[p] \in Nat
    BY <1>1, <1>7
  <2> QED
    BY <1>8, <2>1 DEF gone
<1>21. /\ IsInjective(m.index)
       /\ \A block \in DOMAIN m.index : m.index[block] \in Pages /\ m.cached[m.index[block]] > 0
       /\ \A p \in Pages : m.cached[p] > 0 => \E block \in DOMAIN m.index : m.index[block] = p
  <2>1. IsInjective(m.index) /\ Range(m.index) = {p \in Pages : m.cached[p] > 0}
    BY <1>2 DEF IndexIsOfCached
  <2> QED
    BY <2>1 DEF Range
<1>22. IndexIsOfCached(less)
  <2>1. IsInjective(index)
    BY <1>10, <1>21 DEF IsInjective
  <2>2. ASSUME NEW x \in Range(index) PROVE x \in Pages /\ cached[x] > 0
    <3>1. PICK block \in DOMAIN index : x = index[block]
      BY DEF Range
    <3>2. x = m.index[block] /\ block \in DOMAIN m.index /\ x \notin gone
      BY <1>10, <3>1
    <3> QED
      BY <1>20, <1>21, <3>2
  <2>3. ASSUME NEW x \in Pages, cached[x] > 0 PROVE x \in Range(index)
    <3>1. PICK block \in DOMAIN m.index : m.index[block] = x
      BY <1>19, <1>21, <2>3
    <3>2. block \in DOMAIN index /\ index[block] = x
      BY <1>10, <1>19, <2>3, <3>1
    <3> QED
      BY <3>2 DEF Range
  <2>4. Range(index) = {p \in Pages : cached[p] > 0}
    BY <2>2, <2>3
  <2> QED
    BY <1>17, <2>1, <2>4 DEF IndexIsOfCached
<1>23. RecordsIndexed(less)
  <2>1. ASSUME NEW r \in Range(Tail(m.records))
        PROVE  /\ Len(r.block) = Len(r.pages) * PageSize
               /\ \A i \in DOMAIN r.pages : /\ Block(r.block, i) \in DOMAIN index
                                            /\ index[Block(r.block, i)] = r.pages[i]
    <3>1. r \in Range(m.records)
      BY <1>3
    <3>2. /\ Len(r.block) = Len(r.pages) * PageSize
          /\ \A i \in DOMAIN r.pages : /\ Block(r.block, i) \in DOMAIN m.index
                                       /\ m.index[Block(r.block, i)] = r.pages[i]
      BY <1>2, <3>1 DEF RecordsIndexed
    <3>3. ASSUME NEW i \in DOMAIN r.pages PROVE r.pages[i] \in Pages /\ r.pages[i] \notin gone
      <4>1. r.pages[i] \in Range(r.pages)
        BY DEF Range
      <4>2. r.pages[i] \in Pages
        BY <3>1, <4>1, PathFacts
      <4>3. cached[r.pages[i]] > 0
        BY <1>6, <1>7, <4>1, <4>2, CountedIsHeld
      <4> QED
        BY <1>19, <4>2, <4>3
    <3> QED
      BY <1>10, <3>2, <3>3
  <2>2. ASSUME NEW i \in DOMAIN Tail(m.records), NEW j \in DOMAIN Tail(m.records),
               Tail(m.records)[i].block = Tail(m.records)[j].block
        PROVE  i = j
    <3>1. /\ i + 1 \in DOMAIN m.records /\ Tail(m.records)[i] = m.records[i + 1]
          /\ j + 1 \in DOMAIN m.records /\ Tail(m.records)[j] = m.records[j + 1]
          /\ i \in Nat /\ j \in Nat
      BY <1>1
    <3>2. i + 1 = j + 1
      BY <1>2, <2>2, <3>1 DEF RecordsIndexed
    <3> QED
      BY <3>1, <3>2
  <2> QED
    BY <1>17, <2>1, <2>2 DEF RecordsIndexed
<1>24. ManagerOK(less)
  BY <1>7, <1>17, <1>22, <1>23 DEF ManagerOK
<1>25. Shrinks(m, less)
  <2>1. \A p \in Pages : less.cached[p] > 0 => m.cached[p] > 0
    BY <1>17, <1>19
  <2>2. \A block \in DOMAIN m.index :
          less.cached[m.index[block]] > 0 => block \in DOMAIN less.index
    BY <1>10, <1>17, <1>19, <1>21
  <2> QED
    BY <1>10, <1>17, <2>1, <2>2 DEF Shrinks
<1> QED
  BY <1>17, <1>24, <1>25 DEF less

-----------------------------------------------------------------------------
(* Evictions.                                                                *)

(* The managers on the way, as the first records go. *)
IsEviction(m, n, f) ==
  f = [k \in 0..n |-> IF k = 0 THEN m ELSE EvictOldest(f[k - 1])]

(* The managers on the way are each the one before without its oldest record. *)
LEMMA EvictionValues ==
  ASSUME NEW m, NEW n \in Nat, NEW f, IsEviction(m, n, f)
  PROVE  f[0] = m /\ \A k \in 0..(n - 1) : f[k + 1] = EvictOldest(f[k])
<1> DEFINE g == [k \in 0..n |-> IF k = 0 THEN m ELSE EvictOldest(f[k - 1])]
<1>1. f = g
  BY DEF IsEviction
<1>2. g[0] = m
  OBVIOUS
<1>3. ASSUME NEW k \in 0..(n - 1) PROVE g[k + 1] = EvictOldest(f[k])
  <2>1. k + 1 \in 0..n /\ k + 1 # 0 /\ (k + 1) - 1 = k
    OBVIOUS
  <2> QED
    BY <2>1
<1> HIDE DEF g
<1> QED
  BY <1>1, <1>2, <1>3

(* There are such managers, of any number of evictions. *)
LEMMA EvictionExists ==
  ASSUME NEW m
  PROVE  \A n \in Nat : \E f : IsEviction(m, n, f)
<1> DEFINE T == {n \in Nat : \E f : IsEviction(m, n, f)}
<1>1. 0 \in T
  <2> DEFINE f == [k \in 0..0 |-> m]
  <2>1. f = [k \in 0..0 |-> IF k = 0 THEN m ELSE EvictOldest(f[k - 1])]
    OBVIOUS
  <2>2. IsEviction(m, 0, f)
    BY <2>1 DEF IsEviction
  <2> QED
    BY <2>2
<1>2. ASSUME NEW n \in Nat, n \in T PROVE n + 1 \in T
  <2>1. PICK f : IsEviction(m, n, f)
    BY <1>2
  <2>2. f[0] = m /\ \A k \in 0..(n - 1) : f[k + 1] = EvictOldest(f[k])
    BY <2>1, EvictionValues
  <2> DEFINE g == [k \in 0..(n + 1) |-> IF k <= n THEN f[k] ELSE EvictOldest(f[n])]
             h == [k \in 0..(n + 1) |-> IF k = 0 THEN m ELSE EvictOldest(g[k - 1])]
  <2>3. \A k \in 0..n : g[k] = f[k]
    OBVIOUS
  <2>4. ASSUME NEW k \in 0..(n + 1) PROVE g[k] = h[k]
    <3>1. CASE k = 0
      BY <2>2, <3>1
    <3>2. CASE k # 0
      <4>1. k - 1 \in 0..n /\ (k - 1) + 1 = k
        BY <3>2
      <4>2. h[k] = EvictOldest(f[k - 1])
        BY <2>3, <3>2, <4>1
      <4>3. CASE k <= n
        <5>1. k - 1 \in 0..(n - 1) /\ g[k] = f[k]
          BY <4>1, <4>3
        <5> QED
          BY <2>2, <4>1, <4>2, <5>1
      <4>4. CASE ~(k <= n)
        <5>1. k - 1 = n /\ g[k] = EvictOldest(f[n])
          BY <4>1, <4>4
        <5> QED
          BY <4>2, <5>1
      <4> QED
        BY <4>3, <4>4
    <3> QED
      BY <3>1, <3>2
  <2>5. g = h
    BY <2>4
  <2>6. IsEviction(m, n + 1, g)
    <3> HIDE DEF g
    <3> QED
      BY <2>5 DEF IsEviction
  <2> QED
    BY <2>6
<1> HIDE DEF T
<1>3. \A n \in Nat : n \in T
  BY <1>1, <1>2, SetInduction
<1> QED
  BY <1>3 DEF T

(* Evicting the first records is the last of them. *)
LEMMA EvictionIs ==
  ASSUME NEW m, NEW n \in Nat
  PROVE  \E f : IsEviction(m, n, f) /\ EvictFirst(m, n) = f[n]
<1> DEFINE f == CHOOSE g : IsEviction(m, n, g)
<1>1. IsEviction(m, n, f)
  BY EvictionExists
<1>2. EvictFirst(m, n) = f[n]
  BY DEF EvictFirst, IsEviction
<1> QED
  BY <1>1, <1>2

(* The first records go. *)
LEMMA FirstEvicted ==
  ASSUME NEW m \in Managers, ManagerOK(m), NEW n \in 0..Len(m.records)
  PROVE  LET less == EvictFirst(m, n) IN
         /\ less \in Managers /\ ManagerOK(less) /\ Shrinks(m, less)
         /\ less.active = m.active
         /\ less.records = SubSeq(m.records, n + 1, Len(m.records))
<1> DEFINE s == m.records
           Good(less, k) == /\ less \in Managers /\ ManagerOK(less) /\ Shrinks(m, less)
                            /\ less.active = m.active
                            /\ less.records = SubSeq(s, k + 1, Len(s))
<1>1. s \in Seq(Records) /\ Len(s) \in Nat /\ m.index \in Indexes
  BY DEF Managers
<1> HIDE DEF s
<1>2. n \in Nat
  BY <1>1 DEF s
<1>3. PICK f : IsEviction(m, n, f) /\ EvictFirst(m, n) = f[n]
  BY <1>2, EvictionIs
<1>4. f[0] = m /\ \A k \in 0..(n - 1) : f[k + 1] = EvictOldest(f[k])
  BY <1>2, <1>3, EvictionValues
<1> DEFINE T == {k \in 0..n : Good(f[k], k)}
<1>5. 0 \in T
  <2>1. SubSeq(s, 1, Len(s)) = s
    BY <1>1
  <2>2. Shrinks(m, m)
    BY DEF Shrinks
  <2> QED
    BY <1>2, <1>4, <2>1, <2>2 DEF s
<1>6. ASSUME NEW k \in 0..(n - 1), k \in T PROVE k + 1 \in T
  <2>1. Good(f[k], k)
    BY <1>6
  <2>2. /\ k + 1 \in 0..n /\ k + 1 <= Len(s) /\ k \in Nat
    BY <1>1, <1>2 DEF s
  <2>3. /\ SubSeq(s, k + 1, Len(s)) # <<>>
        /\ Tail(SubSeq(s, k + 1, Len(s))) = SubSeq(s, (k + 1) + 1, Len(s))
    <3> DEFINE a == SubSeq(s, k + 1, Len(s))
               b == SubSeq(s, (k + 1) + 1, Len(s))
    <3>1. /\ a \in Seq(Records) /\ Len(a) = Len(s) - k /\ \A i \in 1..(Len(s) - k) : a[i] = s[k + i]
      BY <1>1, <2>2
    <3>2. /\ b \in Seq(Records) /\ Len(b) = Len(s) - (k + 1)
          /\ \A i \in 1..(Len(s) - (k + 1)) : b[i] = s[(k + 1) + i]
      BY <1>1, <2>2
    <3> HIDE DEF a, b
    <3>3. a # <<>>
      BY <1>1, <2>2, <3>1
    <3>4. /\ Tail(a) \in Seq(Records) /\ Len(Tail(a)) = Len(s) - (k + 1)
          /\ \A i \in 1..(Len(s) - (k + 1)) : Tail(a)[i] = a[i + 1]
      BY <1>1, <2>2, <3>1, <3>3
    <3>5. \A i \in 1..(Len(s) - (k + 1)) : Tail(a)[i] = b[i]
      <4>1. ASSUME NEW i \in 1..(Len(s) - (k + 1)) PROVE Tail(a)[i] = b[i]
        <5>1. i + 1 \in 1..(Len(s) - k) /\ k + (i + 1) = (k + 1) + i
          BY <1>1, <2>2
        <5> QED
          BY <3>1, <3>2, <3>4, <5>1
      <4> QED
        BY <4>1
    <3>6. Tail(a) = b
      BY <3>2, <3>4, <3>5
    <3> QED
      BY <3>3, <3>6 DEF a, b
  <2> DEFINE now == f[k]
             less == EvictOldest(now)
  <2>4. /\ now \in Managers /\ ManagerOK(now) /\ Shrinks(m, now) /\ now.active = m.active
        /\ now.records = SubSeq(s, k + 1, Len(s)) /\ now.records # <<>>
    BY <2>1, <2>3
  <2> HIDE DEF now
  <2>5. /\ less \in Managers /\ ManagerOK(less) /\ Shrinks(now, less)
        /\ less.active = now.active /\ less.records = Tail(now.records)
    BY <2>4, OldestEvicted
  <2> HIDE DEF less
  <2>6. Shrinks(m, less)
    BY <1>1, <2>4, <2>5, ShrinksTwice
  <2>7. f[k + 1] = less
    BY <1>4 DEF less, now
  <2> QED
    BY <2>2, <2>3, <2>4, <2>5, <2>6, <2>7
<1> HIDE DEF T
<1>7. \A k \in 0..n : k \in T
  BY <1>2, <1>5, <1>6, BoundedInduction
<1>8. n \in T
  BY <1>2, <1>7
<1>9. Good(f[n], n)
  BY <1>8 DEF T
<1> QED
  BY <1>3, <1>9 DEF s

(* A list of different items is as long as they are many. *)
LEMMA LengthIsCardinality ==
  ASSUME NEW T, NEW s \in Seq(T), IsInjective(s)
  PROVE  IsFiniteSet(Range(s)) /\ Len(s) = Cardinality(Range(s))
<1>1. IsFiniteSet(1..Len(s)) /\ Cardinality(1..Len(s)) = Len(s)
  BY UpTo
<1>2. DOMAIN s = 1..Len(s)
  OBVIOUS
<1>3. s \in Surjection(1..Len(s), Range(s)) /\ s \in Injection(1..Len(s), Range(s))
  <2>1. s \in [1..Len(s) -> Range(s)]
    BY DEF Range
  <2>2. \A x \in Range(s) : \E i \in 1..Len(s) : s[i] = x
    BY <1>2 DEF Range
  <2> QED
    BY <2>1, <2>2 DEF Surjection, Injection
<1> QED
  BY <1>1, <1>3, FS_Surjection

(* What the first records alone hold comes free with them. *)
LEMMA ReclaimedIsFreed ==
  ASSUME NEW m \in Managers, ManagerOK(m), NEW k \in 0..Len(m.records),
         NEW p \in Reclaimed(m, k)
  PROVE  LET less == EvictFirst(m, k) IN
         p \in Range(less.free) /\ p \notin Range(m.free)
<1> DEFINE s == m.records
           less == EvictFirst(m, k)
           all == Holders(PathsOf(s), p)
           first == {r \in Oldest(m, k) : p \in Range(r.pages)}
<1>1. /\ less \in Managers /\ ManagerOK(less) /\ less.active = m.active
      /\ less.records = SubSeq(s, k + 1, Len(s))
  BY FirstEvicted
<1>2. p \in Pages /\ m.active[p] = 0 /\ m.cached[p] > 0 /\ m.cached[p] = Cardinality(first)
  BY DEF Reclaimed
<1>3. s \in Seq(Records) /\ IsInjective(s)
  BY RecordsDiffer DEF Managers, ManagerOK
<1>4. Counts(m.cached, PathsOf(s))
  BY DEF ManagerOK
<1>5. IsFiniteSet(all) /\ m.cached[p] = Cardinality(all)
  BY <1>2, <1>4, HoldersAreFinite DEF Counts
<1>6. /\ Range(SubSeq(s, 1, k)) \subseteq Range(s)
      /\ Range(SubSeq(s, k + 1, Len(s))) = Range(s) \ Range(SubSeq(s, 1, k))
  <2> HIDE DEF s
  <2>1. k \in 0..Len(s)
    BY DEF s
  <2> QED
    BY <1>3, <2>1, CutDiffers
<1>7. /\ DOMAIN PathsOf(s) = Range(s) /\ \A r \in Range(s) : PathsOf(s)[r] = r.pages
  BY DEF PathsOf
<1>8. first \in SUBSET all
  BY <1>6, <1>7 DEF Holders, Oldest
<1>9. first = all
  <2> HIDE DEF first, all
  <2> QED
    BY <1>2, <1>5, <1>8, FS_Subset
<1>10. less.cached[p] = 0
  <2>1. Counts(less.cached, PathsOf(less.records))
    BY <1>1 DEF ManagerOK
  <2>2. ASSUME NEW r \in DOMAIN PathsOf(less.records) PROVE p \notin Range(PathsOf(less.records)[r])
    <3>1. r \in Range(s) /\ r \notin Range(SubSeq(s, 1, k)) /\ PathsOf(less.records)[r] = r.pages
      BY <1>1, <1>6 DEF PathsOf
    <3>2. r \notin first
      BY <3>1 DEF Oldest
    <3>3. r \notin all
      BY <1>9, <3>2
    <3> QED
      BY <1>7, <3>1, <3>3 DEF Holders
  <2> QED
    BY <1>2, <2>1, <2>2, CountedIsHeld
<1>11. p \in Range(less.free)
  BY <1>1, <1>2, <1>10 DEF ManagerOK, FreeAreUnused
<1>12. p \notin Range(m.free)
  BY <1>2 DEF ManagerOK, FreeAreUnused
<1> QED
  BY <1>11, <1>12

(* A set of pages is finite. *)
LEMMA PageSetsAreFinite ==
  ASSUME NEW S, S \subseteq Pages
  PROVE  IsFiniteSet(S) /\ Cardinality(S) \in Nat /\ Cardinality(S) <= Cardinality(Pages)
  BY PagesAssumption, FS_Subset, FS_CardinalityType

(* Evicting makes the room that the plan promised. *)
LEMMA RoomMade ==
  ASSUME NEW m \in Managers, ManagerOK(m), NEW demand \in Nat, Feasible(m, demand)
  PROVE  LET room == Evict(m, demand) IN
         /\ room \in Managers /\ ManagerOK(room) /\ Shrinks(m, room)
         /\ room.active = m.active /\ Len(room.free) >= demand
<1> DEFINE choices == {k \in 0 .. Len(m.records) : Satisfies(m, k, demand)}
           n == Min(choices)
           room == Evict(m, demand)
<1>1. Len(m.records) \in Nat
  BY DEF Managers
<1>2. choices \subseteq Nat /\ choices # {}
  BY <1>1 DEF Feasible
<1>3. n \in choices
  <2> HIDE DEF choices
  <2>1. \E x \in choices : \A y \in choices : x <= y
    BY <1>2, LeastNat
  <2> QED
    BY <2>1 DEF Min
<1>4. room = EvictFirst(m, n)
  BY DEF Evict
<1>5. n \in 0..Len(m.records) /\ Len(m.free) + Cardinality(Reclaimed(m, n)) >= demand
  BY <1>3 DEF Satisfies
<1> HIDE DEF choices, n, room
<1>6. /\ room \in Managers /\ ManagerOK(room) /\ Shrinks(m, room) /\ room.active = m.active
  BY <1>4, <1>5, FirstEvicted
<1>7. \A p \in Reclaimed(m, n) : p \in Range(room.free) /\ p \notin Range(m.free)
  BY <1>4, <1>5, ReclaimedIsFreed
<1>8. /\ m.free \in Seq(Pages) /\ IsInjective(m.free) /\ Range(m.free) \subseteq Pages
      /\ room.free \in Seq(Pages) /\ IsInjective(room.free) /\ Range(room.free) \subseteq Pages
  <2>1. m.free \in Seq(Pages) /\ room.free \in Seq(Pages)
    BY <1>6 DEF Managers
  <2>2. IsInjective(m.free) /\ IsInjective(room.free)
    BY <1>6 DEF ManagerOK, FreeAreUnused
  <2> QED
    BY <2>1, <2>2, RangeOfSeq
<1>9. /\ Len(m.free) = Cardinality(Range(m.free)) /\ Len(room.free) = Cardinality(Range(room.free))
      /\ IsFiniteSet(Range(m.free)) /\ IsFiniteSet(Range(room.free))
  BY <1>8, LengthIsCardinality
<1>10. Range(m.free) \subseteq Range(room.free)
  <2>1. ASSUME NEW p \in Range(m.free) PROVE p \in Range(room.free)
    <3>1. p \in Pages /\ m.active[p] = 0 /\ m.cached[p] = 0
      BY DEF ManagerOK, FreeAreUnused
    <3>2. room.cached[p] \in Nat /\ ~(room.cached[p] > 0)
      BY <1>6, <3>1 DEF Managers, Shrinks
    <3>3. room.cached[p] = 0
      BY <3>2
    <3> QED
      BY <1>6, <3>1, <3>3 DEF ManagerOK, FreeAreUnused
  <2> QED
    BY <2>1
<1>11. IsFiniteSet(Reclaimed(m, n)) /\ Cardinality(Reclaimed(m, n)) \in Nat
  <2>1. Reclaimed(m, n) \subseteq Pages
    BY DEF Reclaimed
  <2> QED
    BY <2>1, PageSetsAreFinite
<1> DEFINE A == Range(m.free)
           B == Reclaimed(m, n)
           C == Range(room.free)
<1>12. /\ IsFiniteSet(A) /\ IsFiniteSet(B) /\ IsFiniteSet(C)
       /\ A \cap B = {} /\ A \cup B \in SUBSET C
  BY <1>7, <1>9, <1>10, <1>11
<1>13. Len(m.free) = Cardinality(A) /\ Len(room.free) = Cardinality(C)
  BY <1>9
<1>14. Cardinality(A) + Cardinality(B) >= demand
  BY <1>5, <1>13
<1> HIDE DEF A, B, C
<1>15. Cardinality(A \cup B) = Cardinality(A) + Cardinality(B)
  <2>1. Cardinality(A \cup B) = Cardinality(A) + Cardinality(B) - Cardinality(A \cap B)
    BY <1>12, FS_Union
  <2>2. Cardinality(A \cap B) = 0
    BY <1>12, FS_EmptySet
  <2>3. Cardinality(A) \in Nat /\ Cardinality(B) \in Nat
    BY <1>12, FS_CardinalityType
  <2> QED
    BY <2>1, <2>2, <2>3
<1>16. Cardinality(A \cup B) <= Cardinality(C)
  BY <1>12, FS_Subset
<1>17. Cardinality(A) \in Nat /\ Cardinality(B) \in Nat /\ Cardinality(C) \in Nat
  BY <1>12, FS_CardinalityType
<1>18. Len(room.free) >= demand
  BY <1>13, <1>14, <1>15, <1>16, <1>17
<1> QED
  BY <1>6, <1>18 DEF room

(* A page of the ring, for each that is asked for, goes to a lease. *)
GrowsLease(m, leases, x, demand, grown) ==
  /\ m \in Managers /\ ManagerOK(m) /\ Counts(m.active, leases)
  /\ x \in DOMAIN leases /\ demand \in Nat /\ Feasible(m, demand)
  /\ DOMAIN grown = DOMAIN leases /\ grown[x] = GrowPages(m, leases[x], demand).pages
  /\ \A i \in DOMAIN leases : i # x => grown[i] = leases[i]

(* growPages() that finds room: the lease keeps its pages, and those it gets were *)
(* nobody's and are now its own.                                                  *)
LEMMA LeaseGrown ==
  ASSUME NEW m, NEW leases, NEW x, NEW demand, NEW grown,
         GrowsLease(m, leases, x, demand, grown)
  PROVE  LET lease == GrowPages(m, leases[x], demand)
             held == Len(leases[x])
         IN /\ lease.acquired /\ lease.reuse = held
            /\ lease.manager \in Managers /\ ManagerOK(lease.manager) /\ Shrinks(m, lease.manager)
            /\ Counts(lease.manager.active, grown)
            /\ lease.pages \in Seq(Pages) /\ IsInjective(lease.pages)
            /\ Len(lease.pages) = held + demand
            /\ \A i \in 1..held : lease.pages[i] = leases[x][i]
            /\ \A i \in (held + 1)..(held + demand) :
                 /\ m.active[lease.pages[i]] = 0
                 /\ lease.manager.active[lease.pages[i]] = 1
                 /\ lease.manager.cached[lease.pages[i]] = 0
            /\ \A p \in Pages : p \notin Range(lease.pages) =>
                 lease.manager.active[p] = m.active[p]
<1> DEFINE room == Evict(m, demand)
           pages == leases[x]
           held == Len(pages)
           fresh == SubSeq(room.free, 1, demand)
           taken == Range(fresh)
           after == AllocateInto(room, demand)
           lease == GrowPages(m, pages, demand)
           longer == pages \o fresh
<1> USE DEF GrowsLease
<1>1. /\ room \in Managers /\ ManagerOK(room) /\ Shrinks(m, room)
      /\ room.active = m.active /\ Len(room.free) >= demand
  BY RoomMade
<1>2. /\ lease.acquired /\ lease.manager = after /\ lease.pages = longer /\ lease.reuse = held
  BY DEF GrowPages
<1>3. pages \in Seq(Pages) /\ IsInjective(pages) /\ held \in Nat
  BY DEF Counts
<1> HIDE DEF room, lease, pages
<1>4. /\ room.free \in Seq(Pages) /\ room.active \in [Pages -> Nat] /\ room.cached \in [Pages -> Nat]
      /\ room.index \in Indexes /\ room.records \in Seq(Records)
  BY <1>1 DEF Managers
<1>5. /\ IsInjective(room.free)
      /\ Range(room.free) = {p \in Pages : room.active[p] = 0 /\ room.cached[p] = 0}
  BY <1>1 DEF ManagerOK, FreeAreUnused
<1>6. /\ fresh \in Seq(Pages) /\ SubSeq(room.free, demand + 1, Len(room.free)) \in Seq(Pages)
      /\ Len(fresh) = demand /\ IsInjective(fresh)
      /\ IsInjective(SubSeq(room.free, demand + 1, Len(room.free)))
      /\ taken \subseteq Range(room.free)
      /\ Range(SubSeq(room.free, demand + 1, Len(room.free))) = Range(room.free) \ taken
  <2>1. demand \in 0..Len(room.free)
    BY <1>1, <1>4
  <2> QED
    BY <1>4, <1>5, <2>1, CutDiffers
<1> DEFINE active == [p \in Pages |-> IF p \in taken THEN 1 ELSE room.active[p]]
           cached == [p \in Pages |-> IF p \in taken THEN 0 ELSE room.cached[p]]
           left == SubSeq(room.free, demand + 1, Len(room.free))
<1>7. \A p \in taken : p \in Pages /\ room.active[p] = 0 /\ room.cached[p] = 0
  BY <1>5, <1>6
<1>8. active \in [Pages -> Nat] /\ \A p \in Pages : active[p] = IF p \in taken THEN 1 ELSE room.active[p]
  BY <1>4
<1>9. cached = room.cached
  BY <1>4, <1>7
<1>10. after = [room EXCEPT !.free = left, !.active = active, !.cached = cached]
  BY DEF AllocateInto
<1> HIDE DEF taken, active, cached, left, after, fresh
<1>11. /\ after \in Managers /\ after.free = left /\ after.active = active
       /\ after.cached = room.cached /\ after.index = room.index /\ after.records = room.records
  BY <1>1, <1>6, <1>8, <1>9, <1>10 DEF Managers, left
<1>12. FreeAreUnused(after)
  <2>1. IsInjective(after.free) /\ Range(after.free) = Range(room.free) \ taken
    BY <1>6, <1>11 DEF left, taken
  <2>2. Range(room.free) \ taken = {p \in Pages : active[p] = 0 /\ room.cached[p] = 0}
    BY <1>5, <1>8
  <2> QED
    BY <1>11, <2>1, <2>2 DEF FreeAreUnused
<1>13. ManagerOK(after)
  BY <1>1, <1>11, <1>12 DEF ManagerOK, IndexIsOfCached, RecordsIndexed
<1>14. Shrinks(m, after)
  BY <1>1, <1>11 DEF Shrinks
<1>15. \A p \in Range(pages) : p \in Pages /\ room.active[p] > 0 /\ p \notin taken
  <2>1. ASSUME NEW p \in Range(pages) PROVE p \in Pages /\ room.active[p] > 0 /\ p \notin taken
    <3>1. p \in Pages
      BY <1>3, RangeOfSeq
    <3>2. m.active[p] > 0
      BY <3>1, CountedIsHeld DEF pages
    <3> QED
      BY <1>1, <1>7, <3>1, <3>2
  <2> QED
    BY <2>1
<1>16. longer \in Seq(Pages) /\ IsInjective(longer)
  BY <1>3, <1>6, <1>15, JoinDiffers DEF taken
<1>17. Range(longer) = Range(pages) \cup taken
  BY <1>3, <1>6, RangeOfJoin DEF taken
<1>18. /\ Len(longer) = held + demand
       /\ \A i \in 1..held : longer[i] = pages[i]
       /\ \A i \in (held + 1)..(held + demand) : longer[i] \in taken
  <2>1. ASSUME NEW i \in (held + 1)..(held + demand) PROVE longer[i] \in taken
    <3>1. i - held \in 1..demand /\ longer[i] = fresh[i - held]
      BY <1>3, <1>6
    <3>2. DOMAIN fresh = 1..demand
      BY <1>6
    <3> QED
      BY <3>1, <3>2 DEF taken, Range
  <2>2. Len(fresh) = demand /\ fresh \in Seq(Pages)
    BY <1>6
  <2>3. Len(longer) = Len(pages) + Len(fresh) /\ \A i \in 1..Len(pages) : longer[i] = pages[i]
    BY <1>3, <2>2
  <2> QED
    BY <2>1, <2>2, <2>3
<1> HIDE DEF longer
<1>19. Counts(active, grown)
  <2>1. \A p \in taken : m.active[p] = 0
    BY <1>1, <1>7
  <2>2. taken \in SUBSET Pages
    BY <1>7
  <2>3. m.active \in [Pages -> Nat]
    BY DEF Managers
  <2>4. grown[x] = longer
    BY <1>2 DEF lease, pages
  <2>5. Range(longer) = Range(leases[x]) \cup taken
    BY <1>17 DEF pages
  <2>6. \A p \in Pages : active[p] = IF p \in taken THEN 1 ELSE m.active[p]
    BY <1>1, <1>8
  <2>7. TakesPages(m.active, leases, x, taken, longer, grown, active)
    BY <1>16, <2>1, <2>2, <2>4, <2>5, <2>6 DEF TakesPages
  <2> QED
    BY <2>7, ListGrown
<1>20. \A i \in (held + 1)..(held + demand) :
         m.active[longer[i]] = 0 /\ active[longer[i]] = 1 /\ room.cached[longer[i]] = 0
  BY <1>1, <1>7, <1>8, <1>18
<1>21. \A p \in Pages : p \notin Range(longer) => active[p] = m.active[p]
  BY <1>1, <1>8, <1>17
<1> QED
  BY <1>2, <1>11, <1>13, <1>14, <1>16, <1>18, <1>19, <1>20, <1>21 DEF lease, pages

-----------------------------------------------------------------------------
(* Leases.                                                                   *)

(* A plan reuses indexed blocks, and leaves a token to compute. *)
Reusable(m, tokens, blocks) ==
  /\ blocks \in Nat /\ blocks * PageSize < Len(tokens)
  /\ \A i \in 1..blocks : Block(tokens, i) \in DOMAIN m.index

(* No block is a reuse. *)
LEMMA NothingReused ==
  ASSUME NEW m, NEW tokens \in Seq(Tokens), Len(tokens) >= 1
  PROVE  Reusable(m, tokens, 0)
  BY PageSizeAssumption DEF Reusable

(* The plan's blocks are in the index, and leave a token of the input to compute *)
(* (rewind).                                                                     *)
LEMMA ReusableIsReusable ==
  ASSUME NEW m, NEW tokens \in Seq(Tokens), Len(tokens) >= 1
  PROVE  Reusable(m, tokens, ReusableBlocks(m, tokens))
<1> DEFINE n == Len(tokens)
           most == n \div PageSize
           S == {k \in 0..most : \A i \in 1..k : Block(tokens, i) \in DOMAIN m.index}
           matched == Matched(m, tokens)
<1>1. n \in Nat /\ n >= 1
  OBVIOUS
<1>2. most \in Nat /\ most * PageSize <= n
  BY <1>1, WholePages
<1>3. matched = Max(S)
  BY DEF Matched
<1> HIDE DEF n, most, matched
<1>4. S \subseteq 0..most /\ 0 \in S
  BY <1>2
<1>5. matched \in S
  <2> HIDE DEF S
  <2>1. S # {}
    BY <1>4
  <2>2. \E x \in S : \A y \in S : y <= x
    BY <1>2, <1>4, <2>1, GreatestNumber
  <2>3. \E x \in S : \A y \in S : x >= y
    <3>1. \A x \in S : x \in Int
      BY <1>4
    <3> QED
      BY <2>2, <3>1
  <2> QED
    BY <1>3, <2>3 DEF Max
<1>6. /\ matched \in Nat /\ matched <= most
      /\ \A i \in 1..matched : Block(tokens, i) \in DOMAIN m.index
  BY <1>2, <1>5
<1>7. matched * PageSize \in Nat /\ matched * PageSize <= n
  <2>1. matched * PageSize <= most * PageSize /\ matched * PageSize \in Nat
    BY <1>2, <1>6, TimesPageSize
  <2>2. most * PageSize \in Nat
    BY <1>2, TimesPageSize
  <2> QED
    BY <1>1, <1>2, <2>1, <2>2
<1>8. CASE matched > 0 /\ matched * PageSize = n
  <2>1. ReusableBlocks(m, tokens) = matched - 1
    BY <1>8 DEF ReusableBlocks, matched, n
  <2>2. matched - 1 \in Nat /\ matched - 1 < matched
    BY <1>6, <1>8
  <2>3. (matched - 1) * PageSize + PageSize <= matched * PageSize
    BY <1>6, <2>2, BlocksApart
  <2>4. (matched - 1) * PageSize \in Nat
    BY <2>2, TimesPageSize
  <2>5. (matched - 1) * PageSize < n
    BY <1>1, <1>7, <1>8, <2>3, <2>4, PageSizeAssumption
  <2> QED
    BY <1>6, <2>1, <2>2, <2>5 DEF Reusable, n
<1>9. CASE ~(matched > 0 /\ matched * PageSize = n)
  <2>1. ReusableBlocks(m, tokens) = matched
    BY <1>9 DEF ReusableBlocks, matched, n
  <2>2. matched * PageSize < n
    <3>1. CASE matched = 0
      BY <1>1, <3>1, PageSizeAssumption
    <3>2. CASE matched # 0
      BY <1>1, <1>6, <1>7, <1>9, <3>2
    <3> QED
      BY <3>1, <3>2
  <2> QED
    BY <1>6, <2>1, <2>2 DEF Reusable, n
<1> QED
  BY <1>8, <1>9

(* The pages that a plan would reuse. *)
Bound(m, tokens, blocks) == [i \in 1 .. blocks |-> m.index[Block(tokens, i)]]

(* The manager with the reused pages leased once more. *)
Pinned(m, bound) == [m EXCEPT !.active = AddRefs(@, bound)]

(* The pages of the reused blocks are cached and all different. *)
LEMMA BoundPages ==
  ASSUME NEW m \in Managers, ManagerOK(m), NEW tokens \in Seq(Tokens), NEW blocks,
         Reusable(m, tokens, blocks)
  PROVE  LET bound == Bound(m, tokens, blocks) IN
         /\ bound \in Seq(Pages) /\ Len(bound) = blocks /\ IsInjective(bound)
         /\ \A i \in 1..blocks : /\ bound[i] = m.index[Block(tokens, i)]
                                 /\ m.cached[bound[i]] > 0
         /\ \A p \in Range(bound) : p \in Pages /\ m.cached[p] > 0
<1> DEFINE bound == Bound(m, tokens, blocks)
<1>1. /\ blocks \in Nat /\ Len(tokens) \in Nat
      /\ blocks * PageSize < Len(tokens)
      /\ \A i \in 1..blocks : Block(tokens, i) \in DOMAIN m.index
  BY DEF Reusable
<1>2. /\ IsInjective(m.index) /\ Range(m.index) = {p \in Pages : m.cached[p] > 0}
  BY DEF ManagerOK, IndexIsOfCached
<1>3. \A i \in 1..blocks : m.index[Block(tokens, i)] \in Range(m.index)
  BY <1>1 DEF Range
<1>4. \A i \in 1..blocks : /\ m.index[Block(tokens, i)] \in Pages
                           /\ m.cached[m.index[Block(tokens, i)]] > 0
  BY <1>2, <1>3
<1>5. /\ bound \in Seq(Pages) /\ Len(bound) = blocks /\ DOMAIN bound = 1..blocks
      /\ \A i \in 1..blocks : bound[i] = m.index[Block(tokens, i)]
  BY <1>1, <1>4 DEF Bound
<1>6. \A i \in 1..blocks : i \in Nat /\ i * PageSize <= Len(tokens)
  <2>1. ASSUME NEW i \in 1..blocks PROVE i \in Nat /\ i * PageSize <= Len(tokens)
    <3>1. i \in Nat /\ i <= blocks
      BY <1>1
    <3>2. i * PageSize <= blocks * PageSize /\ i * PageSize \in Nat /\ blocks * PageSize \in Nat
      BY <1>1, <3>1, TimesPageSize
    <3> QED
      BY <1>1, <3>1, <3>2
  <2> QED
    BY <2>1
<1> HIDE DEF bound
<1>7. IsInjective(bound)
  <2>1. ASSUME NEW i \in 1..blocks, NEW j \in 1..blocks, bound[i] = bound[j] PROVE i = j
    <3>1. Block(tokens, i) = Block(tokens, j)
      BY <1>1, <1>2, <1>5, <2>1 DEF IsInjective
    <3>2. Len(Block(tokens, i)) = i * PageSize /\ Len(Block(tokens, j)) = j * PageSize
      BY <1>6, BlockOfTokens
    <3> QED
      BY <1>6, <3>1, <3>2, TimesPageSize
  <2> QED
    BY <1>5, <2>1 DEF IsInjective
<1>8. ASSUME NEW p \in Range(bound) PROVE p \in Pages /\ m.cached[p] > 0
  <2>1. PICK i \in 1..blocks : p = bound[i]
    BY <1>5 DEF Range
  <2> QED
    BY <1>4, <1>5, <2>1
<1>9. \A i \in 1..blocks : bound[i] = m.index[Block(tokens, i)] /\ m.cached[bound[i]] > 0
  BY <1>4, <1>5
<1> QED
  BY <1>5, <1>7, <1>8, <1>9 DEF bound

(* Pinning the reused pages. *)
PinsPages(m, leases, x, bound, more) ==
  /\ m \in Managers /\ ManagerOK(m) /\ Counts(m.active, leases)
  /\ x \notin DOMAIN leases /\ bound \in Seq(Pages) /\ IsInjective(bound)
  /\ \A p \in Range(bound) : p \in Pages /\ m.cached[p] > 0
  /\ DOMAIN more = DOMAIN leases \cup {x} /\ more[x] = bound
  /\ \A i \in DOMAIN leases : more[i] = leases[i]

(* Pinning the reused pages is a lease more. *)
LEMMA PagesPinned ==
  ASSUME NEW m, NEW leases, NEW x, NEW bound, NEW more, PinsPages(m, leases, x, bound, more)
  PROVE  LET pinned == Pinned(m, bound) IN
         /\ pinned \in Managers /\ ManagerOK(pinned) /\ Counts(pinned.active, more)
         /\ pinned.cached = m.cached /\ pinned.index = m.index /\ pinned.records = m.records
         /\ pinned.free = m.free
         /\ \A p \in Pages : pinned.active[p] =
              IF p \in Range(bound) THEN m.active[p] + 1 ELSE m.active[p]
<1> DEFINE active == AddRefs(m.active, bound)
           pinned == Pinned(m, bound)
<1> USE DEF PinsPages
<1>1. m.active \in [Pages -> Nat]
  BY DEF Managers
<1>2. active \in [Pages -> Nat] /\ Counts(active, more)
  <2>1. AddsList(m.active, leases, x, bound, more)
    BY <1>1 DEF AddsList
  <2> QED
    BY <2>1, ListAdded
<1>3. \A p \in Pages : active[p] = IF p \in Range(bound) THEN m.active[p] + 1 ELSE m.active[p]
  BY DEF AddRefs
<1> HIDE DEF active
<1>4. /\ pinned \in Managers /\ pinned.active = active
      /\ pinned.cached = m.cached /\ pinned.index = m.index
      /\ pinned.records = m.records /\ pinned.free = m.free
  BY <1>2 DEF Pinned, Managers, active
<1> HIDE DEF pinned
<1>5. FreeAreUnused(pinned)
  <2>1. IsInjective(m.free) /\ Range(m.free) = {p \in Pages : m.active[p] = 0 /\ m.cached[p] = 0}
    BY DEF ManagerOK, FreeAreUnused
  <2>2. \A p \in Pages : active[p] = 0 /\ m.cached[p] = 0 <=> m.active[p] = 0 /\ m.cached[p] = 0
    <3>1. ASSUME NEW p \in Pages
          PROVE  active[p] = 0 /\ m.cached[p] = 0 <=> m.active[p] = 0 /\ m.cached[p] = 0
      <4>1. m.active[p] \in Nat /\ m.cached[p] \in Nat
        BY DEF Managers
      <4>2. CASE p \in Range(bound)
        BY <4>1, <4>2
      <4>3. CASE p \notin Range(bound)
        BY <1>3, <4>3
      <4> QED
        BY <4>2, <4>3
    <3> QED
      BY <3>1
  <2> QED
    BY <1>4, <2>1, <2>2 DEF FreeAreUnused
<1>6. ManagerOK(pinned)
  BY <1>4, <1>5 DEF ManagerOK, IndexIsOfCached, RecordsIndexed
<1> QED
  BY <1>2, <1>3, <1>4, <1>6 DEF pinned

(* What a lease that was acquired is, for the tokens it was acquired for. *)
AcquiredFor(m, lease, tokens) ==
  /\ lease.reuse \in Nat /\ lease.reuse * PageSize < Len(tokens)
  /\ lease.pages \in Seq(Pages) /\ IsInjective(lease.pages)
  /\ Len(lease.pages) = PagesFor(Len(tokens) + 1)
  /\ lease.reuse <= Len(lease.pages)
  /\ \A i \in 1..lease.reuse :
       /\ Block(tokens, i) \in DOMAIN m.index
       /\ lease.pages[i] = m.index[Block(tokens, i)] /\ m.cached[lease.pages[i]] > 0
  /\ \A i \in (lease.reuse + 1)..Len(lease.pages) :
       /\ m.active[lease.pages[i]] = 0
       /\ lease.manager.active[lease.pages[i]] = 1
       /\ lease.manager.cached[lease.pages[i]] = 0
  /\ \A p \in Pages : p \notin Range(lease.pages) => lease.manager.active[p] = m.active[p]

(* A lease more, or none and nothing changed but for what was evicted. *)
Acquires(m, leases, x, lease, tokens, more) ==
  /\ lease.acquired \in BOOLEAN
  /\ lease.manager \in Managers /\ ManagerOK(lease.manager) /\ Shrinks(m, lease.manager)
  /\ lease.acquired => /\ AcquiredFor(m, lease, tokens)
                       /\ Counts(lease.manager.active, more)
  /\ ~lease.acquired => lease.manager = m

(* A manager and the leases it counts, before and after one lease more. *)
MayAcquire(m, leases, x, pages, more) ==
  /\ m \in Managers /\ ManagerOK(m) /\ Counts(m.active, leases)
  /\ x \notin DOMAIN leases
  /\ DOMAIN more = DOMAIN leases \cup {x} /\ more[x] = pages
  /\ \A i \in DOMAIN leases : more[i] = leases[i]

(* acquire() of a plan: a lease as long as input and one token need, reused pages *)
(* first; a refusal leaves no trace.                                              *)
LEMMA PlanAcquires ==
  ASSUME NEW m, NEW leases, NEW x, NEW more, NEW tokens \in Seq(Tokens), Len(tokens) >= 1,
         NEW blocks, Reusable(m, tokens, blocks),
         MayAcquire(m, leases, x, AcquirePlan(m, tokens, blocks).pages, more)
  PROVE  Acquires(m, leases, x, AcquirePlan(m, tokens, blocks), tokens, more)
<1> DEFINE bound == Bound(m, tokens, blocks)
           pinned == Pinned(m, bound)
           demand == PagesFor(Len(tokens) + 1) - blocks
           lease == GrowPages(pinned, bound, demand)
           plan == AcquirePlan(m, tokens, blocks)
           held == [i \in DOMAIN more |-> IF i = x THEN bound ELSE leases[i]]
<1>1. plan = IF lease.acquired THEN lease ELSE Refused(m)
  BY DEF AcquirePlan, Bound, Pinned
<1>2. /\ m \in Managers /\ ManagerOK(m) /\ Counts(m.active, leases)
      /\ x \notin DOMAIN leases
      /\ DOMAIN more = DOMAIN leases \cup {x} /\ more[x] = plan.pages
      /\ \A i \in DOMAIN leases : more[i] = leases[i]
  BY DEF MayAcquire
<1>3. /\ bound \in Seq(Pages) /\ Len(bound) = blocks /\ IsInjective(bound)
      /\ \A i \in 1..blocks : /\ bound[i] = m.index[Block(tokens, i)]
                              /\ m.cached[bound[i]] > 0
      /\ \A p \in Range(bound) : p \in Pages /\ m.cached[p] > 0
  BY <1>2, BoundPages
<1> HIDE DEF bound, plan, lease
<1>4. PinsPages(m, leases, x, bound, held)
  BY <1>2, <1>3 DEF PinsPages
<1>5. /\ pinned \in Managers /\ ManagerOK(pinned) /\ Counts(pinned.active, held)
      /\ pinned.cached = m.cached /\ pinned.index = m.index
      /\ \A p \in Pages : pinned.active[p] =
           IF p \in Range(bound) THEN m.active[p] + 1 ELSE m.active[p]
  BY <1>4, PagesPinned
<1>6. /\ blocks \in Nat /\ blocks * PageSize < Len(tokens)
      /\ \A i \in 1..blocks : Block(tokens, i) \in DOMAIN m.index
  BY DEF Reusable
<1>7. demand \in Nat /\ PagesFor(Len(tokens) + 1) \in Nat
  <2>1. Len(tokens) + 1 \in Nat
    OBVIOUS
  <2>2. /\ PagesFor(Len(tokens) + 1) \in Nat
        /\ PagesFor(Len(tokens) + 1) <= blocks => Len(tokens) + 1 <= blocks * PageSize
    BY <1>6, <2>1, PagesForLength
  <2>3. blocks * PageSize \in Nat
    BY <1>6, TimesPageSize
  <2>4. ~(PagesFor(Len(tokens) + 1) <= blocks)
    BY <1>6, <2>1, <2>2, <2>3
  <2> QED
    BY <1>6, <2>2, <2>4
<1> HIDE DEF pinned, demand
<1>8. CASE Feasible(pinned, demand)
  <2>0. lease.acquired = TRUE
    BY <1>8 DEF lease, GrowPages
  <2>1. plan = lease
    BY <1>1, <2>0
  <2>2. GrowsLease(pinned, held, x, demand, more)
    <3>1. DOMAIN held = DOMAIN more /\ x \in DOMAIN held /\ held[x] = bound
      BY <1>2
    <3>2. more[x] = GrowPages(pinned, held[x], demand).pages
      BY <1>2, <2>1, <3>1 DEF lease
    <3>3. \A i \in DOMAIN held : i # x => more[i] = held[i]
      BY <1>2
    <3> HIDE DEF held
    <3> QED
      BY <1>5, <1>7, <1>8, <3>1, <3>2, <3>3 DEF GrowsLease
  <2>3. held[x] = bound
    BY <1>2
  <2> HIDE DEF held
  <2>4. lease = GrowPages(pinned, held[x], demand) /\ Len(held[x]) = blocks
    BY <1>3, <2>3 DEF lease
  <2>5. /\ lease.acquired /\ lease.reuse = blocks
        /\ lease.manager \in Managers /\ ManagerOK(lease.manager) /\ Shrinks(pinned, lease.manager)
        /\ Counts(lease.manager.active, more)
        /\ lease.pages \in Seq(Pages) /\ IsInjective(lease.pages)
        /\ Len(lease.pages) = blocks + demand
        /\ \A i \in 1..blocks : lease.pages[i] = held[x][i]
        /\ \A i \in (blocks + 1)..(blocks + demand) :
             /\ pinned.active[lease.pages[i]] = 0
             /\ lease.manager.active[lease.pages[i]] = 1
             /\ lease.manager.cached[lease.pages[i]] = 0
        /\ \A p \in Pages : p \notin Range(lease.pages) =>
             lease.manager.active[p] = pinned.active[p]
    BY <2>2, <2>4, LeaseGrown
  <2>6. Len(lease.pages) = PagesFor(Len(tokens) + 1)
    BY <1>6, <1>7, <2>5 DEF demand
  <2>7. Shrinks(m, lease.manager)
    BY <1>5, <2>5 DEF Shrinks
  <2>8. \A i \in 1..Len(lease.pages) : lease.pages[i] \in Pages /\ lease.pages[i] \in Range(lease.pages)
    BY <2>5 DEF Range
  <2>9. ASSUME NEW i \in (blocks + 1)..Len(lease.pages) PROVE m.active[lease.pages[i]] = 0
    <3>1. i \in 1..Len(lease.pages) /\ i \in (blocks + 1)..(blocks + demand)
      BY <1>6, <2>5
    <3>2. pinned.active[lease.pages[i]] = 0 /\ lease.pages[i] \in Pages
      BY <2>5, <2>8, <3>1
    <3>3. m.active[lease.pages[i]] \in Nat
      BY <1>2, <3>2 DEF Managers
    <3> QED
      BY <1>5, <3>2, <3>3
  <2>10. ASSUME NEW p \in Pages, p \notin Range(lease.pages)
         PROVE  lease.manager.active[p] = m.active[p]
    <3>1. p \notin Range(bound)
      <4>1. SUFFICES ASSUME p \in Range(bound) PROVE FALSE
        OBVIOUS
      <4>2. PICK i \in 1..blocks : p = bound[i]
        BY <1>3, <4>1 DEF Range
      <4>3. i \in 1..Len(lease.pages) /\ lease.pages[i] = p
        BY <1>6, <1>7, <2>3, <2>5, <4>2
      <4> QED
        BY <2>8, <2>10, <4>3
    <3> QED
      BY <1>5, <2>5, <2>10, <3>1
  <2>11. AcquiredFor(m, lease, tokens)
    <3>1. lease.reuse = blocks /\ blocks <= Len(lease.pages)
      BY <1>6, <1>7, <2>5
    <3>2. \A i \in 1..blocks : /\ lease.pages[i] = m.index[Block(tokens, i)]
                               /\ m.cached[lease.pages[i]] > 0
      BY <1>3, <2>3, <2>5
    <3>3. \A i \in (blocks + 1)..Len(lease.pages) :
            /\ lease.manager.active[lease.pages[i]] = 1
            /\ lease.manager.cached[lease.pages[i]] = 0
      BY <2>5
    <3> QED
      BY <1>6, <2>5, <2>6, <2>9, <2>10, <3>1, <3>2, <3>3 DEF AcquiredFor
  <2>12. Acquires(m, leases, x, lease, tokens, more)
    BY <2>0, <2>5, <2>7, <2>11 DEF Acquires
  <2> QED
    BY <2>1, <2>12 DEF plan
<1>9. CASE ~Feasible(pinned, demand)
  <2>1. lease = Refused(pinned)
    BY <1>9 DEF lease, GrowPages
  <2>2. ~lease.acquired
    BY <2>1 DEF Refused
  <2>3. plan = Refused(m)
    BY <1>1, <2>2
  <2>4. plan.acquired = FALSE /\ plan.manager = m
    BY <2>3 DEF Refused
  <2>5. Shrinks(m, m)
    BY DEF Shrinks
  <2> QED
    BY <1>2, <2>4, <2>5 DEF Acquires, plan
<1>10. QED
  BY <1>8, <1>9 DEF plan

(* acquireSequence(), with reuse or without. *)
LEMMA SequenceAcquires ==
  ASSUME NEW m, NEW leases, NEW x, NEW more, NEW tokens \in Seq(Tokens), Len(tokens) >= 1,
         NEW lookup \in BOOLEAN,
         MayAcquire(m, leases, x, Acquire(m, tokens, lookup).pages, more)
  PROVE  Acquires(m, leases, x, Acquire(m, tokens, lookup), tokens, more)
<1> DEFINE blocks == IF lookup THEN ReusableBlocks(m, tokens) ELSE 0
           planned == AcquirePlan(m, tokens, blocks)
           cold == AcquirePlan(m, tokens, 0)
<1>1. Reusable(m, tokens, blocks) /\ Reusable(m, tokens, 0)
  BY ReusableIsReusable, NothingReused
<1>2. Acquire(m, tokens, lookup) = IF planned.acquired THEN planned ELSE cold
  BY DEF Acquire
<1> HIDE DEF blocks
<1>3. CASE planned.acquired
  <2>1. Acquire(m, tokens, lookup) = planned
    BY <1>2, <1>3
  <2> QED
    BY <1>1, <2>1, PlanAcquires
<1>4. CASE ~planned.acquired
  <2>1. Acquire(m, tokens, lookup) = cold
    BY <1>2, <1>4
  <2> QED
    BY <1>1, <2>1, PlanAcquires
<1> QED
  BY <1>3, <1>4

-----------------------------------------------------------------------------
(* Publication.                                                              *)

(* A sequence with an item more. *)
LEMMA AppendItems ==
  ASSUME NEW T, NEW s \in Seq(T), NEW e \in T
  PROVE  /\ Append(s, e) \in Seq(T) /\ Len(Append(s, e)) = Len(s) + 1
         /\ DOMAIN Append(s, e) = 1..(Len(s) + 1)
         /\ Append(s, e)[Len(s) + 1] = e
         /\ \A i \in 1..Len(s) : Append(s, e)[i] = s[i]
         /\ Range(Append(s, e)) = Range(s) \cup {e}
<1> DEFINE t == Append(s, e)
           n == Len(s)
<1>1. /\ n \in Nat /\ DOMAIN s = 1..n
      /\ t \in Seq(T) /\ Len(t) = n + 1 /\ DOMAIN t = 1..(n + 1)
      /\ t[n + 1] = e /\ \A i \in 1..n : t[i] = s[i]
  OBVIOUS
<1> HIDE DEF t, n
<1>2. ASSUME NEW x \in Range(t) PROVE x \in Range(s) \cup {e}
  <2>1. PICK i \in 1..(n + 1) : x = t[i]
    BY <1>1 DEF Range
  <2>2. CASE i = n + 1
    BY <1>1, <2>1, <2>2
  <2>3. CASE i # n + 1
    <3>1. i \in 1..n
      BY <1>1, <2>3
    <3> QED
      BY <1>1, <2>1, <3>1 DEF Range
  <2> QED
    BY <2>2, <2>3
<1>3. ASSUME NEW x \in Range(s) PROVE x \in Range(t)
  <2>1. PICK i \in 1..n : x = s[i]
    BY <1>1 DEF Range
  <2>2. i \in 1..(n + 1) /\ t[i] = x
    BY <1>1, <2>1
  <2> QED
    BY <1>1, <2>2 DEF Range
<1>4. e \in Range(t)
  <2>1. n + 1 \in 1..(n + 1)
    BY <1>1
  <2> QED
    BY <1>1, <2>1 DEF Range
<1>5. Range(t) = Range(s) \cup {e}
  BY <1>2, <1>3, <1>4
<1> QED
  BY <1>1, <1>5 DEF t, n

(* A record that is touched goes behind the others. *)
LEMMA MovedToEnd ==
  ASSUME NEW T, NEW s \in Seq(T), NEW i \in DOMAIN s
  PROVE  LET t == Append(RemoveAt(s, i), s[i])
             At(k) == IF k < i THEN k ELSE IF k < Len(s) THEN k + 1 ELSE i
         IN /\ t \in Seq(T) /\ Len(t) = Len(s)
            /\ \A k \in 1..Len(s) : At(k) \in 1..Len(s) /\ t[k] = s[At(k)]
            /\ Range(t) = Range(s)
<1> DEFINE n == Len(s)
           a == SubSeq(s, 1, i - 1)
           b == SubSeq(s, i + 1, n)
           r == a \o b
           t == Append(r, s[i])
           At(k) == IF k < i THEN k ELSE IF k < n THEN k + 1 ELSE i
<1>1. n \in Nat /\ DOMAIN s = 1..n /\ i \in Nat /\ 1 <= i /\ i <= n /\ s[i] \in T
  OBVIOUS
<1>2. /\ a \in Seq(T) /\ Len(a) = i - 1 /\ \A k \in 1..(i - 1) : a[k] = s[k]
      /\ b \in Seq(T) /\ Len(b) = n - i /\ \A k \in 1..(n - i) : b[k] = s[i + k]
  BY <1>1
<1>3. RemoveAt(s, i) = r
  BY DEF RemoveAt
<1> HIDE DEF a, b
<1>4. /\ r \in Seq(T) /\ Len(r) = (i - 1) + (n - i)
      /\ \A k \in 1..((i - 1) + (n - i)) : r[k] = IF k <= i - 1 THEN a[k] ELSE b[k - (i - 1)]
  <2>1. /\ a \o b \in Seq(T) /\ Len(a \o b) = Len(a) + Len(b)
        /\ \A k \in 1..(Len(a) + Len(b)) :
             (a \o b)[k] = IF k <= Len(a) THEN a[k] ELSE b[k - Len(a)]
    BY <1>2, ConcatProperties
  <2> QED
    BY <1>2, <2>1
<1> HIDE DEF n, r
<1>5. Len(r) = n - 1
  BY <1>1, <1>4
<1>6. t \in Seq(T) /\ Len(t) = n /\ t[n] = s[i] /\ \A k \in 1..(n - 1) : t[k] = r[k]
  <2>1. /\ Append(r, s[i]) \in Seq(T) /\ Len(Append(r, s[i])) = Len(r) + 1
        /\ Append(r, s[i])[Len(r) + 1] = s[i]
        /\ \A k \in 1..Len(r) : Append(r, s[i])[k] = r[k]
    BY <1>1, <1>4, AppendItems
  <2> QED
    BY <1>1, <1>5, <2>1
<1> HIDE DEF t
<1>7. ASSUME NEW k \in 1..n PROVE At(k) \in 1..n /\ t[k] = s[At(k)]
  <2>1. CASE k < i
    <3>1. k \in 1..(n - 1) /\ k \in 1..(i - 1) /\ k \in 1..((i - 1) + (n - i))
      BY <1>1, <2>1
    <3> QED
      BY <1>1, <1>2, <1>4, <1>6, <2>1, <3>1
  <2>2. CASE ~(k < i) /\ k < n
    <3>1. k \in 1..(n - 1) /\ k \in 1..((i - 1) + (n - i)) /\ ~(k <= i - 1)
      BY <1>1, <2>2
    <3>2. t[k] = b[k - (i - 1)]
      BY <1>4, <1>6, <3>1
    <3>3. k - (i - 1) \in 1..(n - i) /\ i + (k - (i - 1)) = k + 1
      BY <1>1, <2>2
    <3>4. t[k] = s[k + 1]
      BY <1>2, <3>2, <3>3
    <3> QED
      BY <1>1, <2>2, <3>4
  <2>3. CASE ~(k < i) /\ ~(k < n)
    <3>1. k = n
      BY <1>1, <2>3
    <3> QED
      BY <1>1, <1>6, <2>3, <3>1
  <2> QED
    BY <2>1, <2>2, <2>3
<1>8. DOMAIN t = 1..n
  BY <1>6
<1>9. ASSUME NEW x \in Range(t) PROVE x \in Range(s)
  BY <1>1, <1>7, <1>8 DEF Range
<1>10. ASSUME NEW x \in Range(s) PROVE x \in Range(t)
  <2>1. PICK j \in 1..n : x = s[j]
    BY <1>1 DEF Range
  <2> DEFINE k == IF j < i THEN j ELSE IF j = i THEN n ELSE j - 1
  <2>2. k \in 1..n /\ At(k) = j
    BY <1>1
  <2>3. t[k] = x
    BY <1>7, <2>1, <2>2
  <2> QED
    BY <1>8, <2>2, <2>3 DEF Range
<1>11. Range(t) = Range(s)
  BY <1>9, <1>10
<1> QED
  BY <1>3, <1>6, <1>7, <1>11 DEF n, t

(* Publishing a block that has a record only moves the record to the end. *)
LEMMA RecordTouched ==
  ASSUME NEW m \in Managers, ManagerOK(m), NEW i \in DOMAIN m.records
  PROVE  LET touched == Touch(m, i) IN
         /\ touched \in Managers /\ ManagerOK(touched)
         /\ touched.active = m.active /\ touched.cached = m.cached /\ touched.index = m.index
         /\ touched.free = m.free
<1> DEFINE s == m.records
           t == Append(RemoveAt(s, i), s[i])
           n == Len(s)
           At(k) == IF k < i THEN k ELSE IF k < n THEN k + 1 ELSE i
           touched == Touch(m, i)
<1>1. s \in Seq(Records) /\ n \in Nat /\ DOMAIN s = 1..n
  BY DEF Managers
<1>2. touched = [m EXCEPT !.records = t]
  BY DEF Touch
<1>3. /\ t \in Seq(Records) /\ Len(t) = n
      /\ \A k \in 1..n : At(k) \in 1..n /\ t[k] = s[At(k)]
      /\ Range(t) = Range(s)
  <2> HIDE DEF s
  <2>1. i \in DOMAIN s
    BY DEF s
  <2> QED
    BY <1>1, <2>1, MovedToEnd
<1> HIDE DEF t
<1>4. /\ touched \in Managers /\ touched.records = t /\ touched.active = m.active
      /\ touched.cached = m.cached /\ touched.index = m.index /\ touched.free = m.free
  BY <1>2, <1>3 DEF Managers
<1>5. PathsOf(t) = PathsOf(s)
  BY <1>3 DEF PathsOf
<1>6. /\ \A r \in Range(s) :
           /\ Len(r.block) = Len(r.pages) * PageSize
           /\ \A j \in DOMAIN r.pages : /\ Block(r.block, j) \in DOMAIN m.index
                                        /\ m.index[Block(r.block, j)] = r.pages[j]
      /\ \A j, k \in DOMAIN s : s[j].block = s[k].block => j = k
  BY DEF ManagerOK, RecordsIndexed
<1> HIDE DEF s, n
<1>7. ASSUME NEW j \in 1..n, NEW k \in 1..n, t[j].block = t[k].block PROVE j = k
  <2>1. At(j) = At(k)
    BY <1>1, <1>3, <1>6, <1>7
  <2>2. i \in 1..n
    BY <1>1 DEF s
  <2> QED
    BY <1>1, <2>1, <2>2
<1>8. DOMAIN t = 1..n
  BY <1>3
<1>9. RecordsIndexed(touched)
  BY <1>3, <1>4, <1>6, <1>7, <1>8 DEF RecordsIndexed
<1>10. ManagerOK(touched)
  BY <1>4, <1>5, <1>9 DEF ManagerOK, FreeAreUnused, IndexIsOfCached, s
<1> QED
  BY <1>4, <1>10 DEF touched

(* The types of a row's fields. *)
LEMMA RowFields ==
  ASSUME NEW row \in Rows
  PROVE  /\ row.slot \in Slots /\ row.pages \in Seq(Pages) /\ row.tokens \in Seq(Tokens)
         /\ row.input \in Nat /\ row.lookup \in BOOLEAN /\ row.committed \in Nat
         /\ row.published \in Nat /\ row.ended \in {"no", "finished", "dropped"}
         /\ Len(row.tokens) \in Nat /\ Len(row.pages) \in Nat
         /\ DOMAIN row.pages = 1..Len(row.pages)
         /\ \A i \in 1..Len(row.pages) : row.pages[i] \in Pages /\ row.pages[i] \in Range(row.pages)
<1>1. /\ row.slot \in Slots /\ row.pages \in Seq(Pages) /\ row.tokens \in Seq(Tokens)
      /\ row.input \in Nat /\ row.lookup \in BOOLEAN /\ row.committed \in Nat
      /\ row.published \in Nat /\ row.ended \in {"no", "finished", "dropped"}
  BY DEF Rows
<1>2. /\ Len(row.tokens) \in Nat /\ Len(row.pages) \in Nat
      /\ DOMAIN row.pages = 1..Len(row.pages)
      /\ \A i \in 1..Len(row.pages) : row.pages[i] \in Pages
  BY <1>1
<1> QED
  BY <1>1, <1>2 DEF Range

(* A row that has committed as many blocks as it publishes. *)
MayPublish(m, rows, k, blocks) ==
  /\ m \in Managers /\ rows \in Seq(Rows) /\ Sound(m, rows) /\ k \in DOMAIN rows
  /\ blocks \in Nat /\ blocks >= 1 /\ blocks * PageSize <= rows[k].committed

(* What the row that publishes is: as many pages, and blocks of its tokens. *)
LEMMA PublisherFacts ==
  ASSUME NEW m, NEW rows, NEW k, NEW blocks, MayPublish(m, rows, k, blocks)
  PROVE  LET row == rows[k] IN
         /\ row \in Rows /\ RowOK(row) /\ RowIndexed(m, row)
         /\ blocks <= Len(row.pages)
         /\ \A i \in 1..blocks : /\ i \in Nat /\ i \in DOMAIN row.pages
                                 /\ i * PageSize <= blocks * PageSize
                                 /\ i * PageSize <= Len(row.tokens)
                                 /\ i * PageSize <= row.committed
                                 /\ Block(row.tokens, i) \in Seq(Tokens)
                                 /\ Len(Block(row.tokens, i)) = i * PageSize
                                 /\ row.pages[i] \in Pages
                                 /\ m.active[row.pages[i]] > 0
         /\ \A i, j \in 1..blocks : Block(row.tokens, i) = Block(row.tokens, j) => i = j
         /\ \A i \in 1..blocks : Block(row.tokens, i) \notin DOMAIN m.index =>
              m.cached[row.pages[i]] = 0
<1> DEFINE row == rows[k]
<1>1. /\ m \in Managers /\ rows \in Seq(Rows) /\ k \in DOMAIN rows
      /\ blocks \in Nat /\ blocks >= 1 /\ blocks * PageSize <= row.committed
      /\ RowOK(row) /\ RowIndexed(m, row) /\ Counts(m.active, PagesOf(rows))
  BY DEF MayPublish, Sound
<1>2. row \in Rows
  BY <1>1
<1> HIDE DEF row
<1>3. /\ row.pages \in Seq(Pages) /\ row.tokens \in Seq(Tokens) /\ row.committed \in Nat
      /\ Len(row.tokens) \in Nat /\ Len(row.pages) \in Nat
      /\ DOMAIN row.pages = 1..Len(row.pages)
      /\ \A i \in 1..Len(row.pages) : row.pages[i] \in Pages /\ row.pages[i] \in Range(row.pages)
  BY <1>2, RowFields
<1>4. row.committed < Len(row.tokens) /\ row.committed <= Len(row.pages) * PageSize
  BY <1>1 DEF RowOK
<1>5. blocks <= Len(row.pages)
  <2>1. blocks * PageSize \in Nat /\ Len(row.pages) * PageSize \in Nat
    BY <1>1, <1>3, TimesPageSize
  <2>2. blocks * PageSize <= Len(row.pages) * PageSize
    BY <1>1, <1>3, <1>4, <2>1
  <2> QED
    BY <1>1, <1>3, <2>2, TimesPageSize
<1>6. ASSUME NEW i \in 1..blocks
      PROVE  /\ i \in Nat /\ i \in DOMAIN row.pages
             /\ i * PageSize <= blocks * PageSize
             /\ i * PageSize <= Len(row.tokens) /\ i * PageSize <= row.committed
             /\ Block(row.tokens, i) \in Seq(Tokens)
             /\ Len(Block(row.tokens, i)) = i * PageSize
             /\ row.pages[i] \in Pages /\ m.active[row.pages[i]] > 0
  <2>1. i \in Nat /\ i <= blocks /\ i \in 1..Len(row.pages)
    BY <1>1, <1>3, <1>5
  <2>2. i * PageSize <= blocks * PageSize /\ i * PageSize \in Nat /\ blocks * PageSize \in Nat
    BY <1>1, <2>1, TimesPageSize
  <2>3. i * PageSize <= Len(row.tokens) /\ i * PageSize <= row.committed
    BY <1>1, <1>3, <1>4, <2>2
  <2>4. Block(row.tokens, i) \in Seq(Tokens) /\ Len(Block(row.tokens, i)) = i * PageSize
    BY <1>3, <2>1, <2>3, BlockOfTokens
  <2>5. k \in DOMAIN PagesOf(rows) /\ PagesOf(rows)[k] = row.pages
    BY <1>1 DEF PagesOf, row
  <2>6. row.pages[i] \in Pages /\ row.pages[i] \in Range(PagesOf(rows)[k])
    BY <1>3, <2>1, <2>5
  <2>7. m.active[row.pages[i]] > 0
    BY <1>1, <2>5, <2>6, CountedIsHeld
  <2> QED
    BY <1>3, <2>1, <2>2, <2>3, <2>4, <2>6, <2>7
<1>7. \A i, j \in 1..blocks : Block(row.tokens, i) = Block(row.tokens, j) => i = j
  BY <1>6, TimesPageSize
<1>8. ASSUME NEW i \in 1..blocks, Block(row.tokens, i) \notin DOMAIN m.index
      PROVE  m.cached[row.pages[i]] = 0
  <2>1. i \in DOMAIN row.pages /\ row.pages[i] \in Pages
    BY <1>6
  <2>2. m.cached[row.pages[i]] \in Nat
    BY <1>1, <2>1 DEF Managers
  <2>3. ~(m.cached[row.pages[i]] > 0)
    BY <1>1, <1>8, <2>1 DEF RowIndexed
  <2> QED
    BY <2>2, <2>3
<1> QED
  BY <1>1, <1>2, <1>5, <1>6, <1>7, <1>8 DEF row

(* The index and the counts once a record is there. *)
Extends(m, added, row, blocks) ==
  /\ DOMAIN m.index \subseteq DOMAIN added.index
  /\ \A b \in DOMAIN m.index : added.index[b] = m.index[b]
  /\ \A i \in 1..blocks : Block(row.tokens, i) \in DOMAIN added.index
  /\ \A i \in 1..blocks : Block(row.tokens, i) \notin DOMAIN m.index =>
       added.index[Block(row.tokens, i)] = row.pages[i]
  /\ \A b \in DOMAIN added.index : b \notin DOMAIN m.index =>
       \E i \in 1..blocks : b = Block(row.tokens, i)
  /\ \A p \in Pages : added.cached[p] > 0 =>
       \/ m.cached[p] > 0
       \/ \E i \in 1..blocks : p = row.pages[i] /\ Block(row.tokens, i) \notin DOMAIN m.index

(* A publication adds a record whose path is the index's page where there is one, and *)
(* the producer's own where not.                                                      *)
LEMMA RecordAdded ==
  ASSUME NEW m, NEW rows, NEW k, NEW blocks, MayPublish(m, rows, k, blocks),
         \A i \in DOMAIN m.records : m.records[i].block # Block(rows[k].tokens, blocks)
  PROVE  LET added == AddRecord(m, rows[k].tokens, rows[k].pages, blocks) IN
         /\ added \in Managers /\ ManagerOK(added) /\ added.active = m.active
         /\ added.records # <<>> /\ Extends(m, added, rows[k], blocks)
<1> DEFINE row == rows[k]
           tokens == row.tokens
           pages == row.pages
           B(i) == Block(tokens, i)
           path == CanonicalPath(m, tokens, pages, blocks)
           index == Mapped(m.index, tokens, pages, blocks)
           cached == AddRefs(m.cached, path)
           record == [block |-> B(blocks), pages |-> path]
           records == Append(m.records, record)
           added == AddRecord(m, tokens, pages, blocks)
<1>1. /\ m \in Managers /\ rows \in Seq(Rows) /\ ManagerOK(m)
      /\ blocks \in Nat /\ blocks >= 1 /\ blocks \in 1..blocks
  BY DEF MayPublish, Sound
<1>2. /\ row \in Rows /\ RowOK(row) /\ blocks <= Len(pages)
      /\ \A i \in 1..blocks : /\ i \in Nat /\ i \in DOMAIN pages
                              /\ i * PageSize <= blocks * PageSize
                              /\ i * PageSize <= Len(tokens)
                              /\ B(i) \in Seq(Tokens) /\ Len(B(i)) = i * PageSize
                              /\ pages[i] \in Pages /\ m.active[pages[i]] > 0
      /\ \A i, j \in 1..blocks : B(i) = B(j) => i = j
      /\ \A i \in 1..blocks : B(i) \notin DOMAIN m.index => m.cached[pages[i]] = 0
  BY PublisherFacts
<1>3. pages \in Seq(Pages) /\ tokens \in Seq(Tokens) /\ IsInjective(pages)
  BY <1>2, RowFields DEF RowOK
<1> HIDE DEF row, tokens, pages
<1>4. /\ m.free \in Seq(Pages) /\ m.active \in [Pages -> Nat] /\ m.cached \in [Pages -> Nat]
      /\ m.index \in Indexes /\ m.records \in Seq(Records)
  BY <1>1 DEF Managers
<1>5. /\ IsInjective(m.index)
      /\ \A b \in DOMAIN m.index : m.index[b] \in Pages /\ m.cached[m.index[b]] > 0
      /\ \A p \in Pages : m.cached[p] > 0 => \E b \in DOMAIN m.index : m.index[b] = p
  <2>1. IsInjective(m.index) /\ Range(m.index) = {p \in Pages : m.cached[p] > 0}
    BY <1>1 DEF ManagerOK, IndexIsOfCached
  <2> QED
    BY <2>1 DEF Range
<1>6. /\ path \in Seq(Pages) /\ Len(path) = blocks /\ DOMAIN path = 1..blocks
      /\ \A i \in 1..blocks : path[i] = IF B(i) \in DOMAIN m.index THEN m.index[B(i)] ELSE pages[i]
  <2>1. path = [i \in 1..blocks |-> IF B(i) \in DOMAIN m.index THEN m.index[B(i)] ELSE pages[i]]
    BY DEF CanonicalPath
  <2>2. \A i \in 1..blocks : path[i] \in Pages
    BY <1>2, <1>5, <2>1
  <2> HIDE DEF path
  <2> QED
    BY <1>1, <2>1, <2>2
<1>7. /\ DOMAIN index = DOMAIN m.index \cup {B(i) : i \in 1..blocks}
      /\ \A b \in DOMAIN m.index : index[b] = m.index[b]
      /\ \A i \in 1..blocks : index[B(i)] = path[i]
  <2>1. index = [b \in DOMAIN m.index \cup {B(i) : i \in 1..blocks} |->
                   IF b \in DOMAIN m.index THEN m.index[b]
                   ELSE pages[CHOOSE i \in 1..blocks : B(i) = b]]
    BY DEF Mapped
  <2>2. ASSUME NEW i \in 1..blocks PROVE index[B(i)] = path[i]
    <3>1. CASE B(i) \in DOMAIN m.index
      BY <1>6, <2>1, <3>1
    <3>2. CASE B(i) \notin DOMAIN m.index
      <4>1. (CHOOSE j \in 1..blocks : B(j) = B(i)) = i
        BY <1>2
      <4>2. index[B(i)] = pages[CHOOSE j \in 1..blocks : B(j) = B(i)]
        BY <2>1, <3>2
      <4>3. path[i] = pages[i]
        BY <1>6, <3>2
      <4> QED
        BY <4>1, <4>2, <4>3
    <3> QED
      BY <3>1, <3>2
  <2> QED
    BY <2>1, <2>2
<1> HIDE DEF path, index
<1>8. /\ \A b \in DOMAIN index : b \in DOMAIN m.index \/ \E i \in 1..blocks : b = B(i)
      /\ \A b \in DOMAIN m.index : b \in DOMAIN index
      /\ \A i \in 1..blocks : B(i) \in DOMAIN index
  BY <1>7
<1>9. IsInjective(index)
  <2>1. ASSUME NEW b \in DOMAIN m.index, NEW i \in 1..blocks, B(i) \notin DOMAIN m.index,
               index[b] = index[B(i)]
        PROVE  FALSE
    <3>1. m.cached[index[b]] > 0
      BY <1>5, <1>7
    <3>2. index[B(i)] = pages[i] /\ m.cached[pages[i]] = 0
      BY <1>2, <1>6, <1>7, <2>1
    <3> QED
      BY <2>1, <3>1, <3>2
  <2>2. ASSUME NEW i \in 1..blocks, NEW j \in 1..blocks, B(i) \notin DOMAIN m.index,
               B(j) \notin DOMAIN m.index, index[B(i)] = index[B(j)]
        PROVE  i = j
    BY <1>2, <1>3, <1>6, <1>7, <2>2 DEF IsInjective
  <2>3. ASSUME NEW b \in DOMAIN m.index, NEW c \in DOMAIN m.index, index[b] = index[c]
        PROVE  b = c
    BY <1>5, <1>7, <2>3 DEF IsInjective
  <2>4. ASSUME NEW b \in DOMAIN index, NEW c \in DOMAIN index, index[b] = index[c] PROVE b = c
    <3>1. CASE b \in DOMAIN m.index /\ c \in DOMAIN m.index
      BY <2>3, <2>4, <3>1
    <3>2. CASE b \in DOMAIN m.index /\ c \notin DOMAIN m.index
      BY <1>8, <2>1, <2>4, <3>2
    <3>3. CASE b \notin DOMAIN m.index /\ c \in DOMAIN m.index
      BY <1>8, <2>1, <2>4, <3>3
    <3>4. CASE b \notin DOMAIN m.index /\ c \notin DOMAIN m.index
      BY <1>8, <2>2, <2>4, <3>4
    <3> QED
      BY <3>1, <3>2, <3>3, <3>4
  <2> QED
    BY <2>4 DEF IsInjective
<1>10. IsInjective(path)
  <2>1. ASSUME NEW i \in 1..blocks, NEW j \in 1..blocks, path[i] = path[j] PROVE i = j
    <3>1. B(i) = B(j)
      BY <1>7, <1>8, <1>9, <2>1 DEF IsInjective
    <3> QED
      BY <1>2, <3>1
  <2> QED
    BY <1>6, <2>1 DEF IsInjective
<1>11. \A p \in Range(path) : \E i \in 1..blocks : p = path[i]
  BY <1>6 DEF Range
<1>12. /\ record \in Records /\ record \notin Range(m.records)
       /\ record.block = B(blocks) /\ record.pages = path
  <2>1. record \in Records
    BY <1>1, <1>2, <1>6 DEF Records
  <2>2. record \notin Range(m.records)
    BY DEF Range, tokens, row
  <2> QED
    BY <2>1, <2>2
<1> HIDE DEF record
<1>13. /\ records \in Seq(Records) /\ Len(records) = Len(m.records) + 1
       /\ Range(records) = Range(m.records) \cup {record}
       /\ records[Len(m.records) + 1] = record
       /\ \A i \in 1..Len(m.records) : records[i] = m.records[i]
       /\ DOMAIN records = 1..(Len(m.records) + 1)
  BY <1>4, <1>12, AppendItems
<1> HIDE DEF records
<1>14. cached \in [Pages -> Nat] /\ Counts(cached, PathsOf(records))
  <2>1. AddsList(m.cached, PathsOf(m.records), record, path, PathsOf(records))
    <3>1. /\ DOMAIN PathsOf(m.records) = Range(m.records)
          /\ \A r \in Range(m.records) : PathsOf(m.records)[r] = r.pages
          /\ DOMAIN PathsOf(records) = Range(records)
          /\ \A r \in Range(records) : PathsOf(records)[r] = r.pages
      BY DEF PathsOf
    <3>2. Counts(m.cached, PathsOf(m.records))
      BY <1>1 DEF ManagerOK
    <3> QED
      BY <1>4, <1>6, <1>10, <1>12, <1>13, <3>1, <3>2 DEF AddsList
  <2> QED
    BY <2>1, ListAdded
<1>15. \A p \in Pages : cached[p] = IF p \in Range(path) THEN m.cached[p] + 1 ELSE m.cached[p]
  BY DEF AddRefs
<1>16. \A p \in Pages : cached[p] > 0 <=> m.cached[p] > 0 \/ p \in Range(path)
  <2>1. ASSUME NEW p \in Pages PROVE cached[p] > 0 <=> m.cached[p] > 0 \/ p \in Range(path)
    <3>1. m.cached[p] \in Nat
      BY <1>4
    <3> HIDE DEF cached
    <3> QED
      BY <1>15, <3>1
  <2> QED
    BY <2>1
<1>17. index \in Indexes
  <2>1. m.index \in [DOMAIN m.index -> Pages] /\ DOMAIN m.index \subseteq Seq(Tokens)
    BY <1>4, IndexFields
  <2>2. DOMAIN index \subseteq Seq(Tokens)
    BY <1>2, <1>8, <2>1
  <2>3. ASSUME NEW b \in DOMAIN index PROVE index[b] \in Pages
    <3>1. CASE b \in DOMAIN m.index
      BY <1>5, <1>7, <3>1
    <3>2. CASE b \notin DOMAIN m.index
      <4>1. PICK i \in 1..blocks : b = B(i)
        BY <1>8, <3>2
      <4>2. path[i] \in Pages
        BY <1>6
      <4> QED
        BY <1>7, <4>1, <4>2
    <3> QED
      BY <3>1, <3>2
  <2>4. index = [b \in DOMAIN index |-> index[b]]
    BY DEF index, Mapped
  <2>5. index \in [DOMAIN index -> Pages]
    BY <2>3, <2>4
  <2> QED
    BY <2>2, <2>5, IndexFrom
<1>18. added = [m EXCEPT !.cached = cached, !.index = index, !.records = records]
  BY DEF AddRecord, records, record, index, path
<1> HIDE DEF cached, added
<1>19. /\ added \in Managers /\ added.free = m.free /\ added.active = m.active
       /\ added.cached = cached /\ added.index = index /\ added.records = records
  BY <1>1, <1>13, <1>14, <1>17, <1>18 DEF Managers
<1>20. \A p \in Range(path) : m.active[p] > 0 \/ m.cached[p] > 0
  <2>1. ASSUME NEW i \in 1..blocks PROVE m.active[path[i]] > 0 \/ m.cached[path[i]] > 0
    BY <1>2, <1>5, <1>6
  <2> QED
    BY <1>11, <2>1
<1>21. FreeAreUnused(added)
  <2>1. IsInjective(m.free) /\ Range(m.free) = {p \in Pages : m.active[p] = 0 /\ m.cached[p] = 0}
    BY <1>1 DEF ManagerOK, FreeAreUnused
  <2>2. \A p \in Pages : m.active[p] = 0 /\ cached[p] = 0 <=> m.active[p] = 0 /\ m.cached[p] = 0
    <3>1. ASSUME NEW p \in Pages
          PROVE  m.active[p] = 0 /\ cached[p] = 0 <=> m.active[p] = 0 /\ m.cached[p] = 0
      <4>1. m.active[p] \in Nat /\ m.cached[p] \in Nat /\ cached[p] \in Nat
        BY <1>4, <1>14
      <4> QED
        BY <1>16, <1>20, <4>1
    <3> QED
      BY <3>1
  <2> QED
    BY <1>19, <2>1, <2>2 DEF FreeAreUnused
<1>22. IndexIsOfCached(added)
  <2>1. ASSUME NEW p \in Range(index) PROVE p \in Pages /\ cached[p] > 0
    <3>1. PICK b \in DOMAIN index : p = index[b]
      BY DEF Range
    <3>2. CASE b \in DOMAIN m.index
      BY <1>5, <1>7, <1>16, <3>1, <3>2
    <3>3. CASE b \notin DOMAIN m.index
      <4>1. PICK i \in 1..blocks : b = B(i)
        BY <1>8, <3>1, <3>3
      <4>2. p = path[i] /\ path[i] \in Pages /\ path[i] \in Range(path)
        BY <1>6, <1>7, <3>1, <4>1 DEF Range
      <4> QED
        BY <1>16, <4>2
    <3> QED
      BY <3>2, <3>3
  <2>2. ASSUME NEW p \in Pages, cached[p] > 0 PROVE p \in Range(index)
    <3>1. CASE m.cached[p] > 0
      BY <1>5, <1>7, <1>8, <3>1 DEF Range
    <3>2. CASE p \in Range(path)
      <4>1. PICK i \in 1..blocks : p = path[i]
        BY <1>11, <3>2
      <4> QED
        BY <1>7, <1>8, <4>1 DEF Range
    <3> QED
      BY <1>16, <2>2, <3>1, <3>2
  <2>3. Range(index) = {p \in Pages : cached[p] > 0}
    BY <2>1, <2>2
  <2> QED
    BY <1>9, <1>19, <2>3 DEF IndexIsOfCached
<1>23. RecordsIndexed(added)
  <2>1. /\ \A r \in Range(m.records) :
             /\ Len(r.block) = Len(r.pages) * PageSize
             /\ \A j \in DOMAIN r.pages : /\ Block(r.block, j) \in DOMAIN m.index
                                          /\ m.index[Block(r.block, j)] = r.pages[j]
        /\ \A i, j \in DOMAIN m.records : m.records[i].block = m.records[j].block => i = j
    BY <1>1 DEF ManagerOK, RecordsIndexed
  <2>2. ASSUME NEW r \in Range(records)
        PROVE  /\ Len(r.block) = Len(r.pages) * PageSize
               /\ \A j \in DOMAIN r.pages : /\ Block(r.block, j) \in DOMAIN index
                                            /\ index[Block(r.block, j)] = r.pages[j]
    <3>1. CASE r \in Range(m.records)
      BY <1>7, <1>8, <2>1, <3>1
    <3>2. CASE r = record
      <4>1. r.block = B(blocks) /\ r.pages = path
        BY <1>12, <3>2
      <4>2. Len(B(blocks)) = blocks * PageSize
        BY <1>1, <1>2
      <4>3. ASSUME NEW j \in 1..blocks PROVE Block(B(blocks), j) = B(j)
        <5>1. /\ j \in Nat /\ B(blocks) \in Seq(Tokens) /\ Len(B(blocks)) = blocks * PageSize
              /\ blocks * PageSize <= Len(tokens) /\ j * PageSize <= blocks * PageSize
          BY <1>1, <1>2
        <5>2. \A o \in 1..(blocks * PageSize) : B(blocks)[o] = tokens[o]
          BY <1>1, <1>3, <5>1, BlockOfTokens
        <5>3. \A o \in 1..Len(B(blocks)) : tokens[o] = B(blocks)[o]
          BY <5>1, <5>2
        <5> HIDE DEF B
        <5>4. Block(tokens, j) = Block(B(blocks), j)
          BY <1>3, <5>1, <5>3, BlockOfPrefix
        <5> QED
          BY <5>4 DEF B
      <4> HIDE DEF B
      <4> QED
        BY <1>6, <1>7, <1>8, <4>1, <4>2, <4>3
    <3> QED
      BY <1>13, <3>1, <3>2
  <2>3. ASSUME NEW i \in DOMAIN records, NEW j \in DOMAIN records,
               records[i].block = records[j].block
        PROVE  i = j
    <3>1. Len(m.records) \in Nat /\ DOMAIN m.records = 1..Len(m.records)
      BY <1>4
    <3>2. \A l \in 1..Len(m.records) : records[l].block # B(blocks)
      BY <1>13, <3>1 DEF tokens, row
    <3>3. records[Len(m.records) + 1].block = B(blocks)
      BY <1>12, <1>13
    <3>4. i \in 1..Len(m.records) \/ i = Len(m.records) + 1
      BY <1>13, <3>1
    <3>5. j \in 1..Len(m.records) \/ j = Len(m.records) + 1
      BY <1>13, <3>1
    <3>6. CASE i \in 1..Len(m.records) /\ j \in 1..Len(m.records)
      BY <1>13, <2>1, <2>3, <3>1, <3>6
    <3> QED
      BY <2>3, <3>2, <3>3, <3>4, <3>5, <3>6
  <2> QED
    BY <1>19, <2>2, <2>3 DEF RecordsIndexed
<1>24. ManagerOK(added)
  BY <1>14, <1>19, <1>21, <1>22, <1>23 DEF ManagerOK
<1>25. added.records # <<>>
  <2>1. Len(m.records) \in Nat
    BY <1>4
  <2> QED
    BY <1>13, <1>19, <2>1
<1>26. Extends(m, added, row, blocks)
  <2>1. ASSUME NEW p \in Pages, cached[p] > 0
        PROVE  \/ m.cached[p] > 0
               \/ \E i \in 1..blocks : p = pages[i] /\ B(i) \notin DOMAIN m.index
    <3>1. CASE p \in Range(path)
      <4>1. PICK i \in 1..blocks : p = path[i]
        BY <1>11, <3>1
      <4> QED
        BY <1>5, <1>6, <4>1
    <3> QED
      BY <1>16, <2>1, <3>1
  <2>2. \A i \in 1..blocks : B(i) \notin DOMAIN m.index => index[B(i)] = pages[i]
    BY <1>6, <1>7
  <2> QED
    BY <1>7, <1>8, <1>19, <2>1, <2>2 DEF Extends, tokens, pages
<1> QED
  BY <1>19, <1>24, <1>25, <1>26 DEF added, row, tokens, pages

-----------------------------------------------------------------------------
(* The rows and the manager together.                                        *)

(* A row of a sequence, and its pages. *)
LEMMA RowOfSequence ==
  ASSUME NEW rows \in Seq(Rows), NEW k \in DOMAIN rows
  PROVE  /\ rows[k] \in Rows /\ k \in Nat
         /\ k \in DOMAIN PagesOf(rows) /\ PagesOf(rows)[k] = rows[k].pages
<1>1. DOMAIN rows = 1..Len(rows) /\ Len(rows) \in Nat /\ \A i \in 1..Len(rows) : rows[i] \in Rows
  OBVIOUS
<1> QED
  BY <1>1 DEF PagesOf

(* What publication leaves: the rows are as sound as before, their leases are theirs, *)
(* and a mapping is an old one or takes a computed block of a row to its page.        *)
Published(m, rows, after) ==
  /\ after \in Managers /\ Sound(after, rows) /\ after.active = m.active
  /\ \A b \in DOMAIN after.index :
       \/ b \in DOMAIN m.index /\ after.index[b] = m.index[b]
       \/ \E k \in DOMAIN rows : \E i \in DOMAIN rows[k].pages :
            /\ i * PageSize <= rows[k].committed
            /\ b = Block(rows[k].tokens, i) /\ after.index[b] = rows[k].pages[i]

(* A record added for a row keeps the manager and all the rows sound. *)
LEMMA RecordAddedSound ==
  ASSUME NEW m, NEW rows, NEW k, NEW blocks, MayPublish(m, rows, k, blocks),
         \A i \in DOMAIN m.records : m.records[i].block # Block(rows[k].tokens, blocks)
  PROVE  LET added == AddRecord(m, rows[k].tokens, rows[k].pages, blocks) IN
         Published(m, rows, added) /\ added.records # <<>>
<1> DEFINE row == rows[k]
           added == AddRecord(m, row.tokens, row.pages, blocks)
<1>1. /\ added \in Managers /\ ManagerOK(added) /\ added.active = m.active
      /\ added.records # <<>> /\ Extends(m, added, row, blocks)
  BY RecordAdded
<1> HIDE DEF added
<1>2. /\ m \in Managers /\ rows \in Seq(Rows) /\ Sound(m, rows) /\ k \in DOMAIN rows
      /\ blocks \in Nat /\ blocks >= 1
  BY DEF MayPublish
<1>3. /\ row \in Rows /\ RowOK(row) /\ RowIndexed(m, row)
      /\ \A i \in 1..blocks : i \in DOMAIN row.pages /\ i * PageSize <= row.committed
  BY PublisherFacts
<1>4. /\ Counts(m.active, PagesOf(rows))
      /\ \A l \in DOMAIN rows : RowOK(rows[l]) /\ RowIndexed(m, rows[l])
      /\ RowsAgree(rows)
  BY <1>2 DEF Sound
<1>5. ASSUME NEW l \in DOMAIN rows PROVE RowIndexed(added, rows[l])
  <2>1. SUFFICES ASSUME NEW j \in DOMAIN rows[l].pages, added.cached[rows[l].pages[j]] > 0
                 PROVE  /\ j * PageSize <= rows[l].committed
                        /\ Block(rows[l].tokens, j) \in DOMAIN added.index
                        /\ added.index[Block(rows[l].tokens, j)] = rows[l].pages[j]
    BY DEF RowIndexed
  <2>2. rows[l].pages[j] \in Pages
    BY <1>2, RowOfSequence, RowFields
  <2>3. CASE m.cached[rows[l].pages[j]] > 0
    BY <1>1, <1>4, <2>3 DEF RowIndexed, Extends
  <2>4. CASE ~(m.cached[rows[l].pages[j]] > 0)
    <3>1. PICK i \in 1..blocks : /\ rows[l].pages[j] = row.pages[i]
                                 /\ Block(row.tokens, i) \notin DOMAIN m.index
      BY <1>1, <2>1, <2>2, <2>4 DEF Extends
    <3>2. /\ Block(row.tokens, i) \in DOMAIN added.index
          /\ added.index[Block(row.tokens, i)] = row.pages[i]
      BY <1>1, <3>1 DEF Extends
    <3>3. i \in DOMAIN row.pages /\ i * PageSize <= row.committed
      BY <1>3
    <3>4. CASE l = k
      <4>1. i = j
        BY <1>3, <3>1, <3>3, <3>4 DEF RowOK, IsInjective
      <4> QED
        BY <3>1, <3>2, <3>3, <3>4, <4>1
    <3>5. CASE l # k
      <4>1. i = j /\ i * PageSize <= rows[l].committed
            /\ Block(rows[l].tokens, i) = Block(row.tokens, i)
        BY <1>2, <1>4, <3>1, <3>3, <3>5 DEF RowsAgree
      <4> QED
        BY <3>1, <3>2, <4>1
    <3> QED
      BY <3>4, <3>5
  <2> QED
    BY <2>3, <2>4
<1>6. Sound(added, rows)
  BY <1>1, <1>4, <1>5 DEF Sound
<1>7. ASSUME NEW b \in DOMAIN added.index
      PROVE  \/ b \in DOMAIN m.index /\ added.index[b] = m.index[b]
             \/ \E l \in DOMAIN rows : \E i \in DOMAIN rows[l].pages :
                  /\ i * PageSize <= rows[l].committed
                  /\ b = Block(rows[l].tokens, i) /\ added.index[b] = rows[l].pages[i]
  <2>1. CASE b \in DOMAIN m.index
    BY <1>1, <2>1 DEF Extends
  <2>2. CASE b \notin DOMAIN m.index
    <3>1. PICK i \in 1..blocks : b = Block(row.tokens, i)
      BY <1>1, <2>2 DEF Extends
    <3>2. added.index[b] = row.pages[i]
      BY <1>1, <2>2, <3>1 DEF Extends
    <3> QED
      BY <1>2, <1>3, <3>1, <3>2
  <2> QED
    BY <2>1, <2>2
<1>8. Published(m, rows, added)
  BY <1>1, <1>6, <1>7 DEF Published
<1> QED
  BY <1>1, <1>8 DEF added

(* Publishing a row's computed blocks. *)
LEMMA RowPublished ==
  ASSUME NEW m, NEW rows, NEW k, NEW blocks, MayPublish(m, rows, k, blocks)
  PROVE  Published(m, rows, Publish(m, rows[k].tokens, rows[k].pages, blocks))
<1> DEFINE tokens == rows[k].tokens
           pages == rows[k].pages
           added == AddRecord(m, tokens, pages, blocks)
           existing == {i \in DOMAIN m.records : m.records[i].block = Block(tokens, blocks)}
           after == Publish(m, tokens, pages, blocks)
<1>1. /\ m \in Managers /\ rows \in Seq(Rows) /\ Sound(m, rows) /\ ManagerOK(m)
  BY DEF MayPublish, Sound
<1>2. CASE existing # {}
  <2> DEFINE i == CHOOSE j \in existing : TRUE
  <2>1. i \in existing
    BY <1>2
  <2>2. after = Touch(m, i)
    BY <1>2 DEF Publish
  <2>3. i \in DOMAIN m.records
    BY <2>1
  <2> HIDE DEF i, existing, after
  <2>4. /\ after \in Managers /\ ManagerOK(after)
        /\ after.active = m.active /\ after.cached = m.cached /\ after.index = m.index
    BY <1>1, <2>2, <2>3, RecordTouched
  <2>5. Sound(after, rows)
    BY <1>1, <2>4 DEF Sound, RowIndexed
  <2>6. Published(m, rows, after)
    BY <2>4, <2>5 DEF Published
  <2> QED
    BY <2>6 DEF after, tokens, pages
<1>3. CASE existing = {}
  <2>1. \A i \in DOMAIN m.records : m.records[i].block # Block(tokens, blocks)
    BY <1>3
  <2>2. Published(m, rows, added) /\ added.records # <<>>
    BY <2>1, RecordAddedSound
  <2>3. CASE Len(m.records) = MaxRecords
    <3>1. after = EvictOldest(added)
      BY <1>3, <2>3 DEF Publish
    <3> HIDE DEF added, existing, after, tokens, pages
    <3>2. /\ added \in Managers /\ Sound(added, rows) /\ ManagerOK(added)
          /\ added.active = m.active
      BY <2>2 DEF Published, Sound
    <3>3. /\ after \in Managers /\ ManagerOK(after) /\ Shrinks(added, after)
          /\ after.active = added.active
      BY <2>2, <3>1, <3>2, OldestEvicted
    <3>4. ASSUME NEW l \in DOMAIN rows PROVE RowIndexed(after, rows[l])
      <4>1. RowIndexed(added, rows[l]) /\ rows[l].pages \in Seq(Pages)
        BY <1>1, <3>2, RowOfSequence, RowFields DEF Sound
      <4> QED
        BY <3>3, <4>1, ShrinksRowIndexed
    <3>5. Sound(after, rows)
      BY <3>2, <3>3, <3>4 DEF Sound
    <3>6. \A b \in DOMAIN after.index : b \in DOMAIN added.index /\ after.index[b] = added.index[b]
      BY <3>3 DEF Shrinks
    <3>7. Published(m, rows, after)
      BY <2>2, <3>2, <3>3, <3>5, <3>6 DEF Published
    <3> QED
      BY <3>7 DEF after, tokens, pages
  <2>4. CASE Len(m.records) # MaxRecords
    <3>1. after = added
      BY <1>3, <2>4 DEF Publish
    <3> QED
      BY <2>2, <3>1
  <2> QED
    BY <2>3, <2>4
<1> QED
  BY <1>2, <1>3

(* Publishing twice is publishing. *)
LEMMA PublishedAgain ==
  ASSUME NEW m, NEW rows, NEW a, NEW b, Published(m, rows, a), Published(a, rows, b)
  PROVE  Published(m, rows, b)
<1>1. /\ b \in Managers /\ Sound(b, rows) /\ b.active = m.active
  BY DEF Published
<1>2. ASSUME NEW c \in DOMAIN b.index
      PROVE  \/ c \in DOMAIN m.index /\ b.index[c] = m.index[c]
             \/ \E k \in DOMAIN rows : \E i \in DOMAIN rows[k].pages :
                  /\ i * PageSize <= rows[k].committed
                  /\ c = Block(rows[k].tokens, i) /\ b.index[c] = rows[k].pages[i]
  <2>1. CASE c \in DOMAIN a.index /\ b.index[c] = a.index[c]
    BY <2>1 DEF Published
  <2>2. CASE ~(c \in DOMAIN a.index /\ b.index[c] = a.index[c])
    BY <2>2 DEF Published
  <2> QED
    BY <2>1, <2>2
<1> QED
  BY <1>1, <1>2 DEF Published

(* publishReadyEndpoint() of one row, which publishes or not. *)
LEMMA OneRowPublished ==
  ASSUME NEW m \in Managers, NEW rows \in Seq(Rows), Sound(m, rows), NEW k \in DOMAIN rows,
         NEW point
  PROVE  Published(m, rows, PublishRow(m, rows[k], point))
<1> DEFINE row == rows[k]
<1>1. row \in Rows
  BY RowOfSequence
<1>2. row.committed \in Nat /\ row.published \in Nat
  BY <1>1, RowFields
<1>3. CASE Publishable(row, point)
  <2> DEFINE blocks == ReadyBlocks(row)
  <2>1. blocks \in Nat /\ blocks * PageSize <= row.committed
    BY <1>2, WholePages DEF ReadyBlocks
  <2>2. blocks > row.published
    BY <1>3 DEF Publishable
  <2> HIDE DEF blocks
  <2>3. blocks >= 1
    BY <1>2, <2>1, <2>2
  <2>4. MayPublish(m, rows, k, blocks)
    BY <2>1, <2>3 DEF MayPublish
  <2>5. Published(m, rows, Publish(m, row.tokens, row.pages, blocks))
    BY <2>4, RowPublished
  <2> QED
    BY <1>3, <2>5 DEF PublishRow, blocks
<1>4. CASE ~Publishable(row, point)
  BY <1>4 DEF PublishRow, Published
<1> QED
  BY <1>3, <1>4

(* The publication of one row after the other, as a function of how many. *)
IsPublication(m, rows, point, n, f) ==
  /\ n \in Nat
  /\ f = [k \in 0..n |-> IF k = 0 THEN m ELSE PublishRow(f[k - 1], rows[k], point)]

(* The managers on the way are each the one before after one row's publication. *)
LEMMA PublicationValues ==
  ASSUME NEW m, NEW rows, NEW point, NEW n, NEW f, IsPublication(m, rows, point, n, f)
  PROVE  f[0] = m /\ \A k \in 0..(n - 1) : f[k + 1] = PublishRow(f[k], rows[k + 1], point)
<1> DEFINE g == [k \in 0..n |-> IF k = 0 THEN m ELSE PublishRow(f[k - 1], rows[k], point)]
<1>1. f = g /\ n \in Nat
  BY DEF IsPublication
<1>2. g[0] = m
  BY <1>1
<1>3. ASSUME NEW k \in 0..(n - 1) PROVE g[k + 1] = PublishRow(f[k], rows[k + 1], point)
  <2>1. k + 1 \in 0..n /\ k + 1 # 0 /\ (k + 1) - 1 = k
    BY <1>1
  <2> QED
    BY <2>1
<1> HIDE DEF g
<1> QED
  BY <1>1, <1>2, <1>3

(* There are such managers, of any number of rows. *)
LEMMA PublicationExists ==
  ASSUME NEW m, NEW rows, NEW point
  PROVE  \A n \in Nat : \E f : IsPublication(m, rows, point, n, f)
<1> DEFINE T == {n \in Nat : \E f : IsPublication(m, rows, point, n, f)}
<1>1. 0 \in T
  <2> DEFINE f == [k \in 0..0 |-> m]
  <2>1. f = [k \in 0..0 |-> IF k = 0 THEN m ELSE PublishRow(f[k - 1], rows[k], point)]
    <3>1. \A k \in 0..0 : k = 0
      OBVIOUS
    <3> QED
      BY <3>1
  <2> HIDE DEF f
  <2> QED
    BY <2>1 DEF IsPublication
<1>2. ASSUME NEW n \in Nat, n \in T PROVE n + 1 \in T
  <2>1. PICK f : IsPublication(m, rows, point, n, f)
    BY <1>2
  <2>2. /\ \A k \in 0..n : f[k] = IF k = 0 THEN m ELSE PublishRow(f[k - 1], rows[k], point)
    BY <2>1 DEF IsPublication
  <2> DEFINE g == [k \in 0..(n + 1) |-> IF k = n + 1 THEN PublishRow(f[n], rows[n + 1], point)
                                        ELSE f[k]]
  <2>3. ASSUME NEW k \in 0..(n + 1)
        PROVE  g[k] = IF k = 0 THEN m ELSE PublishRow(g[k - 1], rows[k], point)
    <3>1. CASE k = n + 1
      <4>1. k # 0 /\ k - 1 = n /\ n \in 0..(n + 1) /\ n # n + 1
        BY <3>1
      <4>2. g[k - 1] = f[n]
        BY <4>1
      <4> QED
        BY <3>1, <4>1, <4>2
    <3>2. CASE k # n + 1
      <4>1. k \in 0..n /\ g[k] = f[k]
        BY <3>2
      <4>2. k # 0 => k - 1 \in 0..(n + 1) /\ k - 1 # n + 1
        BY <4>1
      <4>3. k # 0 => g[k - 1] = f[k - 1]
        BY <4>2
      <4> HIDE DEF g
      <4> QED
        BY <2>2, <4>1, <4>3
    <3> QED
      BY <3>1, <3>2
  <2>4. g = [k \in 0..(n + 1) |-> g[k]]
    OBVIOUS
  <2> HIDE DEF g
  <2>5. g = [k \in 0..(n + 1) |-> IF k = 0 THEN m ELSE PublishRow(g[k - 1], rows[k], point)]
    BY <2>3, <2>4
  <2>6. IsPublication(m, rows, point, n + 1, g)
    BY <2>5 DEF IsPublication
  <2> QED
    BY <2>6
<1> HIDE DEF T
<1>3. \A n \in Nat : n \in T
  BY <1>1, <1>2, SetInduction
<1> QED
  BY <1>3 DEF T

(* Publishing the rows is the last of them. *)
LEMMA PublicationIs ==
  ASSUME NEW m, NEW rows, NEW point, Len(rows) \in Nat
  PROVE  \E f : /\ IsPublication(m, rows, point, Len(rows), f)
                /\ PublishRows(m, rows, point) = f[Len(rows)]
<1> DEFINE n == Len(rows)
           P == CHOOSE f : IsPublication(m, rows, point, n, f)
<1>1. \E f : IsPublication(m, rows, point, n, f)
  BY PublicationExists
<1>2. IsPublication(m, rows, point, n, P)
  BY <1>1
<1>3. PublishRows(m, rows, point) = P[n]
  BY DEF PublishRows, IsPublication
<1> QED
  BY <1>2, <1>3

(* Publishing all the rows that are ready. *)
LEMMA RowsPublished ==
  ASSUME NEW m \in Managers, NEW rows \in Seq(Rows), Sound(m, rows), NEW point
  PROVE  Published(m, rows, PublishRows(m, rows, point))
<1>1. PICK n \in Nat : n = Len(rows) /\ DOMAIN rows = 1..n
  OBVIOUS
<1>2. PICK f : IsPublication(m, rows, point, n, f) /\ PublishRows(m, rows, point) = f[n]
  BY <1>1, PublicationIs
<1>3. IsPublication(m, rows, point, n, f)
  BY <1>2
<1>8. f[0] = m
  BY <1>3, PublicationValues
<1>9. ASSUME NEW k \in 0..(n - 1) PROVE f[k + 1] = PublishRow(f[k], rows[k + 1], point)
  BY <1>3, PublicationValues
<1> DEFINE T == {k \in 0..n : Published(m, rows, f[k])}
<1>4. 0 \in T
  BY <1>1, <1>8 DEF Published
<1>5. ASSUME NEW k \in 0..(n - 1), k \in T PROVE k + 1 \in T
  <2>1. k + 1 \in 0..n /\ k + 1 \in DOMAIN rows
    BY <1>1
  <2>2. Published(m, rows, f[k])
    BY <1>5
  <2>3. f[k] \in Managers /\ Sound(f[k], rows)
    BY <2>2 DEF Published
  <2>4. Published(f[k], rows, PublishRow(f[k], rows[k + 1], point))
    BY <2>1, <2>3, OneRowPublished
  <2>5. Published(m, rows, f[k + 1])
    BY <1>9, <2>2, <2>4, PublishedAgain
  <2> QED
    BY <2>1, <2>5
<1> HIDE DEF T
<1>6. \A k \in 0..n : k \in T
  BY <1>1, <1>4, <1>5, BoundedInduction
<1>7. n \in T
  BY <1>1, <1>6
<1> QED
  BY <1>2, <1>7 DEF T

-----------------------------------------------------------------------------
(* Leases given back one after the other.                                    *)

(* The managers on the way, as leases are released one by one. *)
IsRelease(m, leases, n, f) ==
  /\ n \in Nat
  /\ f = [k \in 0..n |-> IF k = 0 THEN m ELSE ReleaseLease(f[k - 1], leases[k])]

(* They are each the one before without one lease. *)
LEMMA ReleaseValues ==
  ASSUME NEW m, NEW leases, NEW n, NEW f, IsRelease(m, leases, n, f)
  PROVE  f[0] = m /\ \A k \in 0..(n - 1) : f[k + 1] = ReleaseLease(f[k], leases[k + 1])
<1> DEFINE g == [k \in 0..n |-> IF k = 0 THEN m ELSE ReleaseLease(f[k - 1], leases[k])]
<1>1. f = g /\ n \in Nat
  BY DEF IsRelease
<1>2. g[0] = m
  BY <1>1
<1>3. ASSUME NEW k \in 0..(n - 1) PROVE g[k + 1] = ReleaseLease(f[k], leases[k + 1])
  <2>1. k + 1 \in 0..n /\ k + 1 # 0 /\ (k + 1) - 1 = k
    BY <1>1
  <2> QED
    BY <2>1
<1> HIDE DEF g
<1> QED
  BY <1>1, <1>2, <1>3

(* There are such managers, of any number of leases. *)
LEMMA ReleaseExists ==
  ASSUME NEW m, NEW leases
  PROVE  \A n \in Nat : \E f : IsRelease(m, leases, n, f)
<1> DEFINE T == {n \in Nat : \E f : IsRelease(m, leases, n, f)}
<1>1. 0 \in T
  <2> DEFINE f == [k \in 0..0 |-> m]
  <2>1. f = [k \in 0..0 |-> IF k = 0 THEN m ELSE ReleaseLease(f[k - 1], leases[k])]
    <3>1. \A k \in 0..0 : k = 0
      OBVIOUS
    <3> QED
      BY <3>1
  <2> HIDE DEF f
  <2> QED
    BY <2>1 DEF IsRelease
<1>2. ASSUME NEW n \in Nat, n \in T PROVE n + 1 \in T
  <2>1. PICK f : IsRelease(m, leases, n, f)
    BY <1>2
  <2>2. \A k \in 0..n : f[k] = IF k = 0 THEN m ELSE ReleaseLease(f[k - 1], leases[k])
    BY <2>1 DEF IsRelease
  <2> DEFINE g == [k \in 0..(n + 1) |-> IF k = n + 1 THEN ReleaseLease(f[n], leases[n + 1])
                                        ELSE f[k]]
  <2>3. ASSUME NEW k \in 0..(n + 1)
        PROVE  g[k] = IF k = 0 THEN m ELSE ReleaseLease(g[k - 1], leases[k])
    <3>1. CASE k = n + 1
      <4>1. k # 0 /\ k - 1 = n /\ n \in 0..(n + 1) /\ n # n + 1
        BY <3>1
      <4>2. g[k - 1] = f[n]
        BY <4>1
      <4> QED
        BY <3>1, <4>1, <4>2
    <3>2. CASE k # n + 1
      <4>1. k \in 0..n /\ g[k] = f[k]
        BY <3>2
      <4>2. k # 0 => k - 1 \in 0..(n + 1) /\ k - 1 # n + 1
        BY <4>1
      <4>3. k # 0 => g[k - 1] = f[k - 1]
        BY <4>2
      <4> HIDE DEF g
      <4> QED
        BY <2>2, <4>1, <4>3
    <3> QED
      BY <3>1, <3>2
  <2>4. g = [k \in 0..(n + 1) |-> g[k]]
    OBVIOUS
  <2> HIDE DEF g
  <2>5. g = [k \in 0..(n + 1) |-> IF k = 0 THEN m ELSE ReleaseLease(g[k - 1], leases[k])]
    BY <2>3, <2>4
  <2>6. IsRelease(m, leases, n + 1, g)
    BY <2>5 DEF IsRelease
  <2> QED
    BY <2>6
<1> HIDE DEF T
<1>3. \A n \in Nat : n \in T
  BY <1>1, <1>2, SetInduction
<1> QED
  BY <1>3 DEF T

(* Releasing all is the last of them. *)
LEMMA ReleaseIs ==
  ASSUME NEW m, NEW leases, Len(leases) \in Nat
  PROVE  \E f : IsRelease(m, leases, Len(leases), f) /\ ReleaseAll(m, leases) = f[Len(leases)]
<1> DEFINE n == Len(leases)
           P == CHOOSE f : IsRelease(m, leases, n, f)
<1>1. \E f : IsRelease(m, leases, n, f)
  BY ReleaseExists
<1>2. IsRelease(m, leases, n, P)
  BY <1>1
<1>3. ReleaseAll(m, leases) = P[n]
  BY DEF ReleaseAll, IsRelease
<1> QED
  BY <1>2, <1>3

(* Some of the leases, under their names, in the order they go. *)
Releases(m, leases, gone, name) ==
  /\ m \in Managers /\ ManagerOK(m) /\ Counts(m.active, leases)
  /\ Len(gone) \in Nat
  /\ name \in [1..Len(gone) -> DOMAIN leases]
  /\ \A i, j \in 1..Len(gone) : name[i] = name[j] => i = j
  /\ \A i \in 1..Len(gone) : gone[i] = leases[name[i]]

(* The leases that stay when the first k of some are gone. *)
Left(leases, name, k) ==
  [i \in DOMAIN leases \ {name[j] : j \in 1..k} |-> leases[i]]

(* Releasing some of the leases leaves the others counted, and the records and the *)
(* index as they were.                                                             *)
LEMMA LeasesReleased ==
  ASSUME NEW m, NEW leases, NEW gone, NEW name, Releases(m, leases, gone, name)
  PROVE  LET released == ReleaseAll(m, gone) IN
         /\ released \in Managers /\ ManagerOK(released)
         /\ Counts(released.active, Left(leases, name, Len(gone)))
         /\ released.cached = m.cached /\ released.index = m.index
         /\ released.records = m.records
<1> DEFINE Good(r, k) == /\ r \in Managers /\ ManagerOK(r)
                         /\ Counts(r.active, Left(leases, name, k))
                         /\ r.cached = m.cached /\ r.index = m.index /\ r.records = m.records
<1>1. /\ m \in Managers /\ ManagerOK(m) /\ Counts(m.active, leases) /\ Len(gone) \in Nat
      /\ name \in [1..Len(gone) -> DOMAIN leases]
      /\ \A i, j \in 1..Len(gone) : name[i] = name[j] => i = j
      /\ \A i \in 1..Len(gone) : gone[i] = leases[name[i]]
  BY DEF Releases
<1>2. PICK f : IsRelease(m, gone, Len(gone), f) /\ ReleaseAll(m, gone) = f[Len(gone)]
  BY <1>1, ReleaseIs
<1>3. PICK n \in Nat : n = Len(gone)
  BY <1>1
<1>4. IsRelease(m, gone, n, f)
  BY <1>2, <1>3
<1>5. f[0] = m /\ \A k \in 0..(n - 1) : f[k + 1] = ReleaseLease(f[k], gone[k + 1])
  BY <1>4, ReleaseValues
<1> DEFINE T == {k \in 0..n : Good(f[k], k)}
<1>6. 0 \in T
  <2>1. /\ DOMAIN Left(leases, name, 0) = DOMAIN leases
        /\ \A i \in DOMAIN leases : Left(leases, name, 0)[i] = leases[i]
    BY DEF Left
  <2> DEFINE others == Left(leases, name, 0)
             same == [i \in DOMAIN leases |-> i]
  <2>2. /\ same \in [DOMAIN others -> DOMAIN leases]
        /\ \A i, j \in DOMAIN others : same[i] = same[j] => i = j
        /\ \A k \in DOMAIN leases : \E i \in DOMAIN others : same[i] = k
        /\ \A i \in DOMAIN others : others[i] = leases[same[i]]
    BY <2>1
  <2> HIDE DEF others, same
  <2>3. Counts(m.active, others)
    BY <1>1, <2>2, ListsRenamed
  <2> QED
    BY <1>1, <1>3, <1>5, <2>3 DEF others
<1>7. ASSUME NEW k \in 0..(n - 1), k \in T PROVE k + 1 \in T
  <2> DEFINE lists == Left(leases, name, k)
             rest == Left(leases, name, k + 1)
             r == f[k]
             x == name[k + 1]
  <2>1. k + 1 \in 0..n /\ k + 1 \in 1..Len(gone) /\ k \in Nat /\ k < k + 1
    BY <1>3
  <2>2. Good(r, k)
    BY <1>7
  <2>3. \A j \in 1..k : j \in 1..Len(gone) /\ j # k + 1
    BY <1>3, <2>1
  <2>4. x \in DOMAIN leases /\ \A j \in 1..k : name[j] # x
    BY <1>1, <2>1, <2>3
  <2>5. {name[j] : j \in 1..(k + 1)} = {name[j] : j \in 1..k} \cup {x}
    <3>1. 1..(k + 1) = 1..k \cup {k + 1}
      BY <2>1
    <3> QED
      BY <3>1
  <2>6. /\ x \in DOMAIN lists /\ DOMAIN rest = DOMAIN lists \ {x}
        /\ \A i \in DOMAIN rest : rest[i] = lists[i]
        /\ gone[k + 1] = lists[x]
    BY <1>1, <2>1, <2>4, <2>5 DEF Left
  <2>7. Counts(r.active, lists) /\ r \in Managers /\ ManagerOK(r)
    BY <2>2
  <2>8. f[k + 1] = ReleaseLease(r, lists[x])
    BY <1>5, <2>6
  <2> HIDE DEF lists, rest, r, x
  <2>9. LET released == ReleaseLease(r, lists[x]) IN
         /\ released \in Managers /\ ManagerOK(released) /\ Counts(released.active, rest)
         /\ released.cached = r.cached /\ released.index = r.index
         /\ released.records = r.records
    BY <2>6, <2>7, LeaseReleased
  <2>10. Good(f[k + 1], k + 1)
    BY <2>2, <2>8, <2>9 DEF rest
  <2> QED
    BY <2>1, <2>10
<1> HIDE DEF T
<1>8. \A k \in 0..n : k \in T
  BY <1>3, <1>6, <1>7, BoundedInduction
<1>9. n \in T
  BY <1>3, <1>8
<1> QED
  BY <1>2, <1>3, <1>9 DEF T

(* All the leases there are. *)
LEMMA AllReleased ==
  ASSUME NEW m \in Managers, ManagerOK(m), NEW gone, Len(gone) \in Nat,
         DOMAIN gone = 1..Len(gone), Counts(m.active, gone)
  PROVE  LET released == ReleaseAll(m, gone) IN
         /\ released \in Managers /\ ManagerOK(released)
         /\ Counts(released.active, <<>>)
         /\ released.cached = m.cached /\ released.index = m.index
         /\ released.records = m.records
<1> DEFINE same == [i \in 1..Len(gone) |-> i]
<1>1. Releases(m, gone, gone, same)
  BY DEF Releases
<1>2. Left(gone, same, Len(gone)) = <<>>
  <2>1. DOMAIN gone \ {same[j] : j \in 1..Len(gone)} = {}
    OBVIOUS
  <2> HIDE DEF same
  <2>2. DOMAIN Left(gone, same, Len(gone)) = {}
    BY <2>1 DEF Left
  <2>3. Left(gone, same, Len(gone)) = [i \in {} |-> gone[i]]
    BY <2>1 DEF Left
  <2>4. <<>> = [i \in {} |-> gone[i]]
    OBVIOUS
  <2> QED
    BY <2>3, <2>4
<1> HIDE DEF same
<1> QED
  BY <1>1, <1>2, LeasesReleased

-----------------------------------------------------------------------------
(* Rows that go on: the same pages, no token taken back, no less computed.   *)

(* A row that has gone on: the same pages, as many tokens or more, as much committed *)
(* or more.                                                                          *)
Continues(row, more) ==
  /\ row \in Rows /\ more \in Rows /\ RowOK(row) /\ RowOK(more)
  /\ more.pages = row.pages /\ row.committed <= more.committed
  /\ Len(row.tokens) <= Len(more.tokens)
  /\ \A o \in 1..Len(row.tokens) : more.tokens[o] = row.tokens[o]

(* What was a committed block is one still. *)
LEMMA BlocksContinue ==
  ASSUME NEW row, NEW more, Continues(row, more), NEW i \in Nat, i * PageSize <= row.committed
  PROVE  /\ i * PageSize <= more.committed
         /\ Block(more.tokens, i) = Block(row.tokens, i)
<1>1. /\ row \in Rows /\ more \in Rows /\ row.committed < Len(row.tokens)
      /\ row.committed <= more.committed /\ Len(row.tokens) <= Len(more.tokens)
      /\ \A o \in 1..Len(row.tokens) : more.tokens[o] = row.tokens[o]
  BY DEF Continues, RowOK
<1>2. /\ row.tokens \in Seq(Tokens) /\ more.tokens \in Seq(Tokens)
      /\ row.committed \in Nat /\ more.committed \in Nat
      /\ Len(row.tokens) \in Nat /\ Len(more.tokens) \in Nat
  BY <1>1, RowFields
<1>3. i * PageSize \in Nat
  BY TimesPageSize
<1>4. i * PageSize <= more.committed /\ i * PageSize <= Len(row.tokens)
  BY <1>1, <1>2, <1>3
<1> QED
  BY <1>1, <1>2, <1>4, BlockOfPrefix

(* Rows that have gone on are as sound as they were. *)
LEMMA RowsContinue ==
  ASSUME NEW m, NEW rows \in Seq(Rows), NEW next \in Seq(Rows), Sound(m, rows),
         DOMAIN next = DOMAIN rows, \A k \in DOMAIN rows : Continues(rows[k], next[k])
  PROVE  Sound(m, next)
<1>1. /\ ManagerOK(m) /\ Counts(m.active, PagesOf(rows))
      /\ \A k \in DOMAIN rows : RowOK(rows[k]) /\ RowIndexed(m, rows[k])
      /\ RowsAgree(rows)
  BY DEF Sound
<1>2. PagesOf(next) = PagesOf(rows)
  BY DEF PagesOf, Continues
<1>3. ASSUME NEW k \in DOMAIN next PROVE RowOK(next[k]) /\ RowIndexed(m, next[k])
  <2>1. Continues(rows[k], next[k])
    BY <1>3
  <2>2. rows[k] \in Rows /\ next[k].pages = rows[k].pages /\ RowOK(next[k])
    BY <2>1 DEF Continues
  <2>3. \A i \in DOMAIN rows[k].pages : i \in Nat
    BY <2>2, RowFields
  <2>4. RowIndexed(m, rows[k])
    BY <1>1
  <2>5. RowIndexed(m, next[k])
    BY <2>1, <2>2, <2>3, <2>4, BlocksContinue DEF RowIndexed
  <2> QED
    BY <2>2, <2>5
<1>4. RowsAgree(next)
  <2>1. SUFFICES ASSUME NEW k \in DOMAIN next, NEW l \in DOMAIN next, k # l,
                        NEW i \in DOMAIN next[k].pages, NEW j \in DOMAIN next[l].pages,
                        next[k].pages[i] = next[l].pages[j]
                 PROVE  /\ i = j
                        /\ i * PageSize <= next[k].committed /\ i * PageSize <= next[l].committed
                        /\ Block(next[k].tokens, i) = Block(next[l].tokens, i)
    BY DEF RowsAgree
  <2>2. Continues(rows[k], next[k]) /\ Continues(rows[l], next[l])
    OBVIOUS
  <2>3. /\ rows[k] \in Rows /\ next[k].pages = rows[k].pages
        /\ rows[l] \in Rows /\ next[l].pages = rows[l].pages
    BY <2>2 DEF Continues
  <2>4. i \in Nat
    BY <2>3, RowFields
  <2>5. /\ i = j
        /\ i * PageSize <= rows[k].committed /\ i * PageSize <= rows[l].committed
        /\ Block(rows[k].tokens, i) = Block(rows[l].tokens, i)
    BY <1>1, <2>1, <2>3 DEF RowsAgree
  <2>6. i * PageSize <= next[k].committed /\ Block(next[k].tokens, i) = Block(rows[k].tokens, i)
    BY <2>2, <2>4, <2>5, BlocksContinue
  <2>7. i * PageSize <= next[l].committed /\ Block(next[l].tokens, i) = Block(rows[l].tokens, i)
    BY <2>2, <2>4, <2>5, BlocksContinue
  <2> QED
    BY <2>5, <2>6, <2>7
<1> QED
  BY <1>1, <1>2, <1>3, <1>4 DEF Sound

-----------------------------------------------------------------------------
(* A row more.                                                               *)

(* A prompt fits a row of the table, with a token to spare. *)
LEMMA PromptFacts ==
  ASSUME NEW prompt \in Prompts
  PROVE  /\ prompt \in Seq(Tokens) /\ Len(prompt) \in Nat /\ Len(prompt) >= 1
         /\ Len(prompt) + 1 <= Capacity /\ Capacity \in Nat
<1>1. prompt \in Seq(Range(prompt)) /\ Len(prompt) \in 1..(MaxPagesPerSeq * PageSize - 1)
  BY InputAssumption
<1>2. Range(prompt) \subseteq Tokens
  BY DEF Tokens
<1>3. \A i \in 1..Len(prompt) : prompt[i] \in Tokens
  BY <1>1, <1>2
<1>4. prompt \in Seq(Tokens)
  BY <1>1, <1>3
<1>5. MaxPagesPerSeq * PageSize \in Nat
  BY TableAssumption, TimesPageSize
<1> QED
  BY <1>1, <1>4, <1>5 DEF Capacity

(* A sequence that may be seated, the lease it gets and its row. *)
Seats(m, rows, prompt, lookup, slot, lease) ==
  /\ m \in Managers /\ rows \in Seq(Rows) /\ Sound(m, rows)
  /\ prompt \in Prompts /\ lookup \in BOOLEAN /\ slot \in Slots
  /\ lease = Acquire(m, prompt, lookup)

(* A joiner's acquisition loses nothing but what it evicts; refused, nothing. *)
LEMMA SeatRefused ==
  ASSUME NEW m, NEW rows, NEW prompt, NEW lookup, NEW slot, NEW lease,
         Seats(m, rows, prompt, lookup, slot, lease)
  PROVE  /\ lease.acquired \in BOOLEAN /\ lease.manager \in Managers
         /\ Shrinks(m, lease.manager)
         /\ ~lease.acquired => lease.manager = m
<1>1. /\ m \in Managers /\ rows \in Seq(Rows) /\ Sound(m, rows)
      /\ prompt \in Prompts /\ lookup \in BOOLEAN
      /\ lease = Acquire(m, prompt, lookup)
  BY DEF Seats
<1>2. prompt \in Seq(Tokens) /\ Len(prompt) >= 1
  BY <1>1, PromptFacts
<1> DEFINE leases == PagesOf(rows)
           x == Len(rows) + 1
           more == [i \in DOMAIN leases \cup {x} |-> IF i = x THEN lease.pages ELSE leases[i]]
<1>3. MayAcquire(m, leases, x, lease.pages, more)
  <2>1. DOMAIN rows = 1..Len(rows) /\ Len(rows) \in Nat
    BY <1>1
  <2>2. DOMAIN leases = 1..Len(rows) /\ x \notin DOMAIN leases
    BY <2>1 DEF PagesOf
  <2>3. ManagerOK(m) /\ Counts(m.active, leases)
    BY <1>1 DEF Sound
  <2> HIDE DEF leases, x
  <2> QED
    BY <1>1, <2>2, <2>3 DEF MayAcquire
<1> HIDE DEF leases, x, more
<1>4. Acquires(m, leases, x, lease, prompt, more)
  BY <1>1, <1>2, <1>3, SequenceAcquires
<1> QED
  BY <1>4 DEF Acquires

(* A joiner's lease makes a row that is sound with the others, its pages for the *)
(* whole prompt.                                                                 *)
LEMMA RowSeated ==
  ASSUME NEW m, NEW rows, NEW prompt, NEW lookup, NEW slot, NEW lease,
         Seats(m, rows, prompt, lookup, slot, lease), lease.acquired
  PROVE  LET row == NewRow(prompt, lookup, slot, lease) IN
         /\ row \in Rows /\ Append(rows, row) \in Seq(Rows)
         /\ Sound(lease.manager, Append(rows, row))
         /\ Filled(row) /\ AcquiredFor(m, lease, prompt)
<1> DEFINE row == NewRow(prompt, lookup, slot, lease)
           next == Append(rows, row)
           n == Len(rows)
           leases == PagesOf(rows)
           more == PagesOf(next)
           after == lease.manager
<1>1. /\ m \in Managers /\ rows \in Seq(Rows) /\ Sound(m, rows)
      /\ prompt \in Prompts /\ lookup \in BOOLEAN /\ slot \in Slots
      /\ lease = Acquire(m, prompt, lookup)
  BY DEF Seats
<1>2. /\ prompt \in Seq(Tokens) /\ Len(prompt) \in Nat /\ Len(prompt) >= 1
      /\ Len(prompt) + 1 <= Capacity
  BY <1>1, PromptFacts
<1>3. /\ n \in Nat /\ DOMAIN rows = 1..n /\ ManagerOK(m) /\ Counts(m.active, leases)
      /\ \A k \in 1..n : RowOK(rows[k]) /\ RowIndexed(m, rows[k])
      /\ RowsAgree(rows)
      /\ DOMAIN next = 1..(n + 1) /\ next[n + 1] = row
      /\ \A k \in 1..n : next[k] = rows[k]
  BY <1>1 DEF Sound
<1>4. /\ DOMAIN leases = 1..n /\ \A k \in 1..n : leases[k] = rows[k].pages
      /\ DOMAIN more = 1..(n + 1) /\ more[n + 1] = row.pages
      /\ \A k \in 1..n : more[k] = rows[k].pages
  <2> HIDE DEF next, n, row
  <2> QED
    BY <1>3 DEF PagesOf
<1>5. /\ row.pages = lease.pages /\ row.tokens = prompt /\ row.slot = slot
      /\ row.input = Len(prompt) /\ row.lookup = lookup /\ row.committed = lease.reuse * PageSize
      /\ row.published = 0 /\ row.ended = "no"
      /\ row = [slot |-> slot, pages |-> lease.pages, tokens |-> prompt, input |-> Len(prompt),
                lookup |-> lookup, committed |-> lease.reuse * PageSize, published |-> 0, ended |-> "no"]
  BY DEF NewRow
<1> HIDE DEF row, next, n, leases, more
<1>6. MayAcquire(m, leases, n + 1, lease.pages, more)
  <2>1. n + 1 \notin DOMAIN leases /\ DOMAIN more = DOMAIN leases \cup {n + 1}
    BY <1>3, <1>4
  <2> QED
    BY <1>1, <1>3, <1>4, <1>5, <2>1 DEF MayAcquire
<1>7. Acquires(m, leases, n + 1, lease, prompt, more)
  BY <1>1, <1>2, <1>6, SequenceAcquires
<1>8. /\ after \in Managers /\ ManagerOK(after) /\ Shrinks(m, after)
      /\ AcquiredFor(m, lease, prompt) /\ Counts(after.active, more)
  BY <1>7 DEF Acquires
<1> HIDE DEF after
<1>9. /\ lease.reuse \in Nat /\ lease.reuse * PageSize < Len(prompt)
      /\ lease.pages \in Seq(Pages) /\ IsInjective(lease.pages)
      /\ Len(lease.pages) = PagesFor(Len(prompt) + 1)
      /\ lease.reuse <= Len(lease.pages)
      /\ \A i \in 1..lease.reuse :
           /\ Block(prompt, i) \in DOMAIN m.index
           /\ lease.pages[i] = m.index[Block(prompt, i)] /\ m.cached[lease.pages[i]] > 0
      /\ \A i \in (lease.reuse + 1)..Len(lease.pages) :
           /\ m.active[lease.pages[i]] = 0 /\ after.cached[lease.pages[i]] = 0
  BY <1>8 DEF AcquiredFor, after
<1>10. /\ Len(lease.pages) \in Nat /\ DOMAIN lease.pages = 1..Len(lease.pages)
       /\ lease.reuse * PageSize \in Nat /\ Len(lease.pages) * PageSize \in Nat
       /\ lease.reuse * PageSize <= Len(lease.pages) * PageSize
       /\ \A i \in 1..Len(lease.pages) : lease.pages[i] \in Pages
  <2>1. /\ lease.reuse \in Nat /\ Len(lease.pages) \in Nat /\ lease.reuse <= Len(lease.pages)
        /\ DOMAIN lease.pages = 1..Len(lease.pages)
        /\ \A i \in 1..Len(lease.pages) : lease.pages[i] \in Pages
    BY <1>9
  <2> QED
    BY <2>1, TimesPageSize
<1>11. row \in Rows
  BY <1>1, <1>2, <1>5, <1>9, <1>10 DEF Rows
<1>12. Len(prompt) + 1 <= Len(lease.pages) * PageSize /\ Len(lease.pages) <= MaxPagesPerSeq
  <2>1. Len(prompt) + 1 \in Nat /\ MaxPagesPerSeq \in Nat
    BY <1>2, TableAssumption
  <2>2. Len(prompt) + 1 <= MaxPagesPerSeq * PageSize
    BY <1>2 DEF Capacity
  <2> QED
    BY <1>9, <1>10, <2>1, <2>2, PagesForLength
<1>13. RowOK(row) /\ Filled(row)
  BY <1>2, <1>5, <1>9, <1>10, <1>12 DEF RowOK, Filled
<1>14. next \in Seq(Rows)
  BY <1>1, <1>11 DEF next
<1>15. RowIndexed(after, row)
  <2>1. SUFFICES ASSUME NEW i \in DOMAIN lease.pages, after.cached[lease.pages[i]] > 0
                 PROVE  /\ i * PageSize <= lease.reuse * PageSize
                        /\ Block(prompt, i) \in DOMAIN after.index
                        /\ after.index[Block(prompt, i)] = lease.pages[i]
    BY <1>5 DEF RowIndexed
  <2>2. i \in 1..lease.reuse
    <3>1. i \in 1..Len(lease.pages)
      BY <1>10
    <3>2. i \notin (lease.reuse + 1)..Len(lease.pages)
      BY <1>9, <2>1
    <3> QED
      BY <1>9, <1>10, <3>1, <3>2
  <2>3. Block(prompt, i) \in DOMAIN m.index /\ lease.pages[i] = m.index[Block(prompt, i)]
    BY <1>9, <2>2
  <2>4. i \in Nat /\ i <= lease.reuse
    BY <1>9, <2>2
  <2>5. i * PageSize <= lease.reuse * PageSize
    BY <1>9, <2>4, TimesPageSize
  <2> QED
    BY <1>8, <2>1, <2>3, <2>5 DEF Shrinks
<1>16. ASSUME NEW k \in 1..n
       PROVE  /\ rows[k] \in Rows /\ rows[k].pages \in Seq(Pages)
              /\ RowOK(rows[k]) /\ RowIndexed(after, rows[k])
  <2>1. rows[k] \in Rows /\ rows[k].pages \in Seq(Pages)
    BY <1>1, <1>3, RowOfSequence, RowFields
  <2> QED
    BY <1>3, <1>8, <2>1, ShrinksRowIndexed
<1>17. \A k \in DOMAIN next : RowOK(next[k]) /\ RowIndexed(after, next[k])
  <2>1. \A k \in DOMAIN next : k \in 1..n \/ k = n + 1
    BY <1>3
  <2> QED
    BY <1>3, <1>13, <1>15, <1>16, <2>1
(* A page of the new row that another row holds is a reused one. *)
<1>18. ASSUME NEW l \in 1..n, NEW i \in DOMAIN row.pages, NEW j \in DOMAIN rows[l].pages,
              row.pages[i] = rows[l].pages[j]
       PROVE  /\ i = j
              /\ i * PageSize <= row.committed /\ i * PageSize <= rows[l].committed
              /\ Block(row.tokens, i) = Block(rows[l].tokens, i)
  <2> DEFINE p == rows[l].pages[j]
  <2>1. /\ p \in Pages /\ p \in Range(rows[l].pages) /\ j \in Nat
        /\ rows[l].tokens \in Seq(Tokens) /\ rows[l].committed \in Nat
        /\ rows[l].committed < Len(rows[l].tokens) /\ Len(rows[l].tokens) \in Nat
    BY <1>16, RowFields DEF RowOK
  <2>2. lease.pages[i] = p /\ i \in 1..Len(lease.pages)
    BY <1>5, <1>10, <1>18
  <2>3. m.active[p] > 0
    BY <1>3, <1>4, <2>1, CountedIsHeld
  <2>4. i \in 1..lease.reuse
    <3>1. i \notin (lease.reuse + 1)..Len(lease.pages)
      BY <1>9, <2>2, <2>3
    <3> QED
      BY <1>9, <1>10, <2>2, <3>1
  <2>5. /\ Block(prompt, i) \in DOMAIN m.index /\ p = m.index[Block(prompt, i)] /\ m.cached[p] > 0
    BY <1>9, <2>2, <2>4
  <2>6. /\ j * PageSize <= rows[l].committed
        /\ Block(rows[l].tokens, j) \in DOMAIN m.index
        /\ m.index[Block(rows[l].tokens, j)] = p
    BY <1>3, <2>5 DEF RowIndexed
  <2>7. Block(rows[l].tokens, j) = Block(prompt, i)
    BY <1>3, <2>5, <2>6 DEF ManagerOK, IndexIsOfCached, IsInjective
  <2>12. i \in Nat /\ i <= lease.reuse /\ lease.reuse \in Nat
    BY <1>9, <2>4
  <2>8. /\ i \in Nat /\ i <= lease.reuse /\ i * PageSize \in Nat /\ j * PageSize \in Nat
        /\ i * PageSize <= lease.reuse * PageSize
    BY <2>1, <2>12, TimesPageSize
  <2>9. Len(Block(prompt, i)) = i * PageSize
    <3>1. i * PageSize <= Len(prompt)
      BY <1>2, <1>9, <1>10, <2>8
    <3> QED
      BY <1>2, <2>8, <3>1, BlockOfTokens
  <2>10. Len(Block(rows[l].tokens, j)) = j * PageSize
    <3>1. j * PageSize <= Len(rows[l].tokens)
      BY <2>1, <2>6, <2>8
    <3> QED
      BY <2>1, <3>1, BlockOfTokens
  <2>11. i = j
    BY <2>1, <2>7, <2>8, <2>9, <2>10, TimesPageSize
  <2> QED
    BY <1>5, <2>6, <2>7, <2>8, <2>11
<1>19. RowsAgree(next)
  <2>1. SUFFICES ASSUME NEW k \in DOMAIN next, NEW l \in DOMAIN next, k # l,
                        NEW i \in DOMAIN next[k].pages, NEW j \in DOMAIN next[l].pages,
                        next[k].pages[i] = next[l].pages[j]
                 PROVE  /\ i = j
                        /\ i * PageSize <= next[k].committed /\ i * PageSize <= next[l].committed
                        /\ Block(next[k].tokens, i) = Block(next[l].tokens, i)
    BY DEF RowsAgree
  <2>2. (k \in 1..n \/ k = n + 1) /\ (l \in 1..n \/ l = n + 1)
    BY <1>3
  <2>3. CASE k \in 1..n /\ l \in 1..n
    BY <1>3, <2>1, <2>3 DEF RowsAgree
  <2>4. CASE k = n + 1 /\ l \in 1..n
    BY <1>3, <1>18, <2>1, <2>4
  <2>5. CASE k \in 1..n /\ l = n + 1
    <3>1. /\ next[k] = rows[k] /\ next[l] = row
          /\ j \in DOMAIN row.pages /\ i \in DOMAIN rows[k].pages
          /\ row.pages[j] = rows[k].pages[i]
      BY <1>3, <2>1, <2>5
    <3>2. /\ j = i
          /\ j * PageSize <= row.committed /\ j * PageSize <= rows[k].committed
          /\ Block(row.tokens, j) = Block(rows[k].tokens, j)
      BY <1>18, <2>5, <3>1
    <3> QED
      BY <3>1, <3>2
  <2>6. ~(k = n + 1 /\ l = n + 1)
    BY <2>1
  <2> QED
    BY <2>2, <2>3, <2>4, <2>5, <2>6
<1>20. Sound(after, next)
  BY <1>8, <1>17, <1>19 DEF Sound, more
<1> QED
  BY <1>8, <1>11, <1>13, <1>14, <1>20 DEF row, next, after

-----------------------------------------------------------------------------
(* Rows that stay when others leave.                                         *)

(* Some of the rows, each once, with a manager whose cache is the same. *)
IsPart(rows, next, at) ==
  /\ rows \in Seq(Rows) /\ next \in Seq(Rows)
  /\ at \in [DOMAIN next -> DOMAIN rows]
  /\ \A i, j \in DOMAIN next : at[i] = at[j] => i = j
  /\ \A i \in DOMAIN next : next[i] = rows[at[i]]

(* Some of the rows are sound when only they are counted. *)
LEMMA PartIsSound ==
  ASSUME NEW m, NEW less, NEW rows, NEW next, NEW at, Sound(m, rows), IsPart(rows, next, at),
         ManagerOK(less), less.cached = m.cached, less.index = m.index,
         Counts(less.active, PagesOf(next))
  PROVE  Sound(less, next)
<1>1. /\ at \in [DOMAIN next -> DOMAIN rows]
      /\ \A i, j \in DOMAIN next : at[i] = at[j] => i = j
      /\ \A i \in DOMAIN next : next[i] = rows[at[i]]
  BY DEF IsPart
<1>2. \A k \in DOMAIN next : RowOK(next[k]) /\ RowIndexed(less, next[k])
  BY <1>1 DEF Sound, RowIndexed
<1>3. RowsAgree(next)
  <2>1. SUFFICES ASSUME NEW k \in DOMAIN next, NEW l \in DOMAIN next, k # l,
                        NEW i \in DOMAIN next[k].pages, NEW j \in DOMAIN next[l].pages,
                        next[k].pages[i] = next[l].pages[j]
                 PROVE  /\ i = j
                        /\ i * PageSize <= next[k].committed /\ i * PageSize <= next[l].committed
                        /\ Block(next[k].tokens, i) = Block(next[l].tokens, i)
    BY DEF RowsAgree
  <2>2. at[k] \in DOMAIN rows /\ at[l] \in DOMAIN rows /\ at[k] # at[l]
        /\ next[k] = rows[at[k]] /\ next[l] = rows[at[l]]
    BY <1>1, <2>1
  <2>3. RowsAgree(rows)
    BY DEF Sound
  <2> QED
    BY <2>1, <2>2, <2>3 DEF RowsAgree
<1> QED
  BY <1>2, <1>3 DEF Sound

(* The last row leaves. *)
LEMMA LastRowReleased ==
  ASSUME NEW m \in Managers, NEW rows \in Seq(Rows), Sound(m, rows), Len(rows) >= 1
  PROVE  LET less == ReleaseLease(m, Last(rows).pages) IN
         /\ less \in Managers /\ Sound(less, Front(rows)) /\ Front(rows) \in Seq(Rows)
         /\ Len(Front(rows)) = Len(rows) - 1
         /\ \A i \in 1..(Len(rows) - 1) : Front(rows)[i] = rows[i]
         /\ less.cached = m.cached /\ less.index = m.index
<1> DEFINE n == Len(rows)
           next == Front(rows)
           less == ReleaseLease(m, Last(rows).pages)
           at == [i \in 1..(n - 1) |-> i]
<1>1. /\ n \in Nat /\ n >= 1 /\ DOMAIN rows = 1..n /\ Last(rows) = rows[n]
      /\ \A i \in 1..n : rows[i] \in Rows
  BY DEF Last
<1>2. next = SubSeq(rows, 1, n - 1)
  BY DEF Front
<1>3. /\ next \in Seq(Rows) /\ Len(next) = n - 1 /\ DOMAIN next = 1..(n - 1)
      /\ \A i \in 1..(n - 1) : next[i] = rows[i]
  <2>1. n - 1 \in Nat /\ \A i \in 1..(n - 1) : i \in 1..n
    BY <1>1
  <2> QED
    BY <1>1, <1>2, <2>1
<1> HIDE DEF next
<1>4. IsPart(rows, next, at)
  BY <1>1, <1>3 DEF IsPart
<1>5. /\ DOMAIN PagesOf(rows) = 1..n /\ \A i \in 1..n : PagesOf(rows)[i] = rows[i].pages
      /\ DOMAIN PagesOf(next) = 1..(n - 1)
      /\ \A i \in 1..(n - 1) : PagesOf(next)[i] = rows[i].pages
  <2> HIDE DEF n
  <2> QED
    BY <1>1, <1>3 DEF PagesOf
<1> HIDE DEF at, n
<1> DEFINE leases == PagesOf(rows)
           rest == PagesOf(next)
<1>6. /\ n \in DOMAIN leases /\ DOMAIN rest = DOMAIN leases \ {n}
      /\ \A i \in DOMAIN rest : rest[i] = leases[i]
      /\ less = ReleaseLease(m, leases[n])
  BY <1>1, <1>5
<1> HIDE DEF leases, rest, less
<1>7. ManagerOK(m) /\ Counts(m.active, leases)
  BY DEF Sound, leases
<1>8. /\ less \in Managers /\ ManagerOK(less) /\ Counts(less.active, rest)
      /\ less.cached = m.cached /\ less.index = m.index
  BY <1>6, <1>7, LeaseReleased
<1>9. Sound(less, next)
  BY <1>4, <1>8, PartIsSound DEF rest
<1> QED
  BY <1>3, <1>8, <1>9 DEF less, next, n

(* Compaction: the leases of some rows go, the other rows stay in their order. *)
Compacts(m, rows, gone, stay) ==
  /\ m \in Managers /\ rows \in Seq(Rows) /\ Sound(m, rows)
  /\ gone \cup stay = DOMAIN rows /\ gone \cap stay = {}

(* compactBatch(): the leases of the rows that go are released, and the rows that *)
(* stay are sound.                                                                *)
LEMMA RowsCompacted ==
  ASSUME NEW m, NEW rows, NEW gone, NEW stay, Compacts(m, rows, gone, stay)
  PROVE  LET less == ReleaseAll(m, PagesOf(InOrder(rows, gone)))
             kept == InOrder(rows, stay)
         IN /\ less \in Managers /\ kept \in Seq(Rows) /\ Sound(less, kept)
            /\ less.cached = m.cached /\ less.index = m.index
            /\ IsPart(rows, kept, Ascending(stay))
<1> DEFINE retired == InOrder(rows, gone)
           kept == InOrder(rows, stay)
           leases == PagesOf(rows)
           lists == PagesOf(retired)
           less == ReleaseAll(m, lists)
           name == Ascending(gone)
           left == Left(leases, name, Len(lists))
           at == Ascending(stay)
           g == Cardinality(gone)
           s == Cardinality(stay)
<1>1. /\ m \in Managers /\ rows \in Seq(Rows) /\ Sound(m, rows)
      /\ gone \cup stay = DOMAIN rows /\ gone \cap stay = {}
      /\ ManagerOK(m) /\ Counts(m.active, leases)
  BY DEF Compacts, Sound
<1>2. PICK n \in Nat : DOMAIN rows = 1..n
  BY <1>1
<1>3. gone \subseteq 1..n /\ stay \subseteq 1..n /\ gone \subseteq DOMAIN rows /\ stay \subseteq DOMAIN rows
  BY <1>1, <1>2
<1>4. /\ retired \in Seq(Rows) /\ Len(retired) = g /\ DOMAIN retired = 1..g /\ g \in Nat
      /\ \A k \in 1..g : name[k] \in gone /\ retired[k] = rows[name[k]]
  BY <1>1, <1>3, InOrderItems
<1>5. /\ kept \in Seq(Rows) /\ Len(kept) = s /\ DOMAIN kept = 1..s /\ s \in Nat
      /\ \A k \in 1..s : at[k] \in stay /\ kept[k] = rows[at[k]]
  BY <1>1, <1>3, InOrderItems
<1>6. /\ name \in [1..g -> gone]
      /\ \A i, j \in 1..g : name[i] = name[j] => i = j
      /\ \A k \in gone : \E i \in 1..g : name[i] = k
  BY <1>2, <1>3, AscendingOrder
<1>7. /\ at \in [1..s -> stay]
      /\ \A i, j \in 1..s : at[i] = at[j] => i = j
      /\ \A k \in stay : \E i \in 1..s : at[i] = k
  BY <1>2, <1>3, AscendingOrder
<1> HIDE DEF retired, kept, name, at, g, s
<1>8. /\ DOMAIN leases = DOMAIN rows /\ \A i \in DOMAIN rows : leases[i] = rows[i].pages
      /\ DOMAIN lists = 1..g /\ \A i \in 1..g : lists[i] = retired[i].pages
      /\ lists \in Seq(Seq(Pages)) /\ Len(lists) = g
  <2>1. lists = [i \in 1..g |-> retired[i].pages]
    BY <1>4 DEF PagesOf
  <2>2. \A i \in 1..g : retired[i].pages \in Seq(Pages)
    <3>1. \A i \in 1..g : retired[i] \in Rows
      BY <1>4
    <3> QED
      BY <3>1, RowFields
  <2>3. lists \in Seq(Seq(Pages)) /\ Len(lists) = g
    <3> HIDE DEF lists
    <3> QED
      BY <1>4, <2>1, <2>2
  <2> QED
    BY <2>1, <2>3 DEF PagesOf
<1> HIDE DEF leases, lists
<1>9. Releases(m, leases, lists, name)
  <2>1. name \in [1..g -> DOMAIN leases]
    BY <1>3, <1>6, <1>8
  <2>2. \A i \in 1..g : lists[i] = leases[name[i]]
    BY <1>3, <1>4, <1>8
  <2>3. Len(lists) = g /\ g \in Nat
    BY <1>4, <1>8
  <2> QED
    BY <1>1, <1>6, <2>1, <2>2, <2>3 DEF Releases
<1>10. /\ less \in Managers /\ ManagerOK(less) /\ Counts(less.active, left)
       /\ less.cached = m.cached /\ less.index = m.index
  BY <1>9, LeasesReleased
<1>11. /\ DOMAIN left = stay /\ \A i \in stay : left[i] = rows[i].pages
  <2>1. {name[j] : j \in 1..g} = gone
    BY <1>6
  <2>2. left = [i \in DOMAIN leases \ {name[j] : j \in 1..g} |-> leases[i]]
    BY <1>8 DEF Left
  <2>3. DOMAIN leases \ gone = stay
    BY <1>1, <1>8
  <2> HIDE DEF left
  <2> QED
    BY <1>3, <1>8, <2>1, <2>2, <2>3
<1> HIDE DEF less, left
<1>12. Counts(less.active, PagesOf(kept))
  <2> DEFINE others == PagesOf(kept)
  <2>1. DOMAIN others = 1..s /\ \A i \in 1..s : others[i] = kept[i].pages
    BY <1>5 DEF PagesOf
  <2> HIDE DEF others
  <2>2. /\ at \in [DOMAIN others -> DOMAIN left]
        /\ \A i, j \in DOMAIN others : at[i] = at[j] => i = j
        /\ \A k \in DOMAIN left : \E i \in DOMAIN others : at[i] = k
        /\ \A i \in DOMAIN others : others[i] = left[at[i]]
    BY <1>5, <1>7, <1>11, <2>1
  <2>3. Counts(less.active, others)
    BY <1>10, <2>2, ListsRenamed
  <2> QED
    BY <2>3 DEF others
<1>13. IsPart(rows, kept, at)
  <2>1. at \in [DOMAIN kept -> DOMAIN rows]
    BY <1>3, <1>5, <1>7
  <2> QED
    BY <1>1, <1>5, <1>7, <2>1 DEF IsPart
<1>14. Sound(less, kept)
  BY <1>1, <1>10, <1>12, <1>13, PartIsSound
<1> QED
  BY <1>5, <1>10, <1>13, <1>14 DEF less, kept, at, lists, retired

-----------------------------------------------------------------------------
(* Rows that grow for a step.                                                *)

(* A row that has grown, and has changed in nothing else. *)
PagesGrow(row, more) ==
  /\ row \in Rows /\ more \in Rows
  /\ more.slot = row.slot /\ more.tokens = row.tokens /\ more.input = row.input
  /\ more.lookup = row.lookup /\ more.committed = row.committed
  /\ more.published = row.published /\ more.ended = row.ended
  /\ Len(row.pages) <= Len(more.pages)
  /\ \A i \in 1..Len(row.pages) : more.pages[i] = row.pages[i]

(* Growing twice is growing. *)
LEMMA GrowsTwice ==
  ASSUME NEW a, NEW b, NEW c, PagesGrow(a, b), PagesGrow(b, c)
  PROVE  PagesGrow(a, c)
<1>1. /\ a \in Rows /\ b \in Rows /\ c \in Rows
      /\ Len(a.pages) <= Len(b.pages) /\ Len(b.pages) <= Len(c.pages)
      /\ \A i \in 1..Len(a.pages) : b.pages[i] = a.pages[i]
      /\ \A i \in 1..Len(b.pages) : c.pages[i] = b.pages[i]
  BY DEF PagesGrow
<1>2. Len(a.pages) \in Nat /\ Len(b.pages) \in Nat /\ Len(c.pages) \in Nat
  BY <1>1, RowFields
<1>3. Len(a.pages) <= Len(c.pages) /\ \A i \in 1..Len(a.pages) : i \in 1..Len(b.pages)
  BY <1>1, <1>2
<1> QED
  BY <1>1, <1>3 DEF PagesGrow

(* A row that the pool can grow, within the table's width. *)
MayGrow(m, rows, k, demand, lease, next) ==
  /\ m \in Managers /\ rows \in Seq(Rows) /\ Sound(m, rows) /\ k \in DOMAIN rows
  /\ demand \in Nat /\ Feasible(m, demand)
  /\ Len(rows[k].pages) + demand <= MaxPagesPerSeq
  /\ lease = GrowPages(m, rows[k].pages, demand)
  /\ next = [rows EXCEPT ![k].pages = lease.pages]

(* A row that grows keeps the manager and the rows sound. *)
LEMMA RowGrown ==
  ASSUME NEW m, NEW rows, NEW k, NEW demand, NEW lease, NEW next,
         MayGrow(m, rows, k, demand, lease, next)
  PROVE  /\ lease.acquired /\ lease.manager \in Managers /\ next \in Seq(Rows)
         /\ Sound(lease.manager, next) /\ Shrinks(m, lease.manager)
         /\ DOMAIN next = DOMAIN rows /\ PagesGrow(rows[k], next[k])
         /\ \A l \in DOMAIN rows : l # k => next[l] = rows[l]
         /\ Len(next[k].pages) = Len(rows[k].pages) + demand
<1> DEFINE row == rows[k]
           more == [row EXCEPT !.pages = lease.pages]
           after == lease.manager
           held == Len(row.pages)
           leases == PagesOf(rows)
           grown == PagesOf(next)
<1>1. /\ m \in Managers /\ rows \in Seq(Rows) /\ Sound(m, rows) /\ k \in DOMAIN rows
      /\ demand \in Nat /\ Feasible(m, demand) /\ held + demand <= MaxPagesPerSeq
      /\ ManagerOK(m) /\ Counts(m.active, leases)
      /\ \A l \in DOMAIN rows : RowOK(rows[l]) /\ RowIndexed(m, rows[l])
      /\ RowsAgree(rows)
      /\ lease = GrowPages(m, row.pages, demand)
      /\ next = [rows EXCEPT ![k].pages = lease.pages]
  BY DEF MayGrow, Sound
<1>2. row \in Rows /\ held \in Nat /\ row.pages \in Seq(Pages)
  BY <1>1, RowOfSequence, RowFields
<1>3. DOMAIN next = DOMAIN rows /\ next[k] = more /\ \A l \in DOMAIN rows : l # k => next[l] = rows[l]
  BY <1>1
<1>4. next = [l \in DOMAIN rows |-> next[l]]
  BY <1>1
<1>5. /\ DOMAIN leases = DOMAIN rows /\ \A l \in DOMAIN rows : leases[l] = rows[l].pages
      /\ DOMAIN grown = DOMAIN rows /\ \A l \in DOMAIN rows : grown[l] = next[l].pages
  BY <1>3 DEF PagesOf
<1> HIDE DEF leases, grown
<1>6. more.pages = lease.pages
  BY <1>2 DEF Rows
<1>7. GrowsLease(m, leases, k, demand, grown)
  BY <1>1, <1>3, <1>5, <1>6 DEF GrowsLease
<1>8. /\ lease.acquired
      /\ after \in Managers /\ ManagerOK(after) /\ Shrinks(m, after)
      /\ Counts(after.active, grown)
      /\ lease.pages \in Seq(Pages) /\ IsInjective(lease.pages)
      /\ Len(lease.pages) = held + demand
      /\ \A i \in 1..held : lease.pages[i] = row.pages[i]
      /\ \A i \in (held + 1)..(held + demand) :
           /\ m.active[lease.pages[i]] = 0 /\ after.cached[lease.pages[i]] = 0
  <2> DEFINE got == GrowPages(m, leases[k], demand)
  <2>1. leases[k] = row.pages
    BY <1>1, <1>5
  <2>2. got = lease
    BY <1>1, <2>1
  <2>3. /\ got.acquired
        /\ got.manager \in Managers /\ ManagerOK(got.manager) /\ Shrinks(m, got.manager)
        /\ Counts(got.manager.active, grown)
        /\ got.pages \in Seq(Pages) /\ IsInjective(got.pages)
        /\ Len(got.pages) = Len(leases[k]) + demand
        /\ \A i \in 1..Len(leases[k]) : got.pages[i] = leases[k][i]
        /\ \A i \in (Len(leases[k]) + 1)..(Len(leases[k]) + demand) :
             /\ m.active[got.pages[i]] = 0 /\ got.manager.cached[got.pages[i]] = 0
    BY <1>7, LeaseGrown
  <2> HIDE DEF got
  <2> QED
    BY <2>1, <2>2, <2>3
<1>9. /\ more \in Rows /\ more.slot = row.slot /\ more.tokens = row.tokens
      /\ more.input = row.input /\ more.lookup = row.lookup /\ more.committed = row.committed
      /\ more.published = row.published /\ more.ended = row.ended
  BY <1>2, <1>8 DEF Rows
<1> HIDE DEF more, after, held
<1>10. PagesGrow(row, more)
  <2>1. Len(more.pages) = held + demand /\ held <= held + demand
    BY <1>1, <1>2, <1>6, <1>8
  <2> QED
    BY <1>2, <1>6, <1>8, <1>9, <2>1 DEF PagesGrow, held
<1>11. next \in Seq(Rows)
  <2>1. ASSUME NEW l \in DOMAIN rows PROVE next[l] \in Rows
    <3>1. rows[l] \in Rows
      BY <1>1, RowOfSequence
    <3>2. next[l] = more \/ next[l] = rows[l]
      BY <1>3
    <3> QED
      BY <1>9, <3>1, <3>2
  <2>2. PICK n \in Nat : DOMAIN rows = 1..n
    BY <1>1
  <2> QED
    BY <1>4, <2>1, <2>2
<1>12. /\ row.committed < Len(row.tokens) /\ row.committed <= held * PageSize
       /\ row.committed \in Nat
  BY <1>1, <1>2, RowFields DEF RowOK, held
<1>13. RowOK(more)
  <2>1. held * PageSize \in Nat /\ (held + demand) * PageSize \in Nat
        /\ held * PageSize <= (held + demand) * PageSize
    <3>1. held + demand \in Nat /\ held <= held + demand
      BY <1>1, <1>2
    <3> HIDE DEF held
    <3> QED
      BY <1>2, <3>1, TimesPageSize
  <2>2. row.committed <= (held + demand) * PageSize
    BY <1>12, <2>1
  <2> QED
    BY <1>1, <1>6, <1>8, <1>9, <1>12, <2>2 DEF RowOK
<1>14. \A i \in DOMAIN more.pages : /\ i \in 1..held \/ i \in (held + 1)..(held + demand)
                                    /\ i \in Nat /\ lease.pages[i] \in Pages
  <2>1. DOMAIN more.pages = 1..(held + demand)
    BY <1>6, <1>8
  <2> QED
    BY <1>1, <1>2, <1>8, <2>1
<1>15. RowIndexed(after, more)
  <2>1. SUFFICES ASSUME NEW i \in DOMAIN more.pages, after.cached[more.pages[i]] > 0
                 PROVE  /\ i * PageSize <= more.committed
                        /\ Block(more.tokens, i) \in DOMAIN after.index
                        /\ after.index[Block(more.tokens, i)] = more.pages[i]
    BY DEF RowIndexed
  <2>2. i \in 1..held
    BY <1>6, <1>8, <1>14, <2>1
  <2>3. /\ more.pages[i] = row.pages[i] /\ i \in DOMAIN row.pages /\ row.pages[i] \in Pages
    BY <1>2, <1>6, <1>8, <2>2 DEF held
  <2>4. RowIndexed(after, row)
    BY <1>1, <1>2, <1>8, ShrinksRowIndexed
  <2> QED
    BY <1>9, <2>1, <2>3, <2>4 DEF RowIndexed
<1>16. \A l \in DOMAIN next : RowOK(next[l]) /\ RowIndexed(after, next[l])
  <2>1. ASSUME NEW l \in DOMAIN rows, l # k PROVE RowOK(rows[l]) /\ RowIndexed(after, rows[l])
    <3>1. rows[l].pages \in Seq(Pages)
      BY <1>1, RowOfSequence, RowFields
    <3> QED
      BY <1>1, <1>8, <3>1, ShrinksRowIndexed
  <2> QED
    BY <1>3, <1>13, <1>15, <2>1
(* A page that the row has grown by is nobody else's. *)
<1>17. ASSUME NEW l \in DOMAIN rows, l # k, NEW i \in DOMAIN more.pages,
              NEW j \in DOMAIN rows[l].pages, more.pages[i] = rows[l].pages[j]
       PROVE  /\ i = j
              /\ i * PageSize <= more.committed /\ i * PageSize <= rows[l].committed
              /\ Block(more.tokens, i) = Block(rows[l].tokens, i)
  <2>1. rows[l].pages[j] \in Pages /\ rows[l].pages[j] \in Range(leases[l]) /\ l \in DOMAIN leases
    <3>1. rows[l].pages[j] \in Pages /\ rows[l].pages[j] \in Range(rows[l].pages)
      BY <1>1, RowOfSequence, RowFields
    <3> QED
      BY <1>5, <3>1
  <2>2. m.active[rows[l].pages[j]] > 0
    BY <1>1, <2>1, CountedIsHeld
  <2>3. i \in 1..held
    BY <1>6, <1>8, <1>14, <1>17, <2>2
  <2>4. row.pages[i] = rows[l].pages[j] /\ i \in DOMAIN row.pages
    BY <1>2, <1>6, <1>8, <1>17, <2>3 DEF held
  <2>5. /\ i = j
        /\ i * PageSize <= row.committed /\ i * PageSize <= rows[l].committed
        /\ Block(row.tokens, i) = Block(rows[l].tokens, i)
    BY <1>1, <1>17, <2>4 DEF RowsAgree
  <2> QED
    BY <1>9, <2>5
<1>18. RowsAgree(next)
  <2>1. SUFFICES ASSUME NEW c \in DOMAIN next, NEW l \in DOMAIN next, c # l,
                        NEW i \in DOMAIN next[c].pages, NEW j \in DOMAIN next[l].pages,
                        next[c].pages[i] = next[l].pages[j]
                 PROVE  /\ i = j
                        /\ i * PageSize <= next[c].committed /\ i * PageSize <= next[l].committed
                        /\ Block(next[c].tokens, i) = Block(next[l].tokens, i)
    BY DEF RowsAgree
  <2>2. CASE c # k /\ l # k
    BY <1>1, <1>3, <2>1, <2>2 DEF RowsAgree
  <2>3. CASE c = k
    <3>1. next[c] = more /\ next[l] = rows[l] /\ l # k /\ l \in DOMAIN rows
      BY <1>3, <2>1, <2>3
    <3> QED
      BY <1>17, <2>1, <3>1
  <2>4. CASE l = k
    <3>1. /\ next[l] = more /\ next[c] = rows[c] /\ c # k /\ c \in DOMAIN rows
          /\ j \in DOMAIN more.pages /\ i \in DOMAIN rows[c].pages
          /\ more.pages[j] = rows[c].pages[i]
      BY <1>3, <2>1, <2>4
    <3>2. /\ j = i
          /\ j * PageSize <= more.committed /\ j * PageSize <= rows[c].committed
          /\ Block(more.tokens, j) = Block(rows[c].tokens, j)
      BY <1>17, <3>1
    <3> QED
      BY <3>1, <3>2
  <2> QED
    BY <2>2, <2>3, <2>4
<1>19. Sound(after, next)
  BY <1>8, <1>16, <1>18 DEF Sound, grown
<1>20. Len(more.pages) = held + demand
  BY <1>6, <1>8
<1> QED
  BY <1>3, <1>8, <1>10, <1>11, <1>19, <1>20 DEF after, row, held

-----------------------------------------------------------------------------
(* A founding batch takes its leases one after the other.                    *)

(* There are finitely many slots, and one at least. *)
LEMMA SlotsFinite ==
  /\ IsFiniteSet(Slots) /\ Cardinality(Slots) \in Nat /\ Cardinality(Slots) >= 1
  /\ \A s \in Slots : s \in Nat
<1>1. /\ IsFiniteSet(Slots) /\ Slots = 0..(Cardinality(Slots) - 1) /\ Slots # {}
      /\ Cardinality(Slots) \in Nat
  BY FS_CardinalityType, TableAssumption
<1> QED
  BY <1>1

(* The type of a manager's index. *)
LEMMA ManagerIndex ==
  ASSUME NEW m \in Managers
  PROVE  m.index \in Indexes
  BY DEF Managers

(* The batches on the way, as the founders take their leases. *)
IsTaking(m, prompts, lookups, n, f) ==
  /\ n \in Nat
  /\ f = [k \in 0..n |-> IF k = 0 THEN [ok |-> TRUE, manager |-> m, rows |-> <<>>]
                         ELSE Take(f[k - 1], prompts[k], lookups[k])]

(* They are each the one before with one founder more, or a refusal. *)
LEMMA TakingValues ==
  ASSUME NEW m, NEW prompts, NEW lookups, NEW n, NEW f, IsTaking(m, prompts, lookups, n, f)
  PROVE  /\ f[0] = [ok |-> TRUE, manager |-> m, rows |-> <<>>]
         /\ \A k \in 0..(n - 1) : f[k + 1] = Take(f[k], prompts[k + 1], lookups[k + 1])
<1> DEFINE g == [k \in 0..n |-> IF k = 0 THEN [ok |-> TRUE, manager |-> m, rows |-> <<>>]
                                ELSE Take(f[k - 1], prompts[k], lookups[k])]
<1>1. f = g /\ n \in Nat
  BY DEF IsTaking
<1>2. g[0] = [ok |-> TRUE, manager |-> m, rows |-> <<>>]
  BY <1>1
<1>3. ASSUME NEW k \in 0..(n - 1) PROVE g[k + 1] = Take(f[k], prompts[k + 1], lookups[k + 1])
  <2>1. k + 1 \in 0..n /\ k + 1 # 0 /\ (k + 1) - 1 = k
    BY <1>1
  <2> QED
    BY <2>1
<1> HIDE DEF g
<1> QED
  BY <1>1, <1>2, <1>3

(* There are such batches, of any number of founders. *)
LEMMA TakingExists ==
  ASSUME NEW m, NEW prompts, NEW lookups
  PROVE  \A n \in Nat : \E f : IsTaking(m, prompts, lookups, n, f)
<1> DEFINE T == {n \in Nat : \E f : IsTaking(m, prompts, lookups, n, f)}
<1>1. 0 \in T
  <2> DEFINE f == [k \in 0..0 |-> [ok |-> TRUE, manager |-> m, rows |-> <<>>]]
  <2>1. f = [k \in 0..0 |-> IF k = 0 THEN [ok |-> TRUE, manager |-> m, rows |-> <<>>]
                            ELSE Take(f[k - 1], prompts[k], lookups[k])]
    <3>1. \A k \in 0..0 : k = 0
      OBVIOUS
    <3> QED
      BY <3>1
  <2> HIDE DEF f
  <2> QED
    BY <2>1 DEF IsTaking
<1>2. ASSUME NEW n \in Nat, n \in T PROVE n + 1 \in T
  <2>1. PICK f : IsTaking(m, prompts, lookups, n, f)
    BY <1>2
  <2>2. \A k \in 0..n : f[k] = IF k = 0 THEN [ok |-> TRUE, manager |-> m, rows |-> <<>>]
                               ELSE Take(f[k - 1], prompts[k], lookups[k])
    BY <2>1 DEF IsTaking
  <2> DEFINE g == [k \in 0..(n + 1) |-> IF k = n + 1 THEN Take(f[n], prompts[n + 1], lookups[n + 1])
                                        ELSE f[k]]
  <2>3. ASSUME NEW k \in 0..(n + 1)
        PROVE  g[k] = IF k = 0 THEN [ok |-> TRUE, manager |-> m, rows |-> <<>>]
                      ELSE Take(g[k - 1], prompts[k], lookups[k])
    <3>1. CASE k = n + 1
      <4>1. k # 0 /\ k - 1 = n /\ n \in 0..(n + 1) /\ n # n + 1
        BY <3>1
      <4>2. g[k - 1] = f[n]
        BY <4>1
      <4> QED
        BY <3>1, <4>1, <4>2
    <3>2. CASE k # n + 1
      <4>1. k \in 0..n /\ g[k] = f[k]
        BY <3>2
      <4>2. k # 0 => k - 1 \in 0..(n + 1) /\ k - 1 # n + 1
        BY <4>1
      <4>3. k # 0 => g[k - 1] = f[k - 1]
        BY <4>2
      <4> HIDE DEF g
      <4> QED
        BY <2>2, <4>1, <4>3
    <3> QED
      BY <3>1, <3>2
  <2>4. g = [k \in 0..(n + 1) |-> g[k]]
    OBVIOUS
  <2> HIDE DEF g
  <2>5. g = [k \in 0..(n + 1) |-> IF k = 0 THEN [ok |-> TRUE, manager |-> m, rows |-> <<>>]
                                  ELSE Take(g[k - 1], prompts[k], lookups[k])]
    BY <2>3, <2>4
  <2>6. n + 1 \in Nat
    OBVIOUS
  <2>7. IsTaking(m, prompts, lookups, n + 1, g)
    BY <2>5, <2>6 DEF IsTaking
  <2> QED
    BY <2>7
<1> HIDE DEF T
<1>3. \A n \in Nat : n \in T
  BY <1>1, <1>2, SetInduction
<1> QED
  BY <1>3 DEF T

(* The founding batch is the last of them. *)
LEMMA TakingIs ==
  ASSUME NEW prompts, NEW lookups, Len(prompts) \in Nat
  PROVE  \E f : /\ IsTaking(manager, prompts, lookups, Len(prompts), f)
                /\ Taken(prompts, lookups) = f[Len(prompts)]
<1> DEFINE n == Len(prompts)
           P == CHOOSE f : IsTaking(manager, prompts, lookups, n, f)
<1>1. \E f : IsTaking(manager, prompts, lookups, n, f)
  BY TakingExists
<1>2. IsTaking(manager, prompts, lookups, n, P)
  BY <1>1
<1>3. Taken(prompts, lookups) = P[n]
  BY DEF Taken, IsTaking
<1> QED
  BY <1>2, <1>3

(* The committed part of a new row is what it reuses. *)
Reuses(m, row) ==
  \E reuse \in Nat :
    /\ row.committed = reuse * PageSize /\ reuse <= Len(row.pages)
    /\ \A i \in 1..reuse : /\ Block(row.tokens, i) \in DOMAIN m.index
                            /\ m.index[Block(row.tokens, i)] = row.pages[i]

(* A block that an eviction has left was there before. *)
LEMMA ReusesBefore ==
  ASSUME NEW m, NEW less, NEW row, Shrinks(m, less), Reuses(less, row)
  PROVE  Reuses(m, row)
<1>1. PICK reuse \in Nat :
        /\ row.committed = reuse * PageSize /\ reuse <= Len(row.pages)
        /\ \A i \in 1..reuse : /\ Block(row.tokens, i) \in DOMAIN less.index
                                /\ less.index[Block(row.tokens, i)] = row.pages[i]
  BY DEF Reuses
<1>2. \A i \in 1..reuse : /\ Block(row.tokens, i) \in DOMAIN m.index
                          /\ m.index[Block(row.tokens, i)] = row.pages[i]
  BY <1>1 DEF Shrinks
<1> QED
  BY <1>1, <1>2 DEF Reuses

(* A batch on the way. *)
Batches == [ok : BOOLEAN, manager : Managers, rows : Seq(Rows)]

(* The founders so far, of k that were asked for. *)
Founders(m, acc, k) ==
  /\ acc \in Batches /\ Sound(acc.manager, acc.rows) /\ Shrinks(m, acc.manager)
  /\ Len(acc.rows) <= k /\ (acc.ok = TRUE => Len(acc.rows) = k)
  /\ \A i \in DOMAIN acc.rows : /\ acc.rows[i].slot = i - 1 /\ Filled(acc.rows[i])
                                 /\ Reuses(m, acc.rows[i]) /\ acc.rows[i].ended = "no"

(* A founder that may be taken. *)
MayTake(m, acc, k, prompt, lookup) ==
  /\ m \in Managers /\ Founders(m, acc, k) /\ k \in Nat /\ k < Cardinality(Slots)
  /\ prompt \in Prompts /\ lookup \in BOOLEAN

(* One founder more keeps what founders are. *)
LEMMA FounderTaken ==
  ASSUME NEW m, NEW acc, NEW k, NEW prompt, NEW lookup, MayTake(m, acc, k, prompt, lookup)
  PROVE  Founders(m, Take(acc, prompt, lookup), k + 1)
<1> DEFINE lease == Acquire(acc.manager, prompt, lookup)
           slot == Len(acc.rows)
           row == NewRow(prompt, lookup, slot, lease)
           next == Append(acc.rows, row)
           after == Take(acc, prompt, lookup)
<1>1. /\ m \in Managers /\ k \in Nat /\ k < Cardinality(Slots) /\ Cardinality(Slots) \in Nat
      /\ prompt \in Prompts /\ lookup \in BOOLEAN
      /\ acc \in Batches /\ Sound(acc.manager, acc.rows) /\ Shrinks(m, acc.manager)
      /\ Len(acc.rows) <= k /\ (acc.ok = TRUE => Len(acc.rows) = k)
      /\ \A i \in DOMAIN acc.rows : /\ acc.rows[i].slot = i - 1 /\ Filled(acc.rows[i])
                                     /\ Reuses(m, acc.rows[i]) /\ acc.rows[i].ended = "no"
  <2>1. Cardinality(Slots) \in Nat
    BY SlotsFinite
  <2> QED
    BY <2>1 DEF MayTake, Founders
<1>2. /\ acc.ok \in BOOLEAN /\ acc.manager \in Managers /\ acc.rows \in Seq(Rows)
      /\ slot \in Nat /\ DOMAIN acc.rows = 1..slot
  BY <1>1 DEF Batches
<1>3. slot \in Slots
  BY <1>1, <1>2, TableAssumption
<1> HIDE DEF lease
<1>4. Seats(acc.manager, acc.rows, prompt, lookup, slot, lease)
  BY <1>1, <1>2, <1>3 DEF Seats, lease
<1>5. lease.acquired \in BOOLEAN /\ lease.manager \in Managers /\ Shrinks(acc.manager, lease.manager)
  BY <1>4, SeatRefused
<1>6. CASE acc.ok = TRUE /\ lease.acquired
  <2>1. /\ row \in Rows /\ next \in Seq(Rows) /\ Sound(lease.manager, next)
        /\ Filled(row) /\ AcquiredFor(acc.manager, lease, prompt)
    BY <1>4, <1>6, RowSeated
  <2>2. after = [ok |-> TRUE, manager |-> lease.manager, rows |-> next]
    BY <1>6 DEF Take, lease
  <2>3. row.slot = slot /\ row.ended = "no" /\ row.tokens = prompt /\ row.pages = lease.pages
        /\ row.committed = lease.reuse * PageSize
    BY DEF NewRow
  <2> HIDE DEF row, slot
  <2>4. Reuses(acc.manager, row)
    BY <2>1, <2>3 DEF Reuses, AcquiredFor
  <2>5. Reuses(m, row)
    BY <1>1, <2>4, ReusesBefore
  <2>6. /\ DOMAIN next = 1..(slot + 1) /\ Len(next) = slot + 1 /\ next[slot + 1] = row
        /\ \A i \in 1..slot : next[i] = acc.rows[i]
    BY <1>2, <2>1 DEF slot
  <2>7. acc.manager.index \in Indexes
    BY <1>2 DEF Managers
  <2>8. Shrinks(m, lease.manager)
    BY <1>1, <1>5, ManagerIndex, ShrinksTwice
  <2> HIDE DEF next, after
  <2>9. after \in Batches /\ after.rows = next /\ after.manager = lease.manager
    BY <1>5, <2>1, <2>2 DEF Batches
  <2>10. \A i \in DOMAIN next : /\ next[i].slot = i - 1 /\ Filled(next[i])
                                 /\ Reuses(m, next[i]) /\ next[i].ended = "no"
    <3>1. \A i \in DOMAIN next : i \in 1..slot \/ i = slot + 1
      BY <1>2, <2>6
    <3>2. \A i \in 1..slot : /\ next[i].slot = i - 1 /\ Filled(next[i])
                             /\ Reuses(m, next[i]) /\ next[i].ended = "no"
      BY <1>1, <1>2, <2>6
    <3>3. (slot + 1) - 1 = slot
      BY <1>2
    <3> QED
      BY <2>1, <2>3, <2>5, <2>6, <3>1, <3>2, <3>3
  <2>11. Len(next) = k + 1
    BY <1>1, <1>6, <2>6 DEF slot
  <2> QED
    BY <1>1, <2>1, <2>8, <2>9, <2>10, <2>11 DEF Founders, after
<1>7. CASE ~(acc.ok = TRUE /\ lease.acquired)
  <2>1. after = [acc EXCEPT !.ok = FALSE]
    BY <1>2, <1>7 DEF Take, lease
  <2> HIDE DEF after, slot
  <2>2. /\ after \in Batches /\ after.ok = FALSE /\ after.manager = acc.manager
        /\ after.rows = acc.rows
    BY <1>1, <2>1 DEF Batches
  <2>3. Len(acc.rows) <= k + 1
    BY <1>1, <1>2 DEF slot
  <2> QED
    BY <1>1, <2>2, <2>3 DEF Founders, after
<1> QED
  BY <1>6, <1>7

(* beginRequest(): what its leases leave, all of them or up to the first refusal. *)
LEMMA FoundersTaken ==
  ASSUME manager \in Managers, Sound(manager, <<>>),
         NEW size \in Nat, size <= Cardinality(Slots), NEW prompts \in [1..size -> Prompts],
         NEW lookups \in [1..size -> Lookups]
  PROVE  Founders(manager, Taken(prompts, lookups), size)
<1>1. Len(prompts) = size /\ Cardinality(Slots) \in Nat
  BY SlotsFinite
<1>2. PICK f : IsTaking(manager, prompts, lookups, size, f) /\ Taken(prompts, lookups) = f[size]
  BY <1>1, TakingIs
<1>3. IsTaking(manager, prompts, lookups, size, f)
  BY <1>2
<1>4. /\ f[0] = [ok |-> TRUE, manager |-> manager, rows |-> <<>>]
      /\ \A k \in 0..(size - 1) : f[k + 1] = Take(f[k], prompts[k + 1], lookups[k + 1])
  BY <1>3, TakingValues
<1> DEFINE U == {k \in 0..size : Founders(manager, f[k], k)}
<1>5. 0 \in U
  <2>1. Shrinks(manager, manager)
    BY DEF Shrinks
  <2>2. [ok |-> TRUE, manager |-> manager, rows |-> <<>>] \in Batches
    BY DEF Batches
  <2>3. Founders(manager, f[0], 0)
    BY <1>4, <2>1, <2>2 DEF Founders
  <2> QED
    BY <2>3
<1>6. ASSUME NEW k \in 0..(size - 1), k \in U PROVE k + 1 \in U
  <2>1. k \in Nat /\ k + 1 \in 0..size /\ k + 1 \in 1..size /\ k < Cardinality(Slots)
    BY <1>1
  <2>2. lookups[k + 1] \in BOOLEAN
    BY <2>1, InputAssumption
  <2>3. MayTake(manager, f[k], k, prompts[k + 1], lookups[k + 1])
    BY <1>6, <2>1, <2>2 DEF MayTake
  <2>4. Founders(manager, f[k + 1], k + 1)
    BY <1>4, <2>3, FounderTaken
  <2> QED
    BY <2>1, <2>4
<1> HIDE DEF U
<1>7. \A k \in 0..size : k \in U
  BY <1>5, <1>6, BoundedInduction
<1>8. size \in U
  BY <1>7
<1> QED
  BY <1>2, <1>8 DEF U

-----------------------------------------------------------------------------
(* The rows grow one after the other for a step.                             *)

(* The batches on the way, as the rows grow one by one for a step. *)
IsGrowth(m, rows, n, f) ==
  /\ n \in Nat
  /\ f = [k \in 0..n |-> IF k = 0 THEN [ok |-> TRUE, manager |-> m, rows |-> rows]
                         ELSE GrowRow(f[k - 1], k)]

(* They are each the one before with one row grown, or a refusal. *)
LEMMA GrowthValues ==
  ASSUME NEW m, NEW rows, NEW n, NEW f, IsGrowth(m, rows, n, f)
  PROVE  /\ f[0] = [ok |-> TRUE, manager |-> m, rows |-> rows]
         /\ \A k \in 0..(n - 1) : f[k + 1] = GrowRow(f[k], k + 1)
<1> DEFINE g == [k \in 0..n |-> IF k = 0 THEN [ok |-> TRUE, manager |-> m, rows |-> rows]
                                ELSE GrowRow(f[k - 1], k)]
<1>1. f = g /\ n \in Nat
  BY DEF IsGrowth
<1>2. g[0] = [ok |-> TRUE, manager |-> m, rows |-> rows]
  BY <1>1
<1>3. ASSUME NEW k \in 0..(n - 1) PROVE g[k + 1] = GrowRow(f[k], k + 1)
  <2>1. k + 1 \in 0..n /\ k + 1 # 0 /\ (k + 1) - 1 = k
    BY <1>1
  <2> QED
    BY <2>1
<1> HIDE DEF g
<1> QED
  BY <1>1, <1>2, <1>3

(* There are such batches, of any number of rows. *)
LEMMA GrowthExists ==
  ASSUME NEW m, NEW rows
  PROVE  \A n \in Nat : \E f : IsGrowth(m, rows, n, f)
<1> DEFINE T == {n \in Nat : \E f : IsGrowth(m, rows, n, f)}
<1>1. 0 \in T
  <2> DEFINE f == [k \in 0..0 |-> [ok |-> TRUE, manager |-> m, rows |-> rows]]
  <2>1. f = [k \in 0..0 |-> IF k = 0 THEN [ok |-> TRUE, manager |-> m, rows |-> rows]
                            ELSE GrowRow(f[k - 1], k)]
    <3>1. \A k \in 0..0 : k = 0
      OBVIOUS
    <3> QED
      BY <3>1
  <2> HIDE DEF f
  <2> QED
    BY <2>1 DEF IsGrowth
<1>2. ASSUME NEW n \in Nat, n \in T PROVE n + 1 \in T
  <2>1. PICK f : IsGrowth(m, rows, n, f)
    BY <1>2
  <2>2. \A k \in 0..n : f[k] = IF k = 0 THEN [ok |-> TRUE, manager |-> m, rows |-> rows]
                               ELSE GrowRow(f[k - 1], k)
    BY <2>1 DEF IsGrowth
  <2> DEFINE g == [k \in 0..(n + 1) |-> IF k = n + 1 THEN GrowRow(f[n], n + 1)
                                        ELSE f[k]]
  <2>3. ASSUME NEW k \in 0..(n + 1)
        PROVE  g[k] = IF k = 0 THEN [ok |-> TRUE, manager |-> m, rows |-> rows] ELSE GrowRow(g[k - 1], k)
    <3>1. CASE k = n + 1
      <4>1. k # 0 /\ k - 1 = n /\ n \in 0..(n + 1) /\ n # n + 1
        BY <3>1
      <4>2. g[k - 1] = f[n]
        BY <4>1
      <4> QED
        BY <3>1, <4>1, <4>2
    <3>2. CASE k # n + 1
      <4>1. k \in 0..n /\ g[k] = f[k]
        BY <3>2
      <4>2. k # 0 => k - 1 \in 0..(n + 1) /\ k - 1 # n + 1
        BY <4>1
      <4>3. k # 0 => g[k - 1] = f[k - 1]
        BY <4>2
      <4> HIDE DEF g
      <4> QED
        BY <2>2, <4>1, <4>3
    <3> QED
      BY <3>1, <3>2
  <2>4. g = [k \in 0..(n + 1) |-> g[k]]
    OBVIOUS
  <2> HIDE DEF g
  <2>5. g = [k \in 0..(n + 1) |-> IF k = 0 THEN [ok |-> TRUE, manager |-> m, rows |-> rows]
                                  ELSE GrowRow(g[k - 1], k)]
    BY <2>3, <2>4
  <2>6. n + 1 \in Nat
    OBVIOUS
  <2>7. IsGrowth(m, rows, n + 1, g)
    BY <2>5, <2>6 DEF IsGrowth
  <2> QED
    BY <2>7
<1> HIDE DEF T
<1>3. \A n \in Nat : n \in T
  BY <1>1, <1>2, SetInduction
<1> QED
  BY <1>3 DEF T

(* The grown batch is the last of them. *)
LEMMA GrowthIs ==
  ASSUME NEW rows, Len(rows) \in Nat
  PROVE  \E f : IsGrowth(manager, rows, Len(rows), f) /\ Grown(rows) = f[Len(rows)]
<1> DEFINE n == Len(rows)
           P == CHOOSE f : IsGrowth(manager, rows, n, f)
<1>1. \E f : IsGrowth(manager, rows, n, f)
  BY GrowthExists
<1>2. IsGrowth(manager, rows, n, P)
  BY <1>1
<1>3. Grown(rows) = P[n]
  BY DEF Grown, IsGrowth
<1> QED
  BY <1>2, <1>3

(* The rows after the first k have been asked for their growth. *)
Stretched(m, rows, acc, k) ==
  /\ acc \in Batches /\ Sound(acc.manager, acc.rows) /\ Shrinks(m, acc.manager)
  /\ DOMAIN acc.rows = DOMAIN rows
  /\ \A i \in DOMAIN rows : PagesGrow(rows[i], acc.rows[i])
  /\ acc.ok = TRUE => \A i \in DOMAIN rows : i <= k => Grows(acc.rows[i])

(* A row that may be grown next. *)
MayStretch(m, rows, acc, k) ==
  /\ m \in Managers /\ rows \in Seq(Rows) /\ Stretched(m, rows, acc, k)
  /\ k \in Nat /\ k + 1 \in DOMAIN rows

(* A row has room for its next write when it has the pages for it. *)
LEMMA GrowsWhenHeld ==
  ASSUME NEW row \in Rows
  PROVE  /\ PagesFor(row.committed + 1) \in Nat
         /\ PagesFor(row.committed + 1) <= Len(row.pages) => Grows(row)
<1>1. row.committed + 1 \in Nat /\ Len(row.pages) \in Nat
  BY RowFields
<1> QED
  BY <1>1, PagesForLength DEF Grows

(* One row more keeps what the growth of a batch keeps. *)
LEMMA RowStretched ==
  ASSUME NEW m, NEW rows, NEW acc, NEW k, MayStretch(m, rows, acc, k)
  PROVE  Stretched(m, rows, GrowRow(acc, k + 1), k + 1)
<1> DEFINE x == k + 1
           row == acc.rows[x]
           need == PagesFor(row.committed + 1)
           lease == GrowPages(acc.manager, row.pages, need - Len(row.pages))
           after == GrowRow(acc, x)
<1>1. /\ m \in Managers /\ rows \in Seq(Rows) /\ k \in Nat /\ x \in DOMAIN rows
      /\ acc \in Batches /\ Sound(acc.manager, acc.rows) /\ Shrinks(m, acc.manager)
      /\ DOMAIN acc.rows = DOMAIN rows
      /\ \A i \in DOMAIN rows : PagesGrow(rows[i], acc.rows[i])
      /\ acc.ok = TRUE => \A i \in DOMAIN rows : i <= k => Grows(acc.rows[i])
  BY DEF MayStretch, Stretched
<1>2. /\ acc.ok \in BOOLEAN /\ acc.manager \in Managers /\ acc.rows \in Seq(Rows)
      /\ x \in DOMAIN acc.rows
  BY <1>1 DEF Batches
<1>3. row \in Rows
  BY <1>2
<1>4. /\ Len(row.pages) \in Nat /\ MaxPagesPerSeq \in Nat
      /\ need \in Nat /\ (need <= Len(row.pages) => Grows(row))
      /\ Len(row.pages) <= MaxPagesPerSeq
  <2>1. Len(row.pages) <= MaxPagesPerSeq
    BY <1>1, <1>2 DEF Sound, RowOK
  <2> HIDE DEF row
  <2> QED
    BY <1>3, <2>1, GrowsWhenHeld, RowFields, TableAssumption
<1>5. \A i \in DOMAIN rows : i <= x => i <= k \/ i = x
  <2>1. \A i \in DOMAIN rows : i \in Nat
    BY <1>1, RowOfSequence
  <2> QED
    BY <1>1, <2>1
<1> HIDE DEF x, row, need, lease
<1>6. ASSUME after = [acc EXCEPT !.ok = FALSE] PROVE Stretched(m, rows, after, x)
  <2> HIDE DEF after
  <2>1. /\ after \in Batches /\ after.ok = FALSE /\ after.manager = acc.manager
        /\ after.rows = acc.rows
    BY <1>1, <1>6 DEF Batches
  <2> QED
    BY <1>1, <2>1 DEF Stretched
<1>7. CASE acc.ok # TRUE \/ need > MaxPagesPerSeq
  <2>1. after = [acc EXCEPT !.ok = FALSE]
    BY <1>2, <1>4, <1>7 DEF GrowRow, row, need
  <2> QED
    BY <1>6, <2>1 DEF x
<1>8. CASE acc.ok = TRUE /\ need <= Len(row.pages)
  <2>1. after = acc
    BY <1>2, <1>4, <1>8 DEF GrowRow, row, need
  <2> HIDE DEF after
  <2>2. \A i \in DOMAIN rows : i <= x => Grows(acc.rows[i])
    BY <1>1, <1>4, <1>5, <1>8 DEF row
  <2>3. Stretched(m, rows, after, x)
    BY <1>1, <2>1, <2>2 DEF Stretched
  <2> QED
    BY <2>3 DEF after, x
<1>9. CASE acc.ok = TRUE /\ need <= MaxPagesPerSeq /\ Len(row.pages) < need
  <2> DEFINE demand == need - Len(row.pages)
             next == [acc.rows EXCEPT ![x].pages = lease.pages]
  <2>1. demand \in Nat /\ Len(row.pages) + demand = need
    BY <1>4, <1>9
  <2>2. after = IF lease.acquired
                THEN [acc EXCEPT !.manager = lease.manager, !.rows[x].pages = lease.pages]
                ELSE [acc EXCEPT !.ok = FALSE]
    BY <1>2, <1>4, <1>9 DEF GrowRow, row, need, lease
  <2>3. CASE lease.acquired
    <3>1. Feasible(acc.manager, demand)
      BY <2>3 DEF lease, GrowPages, Refused
    <3> HIDE DEF demand
    <3>3. lease = GrowPages(acc.manager, acc.rows[x].pages, demand)
      BY DEF lease, row, demand
    <3>2. MayGrow(acc.manager, acc.rows, x, demand, lease, next)
      BY <1>1, <1>2, <1>9, <2>1, <3>1, <3>3 DEF MayGrow, row
    <3> HIDE DEF next
    <3>4. /\ lease.manager \in Managers /\ next \in Seq(Rows)
          /\ Sound(lease.manager, next) /\ Shrinks(acc.manager, lease.manager)
          /\ DOMAIN next = DOMAIN acc.rows /\ PagesGrow(row, next[x])
          /\ \A l \in DOMAIN acc.rows : l # x => next[l] = acc.rows[l]
          /\ Len(next[x].pages) = Len(row.pages) + demand
      BY <3>2, RowGrown DEF row
    <3>5. after = [acc EXCEPT !.manager = lease.manager, !.rows = next]
      BY <1>1, <2>2, <2>3 DEF Batches, next
    <3> HIDE DEF after
    <3>6. /\ after \in Batches /\ after.ok = TRUE /\ after.manager = lease.manager
          /\ after.rows = next
      BY <1>1, <1>9, <3>4, <3>5 DEF Batches
    <3>7. Shrinks(m, lease.manager)
      BY <1>1, <3>4, ManagerIndex, ShrinksTwice
    <3>8. \A i \in DOMAIN rows : PagesGrow(rows[i], next[i])
      <4>1. ASSUME NEW i \in DOMAIN rows, i # x PROVE PagesGrow(rows[i], next[i])
        BY <1>1, <3>4, <4>1
      <4>2. PagesGrow(rows[x], row)
        BY <1>1 DEF row
      <4>3. PagesGrow(rows[x], next[x])
        BY <3>4, <4>2, GrowsTwice
      <4> QED
        BY <4>1, <4>3
    <3>9. Grows(next[x])
      <4>1. next[x] \in Rows /\ next[x].committed = row.committed
        BY <3>4 DEF PagesGrow
      <4>2. PagesFor(next[x].committed + 1) <= Len(next[x].pages)
        BY <1>4, <2>1, <3>4, <4>1 DEF need
      <4> QED
        BY <4>1, <4>2, GrowsWhenHeld
    <3>10. \A i \in DOMAIN rows : i <= x => Grows(next[i])
      <4>1. ASSUME NEW i \in DOMAIN rows, i <= x, i # x PROVE Grows(next[i])
        BY <1>1, <1>5, <1>9, <3>4, <4>1
      <4> QED
        BY <3>9, <4>1
    <3>11. Stretched(m, rows, after, x)
      BY <1>1, <3>4, <3>6, <3>7, <3>8, <3>10 DEF Stretched
    <3> QED
      BY <3>11 DEF after, x
  <2>4. CASE ~lease.acquired
    BY <1>6, <2>2, <2>4 DEF x
  <2> QED
    BY <2>3, <2>4
<1>10. need > MaxPagesPerSeq \/ need <= MaxPagesPerSeq
  BY <1>4
<1>11. need <= Len(row.pages) \/ Len(row.pages) < need
  BY <1>4
<1> QED
  BY <1>7, <1>8, <1>9, <1>10, <1>11

(* A row that stays as it is has grown by nothing. *)
LEMMA SameRowGrows ==
  ASSUME NEW row \in Rows
  PROVE  PagesGrow(row, row)
<1>1. Len(row.pages) \in Nat
  BY RowFields
<1> QED
  BY <1>1 DEF PagesGrow

(* prepareDecodeStep(): what the growth of the rows leaves, all of them or up to the *)
(* first refusal.                                                                    *)
LEMMA RowsStretched ==
  ASSUME manager \in Managers, NEW rows \in Seq(Rows), Sound(manager, rows)
  PROVE  Stretched(manager, rows, Grown(rows), Len(rows))
<1>1. PICK n \in Nat : n = Len(rows) /\ DOMAIN rows = 1..n
  OBVIOUS
<1>2. PICK f : IsGrowth(manager, rows, n, f) /\ Grown(rows) = f[n]
  BY <1>1, GrowthIs
<1>3. IsGrowth(manager, rows, n, f)
  BY <1>2
<1>4. /\ f[0] = [ok |-> TRUE, manager |-> manager, rows |-> rows]
      /\ \A k \in 0..(n - 1) : f[k + 1] = GrowRow(f[k], k + 1)
  BY <1>3, GrowthValues
<1> DEFINE U == {k \in 0..n : Stretched(manager, rows, f[k], k)}
<1>5. 0 \in U
  <2>1. Shrinks(manager, manager)
    BY DEF Shrinks
  <2>2. [ok |-> TRUE, manager |-> manager, rows |-> rows] \in Batches
    BY DEF Batches
  <2>3. \A i \in DOMAIN rows : PagesGrow(rows[i], rows[i]) /\ ~(i <= 0)
    BY <1>1, SameRowGrows
  <2>4. Stretched(manager, rows, f[0], 0)
    BY <1>4, <2>1, <2>2, <2>3 DEF Stretched
  <2> QED
    BY <2>4
<1>6. ASSUME NEW k \in 0..(n - 1), k \in U PROVE k + 1 \in U
  <2>1. k \in Nat /\ k + 1 \in 0..n /\ k + 1 \in DOMAIN rows
    BY <1>1
  <2>2. MayStretch(manager, rows, f[k], k)
    BY <1>6, <2>1 DEF MayStretch
  <2>3. Stretched(manager, rows, f[k + 1], k + 1)
    BY <1>4, <2>2, RowStretched
  <2> QED
    BY <2>1, <2>3
<1> HIDE DEF U
<1>7. \A k \in 0..n : k \in U
  BY <1>5, <1>6, BoundedInduction
<1>8. n \in U
  BY <1>7
<1> QED
  BY <1>1, <1>2, <1>8 DEF U

-----------------------------------------------------------------------------
(* What a step makes of a row.                                               *)

(* A change of a row's flags alone lets it go on. *)
LEMMA FlagsChange ==
  ASSUME NEW row \in Rows, RowOK(row), NEW more \in Rows,
         more.pages = row.pages, more.tokens = row.tokens, more.committed = row.committed
  PROVE  Continues(row, more)
<1>1. row.committed \in Nat /\ Len(row.tokens) \in Nat
  BY RowFields
<1>2. RowOK(more)
  BY DEF RowOK
<1> QED
  BY <1>1, <1>2 DEF Continues

(* Going on twice is going on. *)
LEMMA ContinuesTwice ==
  ASSUME NEW a, NEW b, NEW c, Continues(a, b), Continues(b, c)
  PROVE  Continues(a, c)
<1>1. /\ a \in Rows /\ b \in Rows /\ c \in Rows /\ RowOK(a) /\ RowOK(c)
      /\ b.pages = a.pages /\ c.pages = b.pages
      /\ a.committed <= b.committed /\ b.committed <= c.committed
      /\ Len(a.tokens) <= Len(b.tokens) /\ Len(b.tokens) <= Len(c.tokens)
      /\ \A o \in 1..Len(a.tokens) : b.tokens[o] = a.tokens[o]
      /\ \A o \in 1..Len(b.tokens) : c.tokens[o] = b.tokens[o]
  BY DEF Continues
<1>2. /\ a.committed \in Nat /\ b.committed \in Nat /\ c.committed \in Nat
      /\ Len(a.tokens) \in Nat /\ Len(b.tokens) \in Nat /\ Len(c.tokens) \in Nat
  BY <1>1, RowFields
<1>3. \A o \in 1..Len(a.tokens) : o \in 1..Len(b.tokens)
  BY <1>1, <1>2
<1> QED
  BY <1>1, <1>2, <1>3 DEF Continues

(* A row whose pages hold the positions up to the new boundary. *)
MayAdvance(row, token, committed) ==
  /\ row \in Rows /\ RowOK(row) /\ token \in Sampled
  /\ committed \in Nat /\ row.committed <= committed /\ committed <= Len(row.tokens)
  /\ committed <= Len(row.pages) * PageSize

(* A row that gets its token goes on, with as much committed as the step computed. *)
LEMMA AdvancedContinues ==
  ASSUME NEW row, NEW token, NEW committed, NEW stops, MayAdvance(row, token, committed)
  PROVE  LET more == Advanced(row, token, committed, stops) IN
         /\ Continues(row, more) /\ more.slot = row.slot /\ more.committed = committed
         /\ more.tokens = Append(row.tokens, token) /\ more.published = row.published
         /\ more.lookup = row.lookup /\ more.input = row.input
<1> DEFINE more == Advanced(row, token, committed, stops)
           tokens == Append(row.tokens, token)
           ended == IF stops \/ Len(row.tokens) + 1 - row.input >= budget
                    THEN "finished" ELSE row.ended
<1>1. /\ row \in Rows /\ RowOK(row) /\ token \in Tokens
      /\ committed \in Nat /\ row.committed <= committed /\ committed <= Len(row.tokens)
      /\ committed <= Len(row.pages) * PageSize
  BY DEF MayAdvance, Tokens
<1>2. row.tokens \in Seq(Tokens) /\ Len(row.tokens) \in Nat /\ row.ended \in {"no", "finished", "dropped"}
  BY <1>1, RowFields
<1>3. /\ tokens \in Seq(Tokens) /\ Len(tokens) = Len(row.tokens) + 1
      /\ \A o \in 1..Len(row.tokens) : tokens[o] = row.tokens[o]
  BY <1>1, <1>2, AppendItems
<1>4. ended \in {"no", "finished", "dropped"}
  BY <1>2
<1>5. more = [row EXCEPT !.tokens = tokens, !.committed = committed, !.ended = ended]
  BY DEF Advanced
<1> HIDE DEF more, tokens, ended
<1>6. /\ more \in Rows /\ more.tokens = tokens /\ more.committed = committed
      /\ more.pages = row.pages /\ more.slot = row.slot /\ more.published = row.published
      /\ more.lookup = row.lookup /\ more.input = row.input
  BY <1>1, <1>3, <1>4, <1>5 DEF Rows
<1>7. RowOK(more)
  BY <1>1, <1>2, <1>3, <1>6 DEF RowOK
<1>8. Continues(row, more)
  BY <1>1, <1>2, <1>3, <1>6, <1>7 DEF Continues
<1> QED
  BY <1>6, <1>8 DEF more, tokens

(* Marking what is published lets a row go on. *)
LEMMA RowMarked ==
  ASSUME NEW rows \in Seq(Rows), NEW i \in DOMAIN rows, RowOK(rows[i]), NEW point
  PROVE  LET more == MarkPublished(rows, point)[i] IN
         /\ Continues(rows[i], more) /\ more.slot = rows[i].slot
         /\ more.tokens = rows[i].tokens /\ more.committed = rows[i].committed
         /\ more.lookup = rows[i].lookup /\ more.input = rows[i].input
<1> DEFINE row == rows[i]
           more == MarkPublished(rows, point)[i]
<1>1. row \in Rows /\ row.committed \in Nat
  BY RowOfSequence, RowFields
<1>2. ReadyBlocks(row) \in Nat
  BY <1>1, WholePages DEF ReadyBlocks
<1>3. more = IF Publishable(row, point) THEN [row EXCEPT !.published = ReadyBlocks(row)] ELSE row
  BY DEF MarkPublished
<1> HIDE DEF more
<1>4. /\ more \in Rows /\ more.slot = row.slot /\ more.tokens = row.tokens
      /\ more.committed = row.committed /\ more.pages = row.pages
      /\ more.lookup = row.lookup /\ more.input = row.input
  <2>1. CASE Publishable(row, point)
    BY <1>1, <1>2, <1>3, <2>1 DEF Rows
  <2>2. CASE ~Publishable(row, point)
    BY <1>1, <1>3, <2>2 DEF Rows
  <2> QED
    BY <2>1, <2>2
<1>5. Continues(row, more)
  BY <1>1, <1>4, FlagsChange
<1> QED
  BY <1>4, <1>5 DEF more

(* A sequence of rows, given one by one. *)
LEMMA RowsOf ==
  ASSUME NEW rows \in Seq(Rows), NEW next, next = [i \in DOMAIN rows |-> next[i]],
         \A i \in DOMAIN rows : next[i] \in Rows
  PROVE  next \in Seq(Rows) /\ DOMAIN next = DOMAIN rows /\ Len(next) = Len(rows)
<1>1. PICK n \in Nat : DOMAIN rows = 1..n /\ Len(rows) = n
  OBVIOUS
<1> QED
  BY <1>1

-----------------------------------------------------------------------------
(* The pages are counted: the inductive invariant.                           *)

(* The types of what the core invariant is about. *)
CoreTypes ==
  /\ pc \in {"idle", "begun", "prefilling", "settled", "seating", "decoding", "evicting",
             "compacting", "finishing", "failed", "closed"}
  /\ manager \in Managers /\ seqs \in Seq(Rows) /\ quarantined \in Seq(Seq(Pages))
  /\ commit \in BOOLEAN /\ poisoned \in BOOLEAN

(* No two rows have one slot. *)
SlotsDiffer(rows) == \A k, l \in DOMAIN rows : rows[k].slot = rows[l].slot => k = l

(* The rows that there are at each point of the runtime's loop. *)
Stage(at, rows) ==
  /\ at \in {"idle", "closed", "finishing"} => rows = <<>>
  /\ at \in {"begun", "prefilling", "settled", "decoding", "evicting", "compacting"} => Len(rows) >= 1
  /\ at = "seating" => Len(rows) >= 2 /\ Filled(Last(rows))
  /\ at \in {"begun", "prefilling"} => \A k \in DOMAIN rows : Filled(rows[k])
  /\ at = "decoding" => \A k \in DOMAIN rows : Grows(rows[k])
  /\ Len(rows) <= Cardinality(Slots)
  /\ SlotsDiffer(rows)

(* The core invariant: the manager counts the leases of the rows, or of the *)
(* quarantine once the rows are gone, and the two are sound together.       *)
Core ==
  /\ CoreTypes
  /\ Stage(pc, seqs)
  /\ quarantined # <<>> => poisoned = TRUE /\ pc \in {"idle", "closed"}
  /\ ManagerOK(manager)
  /\ IF quarantined = <<>> THEN Sound(manager, seqs) ELSE Counts(manager.active, quarantined)

(* Finitely many pages have a greatest one. *)
LEMMA PagesAreBounded ==
  \E n \in Nat : Pages \subseteq 0..n
<1> DEFINE T == {c \in Nat : \A R \in SUBSET Pages :
                  Cardinality(R) = c => \E n \in Nat : R \subseteq 0..n}
<1>0. \A R \in SUBSET Pages : IsFiniteSet(R)
  BY PagesAssumption, FS_Subset
<1>1. 0 \in T
  <2>1. ASSUME NEW R \in SUBSET Pages, Cardinality(R) = 0
        PROVE  \E n \in Nat : R \subseteq 0..n
    <3>1. R = {}
      BY <1>0, <2>1, FS_EmptySet
    <3> QED
      BY <3>1
  <2> QED
    BY <2>1
<1>2. ASSUME NEW c \in Nat, c \in T PROVE c + 1 \in T
  <2>1. ASSUME NEW R \in SUBSET Pages, Cardinality(R) = c + 1
        PROVE  \E n \in Nat : R \subseteq 0..n
    <3>1. R # {} /\ IsFiniteSet(R)
      BY <1>0, <2>1, FS_EmptySet
    <3>2. PICK x \in R : TRUE
      BY <3>1
    <3> DEFINE rest == R \ {x}
    <3>3. rest \in SUBSET Pages /\ Cardinality(rest) = c
      BY <2>1, <3>1, FS_RemoveElement
    <3>4. PICK n \in Nat : rest \subseteq 0..n
      BY <1>2, <3>3
    <3>5. x \in Nat
      BY PagesAssumption
    <3> DEFINE m == IF x <= n THEN n ELSE x
    <3>6. m \in Nat /\ x \in 0..m /\ 0..n \subseteq 0..m
      BY <3>5
    <3>7. R \subseteq 0..m
      BY <3>4, <3>6
    <3> QED
      BY <3>6, <3>7
  <2> QED
    BY <2>1
<1> HIDE DEF T
<1>3. \A c \in Nat : c \in T
  BY <1>1, <1>2, SetInduction
<1>4. Cardinality(Pages) \in T
  BY <1>3, PagesAssumption, FS_CardinalityType
<1> QED
  BY <1>4 DEF T

(* The ring of a new manager has each page once. *)
LEMMA AllPagesAscending ==
  /\ Ascending(Pages) \in Seq(Pages) /\ IsInjective(Ascending(Pages))
  /\ Range(Ascending(Pages)) = Pages
<1> DEFINE order == Ascending(Pages)
           c == Cardinality(Pages)
<1>1. PICK n \in Nat : Pages \subseteq 0..n
  BY PagesAreBounded
<1>2. /\ order \in [1..c -> Pages]
      /\ \A i, j \in 1..c : order[i] = order[j] => i = j
      /\ \A k \in Pages : \E i \in 1..c : order[i] = k
  BY <1>1, AscendingNumbers
<1>3. c \in Nat
  BY PagesAssumption, FS_CardinalityType
<1> HIDE DEF order, c
<1>4. order \in Seq(Pages) /\ IsInjective(order)
  BY <1>2, <1>3 DEF IsInjective
<1>5. Range(order) = Pages
  BY <1>2 DEF Range
<1> QED
  BY <1>4, <1>5 DEF order

(* A new manager is sound with no lease. *)
LEMMA NewManagerFacts ==
  NewManager \in Managers /\ ManagerOK(NewManager) /\ Counts(NewManager.active, <<>>)
<1> DEFINE m == NewManager
           c == [p \in Pages |-> 0]
<1>1. m = [free |-> Ascending(Pages), active |-> c, cached |-> c, index |-> <<>>, records |-> <<>>]
  BY DEF NewManager
<1>2. /\ Ascending(Pages) \in Seq(Pages) /\ IsInjective(Ascending(Pages))
      /\ Range(Ascending(Pages)) = Pages
  BY AllPagesAscending
<1>3. <<>> \in Indexes
  <2>1. <<>> \in [{} -> Pages]
    OBVIOUS
  <2> QED
    BY <2>1, IndexFrom
<1>4. m \in Managers
  <2>1. c \in [Pages -> Nat] /\ <<>> \in Seq(Records)
    OBVIOUS
  <2> QED
    BY <1>1, <1>2, <1>3, <2>1 DEF Managers
<1>5. Counts(c, <<>>)
  <2>1. \A p \in Pages : Holders(<<>>, p) = {}
    BY DEF Holders
  <2>2. DOMAIN <<>> = {}
    OBVIOUS
  <2> QED
    BY <2>1, <2>2, FS_EmptySet DEF Counts
<1>6. PathsOf(<<>>) = <<>>
  <2>1. Range(<<>>) = {}
    BY DEF Range
  <2>2. PathsOf(<<>>) = [r \in {} |-> r.pages]
    BY <2>1 DEF PathsOf
  <2> QED
    BY <2>2
<1>7. FreeAreUnused(m) /\ IndexIsOfCached(m) /\ RecordsIndexed(m)
  <2>1. Range(<<>>) = {}
    BY DEF Range
  <2>2. \A p \in Pages : c[p] = 0
    OBVIOUS
  <2>3. IsInjective(<<>>)
    BY DEF IsInjective
  <2> QED
    BY <1>1, <1>2, <2>1, <2>2, <2>3 DEF FreeAreUnused, IndexIsOfCached, RecordsIndexed
<1> QED
  BY <1>1, <1>4, <1>5, <1>6, <1>7 DEF ManagerOK

(* As many leases as rows. *)
LEMMA PagesOfRows ==
  ASSUME NEW rows \in Seq(Rows)
  PROVE  /\ PagesOf(rows) \in Seq(Seq(Pages)) /\ DOMAIN PagesOf(rows) = 1..Len(PagesOf(rows))
         /\ Len(PagesOf(rows)) = Len(rows) /\ Len(PagesOf(rows)) \in Nat
<1>1. PICK n \in Nat : DOMAIN rows = 1..n /\ Len(rows) = n
  OBVIOUS
<1>2. PagesOf(rows) = [i \in 1..n |-> rows[i].pages]
  BY <1>1 DEF PagesOf
<1>3. \A i \in 1..n : rows[i].pages \in Seq(Pages)
  BY <1>1, RowOfSequence, RowFields
<1> HIDE DEF Rows
<1> QED
  BY <1>1, <1>2, <1>3

(* Without rows there is nothing to count. *)
LEMMA NoRows ==
  ASSUME NEW m
  PROVE  /\ Sound(m, <<>>) <=> ManagerOK(m) /\ Counts(m.active, <<>>)
         /\ SlotsDiffer(<<>>) /\ <<>> \in Seq(Rows) /\ Len(<<>>) = 0
<1>1. PagesOf(<<>>) = <<>>
  BY DEF PagesOf
<1>2. RowsAgree(<<>>)
  BY DEF RowsAgree
<1>3. SlotsDiffer(<<>>) /\ <<>> \in Seq(Rows) /\ Len(<<>>) = 0
  BY DEF SlotsDiffer
<1> QED
  BY <1>1, <1>2, <1>3 DEF Sound

(* While a request is served there is no quarantine: its rows are what is leased. *)
LEMMA NoneQuarantined ==
  ASSUME Core, pc \notin {"idle", "closed"}
  PROVE  quarantined = <<>> /\ Sound(manager, seqs)
  BY DEF Core

(* The manager's half of soundness. *)
LEMMA SoundManager ==
  ASSUME NEW m, NEW rows, Sound(m, rows)
  PROVE  ManagerOK(m) /\ Counts(m.active, PagesOf(rows))
  BY DEF Sound

(* Releasing every row's lease leaves a manager without leases. *)
LEMMA AllAreReleased ==
  ASSUME NEW m \in Managers, NEW rows \in Seq(Rows), Sound(m, rows)
  PROVE  LET less == ReleaseAll(m, PagesOf(rows)) IN
         /\ less \in Managers /\ Sound(less, <<>>)
         /\ less.cached = m.cached /\ less.index = m.index
<1> DEFINE leases == PagesOf(rows)
           less == ReleaseAll(m, leases)
<1>1. ManagerOK(m) /\ Counts(m.active, leases)
  BY DEF Sound
<1>2. leases \in Seq(Seq(Pages)) /\ DOMAIN leases = 1..Len(leases) /\ Len(leases) \in Nat
  BY PagesOfRows
<1> HIDE DEF leases
<1>3. /\ less \in Managers /\ ManagerOK(less) /\ Counts(less.active, <<>>)
      /\ less.cached = m.cached /\ less.index = m.index
  BY <1>1, <1>2, AllReleased
<1> HIDE DEF less
<1>4. Sound(less, <<>>)
  BY <1>3, NoRows
<1> QED
  BY <1>3, <1>4 DEF less, leases

-----------------------------------------------------------------------------

(* The core invariant holds at first. *)
LEMMA InitCore == Init => Core
<1> SUFFICES ASSUME Init PROVE Core
  OBVIOUS
<1>1. manager = NewManager /\ seqs = <<>> /\ quarantined = <<>> /\ pc = "idle"
      /\ commit = FALSE /\ poisoned = FALSE
  BY DEF Init
<1>2. NewManager \in Managers /\ ManagerOK(NewManager) /\ Counts(NewManager.active, <<>>)
  BY NewManagerFacts
<1>3. Sound(manager, seqs) /\ SlotsDiffer(seqs) /\ Len(seqs) = 0 /\ seqs \in Seq(Rows)
  BY <1>1, <1>2, NoRows
<1>4. CoreTypes
  <2>1. quarantined \in Seq(Seq(Pages))
    BY <1>1
  <2> QED
    BY <1>1, <1>2, <1>3, <2>1 DEF CoreTypes
<1>5. Stage(pc, seqs)
  BY <1>1, <1>3, SlotsFinite DEF Stage
<1> QED
  BY <1>1, <1>3, <1>4, <1>5, SoundManager DEF Core

(* What a founding batch makes of the state. *)
FoundBy(batch, generated) ==
  IF batch.ok
  THEN /\ pc' = "begun" /\ seqs' = batch.rows /\ commit' = generated
       /\ manager' = batch.manager
  ELSE /\ manager' = ReleaseAll(batch.manager, PagesOf(batch.rows))
       /\ UNCHANGED <<pc, seqs, commit>>

(* beginRequest() keeps it, whether its leases are granted or given back. *)
LEMMA BeginCore == Core /\ Begin => Core'
<1> SUFFICES ASSUME Core, Begin PROVE Core'
  OBVIOUS
<1>1. pc = "idle" /\ poisoned = FALSE /\ poisoned \in BOOLEAN
  BY DEF Begin, Core, CoreTypes
<1>2. /\ CoreTypes /\ quarantined = <<>> /\ seqs = <<>> /\ Sound(manager, <<>>)
      /\ manager \in Managers
  <2>1. quarantined = <<>>
    BY <1>1 DEF Core
  <2>2. seqs = <<>>
    BY <1>1 DEF Core, Stage
  <2> QED
    BY <2>1, <2>2 DEF Core, CoreTypes
<1>3. PICK size \in 1..Cardinality(Slots) : \E prompts \in [1..size -> Prompts],
           lookups \in [1..size -> Lookups], generated \in Commits :
        FoundBy(Taken(prompts, lookups), generated)
  BY DEF Begin, FoundBy
<1>11. PICK prompts \in [1..size -> Prompts], lookups \in [1..size -> Lookups],
            generated \in Commits : FoundBy(Taken(prompts, lookups), generated)
  BY <1>3
<1>4. quarantined' = quarantined /\ poisoned' = poisoned
  BY DEF Begin
<1> DEFINE taken == Taken(prompts, lookups)
<1>5. size \in Nat /\ size >= 1 /\ size <= Cardinality(Slots)
  BY SlotsFinite
<1>6. Founders(manager, taken, size)
  BY <1>2, <1>5, FoundersTaken
<1> HIDE DEF taken
<1>7. /\ taken \in Batches /\ Sound(taken.manager, taken.rows)
      /\ taken.ok = TRUE => Len(taken.rows) = size
      /\ \A i \in DOMAIN taken.rows : /\ taken.rows[i].slot = i - 1 /\ Filled(taken.rows[i])
  BY <1>6 DEF Founders
<1>8. taken.ok \in BOOLEAN /\ taken.manager \in Managers /\ taken.rows \in Seq(Rows)
  BY <1>7 DEF Batches
<1>9. CASE taken.ok = TRUE
  <2>1. pc' = "begun" /\ seqs' = taken.rows /\ commit' = generated /\ manager' = taken.manager
    BY <1>9, <1>11 DEF taken, FoundBy
  <2>2. CoreTypes'
    BY <1>2, <1>4, <1>8, <2>1, InputAssumption DEF CoreTypes
  <2>3. SlotsDiffer(taken.rows)
    <3>1. \A i \in DOMAIN taken.rows : i \in Nat
      BY <1>8, RowOfSequence
    <3> QED
      BY <1>7, <3>1 DEF SlotsDiffer
  <2>4. Stage("begun", taken.rows)
    BY <1>5, <1>7, <1>9, <2>3 DEF Stage
  <2>5. Sound(manager', seqs') /\ Stage(pc', seqs') /\ ManagerOK(manager')
    BY <1>7, <2>1, <2>4, SoundManager
  <2> QED
    BY <1>2, <1>4, <2>2, <2>5 DEF Core
<1>10. CASE taken.ok # TRUE
  <2> DEFINE less == ReleaseAll(taken.manager, PagesOf(taken.rows))
  <2>1. manager' = less /\ pc' = pc /\ seqs' = seqs /\ commit' = commit
    BY <1>8, <1>10, <1>11 DEF taken, FoundBy
  <2>2. less \in Managers /\ Sound(less, <<>>)
    BY <1>7, <1>8, AllAreReleased
  <2> HIDE DEF less
  <2>3. CoreTypes'
    BY <1>2, <1>4, <2>1, <2>2 DEF CoreTypes
  <2>4. Stage(pc', seqs')
    BY <2>1 DEF Core
  <2>5. Sound(manager', seqs') /\ ManagerOK(manager')
    BY <1>2, <2>1, <2>2, SoundManager
  <2> QED
    BY <1>2, <1>4, <2>3, <2>4, <2>5 DEF Core
<1> QED
  BY <1>9, <1>10

-----------------------------------------------------------------------------
(* The core invariant through each action.                                   *)

(* What the core invariant says of the types. *)
LEMMA CoreFacts ==
  ASSUME Core
  PROVE  /\ manager \in Managers /\ seqs \in Seq(Rows) /\ DOMAIN seqs = 1..Len(seqs)
         /\ Len(seqs) \in Nat /\ ManagerOK(manager) /\ SlotsDiffer(seqs)
         /\ Len(seqs) <= Cardinality(Slots)
         /\ pc \in {"idle", "begun", "prefilling", "settled", "seating", "decoding", "evicting",
                    "compacting", "finishing", "failed", "closed"}
         /\ commit \in BOOLEAN /\ poisoned \in BOOLEAN
<1>1. manager \in Managers /\ seqs \in Seq(Rows) /\ ManagerOK(manager)
      /\ SlotsDiffer(seqs) /\ Len(seqs) <= Cardinality(Slots)
      /\ pc \in {"idle", "begun", "prefilling", "settled", "seating", "decoding", "evicting",
                    "compacting", "finishing", "failed", "closed"}
      /\ commit \in BOOLEAN /\ poisoned \in BOOLEAN
  BY DEF Core, CoreTypes, Stage
<1> QED
  BY <1>1

(* A step that only moves the loop on. *)
LEMMA MovesOn ==
  ASSUME Core, pc \notin {"idle", "closed"}, manager' = manager, seqs' = seqs,
         quarantined' = quarantined, commit' = commit, poisoned' = poisoned,
         pc' \in {"prefilling", "compacting", "failed"},
         pc' = "prefilling" => pc = "begun",
         pc' = "compacting" => pc = "evicting"
  PROVE  Core'
<1>1. quarantined = <<>> /\ Sound(manager, seqs) /\ ManagerOK(manager)
  BY DEF Core
<1>2. Stage(pc', seqs')
  BY DEF Core, Stage
<1>3. CoreTypes'
  BY DEF Core, CoreTypes
<1> QED
  BY <1>1, <1>2, <1>3 DEF Core

(* preparePrefill() keeps it: nothing of the manager or the rows changes. *)
LEMMA PreparePrefillCore == Core /\ PreparePrefill => Core'
<1> SUFFICES ASSUME Core, PreparePrefill PROVE Core'
  OBVIOUS
<1>1. /\ pc = "begun" /\ pc' \in {"prefilling", "failed"}
      /\ UNCHANGED <<manager, seqs, commit, poisoned, quarantined>>
  BY DEF PreparePrefill
<1> QED
  BY <1>1, MovesOn

(* beginBatchCompaction() keeps it. *)
LEMMA BeginCompactionCore == Core /\ BeginCompaction => Core'
<1> SUFFICES ASSUME Core, BeginCompaction PROVE Core'
  OBVIOUS
<1>1. /\ pc = "evicting" /\ pc' = "compacting"
      /\ UNCHANGED <<manager, seqs, commit, poisoned, quarantined>>
  BY DEF BeginCompaction
<1> QED
  BY <1>1, MovesOn

(* The rows of a prefill that completes: as they are published and as they are kept. *)
Prefilled(new, sampled, stops) ==
  [i \in DOMAIN seqs |->
     IF i \in new THEN Advanced(seqs[i], sampled[i], Len(seqs[i].tokens), i \in stops) ELSE seqs[i]]

(* The rows as publication sees them, and as it leaves them. *)
Ready(rows, new) ==
  [i \in DOMAIN rows |-> IF i \in new THEN rows[i] ELSE [rows[i] EXCEPT !.lookup = FALSE]]
PrefillKept(rows, new) ==
  [i \in DOMAIN rows |-> IF i \in new THEN MarkPublished(rows, "prefillEnd")[i] ELSE rows[i]]

(* Each row of the sequence goes on as it is there, in its slot. *)
RowsGoOn(rows, next) ==
  /\ next \in Seq(Rows) /\ DOMAIN next = DOMAIN rows /\ Len(next) = Len(rows)
  /\ \A i \in DOMAIN rows : Continues(rows[i], next[i]) /\ next[i].slot = rows[i].slot

(* Rows that go on are as sound as they were. *)
LEMMA GoOnSound ==
  ASSUME NEW m, NEW rows \in Seq(Rows), NEW next, RowsGoOn(rows, next), Sound(m, rows)
  PROVE  Sound(m, next)
  BY RowsContinue DEF RowsGoOn

(* Going on twice is going on. *)
LEMMA GoOnTwice ==
  ASSUME NEW a, NEW b, NEW c, RowsGoOn(a, b), RowsGoOn(b, c)
  PROVE  RowsGoOn(a, c)
<1>1. \A i \in DOMAIN a : Continues(a[i], c[i]) /\ c[i].slot = a[i].slot
  BY ContinuesTwice DEF RowsGoOn
<1> QED
  BY <1>1 DEF RowsGoOn

(* Rows that go on are rows of a batch between two steps. *)
LEMMA GoOnStage ==
  ASSUME NEW rows, NEW next, RowsGoOn(rows, next), SlotsDiffer(rows),
         Len(rows) \in Nat, Len(rows) >= 1, Len(rows) <= Cardinality(Slots),
         NEW at \in {"settled", "evicting"}
  PROVE  Stage(at, next)
  BY DEF RowsGoOn, SlotsDiffer, Stage

(* A prefill, and the rows it is of. *)
Completing == pc \in {"prefilling", "seating"}
NewRows == IF pc = "prefilling" THEN DOMAIN seqs ELSE {Len(seqs)}

(* The rows of a prefill go on, the new ones with their whole input committed. *)
LEMMA PrefilledGoOn ==
  ASSUME Core, Completing, NEW sampled \in [NewRows -> Sampled], NEW stops
  PROVE  /\ RowsGoOn(seqs, Prefilled(NewRows, sampled, stops))
         /\ \A i \in NewRows : /\ i \in DOMAIN seqs
                               /\ Prefilled(NewRows, sampled, stops)[i].committed = Len(seqs[i].tokens)
                               /\ Prefilled(NewRows, sampled, stops)[i].tokens
                                    = Append(seqs[i].tokens, sampled[i])
         /\ \A i \in DOMAIN seqs : i \notin NewRows => Prefilled(NewRows, sampled, stops)[i] = seqs[i]
<1> DEFINE new == NewRows
           rows == Prefilled(new, sampled, stops)
<1>1. /\ seqs \in Seq(Rows) /\ DOMAIN seqs = 1..Len(seqs) /\ Len(seqs) \in Nat
      /\ Sound(manager, seqs) /\ Stage(pc, seqs) /\ Completing
  BY CoreFacts, NoneQuarantined DEF Completing, Core
<1>2. \A i \in DOMAIN seqs : seqs[i] \in Rows /\ RowOK(seqs[i])
  BY <1>1, RowOfSequence DEF Sound
<1>3. \A i \in new : i \in DOMAIN seqs /\ Filled(seqs[i])
  BY <1>1 DEF Stage, NewRows, Last, Completing
<1>4. DOMAIN rows = DOMAIN seqs /\ rows = [i \in DOMAIN seqs |-> rows[i]]
  BY DEF Prefilled
<1>5. ASSUME NEW i \in new
      PROVE  /\ Continues(seqs[i], rows[i]) /\ rows[i].slot = seqs[i].slot
             /\ rows[i].committed = Len(seqs[i].tokens)
             /\ rows[i].tokens = Append(seqs[i].tokens, sampled[i])
  <2>1. /\ seqs[i] \in Rows /\ RowOK(seqs[i]) /\ Filled(seqs[i]) /\ sampled[i] \in Sampled
        /\ Len(seqs[i].tokens) \in Nat /\ seqs[i].committed \in Nat
    BY <1>2, <1>3, RowFields
  <2>2. MayAdvance(seqs[i], sampled[i], Len(seqs[i].tokens))
    BY <2>1 DEF MayAdvance, RowOK, Filled
  <2>3. rows[i] = Advanced(seqs[i], sampled[i], Len(seqs[i].tokens), i \in stops)
    BY <1>3 DEF Prefilled
  <2> HIDE DEF rows
  <2> QED
    BY <2>2, <2>3, AdvancedContinues
<1>6. ASSUME NEW i \in DOMAIN seqs, i \notin new
      PROVE  Continues(seqs[i], rows[i]) /\ rows[i] = seqs[i]
  <2>1. rows[i] = seqs[i]
    BY <1>6 DEF Prefilled
  <2> HIDE DEF rows
  <2> QED
    BY <1>2, <2>1, FlagsChange
<1> HIDE DEF rows
<1>7. \A i \in DOMAIN seqs : Continues(seqs[i], rows[i]) /\ rows[i].slot = seqs[i].slot
  BY <1>5, <1>6
<1>8. \A i \in DOMAIN seqs : rows[i] \in Rows
  BY <1>7 DEF Continues
<1>9. rows \in Seq(Rows) /\ Len(rows) = Len(seqs)
  BY <1>1, <1>4, <1>8, RowsOf
<1>10. RowsGoOn(seqs, rows)
  BY <1>4, <1>7, <1>9 DEF RowsGoOn
<1> QED
  BY <1>3, <1>5, <1>6, <1>10 DEF rows

(* So do they as publication sees them and leaves them. *)
LEMMA ReadyGoOn ==
  ASSUME NEW rows \in Seq(Rows), \A i \in DOMAIN rows : RowOK(rows[i]), NEW new
  PROVE  /\ RowsGoOn(rows, Ready(rows, new)) /\ RowsGoOn(Ready(rows, new), PrefillKept(rows, new))
         /\ \A i \in DOMAIN rows : /\ PrefillKept(rows, new)[i].tokens = rows[i].tokens
                                   /\ PrefillKept(rows, new)[i].committed = rows[i].committed
                                   /\ Ready(rows, new)[i].tokens = rows[i].tokens
                                   /\ Ready(rows, new)[i].committed = rows[i].committed
<1> DEFINE ready == Ready(rows, new)
           kept == PrefillKept(rows, new)
<1>1. /\ DOMAIN ready = DOMAIN rows /\ ready = [i \in DOMAIN rows |-> ready[i]]
      /\ DOMAIN kept = DOMAIN rows /\ kept = [i \in DOMAIN rows |-> kept[i]]
  BY DEF Ready, PrefillKept
<1>2. ASSUME NEW i \in DOMAIN rows
      PROVE  /\ ready[i] \in Rows /\ ready[i].pages = rows[i].pages /\ ready[i].tokens = rows[i].tokens
             /\ ready[i].committed = rows[i].committed /\ ready[i].slot = rows[i].slot
  <2>1. rows[i] \in Rows
    BY RowOfSequence
  <2>2. ready[i] = IF i \in new THEN rows[i] ELSE [rows[i] EXCEPT !.lookup = FALSE]
    BY DEF Ready
  <2> HIDE DEF ready
  <2>3. CASE i \in new
    BY <2>1, <2>2, <2>3
  <2>4. CASE i \notin new
    <3>1. ready[i] = [rows[i] EXCEPT !.lookup = FALSE]
      BY <2>2, <2>4
    <3> QED
      BY <2>1, <3>1 DEF Rows
  <2> QED
    BY <2>3, <2>4
<1>3. ASSUME NEW i \in DOMAIN rows
      PROVE  /\ kept[i] \in Rows /\ kept[i].pages = rows[i].pages /\ kept[i].tokens = rows[i].tokens
             /\ kept[i].committed = rows[i].committed /\ kept[i].slot = rows[i].slot
  <2> DEFINE more == MarkPublished(rows, "prefillEnd")[i]
  <2>1. rows[i] \in Rows /\ RowOK(rows[i])
    BY RowOfSequence
  <2>2. /\ Continues(rows[i], more) /\ more.slot = rows[i].slot
        /\ more.tokens = rows[i].tokens /\ more.committed = rows[i].committed
    BY RowMarked
  <2>3. kept[i] = IF i \in new THEN more ELSE rows[i]
    BY DEF PrefillKept
  <2> HIDE DEF kept, more
  <2> QED
    BY <2>1, <2>2, <2>3 DEF Continues
<1> HIDE DEF ready, kept
<1>4. /\ ready \in Seq(Rows) /\ Len(ready) = Len(rows) /\ kept \in Seq(Rows) /\ Len(kept) = Len(rows)
  BY <1>1, <1>2, <1>3, RowsOf
<1>5. \A i \in DOMAIN rows : Continues(rows[i], ready[i])
  BY <1>2, RowOfSequence, FlagsChange
<1>6. \A i \in DOMAIN rows : Continues(ready[i], kept[i])
  <2>1. \A i \in DOMAIN rows : RowOK(ready[i])
    BY <1>5 DEF Continues
  <2> QED
    BY <1>2, <1>3, <2>1, FlagsChange
<1>7. RowsGoOn(rows, ready) /\ RowsGoOn(ready, kept)
  BY <1>1, <1>2, <1>3, <1>4, <1>5, <1>6 DEF RowsGoOn
<1> QED
  BY <1>2, <1>3, <1>7 DEF ready, kept

(* What a prefill that completes leaves. *)
PrefillLeaves(sampled, stops) ==
  LET rows == Prefilled(NewRows, sampled, stops) IN
  /\ manager' = PublishRows(manager, Ready(rows, NewRows), "prefillEnd")
  /\ seqs' = PrefillKept(rows, NewRows)
  /\ content' = Settled(manager', Written([i \in NewRows |-> PrefillSpan(seqs[i])]))
  /\ pc' = Boundary(rows)

(* The completion of a prefill, in the terms of the proofs. *)
LEMMA PrefillIs ==
  ASSUME Core, PrefillCompletes
  PROVE  /\ Completing /\ inflight' = {} /\ pending' = FALSE
         /\ UNCHANGED <<table, commit, budget, poisoned, quarantined, admitted>>
         /\ \E sampled \in [NewRows -> Sampled], stops \in SUBSET NewRows :
              PrefillLeaves(sampled, stops)
<1>1. Completing
  BY DEF PrefillCompletes, Completing
<1>2. \E sampled \in [NewRows -> Sampled], stops \in SUBSET NewRows :
        PrefillLeaves(sampled, stops)
  BY DEF PrefillCompletes, PrefillLeaves, Prefilled, Ready, PrefillKept, NewRows
<1> QED
  BY <1>1, <1>2 DEF PrefillCompletes

(* The end of a prefill, with the publication of its rows, keeps the core invariant. *)
LEMMA PrefillCompletesCore == Core /\ PrefillCompletes => Core'
<1> SUFFICES ASSUME Core, PrefillCompletes PROVE Core'
  OBVIOUS
<1>1. /\ Completing /\ UNCHANGED <<commit, poisoned, quarantined>>
  BY PrefillIs
<1>2. PICK sampled \in [NewRows -> Sampled], stops \in SUBSET NewRows : PrefillLeaves(sampled, stops)
  BY PrefillIs
<1> DEFINE rows == Prefilled(NewRows, sampled, stops)
           ready == Ready(rows, NewRows)
           kept == PrefillKept(rows, NewRows)
<1>3. /\ manager' = PublishRows(manager, ready, "prefillEnd") /\ seqs' = kept
      /\ pc' = Boundary(rows)
  BY <1>2 DEF PrefillLeaves
<1>4. RowsGoOn(seqs, rows)
  BY <1>1, PrefilledGoOn
<1> HIDE DEF rows
<1>5. rows \in Seq(Rows) /\ \A i \in DOMAIN rows : RowOK(rows[i])
  BY <1>4 DEF RowsGoOn, Continues
<1>6. RowsGoOn(rows, ready) /\ RowsGoOn(ready, kept)
  BY <1>5, ReadyGoOn
<1> HIDE DEF ready, kept
<1>7. /\ manager \in Managers /\ seqs \in Seq(Rows) /\ SlotsDiffer(seqs)
      /\ Len(seqs) \in Nat /\ Len(seqs) <= Cardinality(Slots)
  BY CoreFacts
<1>8. quarantined = <<>> /\ Sound(manager, seqs) /\ Len(seqs) >= 1
  <2>1. Stage(pc, seqs)
    BY DEF Core
  <2> QED
    BY <1>1, <1>7, <2>1, NoneQuarantined DEF Completing, Stage
<1>9. ready \in Seq(Rows) /\ kept \in Seq(Rows)
  BY <1>6 DEF RowsGoOn
<1>10. Sound(manager, ready)
  BY <1>5, <1>4, <1>6, <1>7, <1>8, GoOnSound
<1>11. manager' \in Managers /\ Sound(manager', ready)
  BY <1>3, <1>7, <1>9, <1>10, RowsPublished DEF Published
<1>12. Sound(manager', kept)
  BY <1>6, <1>9, <1>11, GoOnSound
<1>13. RowsGoOn(seqs, kept)
  BY <1>4, <1>6, GoOnTwice
<1>14. pc' \in {"settled", "evicting"}
  BY <1>3 DEF Boundary
<1>15. Stage(pc', seqs')
  BY <1>3, <1>7, <1>8, <1>13, <1>14, GoOnStage
<1>16. CoreTypes'
  BY <1>1, <1>3, <1>9, <1>11, <1>14 DEF Core, CoreTypes
<1>17. Sound(manager', seqs') /\ ManagerOK(manager')
  BY <1>3, <1>12, SoundManager
<1> QED
  BY <1>1, <1>8, <1>15, <1>16, <1>17 DEF Core

(* What a joiner makes of the state: it is refused, it is seated, or it is taken back. *)
NoSeat(lease) == manager' = lease.manager /\ UNCHANGED <<pc, table, seqs, poisoned>>

(* The joiner has its lease, and its row is uploaded. *)
Seated(lease, row) ==
  /\ table' = Upload(SetRows(table, {row}))
  /\ manager' = lease.manager /\ seqs' = Append(seqs, row) /\ pc' = "seating"
  /\ UNCHANGED poisoned

(* The row of a joiner whose upload failed is cleared, or the coordinator is *)
(* poisoned.                                                                 *)
TakenBack(failed, row) ==
  \/ table' = Upload(ClearRows(failed, {row})) /\ UNCHANGED poisoned
  \/ table' \in FailedUploads(ClearRows(failed, {row})) /\ poisoned' = TRUE

(* The joiner's lease is given back. *)
Withdrawn(lease, row) ==
  /\ \E failed \in FailedUploads(SetRows(table, {row})) : TakenBack(failed, row)
  /\ manager' = ReleaseLease(lease.manager, lease.pages)
  /\ UNCHANGED <<pc, seqs>>

(* The row of a joiner, and what its admission leaves. *)
Joiner(prompt, slot) ==
  NewRow(prompt, seqs[1].lookup, slot, Acquire(manager, prompt, seqs[1].lookup))
JoinedBy(prompt, slot) ==
  LET lease == Acquire(manager, prompt, seqs[1].lookup)
      row == Joiner(prompt, slot)
  IN IF ~lease.acquired THEN NoSeat(lease) ELSE Seated(lease, row) \/ Withdrawn(lease, row)

(* An admission, in the terms of the proofs. *)
LEMMA JoinIs ==
  ASSUME Core, Join
  PROVE  /\ pc = "settled" /\ Len(seqs) < Cardinality(Slots) /\ content' = Settled(manager', content)
         /\ UNCHANGED <<commit, budget, pending, quarantined, inflight>>
         /\ poisoned' \in BOOLEAN
         /\ \E prompt \in Prompts, slot \in Slots \ {row.slot : row \in Range(seqs)} :
              JoinedBy(prompt, slot)
<1>1. /\ pc = "settled" /\ Len(seqs) < Cardinality(Slots) /\ content' = Settled(manager', content)
      /\ UNCHANGED <<commit, budget, pending, quarantined, inflight>>
  BY DEF Join
<1>2. \E prompt \in Prompts, slot \in Slots \ {row.slot : row \in Range(seqs)} : JoinedBy(prompt, slot)
  BY DEF Join, JoinedBy, NoSeat, Seated, Withdrawn, TakenBack, Joiner
<1>3. poisoned \in BOOLEAN
  BY CoreFacts
<1>4. poisoned' = poisoned \/ poisoned' = TRUE
  BY <1>2 DEF JoinedBy, NoSeat, Seated, Withdrawn, TakenBack
<1> QED
  BY <1>1, <1>2, <1>3, <1>4

(* A row in a free slot keeps the slots different. *)
LEMMA SlotIsFree ==
  ASSUME NEW rows \in Seq(Rows), SlotsDiffer(rows), NEW row, row.slot \notin {r.slot : r \in Range(rows)}
  PROVE  SlotsDiffer(Append(rows, row))
<1>1. PICK n \in Nat : DOMAIN rows = 1..n /\ Len(rows) = n
  OBVIOUS
<1>2. DOMAIN Append(rows, row) = 1..(n + 1) /\ Append(rows, row)[n + 1] = row
      /\ \A i \in 1..n : Append(rows, row)[i] = rows[i]
  BY <1>1
<1>3. \A i \in 1..n : rows[i].slot # row.slot
  BY <1>1 DEF Range
<1>4. \A i \in 1..(n + 1) : i \in 1..n \/ i = n + 1
  OBVIOUS
<1> QED
  BY <1>1, <1>2, <1>3, <1>4 DEF SlotsDiffer

(* A joiner's request for a seat is one that may be granted. *)
LEMMA JoinerSeats ==
  ASSUME Core, pc = "settled", NEW prompt \in Prompts, NEW slot \in Slots
  PROVE  Seats(manager, seqs, prompt, seqs[1].lookup, slot,
               Acquire(manager, prompt, seqs[1].lookup))
<1>1. manager \in Managers /\ seqs \in Seq(Rows) /\ Len(seqs) >= 1 /\ DOMAIN seqs = 1..Len(seqs)
      /\ Len(seqs) \in Nat /\ Sound(manager, seqs)
  BY CoreFacts, NoneQuarantined DEF Core, Stage
<1>2. 1 \in DOMAIN seqs
  BY <1>1
<1>3. seqs[1].lookup \in BOOLEAN
  BY <1>1, <1>2, RowOfSequence, RowFields
<1> QED
  BY <1>1, <1>3 DEF Seats

(* reserveAdmission() and admitSequence() keep the core invariant, refused, seated or *)
(* withdrawn.                                                                         *)
LEMMA JoinCore == Core /\ Join => Core'
<1> SUFFICES ASSUME Core, Join PROVE Core'
  OBVIOUS
<1>1. /\ pc = "settled" /\ Len(seqs) < Cardinality(Slots) /\ UNCHANGED <<commit, quarantined>>
      /\ poisoned' \in BOOLEAN
  BY JoinIs
<1>2. PICK prompt \in Prompts, slot \in Slots \ {row.slot : row \in Range(seqs)} : JoinedBy(prompt, slot)
  BY JoinIs
<1> DEFINE lookup == seqs[1].lookup
           lease == Acquire(manager, prompt, lookup)
           row == NewRow(prompt, lookup, slot, lease)
<1>3. /\ manager \in Managers /\ seqs \in Seq(Rows) /\ Sound(manager, seqs) /\ SlotsDiffer(seqs)
      /\ Len(seqs) >= 1 /\ Len(seqs) \in Nat /\ quarantined = <<>> /\ quarantined \in Seq(Seq(Pages))
      /\ commit \in BOOLEAN /\ Stage(pc, seqs)
  BY <1>1, CoreFacts, NoneQuarantined DEF Core, CoreTypes, Stage
<1>4. Seats(manager, seqs, prompt, lookup, slot, lease)
  BY <1>1, JoinerSeats
<1>5. IF ~lease.acquired THEN NoSeat(lease) ELSE Seated(lease, row) \/ Withdrawn(lease, row)
  BY <1>2 DEF JoinedBy, Joiner
<1>6. row.slot = slot /\ row.pages = lease.pages
  BY DEF NewRow
<1> HIDE DEF lease
<1>7. /\ lease.acquired \in BOOLEAN /\ lease.manager \in Managers
      /\ ~lease.acquired => lease.manager = manager
  BY <1>4, SeatRefused
<1>8. CASE ~lease.acquired
  <2>1. manager' = manager /\ pc' = pc /\ seqs' = seqs /\ poisoned' = poisoned
    BY <1>5, <1>7, <1>8 DEF NoSeat
  <2>2. CoreTypes'
    BY <1>1, <2>1 DEF Core, CoreTypes
  <2> QED
    BY <1>1, <1>3, <2>1, <2>2, SoundManager DEF Core
<1>9. CASE lease.acquired
  <2>1. /\ row \in Rows /\ Append(seqs, row) \in Seq(Rows)
        /\ Sound(lease.manager, Append(seqs, row)) /\ Filled(row)
    BY <1>4, <1>9, RowSeated
  <2> HIDE DEF row
  <2>2. Seated(lease, row) \/ Withdrawn(lease, row)
    BY <1>5, <1>9
  <2>3. /\ Len(Append(seqs, row)) = Len(seqs) + 1 /\ Last(Append(seqs, row)) = row
    BY <1>3, <2>1 DEF Last
  <2>4. CASE Seated(lease, row)
    <3>1. manager' = lease.manager /\ seqs' = Append(seqs, row) /\ pc' = "seating"
      BY <2>4 DEF Seated
    <3>2. SlotsDiffer(Append(seqs, row))
      BY <1>3, <1>6, <2>1, SlotIsFree
    <3>3. Stage(pc', seqs')
      BY <1>1, <1>3, <2>1, <2>3, <3>1, <3>2, SlotsFinite DEF Stage
    <3>4. CoreTypes'
      BY <1>1, <1>3, <1>7, <2>1, <3>1 DEF CoreTypes
    <3>5. Sound(manager', seqs') /\ ManagerOK(manager')
      BY <2>1, <3>1, SoundManager
    <3> QED
      BY <1>1, <1>3, <3>3, <3>4, <3>5 DEF Core
  <2>5. CASE Withdrawn(lease, row)
    <3> DEFINE less == ReleaseLease(lease.manager, Last(Append(seqs, row)).pages)
    <3>1. manager' = less /\ seqs' = seqs /\ pc' = pc
      BY <1>6, <2>3, <2>5 DEF Withdrawn
    <3>2. Len(Append(seqs, row)) >= 1
      BY <1>3, <2>3
    <3>3. less \in Managers /\ Sound(less, Front(Append(seqs, row)))
      BY <1>7, <2>1, <3>2, LastRowReleased
    <3>4. Front(Append(seqs, row)) = seqs
      BY <1>3, <2>1, <2>3 DEF Front
    <3> HIDE DEF less
    <3>5. CoreTypes'
      BY <1>1, <1>3, <3>1, <3>3 DEF Core, CoreTypes
    <3>6. Sound(manager', seqs') /\ ManagerOK(manager')
      BY <3>1, <3>3, <3>4, SoundManager
    <3> QED
      BY <1>1, <1>3, <3>1, <3>5, <3>6 DEF Core
  <2> QED
    BY <2>2, <2>4, <2>5
<1> QED
  BY <1>7, <1>8, <1>9

(* retractSequenceAdmission() keeps it: the last row's lease is released. *)
LEMMA RetractCore == Core /\ Retract => Core'
<1> SUFFICES ASSUME Core, Retract PROVE Core'
  OBVIOUS
<1>1. /\ pc = "seating" /\ pc' = "settled" /\ UNCHANGED <<commit, quarantined>>
      /\ manager' = ReleaseLease(manager, Last(seqs).pages) /\ seqs' = Front(seqs)
      /\ poisoned' = poisoned \/ poisoned' = TRUE
  BY DEF Retract
<1>2. /\ manager \in Managers /\ seqs \in Seq(Rows) /\ Sound(manager, seqs) /\ SlotsDiffer(seqs)
      /\ Len(seqs) >= 2 /\ Len(seqs) \in Nat /\ quarantined = <<>> /\ quarantined \in Seq(Seq(Pages))
      /\ commit \in BOOLEAN /\ poisoned \in BOOLEAN /\ Len(seqs) <= Cardinality(Slots)
  BY <1>1, CoreFacts, NoneQuarantined DEF Core, CoreTypes, Stage
<1>3. /\ manager' \in Managers /\ Sound(manager', seqs') /\ seqs' \in Seq(Rows)
      /\ Len(seqs') = Len(seqs) - 1 /\ \A i \in 1..(Len(seqs) - 1) : seqs'[i] = seqs[i]
  BY <1>1, <1>2, LastRowReleased
<1>4. DOMAIN seqs' = 1..(Len(seqs) - 1) /\ DOMAIN seqs = 1..Len(seqs)
  BY <1>2, <1>3
<1>5. SlotsDiffer(seqs')
  <2>1. \A i \in 1..(Len(seqs) - 1) : i \in 1..Len(seqs)
    BY <1>2
  <2> QED
    BY <1>2, <1>3, <1>4, <2>1 DEF SlotsDiffer
<1>6. Stage(pc', seqs')
  BY <1>1, <1>2, <1>3, <1>5, SlotsFinite DEF Stage
<1>7. CoreTypes'
  BY <1>1, <1>2, <1>3 DEF CoreTypes
<1>8. ManagerOK(manager')
  BY <1>3, SoundManager
<1> QED
  BY <1>1, <1>2, <1>3, <1>6, <1>7, <1>8 DEF Core

(* Some of the rows have been dropped, and that is all. *)
DropsSome(rows, next) ==
  /\ next = [i \in DOMAIN rows |-> next[i]]
  /\ \A i \in DOMAIN rows : next[i] = rows[i] \/ next[i] = [rows[i] EXCEPT !.ended = "dropped"]

(* Each row keeps its text and its pages. *)
KeepsTexts(rows, next) ==
  \A i \in DOMAIN rows : next[i].committed = rows[i].committed /\ next[i].pages = rows[i].pages
                         /\ next[i].tokens = rows[i].tokens

(* The rows of a step whose flags alone have changed. *)
LEMMA FlagsGoOn ==
  ASSUME NEW rows \in Seq(Rows), \A i \in DOMAIN rows : RowOK(rows[i]), NEW next,
         DropsSome(rows, next)
  PROVE  RowsGoOn(rows, next) /\ KeepsTexts(rows, next)
<1>1. ASSUME NEW i \in DOMAIN rows
      PROVE  /\ next[i] \in Rows /\ next[i].pages = rows[i].pages /\ next[i].tokens = rows[i].tokens
             /\ next[i].committed = rows[i].committed /\ next[i].slot = rows[i].slot
  <2>1. rows[i] \in Rows
    BY RowOfSequence
  <2>2. next[i] = rows[i] \/ next[i] = [rows[i] EXCEPT !.ended = "dropped"]
    BY DEF DropsSome
  <2> QED
    BY <2>1, <2>2 DEF Rows
<1>2. next = [i \in DOMAIN rows |-> next[i]]
  BY DEF DropsSome
<1>3. next \in Seq(Rows) /\ DOMAIN next = DOMAIN rows /\ Len(next) = Len(rows)
  BY <1>1, <1>2, RowsOf
<1>4. \A i \in DOMAIN rows : Continues(rows[i], next[i])
  BY <1>1, RowOfSequence, FlagsChange
<1>5. RowsGoOn(rows, next)
  BY <1>1, <1>3, <1>4 DEF RowsGoOn
<1>6. KeepsTexts(rows, next)
  BY <1>1 DEF KeepsTexts
<1> QED
  BY <1>5, <1>6

(* A joiner's failed prefill keeps it: a flag of its row changes. *)
LEMMA SeatedPrefillFailsCore == Core /\ SeatedPrefillFails => Core'
<1> SUFFICES ASSUME Core, SeatedPrefillFails PROVE Core'
  OBVIOUS
<1>1. /\ pc = "seating" /\ pc' \in {"failed", "compacting"} 
      /\ UNCHANGED <<manager, commit, poisoned, quarantined>>
      /\ seqs' = [seqs EXCEPT ![Len(seqs)].ended = "dropped"]
  BY DEF SeatedPrefillFails
<1>2. /\ manager \in Managers /\ seqs \in Seq(Rows) /\ Sound(manager, seqs) /\ SlotsDiffer(seqs)
      /\ Len(seqs) >= 2 /\ Len(seqs) \in Nat /\ quarantined = <<>> /\ quarantined \in Seq(Seq(Pages))
      /\ commit \in BOOLEAN /\ poisoned \in BOOLEAN /\ Len(seqs) <= Cardinality(Slots)
  BY <1>1, CoreFacts, NoneQuarantined DEF Core, CoreTypes, Stage
<1>3. \A i \in DOMAIN seqs : RowOK(seqs[i])
  BY <1>2 DEF Sound
<1> DEFINE next == [seqs EXCEPT ![Len(seqs)].ended = "dropped"]
<1>4. DropsSome(seqs, next)
  BY DEF DropsSome
<1> HIDE DEF next
<1>5. RowsGoOn(seqs, next)
  BY <1>2, <1>3, <1>4, FlagsGoOn
<1>6. next \in Seq(Rows) /\ Sound(manager, next)
  BY <1>2, <1>5, GoOnSound DEF RowsGoOn
<1>7. seqs' = next
  BY <1>1 DEF next
<1>8. Stage(pc', seqs')
  BY <1>1, <1>2, <1>5, <1>7 DEF RowsGoOn, SlotsDiffer, Stage
<1>9. CoreTypes'
  BY <1>1, <1>2, <1>6, <1>7 DEF CoreTypes
<1>10. Sound(manager', seqs') /\ ManagerOK(manager')
  BY <1>1, <1>6, <1>7, SoundManager
<1> QED
  BY <1>1, <1>2, <1>8, <1>9, <1>10 DEF Core

(* The rows of a step, those of them that were cancelled marked. *)
Cancelled(cancelled) ==
  [i \in DOMAIN seqs |-> IF i \in cancelled THEN [seqs[i] EXCEPT !.ended = "dropped"] ELSE seqs[i]]

(* What the growth of a step leaves. *)
GrownTo(rows, grown) ==
  LET bound == SetRows(table, Range(grown.rows) \ Range(rows)) IN
  /\ manager' = grown.manager
  /\ seqs' = grown.rows
  /\ IF ~grown.ok
     THEN pc' = "failed" /\ UNCHANGED <<table, pending, inflight>>
     ELSE \/ /\ table' = Upload(bound)
             /\ pc' = "decoding" /\ pending' = TRUE
             /\ inflight' = UNION {KernelPages(table', row, DecodeSpan(row)) : row \in Range(seqs')}
          \/ /\ table' \in FailedUploads(bound)
             /\ pc' = "failed" /\ UNCHANGED <<pending, inflight>>

(* The preparation of a step, in the terms of the proofs. *)
LEMMA PrepareDecodeIs ==
  ASSUME PrepareDecode
  PROVE  /\ pc = "settled" /\ content' = Settled(manager', content)
         /\ UNCHANGED <<commit, budget, poisoned, quarantined, admitted>>
         /\ \E cancelled \in SUBSET DOMAIN seqs :
              GrownTo(Cancelled(cancelled), Grown(Cancelled(cancelled)))
<1>1. \E cancelled \in SUBSET DOMAIN seqs :
        GrownTo(Cancelled(cancelled), Grown(Cancelled(cancelled)))
  BY DEF PrepareDecode, GrownTo, Cancelled
<1> QED
  BY <1>1 DEF PrepareDecode

(* Cancelled rows are as sound as they were. *)
LEMMA CancelledGoOn ==
  ASSUME Core, pc = "settled", NEW cancelled
  PROVE  /\ RowsGoOn(seqs, Cancelled(cancelled)) /\ Sound(manager, Cancelled(cancelled))
         /\ \A i \in DOMAIN seqs : /\ Cancelled(cancelled)[i].committed = seqs[i].committed
                                   /\ Cancelled(cancelled)[i].pages = seqs[i].pages
                                   /\ Cancelled(cancelled)[i].tokens = seqs[i].tokens
<1> DEFINE next == Cancelled(cancelled)
<1>1. manager \in Managers /\ seqs \in Seq(Rows) /\ Sound(manager, seqs)
  BY CoreFacts, NoneQuarantined
<1>2. \A i \in DOMAIN seqs : RowOK(seqs[i])
  BY <1>1 DEF Sound
<1>3. DropsSome(seqs, next)
  BY DEF Cancelled, DropsSome
<1> HIDE DEF next
<1>4. RowsGoOn(seqs, next) /\ KeepsTexts(seqs, next)
  BY <1>1, <1>2, <1>3, FlagsGoOn
<1>5. Sound(manager, next)
  BY <1>1, <1>4, GoOnSound
<1> QED
  BY <1>4, <1>5 DEF KeepsTexts, next

(* prepareDecodeStep() keeps the core invariant, also when a row cannot grow. *)
LEMMA PrepareDecodeCore == Core /\ PrepareDecode => Core'
<1> SUFFICES ASSUME Core, PrepareDecode PROVE Core'
  OBVIOUS
<1>1. pc = "settled" /\ UNCHANGED <<commit, poisoned, quarantined>>
  BY PrepareDecodeIs
<1>2. PICK cancelled \in SUBSET DOMAIN seqs :
        GrownTo(Cancelled(cancelled), Grown(Cancelled(cancelled)))
  BY PrepareDecodeIs
<1> DEFINE rows == Cancelled(cancelled)
           grown == Grown(rows)
<1>3. /\ manager \in Managers /\ seqs \in Seq(Rows) /\ SlotsDiffer(seqs)
      /\ Len(seqs) >= 1 /\ Len(seqs) \in Nat /\ quarantined = <<>> /\ quarantined \in Seq(Seq(Pages))
      /\ commit \in BOOLEAN /\ poisoned \in BOOLEAN /\ Len(seqs) <= Cardinality(Slots)
  BY <1>1, CoreFacts, NoneQuarantined DEF Core, CoreTypes, Stage
<1>4. RowsGoOn(seqs, rows) /\ Sound(manager, rows)
  BY <1>1, CancelledGoOn
<1>5. GrownTo(rows, grown)
  BY <1>2
<1> HIDE DEF rows
<1>6. rows \in Seq(Rows) /\ Len(rows) = Len(seqs) /\ DOMAIN rows = DOMAIN seqs
  BY <1>4 DEF RowsGoOn
<1>7. Stretched(manager, rows, grown, Len(rows))
  BY <1>3, <1>4, <1>6, RowsStretched
<1> HIDE DEF grown
<1>8. /\ grown.manager \in Managers /\ grown.rows \in Seq(Rows) /\ grown.ok \in BOOLEAN
      /\ Sound(grown.manager, grown.rows) /\ DOMAIN grown.rows = DOMAIN rows
  BY <1>7 DEF Stretched, Batches
<1>9. Len(grown.rows) = Len(seqs) /\ DOMAIN seqs = 1..Len(seqs)
  BY <1>3, <1>6, <1>8
<1>10. \A i \in DOMAIN seqs : grown.rows[i].slot = seqs[i].slot
  BY <1>4, <1>6, <1>7 DEF RowsGoOn, Stretched, PagesGrow
<1>11. SlotsDiffer(grown.rows)
  BY <1>3, <1>6, <1>8, <1>10 DEF SlotsDiffer
<1>12. grown.ok = TRUE => \A i \in DOMAIN grown.rows : Grows(grown.rows[i])
  BY <1>3, <1>6, <1>7, <1>8, <1>9 DEF Stretched
<1>13. /\ manager' = grown.manager /\ seqs' = grown.rows
       /\ pc' \in {"failed", "decoding"} /\ (pc' = "decoding" => grown.ok = TRUE)
  BY <1>5, <1>8 DEF GrownTo
<1>14. Stage(pc', seqs')
  BY <1>3, <1>9, <1>11, <1>12, <1>13 DEF Stage
<1>15. CoreTypes'
  BY <1>1, <1>3, <1>8, <1>13 DEF CoreTypes
<1>16. Sound(manager', seqs') /\ ManagerOK(manager')
  BY <1>8, <1>13, SoundManager
<1> QED
  BY <1>1, <1>3, <1>14, <1>15, <1>16 DEF Core

(* The rows of a decode that completes. *)
Live == {i \in DOMAIN seqs : seqs[i].ended = "no"}

(* The rows after a step. *)
Decoded(sampled, stops) ==
  [i \in DOMAIN seqs |->
     IF i \in Live THEN Advanced(seqs[i], sampled[i], seqs[i].committed + 1, i \in stops) ELSE seqs[i]]

(* What the completion of a step leaves. *)
DecodeLeaves(sampled, stops) ==
  LET rows == Decoded(sampled, stops) IN
  /\ manager' = PublishRows(manager, rows, "decodeEnd")
  /\ seqs' = MarkPublished(rows, "decodeEnd")
  /\ content' = Settled(manager', Written([i \in DOMAIN seqs |-> DecodeSpan(seqs[i])]))
  /\ pc' = Boundary(rows)

(* The completion of a step, in the terms of the proofs. *)
LEMMA DecodeIs ==
  ASSUME DecodeCompletes
  PROVE  /\ pc = "decoding" /\ inflight' = {} /\ pending' = FALSE
         /\ UNCHANGED <<table, commit, budget, poisoned, quarantined, admitted>>
         /\ \E sampled \in [Live -> Sampled], stops \in SUBSET Live : DecodeLeaves(sampled, stops)
<1>1. \E sampled \in [Live -> Sampled], stops \in SUBSET Live : DecodeLeaves(sampled, stops)
  BY DEF DecodeCompletes, DecodeLeaves, Decoded, Live
<1> QED
  BY <1>1 DEF DecodeCompletes

(* The rows of a step go on, the live ones with one position more committed. *)
LEMMA DecodedGoOn ==
  ASSUME Core, pc = "decoding", NEW sampled \in [Live -> Sampled], NEW stops
  PROVE  /\ RowsGoOn(seqs, Decoded(sampled, stops))
         /\ \A i \in Live : /\ i \in DOMAIN seqs
                            /\ Decoded(sampled, stops)[i].committed = seqs[i].committed + 1
                            /\ Decoded(sampled, stops)[i].tokens = Append(seqs[i].tokens, sampled[i])
         /\ \A i \in DOMAIN seqs : i \notin Live => Decoded(sampled, stops)[i] = seqs[i]
<1> DEFINE rows == Decoded(sampled, stops)
<1>1. /\ seqs \in Seq(Rows) /\ DOMAIN seqs = 1..Len(seqs) /\ Len(seqs) \in Nat
      /\ Sound(manager, seqs) /\ Stage(pc, seqs)
  BY CoreFacts, NoneQuarantined DEF Core
<1>2. \A i \in DOMAIN seqs : seqs[i] \in Rows /\ RowOK(seqs[i]) /\ Grows(seqs[i])
  BY <1>1, RowOfSequence DEF Sound, Stage
<1>3. \A i \in Live : i \in DOMAIN seqs
  BY DEF Live
<1>4. DOMAIN rows = DOMAIN seqs /\ rows = [i \in DOMAIN seqs |-> rows[i]]
  BY DEF Decoded
<1>5. ASSUME NEW i \in Live
      PROVE  /\ Continues(seqs[i], rows[i]) /\ rows[i].slot = seqs[i].slot
             /\ rows[i].committed = seqs[i].committed + 1
             /\ rows[i].tokens = Append(seqs[i].tokens, sampled[i])
  <2>1. /\ seqs[i] \in Rows /\ RowOK(seqs[i]) /\ Grows(seqs[i]) /\ sampled[i] \in Sampled
        /\ Len(seqs[i].tokens) \in Nat /\ seqs[i].committed \in Nat
    BY <1>2, <1>3, RowFields
  <2>2. MayAdvance(seqs[i], sampled[i], seqs[i].committed + 1)
    BY <2>1 DEF MayAdvance, RowOK, Grows
  <2>3. rows[i] = Advanced(seqs[i], sampled[i], seqs[i].committed + 1, i \in stops)
    BY <1>3 DEF Decoded
  <2> HIDE DEF rows
  <2> QED
    BY <2>2, <2>3, AdvancedContinues
<1>6. ASSUME NEW i \in DOMAIN seqs, i \notin Live
      PROVE  Continues(seqs[i], rows[i]) /\ rows[i] = seqs[i]
  <2>1. rows[i] = seqs[i]
    BY <1>6 DEF Decoded
  <2> HIDE DEF rows
  <2> QED
    BY <1>2, <2>1, FlagsChange
<1> HIDE DEF rows
<1>7. \A i \in DOMAIN seqs : Continues(seqs[i], rows[i]) /\ rows[i].slot = seqs[i].slot
  BY <1>5, <1>6
<1>8. \A i \in DOMAIN seqs : rows[i] \in Rows
  BY <1>7 DEF Continues
<1>9. rows \in Seq(Rows) /\ Len(rows) = Len(seqs)
  BY <1>1, <1>4, <1>8, RowsOf
<1>10. RowsGoOn(seqs, rows)
  BY <1>4, <1>7, <1>9 DEF RowsGoOn
<1> QED
  BY <1>3, <1>5, <1>6, <1>10 DEF rows

(* So do they when what is published is marked. *)
LEMMA MarkedGoOn ==
  ASSUME NEW rows \in Seq(Rows), \A i \in DOMAIN rows : RowOK(rows[i]), NEW point
  PROVE  /\ RowsGoOn(rows, MarkPublished(rows, point))
         /\ \A i \in DOMAIN rows : /\ MarkPublished(rows, point)[i].tokens = rows[i].tokens
                                   /\ MarkPublished(rows, point)[i].committed = rows[i].committed
<1> DEFINE next == MarkPublished(rows, point)
<1>1. DOMAIN next = DOMAIN rows /\ next = [i \in DOMAIN rows |-> next[i]]
  BY DEF MarkPublished
<1>2. \A i \in DOMAIN rows :
        /\ Continues(rows[i], next[i]) /\ next[i].slot = rows[i].slot
        /\ next[i].tokens = rows[i].tokens /\ next[i].committed = rows[i].committed
  BY RowMarked
<1> HIDE DEF next
<1>3. next \in Seq(Rows) /\ Len(next) = Len(rows)
  BY <1>1, <1>2, RowsOf DEF Continues
<1>4. RowsGoOn(rows, next)
  BY <1>1, <1>2, <1>3 DEF RowsGoOn
<1> QED
  BY <1>2, <1>4 DEF next

(* completeDecodeStep(), with the publication of the rows that end, keeps the core *)
(* invariant.                                                                      *)
LEMMA DecodeCompletesCore == Core /\ DecodeCompletes => Core'
<1> SUFFICES ASSUME Core, DecodeCompletes PROVE Core'
  OBVIOUS
<1>1. pc = "decoding" /\ UNCHANGED <<commit, poisoned, quarantined>>
  BY DecodeIs
<1>2. PICK sampled \in [Live -> Sampled], stops \in SUBSET Live : DecodeLeaves(sampled, stops)
  BY DecodeIs
<1> DEFINE rows == Decoded(sampled, stops)
           kept == MarkPublished(rows, "decodeEnd")
<1>3. /\ manager' = PublishRows(manager, rows, "decodeEnd") /\ seqs' = kept
      /\ pc' = Boundary(rows)
  BY <1>2 DEF DecodeLeaves
<1>4. RowsGoOn(seqs, rows)
  BY <1>1, DecodedGoOn
<1> HIDE DEF rows
<1>5. rows \in Seq(Rows) /\ \A i \in DOMAIN rows : RowOK(rows[i])
  BY <1>4 DEF RowsGoOn, Continues
<1>6. RowsGoOn(rows, kept)
  BY <1>5, MarkedGoOn
<1> HIDE DEF kept
<1>7. /\ manager \in Managers /\ seqs \in Seq(Rows) /\ SlotsDiffer(seqs)
      /\ Len(seqs) \in Nat /\ Len(seqs) <= Cardinality(Slots)
  BY CoreFacts
<1>8. quarantined = <<>> /\ Sound(manager, seqs) /\ Len(seqs) >= 1
  BY <1>1, NoneQuarantined DEF Core, Stage
<1>9. kept \in Seq(Rows)
  BY <1>6 DEF RowsGoOn
<1>10. Sound(manager, rows)
  BY <1>4, <1>7, <1>8, GoOnSound
<1>11. manager' \in Managers /\ Sound(manager', rows)
  BY <1>3, <1>5, <1>7, <1>10, RowsPublished DEF Published
<1>12. Sound(manager', kept)
  BY <1>5, <1>6, <1>11, GoOnSound
<1>13. RowsGoOn(seqs, kept)
  BY <1>4, <1>6, GoOnTwice
<1>14. pc' \in {"settled", "evicting"}
  BY <1>3 DEF Boundary
<1>15. Stage(pc', seqs')
  BY <1>3, <1>7, <1>8, <1>13, <1>14, GoOnStage
<1>16. CoreTypes'
  BY <1>1, <1>3, <1>9, <1>11, <1>14 DEF Core, CoreTypes
<1>17. Sound(manager', seqs') /\ ManagerOK(manager')
  BY <1>3, <1>12, SoundManager
<1> QED
  BY <1>1, <1>8, <1>15, <1>16, <1>17 DEF Core

(* The rows of the batch that go and those that stay. *)
GoneRows == {i \in DOMAIN seqs : seqs[i].ended # "no"}

(* The rows that a compaction leaves. *)
StayRows == {i \in DOMAIN seqs : seqs[i].ended = "no"}

(* A compaction that succeeds. *)
Compacted ==
  /\ table' = Upload(ClearRows(table, Range(InOrder(seqs, GoneRows))))
  /\ manager' = ReleaseAll(manager, PagesOf(InOrder(seqs, GoneRows)))
  /\ content' = Settled(manager', content)
  /\ seqs' = InOrder(seqs, StayRows)
  /\ pending' = FALSE
  /\ inflight' = {}
  /\ pc' = IF InOrder(seqs, StayRows) = <<>> THEN "finishing" ELSE "settled"
  /\ UNCHANGED <<commit, budget, poisoned, quarantined>>

(* A compaction whose upload fails. *)
ClearFails ==
  /\ table' \in FailedUploads(ClearRows(table, Range(InOrder(seqs, GoneRows))))
  /\ pc' = "failed"
  /\ UNCHANGED <<manager, seqs, commit, budget, pending, poisoned, quarantined, content, inflight>>

(* A compaction, in the terms of the proofs. *)
LEMMA CompactBatchIs ==
  ASSUME CompactBatch
  PROVE  /\ pc = "compacting"
         /\ \/ ClearFails
            \/ Quarantine /\ table' = Upload(ClearRows(table, Range(InOrder(seqs, GoneRows))))
            \/ Compacted
  BY DEF CompactBatch, ClearFails, Compacted, GoneRows, StayRows

(* quarantine() keeps the core invariant: the leases move from the rows to the *)
(* quarantine.                                                                 *)
LEMMA QuarantineCore == Core /\ pc \notin {"idle", "closed"} /\ Quarantine => Core'
<1> SUFFICES ASSUME Core, pc \notin {"idle", "closed"}, Quarantine PROVE Core'
  OBVIOUS
<1>1. /\ pc' = "idle" /\ seqs' = <<>> /\ poisoned' = TRUE /\ commit' = FALSE
      /\ manager' = manager /\ quarantined' = quarantined \o PagesOf(seqs)
  BY DEF Quarantine, RequestEnds
<1>2. /\ manager \in Managers /\ seqs \in Seq(Rows) /\ Sound(manager, seqs) /\ quarantined = <<>>
  BY CoreFacts, NoneQuarantined
<1>3. PagesOf(seqs) \in Seq(Seq(Pages))
  BY <1>2, PagesOfRows
<1>4. quarantined' = PagesOf(seqs)
  BY <1>1, <1>2, <1>3
<1>5. ManagerOK(manager') /\ Counts(manager'.active, quarantined')
  BY <1>1, <1>2, <1>4, SoundManager
<1>6. CoreTypes'
  BY <1>1, <1>2, <1>3, <1>4, NoRows DEF CoreTypes
<1>7. Stage(pc', seqs')
  BY <1>1, NoRows, SlotsFinite DEF Stage
<1>8. quarantined' = <<>> => Sound(manager', seqs')
  <2>1. ASSUME quarantined' = <<>> PROVE Sound(manager', seqs')
    <3>1. Counts(manager'.active, <<>>)
      BY <1>5, <2>1
    <3> QED
      BY <1>1, <1>5, <3>1, NoRows
  <2> QED
    BY <2>1
<1> QED
  BY <1>1, <1>5, <1>6, <1>7, <1>8 DEF Core

(* compactBatch() keeps it, failed, quarantined or done. *)
LEMMA CompactBatchCore == Core /\ CompactBatch => Core'
<1> SUFFICES ASSUME Core, CompactBatch PROVE Core'
  OBVIOUS
<1>1. pc = "compacting" /\ (ClearFails \/ Quarantine \/ Compacted)
  BY CompactBatchIs
<1>2. /\ manager \in Managers /\ seqs \in Seq(Rows) /\ Sound(manager, seqs) /\ SlotsDiffer(seqs)
      /\ Len(seqs) \in Nat /\ quarantined = <<>> /\ quarantined \in Seq(Seq(Pages))
      /\ commit \in BOOLEAN /\ poisoned \in BOOLEAN /\ Len(seqs) <= Cardinality(Slots)
      /\ DOMAIN seqs = 1..Len(seqs)
  BY <1>1, CoreFacts, NoneQuarantined DEF Core, CoreTypes
<1>3. CASE ClearFails
  BY <1>1, <1>3, MovesOn DEF ClearFails
<1>4. CASE Quarantine
  BY <1>1, <1>4, QuarantineCore
<1>5. CASE Compacted
  <2> DEFINE less == ReleaseAll(manager, PagesOf(InOrder(seqs, GoneRows)))
             kept == InOrder(seqs, StayRows)
  <2>1. GoneRows \cup StayRows = DOMAIN seqs /\ GoneRows \cap StayRows = {}
        /\ StayRows \subseteq DOMAIN seqs
    BY DEF GoneRows, StayRows
  <2>2. Compacts(manager, seqs, GoneRows, StayRows)
    BY <1>2, <2>1 DEF Compacts
  <2>3. /\ less \in Managers /\ kept \in Seq(Rows) /\ Sound(less, kept)
        /\ IsPart(seqs, kept, Ascending(StayRows))
    BY <2>2, RowsCompacted
  <2>4. manager' = less /\ seqs' = kept /\ UNCHANGED <<commit, poisoned, quarantined>>
        /\ pc' \in {"settled", "finishing"} /\ (pc' = "finishing" <=> kept = <<>>)
    BY <1>5 DEF Compacted
  <2>5. Len(kept) = Cardinality(StayRows) /\ Cardinality(StayRows) \in Nat
        /\ Cardinality(StayRows) <= Len(seqs)
    <3>1. Len(kept) = Cardinality(StayRows) /\ Cardinality(StayRows) \in Nat
      BY <1>2, <2>1, InOrderItems
    <3>2. Cardinality(StayRows) <= Len(seqs)
      BY <1>2, <2>1, NumbersAreFinite
    <3> QED
      BY <3>1, <3>2
  <2> HIDE DEF less, kept
  <2>6. SlotsDiffer(kept)
    BY <1>2, <2>3 DEF IsPart, SlotsDiffer
  <2>7. Len(kept) >= 1 \/ kept = <<>>
    BY <2>3
  <2>8. Stage(pc', seqs')
    <3>1. Len(kept) <= Cardinality(Slots)
      BY <1>2, <2>5, SlotsFinite
    <3>2. Stage("settled", kept) \/ kept = <<>>
      BY <2>6, <2>7, <3>1 DEF Stage
    <3>3. Stage("finishing", kept) \/ kept # <<>>
      BY <2>6, <3>1 DEF Stage
    <3> QED
      BY <2>4, <3>2, <3>3
  <2>9. CoreTypes'
    BY <1>2, <2>3, <2>4 DEF CoreTypes
  <2>10. Sound(manager', seqs') /\ ManagerOK(manager')
    BY <2>3, <2>4, SoundManager
  <2> QED
    BY <1>2, <2>4, <2>8, <2>9, <2>10 DEF Core
<1> QED
  BY <1>1, <1>3, <1>4, <1>5

(* finish() keeps it: there are no rows left. *)
LEMMA FinishCore == Core /\ Finish => Core'
<1> SUFFICES ASSUME Core, Finish PROVE Core'
  OBVIOUS
<1>1. /\ pc = "finishing" /\ pc' = "idle" /\ seqs' = <<>> /\ commit' = FALSE
      /\ UNCHANGED <<manager, poisoned, quarantined>>
  BY DEF Finish, RequestEnds
<1>2. quarantined = <<>> /\ Sound(manager, seqs) /\ seqs = <<>>
  BY <1>1, NoneQuarantined DEF Core, Stage
<1>3. CoreTypes'
  BY <1>1, NoRows DEF Core, CoreTypes
<1>4. Stage(pc', seqs')
  BY <1>1, NoRows, SlotsFinite DEF Stage
<1>5. Sound(manager', seqs') /\ ManagerOK(manager')
  BY <1>1, <1>2, SoundManager
<1> QED
  BY <1>1, <1>2, <1>3, <1>4, <1>5 DEF Core

(* The leases of an abandoned request go. *)
Abandoned ==
  /\ manager' = ReleaseAll(manager, PagesOf(seqs))
  /\ content' = Settled(manager', content)
  /\ inflight' = IF MustDrain THEN {} ELSE inflight
  /\ RequestEnds
  /\ UNCHANGED <<poisoned, quarantined>>

(* An abandonment, in the terms of the proofs. *)
LEMMA AbandonIs ==
  ASSUME Abandon
  PROVE  /\ pc \notin {"idle", "closed"} /\ table' = table
         /\ (MustDrain /\ Quarantine) \/ Abandoned
  BY DEF Abandon, Abandoned

(* abandon() keeps it, drained or quarantined. *)
LEMMA AbandonCore == Core /\ Abandon => Core'
<1> SUFFICES ASSUME Core, Abandon PROVE Core'
  OBVIOUS
<1>1. pc \notin {"idle", "closed"} /\ (Quarantine \/ Abandoned)
  BY AbandonIs
<1>2. CASE Quarantine
  BY <1>1, <1>2, QuarantineCore
<1>3. CASE Abandoned
  <2> DEFINE less == ReleaseAll(manager, PagesOf(seqs))
  <2>1. /\ manager' = less /\ pc' = "idle" /\ seqs' = <<>> /\ commit' = FALSE
        /\ UNCHANGED <<poisoned, quarantined>>
    BY <1>3 DEF Abandoned, RequestEnds
  <2>2. manager \in Managers /\ seqs \in Seq(Rows) /\ Sound(manager, seqs) /\ quarantined = <<>>
    BY <1>1, CoreFacts, NoneQuarantined
  <2>3. less \in Managers /\ Sound(less, <<>>)
    BY <2>2, AllAreReleased
  <2> HIDE DEF less
  <2>4. CoreTypes'
    BY <2>1, <2>3, NoRows DEF Core, CoreTypes
  <2>5. Stage(pc', seqs')
    BY <2>1, NoRows, SlotsFinite DEF Stage
  <2>6. Sound(manager', seqs') /\ ManagerOK(manager')
    BY <2>1, <2>3, SoundManager
  <2> QED
    BY <2>1, <2>2, <2>4, <2>5, <2>6 DEF Core
<1> QED
  BY <1>1, <1>2, <1>3

(* shutdown() keeps it, with the quarantine released or held. *)
LEMMA ShutdownCore == Core /\ Shutdown => Core'
<1> SUFFICES ASSUME Core, Shutdown PROVE Core'
  OBVIOUS
<1>1. pc = "idle" /\ pc' = "closed" /\ UNCHANGED <<seqs, commit, poisoned>>
      /\ \/ manager' = ReleaseAll(manager, quarantined) /\ quarantined' = <<>>
         \/ quarantined # <<>> /\ UNCHANGED <<manager, quarantined>>
  BY DEF Shutdown
<1>2. /\ manager \in Managers /\ seqs = <<>> /\ quarantined \in Seq(Seq(Pages)) /\ CoreTypes
      /\ ManagerOK(manager)
  BY <1>1 DEF Core, CoreTypes, Stage
<1>3. Counts(manager.active, quarantined)
  <2>1. CASE quarantined = <<>>
    <3>1. Sound(manager, <<>>)
      BY <1>2, <2>1 DEF Core
    <3> QED
      BY <2>1, <3>1, NoRows
  <2>2. CASE quarantined # <<>>
    BY <2>2 DEF Core
  <2> QED
    BY <2>1, <2>2
<1>4. Stage(pc', seqs')
  BY <1>1, <1>2, NoRows, SlotsFinite DEF Stage
<1>5. CASE manager' = ReleaseAll(manager, quarantined) /\ quarantined' = <<>>
  <2> DEFINE less == ReleaseAll(manager, quarantined)
  <2>1. DOMAIN quarantined = 1..Len(quarantined) /\ Len(quarantined) \in Nat
    BY <1>2
  <2>2. less \in Managers /\ ManagerOK(less) /\ Counts(less.active, <<>>)
    BY <1>2, <1>3, <2>1, AllReleased
  <2> HIDE DEF less
  <2>3. manager' = less /\ quarantined' = <<>>
    BY <1>5 DEF less
  <2>4. Sound(manager', seqs') /\ ManagerOK(manager')
    BY <1>1, <1>2, <2>2, <2>3, NoRows
  <2>5. CoreTypes'
    BY <1>1, <1>2, <2>2, <2>3 DEF CoreTypes
  <2> QED
    BY <1>4, <2>3, <2>4, <2>5 DEF Core
<1>6. CASE quarantined # <<>> /\ UNCHANGED <<manager, quarantined>>
  <2>1. CoreTypes'
    BY <1>1, <1>2, <1>6 DEF CoreTypes
  <2>2. poisoned' = TRUE
    BY <1>1, <1>6 DEF Core
  <2> QED
    BY <1>1, <1>2, <1>3, <1>4, <1>6, <2>1, <2>2 DEF Core
<1> QED
  BY <1>1, <1>5, <1>6

(* A step that changes nothing keeps it. *)
LEMMA StutterCore == Core /\ UNCHANGED vars => Core'
<1> SUFFICES ASSUME Core, UNCHANGED vars PROVE Core'
  OBVIOUS
<1>1. UNCHANGED <<pc, manager, seqs, quarantined, commit, poisoned>>
  BY DEF vars
<1>2. CoreTypes'
  BY <1>1 DEF Core, CoreTypes
<1> QED
  BY <1>1, <1>2 DEF Core

(* Every step keeps it. *)
LEMMA CoreStep == Core /\ [Next]_vars => Core'
<1> SUFFICES ASSUME Core, [Next]_vars PROVE Core'
  OBVIOUS
<1>1. CASE Begin
  BY <1>1, BeginCore
<1>2. CASE PreparePrefill
  BY <1>2, PreparePrefillCore
<1>3. CASE PrefillCompletes
  BY <1>3, PrefillCompletesCore
<1>4. CASE Join
  BY <1>4, JoinCore
<1>5. CASE Retract
  BY <1>5, RetractCore
<1>6. CASE SeatedPrefillFails
  BY <1>6, SeatedPrefillFailsCore
<1>7. CASE PrepareDecode
  BY <1>7, PrepareDecodeCore
<1>8. CASE DecodeCompletes
  BY <1>8, DecodeCompletesCore
<1>9. CASE BeginCompaction
  BY <1>9, BeginCompactionCore
<1>10. CASE CompactBatch
  BY <1>10, CompactBatchCore
<1>11. CASE Finish
  BY <1>11, FinishCore
<1>12. CASE Abandon
  BY <1>12, AbandonCore
<1>13. CASE Shutdown
  BY <1>13, ShutdownCore
<1>14. CASE Terminated \/ UNCHANGED vars
  BY <1>14, StutterCore DEF Terminated
<1> QED
  BY <1>1, <1>2, <1>3, <1>4, <1>5, <1>6, <1>7, <1>8, <1>9, <1>10, <1>11, <1>12, <1>13, <1>14
     DEF Next

(* Through reuse, growth, publication, eviction, compaction, retraction, abandonment  *)
(* and quarantine, and whatever upload fails, the manager's counts are the leases and *)
(* records that there are, rows share a page only for a block they have in common,    *)
(* and what is shared is committed (ContextCacheManager with the coordinator's        *)
(* batch).                                                                            *)
THEOREM CoreInvariance == Spec => []Core
<1>1. Init => Core
  BY InitCore
<1>2. Core /\ [Next]_vars => Core'
  BY CoreStep
<1> QED
  BY <1>1, <1>2, PTL DEF Spec

-----------------------------------------------------------------------------
(* What the core invariant says.                                             *)

(* A function that takes each value once has as many arguments as values. *)
LEMMA InverseCardinality ==
  ASSUME NEW f, IsInjective(f), IsFiniteSet(Range(f)), f \in [DOMAIN f -> Range(f)]
  PROVE  Cardinality(DOMAIN f) = Cardinality(Range(f))
<1> DEFINE inverse == [y \in Range(f) |-> CHOOSE x \in DOMAIN f : f[x] = y]
<1>1. \A y \in Range(f) : inverse[y] \in DOMAIN f /\ f[inverse[y]] = y
  BY DEF Range
<1>2. inverse \in [Range(f) -> DOMAIN f]
  BY <1>1
<1>3. \A x, y \in Range(f) : inverse[x] = inverse[y] => x = y
  BY <1>1
<1>4. \A x \in DOMAIN f : f[x] \in Range(f) /\ inverse[f[x]] = x
  BY <1>1 DEF Range, IsInjective
<1> HIDE DEF inverse
<1>5. inverse \in Bijection(Range(f), DOMAIN f)
  BY <1>2, <1>3, <1>4 DEF Bijection, Injection, Surjection, IsInjective
<1>6. ExistsBijection(Range(f), DOMAIN f)
  BY <1>5 DEF ExistsBijection
<1> QED
  BY <1>6, FS_Bijection

(* The active counts are of the leases there are. *)
LEMMA LeasesAre ==
  ASSUME Core
  PROVE  Counts(manager.active, Leases)
<1>1. seqs \in Seq(Rows) /\ quarantined \in Seq(Seq(Pages))
  BY DEF Core, CoreTypes
<1>2. PagesOf(seqs) \in Seq(Seq(Pages))
  BY <1>1, PagesOfRows
<1>3. CASE quarantined = <<>>
  <2>1. Leases = PagesOf(seqs)
    BY <1>2, <1>3 DEF Leases
  <2> QED
    BY <1>3, <2>1, SoundManager DEF Core
<1>4. CASE quarantined # <<>>
  <2>1. seqs = <<>>
    BY <1>4 DEF Core, Stage
  <2>2. PagesOf(seqs) = <<>>
    BY <2>1 DEF PagesOf
  <2>3. Leases = quarantined
    BY <1>1, <2>2 DEF Leases
  <2> QED
    BY <1>4, <2>3 DEF Core
<1> QED
  BY <1>3, <1>4

(* The core invariant says that the pages are counted. *)
LEMMA CoreCounts == Core => PagesAreCounted
<1> SUFFICES ASSUME Core PROVE PagesAreCounted
  OBVIOUS
<1>1. manager \in Managers /\ ManagerOK(manager)
  BY DEF Core, CoreTypes
<1>2. /\ manager.free \in Seq(Pages) /\ manager.index \in Indexes
      /\ FreeAreUnused(manager) /\ IndexIsOfCached(manager)
      /\ Counts(manager.cached, PathsOf(manager.records))
  BY <1>1 DEF Managers, ManagerOK
<1>3. ASSUME NEW p \in Pages
      PROVE  manager.active[p] = Cardinality({i \in DOMAIN Leases : p \in Range(Leases[i])})
  BY LeasesAre DEF Counts, Holders
<1>4. ASSUME NEW p \in Pages
      PROVE  manager.cached[p] = Cardinality({r \in Range(manager.records) : p \in Range(r.pages)})
  <2>1. manager.cached[p] = Cardinality(Holders(PathsOf(manager.records), p))
    BY <1>2 DEF Counts
  <2>2. Holders(PathsOf(manager.records), p) = {r \in Range(manager.records) : p \in Range(r.pages)}
    BY DEF Holders, PathsOf
  <2> QED
    BY <2>1, <2>2
<1>5. Len(manager.free) = Cardinality(Range(manager.free))
  BY <1>2, LengthIsCardinality DEF FreeAreUnused
<1>6. Cardinality(DOMAIN manager.index) = Cardinality(Range(manager.index))
  <2>1. manager.index \in [DOMAIN manager.index -> Pages]
    BY <1>2, IndexFields
  <2>2. manager.index \in [DOMAIN manager.index -> Range(manager.index)]
        /\ Range(manager.index) \subseteq Pages
    BY <2>1 DEF Range
  <2>3. IsFiniteSet(Range(manager.index))
    BY <2>2, PageSetsAreFinite
  <2> QED
    BY <1>2, <2>2, <2>3, InverseCardinality DEF IndexIsOfCached
<1> QED
  BY <1>2, <1>3, <1>4, <1>5, <1>6 DEF PagesAreCounted, FreeAreUnused, IndexIsOfCached

(* No page is lost or owned twice: the counts are of the leases and the records, the *)
(* free ring is what nobody counts, and the index is one block for each cached page  *)
(* (ResourcePools, CacheRequestLease).                                               *)
THEOREM PagesCounted == Spec => []PagesAreCounted
<1> QED
  BY CoreInvariance, CoreCounts, PTL

(* The pages that nobody leases. *)
Idle(m) == {p \in Pages : m.active[p] = 0}

(* Making room takes every page that nobody leases, if it has to. *)
LEMMA RoomForIdle ==
  ASSUME NEW m \in Managers, ManagerOK(m)
  PROVE  /\ Len(m.records) \in Nat /\ Cardinality(Idle(m)) \in Nat
         /\ \A demand \in Int : demand <= Cardinality(Idle(m)) => Feasible(m, demand)
<1> DEFINE k == Len(m.records)
           gone == Reclaimed(m, k)
           free == Range(m.free)
<1>1. m.records \in Seq(Records) /\ k \in Nat /\ m.free \in Seq(Pages) /\ m.cached \in [Pages -> Nat]
  BY DEF Managers
<1>2. Oldest(m, k) = Range(m.records)
  <2>1. SubSeq(m.records, 1, k) = m.records
    BY <1>1
  <2> QED
    BY <2>1 DEF Oldest
<1>3. ASSUME NEW p \in Pages
      PROVE  m.cached[p] = Cardinality({r \in Oldest(m, k) : p \in Range(r.pages)})
  <2>1. m.cached[p] = Cardinality(Holders(PathsOf(m.records), p))
    BY DEF ManagerOK, Counts
  <2>2. Holders(PathsOf(m.records), p) = {r \in Range(m.records) : p \in Range(r.pages)}
    BY DEF Holders, PathsOf
  <2> QED
    BY <1>2, <2>1, <2>2
<1>4. gone = {p \in Pages : m.active[p] = 0 /\ m.cached[p] > 0}
  BY <1>3 DEF Reclaimed
<1>5. free = {p \in Pages : m.active[p] = 0 /\ m.cached[p] = 0} /\ IsInjective(m.free)
  BY DEF ManagerOK, FreeAreUnused
<1>6. Len(m.free) = Cardinality(free)
  BY <1>1, <1>5, LengthIsCardinality
<1> HIDE DEF k, gone, free
<1>7. free \cup gone = Idle(m) /\ free \cap gone = {}
  <2>1. \A p \in Pages : m.cached[p] = 0 \/ m.cached[p] > 0
    BY <1>1
  <2> QED
    BY <1>4, <1>5, <2>1 DEF Idle
<1>8. free \subseteq Pages /\ gone \subseteq Pages /\ Idle(m) \subseteq Pages
  BY <1>4, <1>5 DEF Idle
<1>9. IsFiniteSet(free) /\ IsFiniteSet(gone) /\ Cardinality(free) \in Nat
      /\ Cardinality(gone) \in Nat /\ Cardinality(Idle(m)) \in Nat
  BY <1>8, PageSetsAreFinite
<1>10. Cardinality({}) = 0
  BY FS_EmptySet
<1>11. Cardinality(Idle(m)) = Cardinality(free) + Cardinality(gone)
  <2>1. Cardinality(free \cup gone)
          = Cardinality(free) + Cardinality(gone) - Cardinality(free \cap gone)
    BY <1>9, FS_Union
  <2>2. Cardinality(free \cap gone) = 0
    BY <1>7, <1>10
  <2> QED
    BY <1>7, <1>9, <2>1, <2>2
<1>12. ASSUME NEW demand \in Int, demand <= Cardinality(Idle(m)) PROVE Feasible(m, demand)
  <2>1. Satisfies(m, k, demand)
    BY <1>6, <1>9, <1>11, <1>12 DEF Satisfies, gone
  <2>2. k \in 0..Len(m.records)
    BY <1>1 DEF k
  <2> QED
    BY <2>1, <2>2 DEF Feasible
<1> QED
  BY <1>1, <1>9, <1>12 DEF k

(* A row and a place in it: what PagesHeld counts. *)
Pairs(rows) == {held \in (DOMAIN rows) \X (1 .. MaxPagesPerSeq) : held[2] <= Len(rows[held[1]].pages)}

(* As many pairs of a row and a place in it as there are pages in the rows, and no more *)
(* than the rows' width allows.                                                         *)
LEMMA PairsAreFew ==
  ASSUME NEW rows \in Seq(Rows)
  PROVE  /\ IsFiniteSet(Pairs(rows)) /\ Cardinality(Pairs(rows)) \in Nat
         /\ Cardinality(Pairs(rows)) <= Len(rows) * MaxPagesPerSeq
<1>1. PICK n \in Nat : DOMAIN rows = 1..n /\ Len(rows) = n
  OBVIOUS
<1>2. MaxPagesPerSeq \in Nat
  BY TableAssumption
<1> DEFINE S == (1..n) \X (1..MaxPagesPerSeq)
<1>3. IsFiniteSet(S) /\ Cardinality(S) = n * MaxPagesPerSeq
  <2> DEFINE U == 1..n
             V == 1..MaxPagesPerSeq
  <2>1. /\ IsFiniteSet(U) /\ Cardinality(U) = n
        /\ IsFiniteSet(V) /\ Cardinality(V) = MaxPagesPerSeq
    BY <1>2, UpTo
  <2>2. S = U \X V
    OBVIOUS
  <2> HIDE DEF U, V, S
  <2>3. IsFiniteSet(U \X V) /\ Cardinality(U \X V) = Cardinality(U) * Cardinality(V)
    BY <2>1, FS_Product
  <2> QED
    BY <2>1, <2>2, <2>3
<1>4. Pairs(rows) \in SUBSET S
  BY <1>1 DEF Pairs
<1> HIDE DEF S
<1>5. IsFiniteSet(Pairs(rows)) /\ Cardinality(Pairs(rows)) <= Cardinality(S)
  BY <1>3, <1>4, FS_Subset
<1>6. Cardinality(Pairs(rows)) \in Nat
  BY <1>5, FS_CardinalityType
<1> QED
  BY <1>1, <1>3, <1>5, <1>6

(* The leased pages are at most the pairs. *)
LEMMA HeldAreFew ==
  ASSUME NEW m \in Managers, NEW rows \in Seq(Rows), Sound(m, rows)
  PROVE  Cardinality(Pages) - Cardinality(Idle(m)) <= Cardinality(Pairs(rows))
<1> DEFINE held == Pages \ Idle(m)
           pairs == Pairs(rows)
           page == [x \in pairs |-> rows[x[1]].pages[x[2]]]
           reach == {page[x] : x \in pairs}
<1>1. IsFiniteSet(pairs) /\ Cardinality(pairs) \in Nat
  BY PairsAreFew
<1>2. Counts(m.active, PagesOf(rows)) /\ \A k \in DOMAIN rows : RowOK(rows[k])
  BY DEF Sound
<1>3. held \subseteq reach
  <2>1. ASSUME NEW p \in held PROVE p \in reach
    <3>1. p \in Pages /\ m.active[p] > 0
      BY DEF Idle, Managers
    <3>2. PICK i \in DOMAIN PagesOf(rows) : p \in Range(PagesOf(rows)[i])
      BY <1>2, <3>1, CountedIsHeld
    <3>3. i \in DOMAIN rows /\ PagesOf(rows)[i] = rows[i].pages
      BY <3>2 DEF PagesOf
    <3>4. PICK j \in DOMAIN rows[i].pages : rows[i].pages[j] = p
      BY <3>2, <3>3 DEF Range
    <3>5. DOMAIN rows[i].pages = 1..Len(rows[i].pages) /\ Len(rows[i].pages) \in Nat
          /\ Len(rows[i].pages) <= MaxPagesPerSeq /\ MaxPagesPerSeq \in Nat
      BY <1>2, <3>3, RowOfSequence, RowFields, TableAssumption DEF RowOK
    <3>6. <<i, j>> \in pairs
      BY <3>3, <3>4, <3>5 DEF Pairs
    <3>7. page[<<i, j>>] = p
      BY <3>4, <3>6
    <3> QED
      BY <3>6, <3>7
  <2> QED
    BY <2>1
<1>4. page \in Surjection(pairs, reach)
  BY DEF Surjection
<1> HIDE DEF page, reach, pairs
<1>5. IsFiniteSet(reach) /\ Cardinality(reach) <= Cardinality(pairs)
  BY <1>1, <1>4, FS_Surjection
<1>6. Cardinality(held) <= Cardinality(reach)
  BY <1>3, <1>5, FS_Subset
<1>7. /\ Idle(m) \subseteq Pages /\ Pages \cap Idle(m) = Idle(m)
  BY DEF Idle
<1>8. Cardinality(held) = Cardinality(Pages) - Cardinality(Idle(m))
  BY <1>7, PagesAssumption, FS_Difference
<1>9. Cardinality(held) \in Nat /\ Cardinality(reach) \in Nat /\ Cardinality(Pages) \in Nat
      /\ Cardinality(Idle(m)) \in Nat
  BY <1>5, <1>7, PageSetsAreFinite, FS_CardinalityType
<1> HIDE DEF held
<1> QED
  BY <1>1, <1>5, <1>6, <1>8, <1>9 DEF pairs

(* The pool is as large as the residents may be long. *)
LEMMA PoolIsLarge ==
  /\ Cardinality(Slots) * MaxPagesPerSeq \in Nat
  /\ Cardinality(Pages) \in Nat
  /\ Cardinality(Slots) * MaxPagesPerSeq <= Cardinality(Pages)
<1> DEFINE n == Cardinality(Slots) * MaxPagesPerSeq
<1>1. Cardinality(Slots) \in Nat /\ MaxPagesPerSeq \in Nat
  BY SlotsFinite, TableAssumption
<1>2. n \in Nat
  BY <1>1
<1>3. 0..(n - 1) \in SUBSET Pages
  BY PoolAssumption
<1> HIDE DEF n
<1>4. IsFiniteSet(Pages) /\ Cardinality(Pages) \in Nat
  BY PagesAssumption, FS_CardinalityType
<1>5. Cardinality(0..(n - 1)) <= Cardinality(Pages)
  BY <1>3, <1>4, FS_Subset
<1>6. Cardinality(0..(n - 1)) = n
  BY <1>2, FS_Interval
<1> QED
  BY <1>2, <1>4, <1>5, <1>6 DEF n

(* What the rows do not hold of the pool's least size is leased by nobody. *)
LEMMA IdleAreEnough ==
  ASSUME NEW m \in Managers, NEW rows \in Seq(Rows), Sound(m, rows)
  PROVE  /\ Cardinality(Idle(m)) \in Nat
         /\ Cardinality(Slots) * MaxPagesPerSeq - Cardinality(Pairs(rows)) <= Cardinality(Idle(m))
<1>1. /\ Cardinality(Pages) - Cardinality(Idle(m)) <= Cardinality(Pairs(rows))
      /\ Cardinality(Pairs(rows)) \in Nat
  BY HeldAreFew, PairsAreFew
<1>2. Cardinality(Idle(m)) \in Nat
  BY RoomForIdle, SoundManager
<1> DEFINE n == Cardinality(Slots) * MaxPagesPerSeq
<1>3. n \in Nat /\ Cardinality(Pages) \in Nat /\ n <= Cardinality(Pages)
  BY PoolIsLarge
<1> HIDE DEF n
<1> QED
  BY <1>1, <1>2, <1>3 DEF n

(* A product with a smaller factor is smaller by a width at least. *)
LEMMA Widths ==
  \A a, b, w \in Nat : a < b => a * w + w <= b * w /\ a * w \in Nat /\ b * w \in Nat
<1>1. ASSUME NEW a \in Nat, NEW b \in Nat, NEW w \in Nat, a < b
      PROVE  a * w + w <= b * w /\ a * w \in Nat /\ b * w \in Nat
  <2>1. PICK d \in Nat : b = a + 1 + d
    <3>1. b - a - 1 \in Nat /\ b = a + 1 + (b - a - 1)
      BY <1>1
    <3> QED
      BY <3>1
  <2>2. b * w = a * w + w + d * w /\ d * w \in Nat /\ a * w \in Nat
    BY <2>1
  <2> QED
    BY <2>2
<1> QED
  BY <1>1

(* A slot that is free leaves a row's width of pages. *)
LEMMA WidthIsLeft ==
  ASSUME NEW rows \in Seq(Rows), Len(rows) < Cardinality(Slots)
  PROVE  MaxPagesPerSeq <= Cardinality(Slots) * MaxPagesPerSeq - Cardinality(Pairs(rows))
<1>1. /\ Cardinality(Slots) \in Nat /\ MaxPagesPerSeq \in Nat /\ Len(rows) \in Nat
      /\ Cardinality(Pairs(rows)) \in Nat /\ Cardinality(Pairs(rows)) <= Len(rows) * MaxPagesPerSeq
  BY SlotsFinite, TableAssumption, PairsAreFew
<1>2. Len(rows) * MaxPagesPerSeq + MaxPagesPerSeq <= Cardinality(Slots) * MaxPagesPerSeq
      /\ Len(rows) * MaxPagesPerSeq \in Nat /\ Cardinality(Slots) * MaxPagesPerSeq \in Nat
  BY <1>1, Widths
<1> QED
  BY <1>1, <1>2

(* A plan that reuses what the index has is met when a row's width of pages is idle. *)
LEMMA PlanIsMet ==
  ASSUME NEW m \in Managers, NEW rows \in Seq(Rows), Sound(m, rows),
         NEW prompt \in Prompts, NEW blocks, Reusable(m, prompt, blocks),
         MaxPagesPerSeq <= Cardinality(Idle(m))
  PROVE  AcquirePlan(m, prompt, blocks).acquired
<1> DEFINE bound == Bound(m, prompt, blocks)
           pinned == Pinned(m, bound)
           demand == PagesFor(Len(prompt) + 1) - blocks
           lease == GrowPages(pinned, bound, demand)
           leases == PagesOf(rows)
           x == Len(rows) + 1
           more == [i \in DOMAIN leases \cup {x} |-> IF i = x THEN bound ELSE leases[i]]
<1>1. ManagerOK(m) /\ Counts(m.active, leases)
  BY SoundManager
<1>2. /\ prompt \in Seq(Tokens) /\ Len(prompt) \in Nat /\ Len(prompt) >= 1
      /\ Len(prompt) + 1 <= Capacity /\ Capacity \in Nat
  BY PromptFacts
<1>3. blocks \in Nat
  BY DEF Reusable
<1>4. /\ bound \in Seq(Pages) /\ Len(bound) = blocks /\ IsInjective(bound)
      /\ \A p \in Range(bound) : p \in Pages /\ m.cached[p] > 0
  BY <1>1, <1>2, BoundPages
<1> HIDE DEF bound
<1>5. x \notin DOMAIN leases
  BY PagesOfRows
<1>6. /\ DOMAIN more = DOMAIN leases \cup {x} /\ more[x] = bound
      /\ \A i \in DOMAIN leases : more[i] = leases[i]
  BY <1>5
<1> HIDE DEF more, leases, x
<1>7. PinsPages(m, leases, x, bound, more)
  BY <1>1, <1>4, <1>5, <1>6 DEF PinsPages
<1>8. /\ pinned \in Managers /\ ManagerOK(pinned)
      /\ \A p \in Pages : pinned.active[p] = IF p \in Range(bound) THEN m.active[p] + 1 ELSE m.active[p]
  BY <1>7, PagesPinned
<1> HIDE DEF pinned
<1>9. Idle(m) \ Range(bound) \subseteq Idle(pinned)
  BY <1>8 DEF Idle
<1>10. Cardinality(Idle(pinned)) >= Cardinality(Idle(m)) - blocks
       /\ Cardinality(Idle(pinned)) \in Nat /\ Cardinality(Idle(m)) \in Nat
  <2>1. IsFiniteSet(Idle(m)) /\ IsFiniteSet(Idle(pinned)) /\ Cardinality(Idle(m)) \in Nat
        /\ Cardinality(Idle(pinned)) \in Nat
    BY PageSetsAreFinite DEF Idle
  <2>2. IsFiniteSet(Range(bound)) /\ Cardinality(Range(bound)) = blocks
    BY <1>4, LengthIsCardinality
  <2>3. Cardinality(Idle(m) \ Range(bound)) = Cardinality(Idle(m)) - Cardinality(Idle(m) \cap Range(bound))
    BY <2>1, FS_Difference
  <2>4. Cardinality(Idle(m) \cap Range(bound)) <= blocks
        /\ Cardinality(Idle(m) \cap Range(bound)) \in Nat
    BY <2>2, FS_Subset, FS_CardinalityType
  <2>5. Cardinality(Idle(m) \ Range(bound)) <= Cardinality(Idle(pinned))
    BY <1>9, <2>1, FS_Subset
  <2>6. Cardinality(Idle(m) \ Range(bound)) \in Nat
    BY <2>1, FS_Difference, FS_CardinalityType
  <2> QED
    BY <1>3, <2>1, <2>3, <2>4, <2>5, <2>6
<1>11. demand \in Int /\ demand <= MaxPagesPerSeq - blocks /\ MaxPagesPerSeq \in Nat
  <2>1. MaxPagesPerSeq \in Nat
    BY TableAssumption
  <2>2. PagesFor(Len(prompt) + 1) \in Nat /\ PagesFor(Len(prompt) + 1) <= MaxPagesPerSeq
    BY <1>2, <2>1, PagesForLength DEF Capacity
  <2> QED
    BY <1>3, <2>1, <2>2
<1> HIDE DEF demand
<1>12. Feasible(pinned, demand)
  <2>1. demand <= Cardinality(Idle(pinned))
    BY <1>3, <1>10, <1>11
  <2> QED
    BY <1>8, <1>11, <2>1, RoomForIdle
<1>13. lease.acquired
  BY <1>12 DEF GrowPages
<1> HIDE DEF lease
<1>14. AcquirePlan(m, prompt, blocks) = IF lease.acquired THEN lease ELSE Refused(m)
  BY DEF AcquirePlan, lease, bound, demand, pinned, Bound, Pinned
<1> QED
  BY <1>13, <1>14

(* The core invariant says that residents fit. *)
LEMMA CoreFits == Core => ResidentsFit
<1> SUFFICES ASSUME Core PROVE ResidentsFit
  OBVIOUS
<1>1. SUFFICES ASSUME quarantined = <<>>
      PROVE  /\ Feasible(manager, Cardinality(Slots) * MaxPagesPerSeq - PagesHeld)
             /\ Len(seqs) < Cardinality(Slots) => \A prompt \in Prompts :
                  AcquirePlan(manager, prompt, ReusableBlocks(manager, prompt)).acquired
  BY DEF ResidentsFit
<1>2. manager \in Managers /\ seqs \in Seq(Rows) /\ Sound(manager, seqs)
  BY <1>1, CoreFacts DEF Core
<1>3. /\ Cardinality(Idle(manager)) \in Nat
      /\ Cardinality(Slots) * MaxPagesPerSeq - Cardinality(Pairs(seqs)) <= Cardinality(Idle(manager))
  BY <1>2, IdleAreEnough
<1>4. PagesHeld = Cardinality(Pairs(seqs))
  BY DEF PagesHeld, Pairs
<1>5. Cardinality(Slots) * MaxPagesPerSeq - Cardinality(Pairs(seqs)) \in Int
  BY <1>2, PairsAreFew, PoolIsLarge
<1>6. Feasible(manager, Cardinality(Slots) * MaxPagesPerSeq - PagesHeld)
  <2> DEFINE demand == Cardinality(Slots) * MaxPagesPerSeq - Cardinality(Pairs(seqs))
  <2>1. demand \in Int /\ demand <= Cardinality(Idle(manager))
    BY <1>3, <1>5
  <2> HIDE DEF demand
  <2>2. Feasible(manager, demand)
    BY <1>2, <2>1, RoomForIdle, SoundManager
  <2> QED
    BY <1>4, <2>2 DEF demand
<1>7. ASSUME Len(seqs) < Cardinality(Slots), NEW prompt \in Prompts
      PROVE  AcquirePlan(manager, prompt, ReusableBlocks(manager, prompt)).acquired
  <2> DEFINE left == Cardinality(Slots) * MaxPagesPerSeq - Cardinality(Pairs(seqs))
  <2>1. MaxPagesPerSeq <= left
    BY <1>2, <1>7, WidthIsLeft
  <2>2. left \in Int /\ left <= Cardinality(Idle(manager)) /\ MaxPagesPerSeq \in Nat
    BY <1>3, <1>5, TableAssumption
  <2> HIDE DEF left
  <2>3. MaxPagesPerSeq <= Cardinality(Idle(manager))
    BY <1>3, <2>1, <2>2
  <2>4. Reusable(manager, prompt, ReusableBlocks(manager, prompt))
    BY PromptFacts, ReusableIsReusable
  <2> QED
    BY <1>2, <2>3, <2>4, PlanIsMet
<1> QED
  BY <1>6, <1>7

(* The pool never refuses what the engine's limits allow: while nothing is        *)
(* quarantined every resident can grow to its longest, and every free slot can be *)
(* taken by any prompt, with or without reuse (EvictionPlanner, the pool's least  *)
(* size).                                                                         *)
THEOREM ResidentsAlwaysFit == Spec => []ResidentsFit
<1> QED
  BY CoreInvariance, CoreFits, PTL

-----------------------------------------------------------------------------
(* The rows on the device, where an upload that fails has sent nothing.      *)

(* An upload that fails leaves the device's rows as they were, and a joiner's failed *)
(* prefill returns rather than throws.                                               *)
CleanFailures == UploadFailures \subseteq {"before"} /\ SeatedThrows \subseteq {FALSE}

(* The page table's rows. *)
Tables == [host : [Slots -> Seq(Pages)], uploaded : [Slots -> Seq(Pages)],
           device : [Slots -> Seq(Pages)]]

(* The device has what was uploaded last. *)
InStep(t) == t \in Tables /\ t.device = t.uploaded

(* An upload leaves the host's rows on the device. *)
LEMMA UploadIs ==
  ASSUME NEW t, InStep(t)
  PROVE  InStep(Upload(t)) /\ Upload(t).host = t.host /\ Upload(t).device = t.host
<1>1. /\ t.host \in [Slots -> Seq(Pages)] /\ t.uploaded \in [Slots -> Seq(Pages)]
      /\ t.device = t.uploaded /\ t \in Tables
  BY DEF InStep, Tables
<1> DEFINE sent == [s \in Slots |-> IF s \in DirtyRows(t) THEN t.host[s] ELSE t.device[s]]
<1>2. \A s \in Slots : sent[s] = t.host[s]
  BY <1>1 DEF DirtyRows
<1>3. sent = t.host
  BY <1>1, <1>2
<1> HIDE DEF sent
<1>4. Copied(t) = [host |-> t.host, uploaded |-> t.uploaded, device |-> t.host]
  <2>1. Copied(t) = [t EXCEPT !.device = sent]
    BY <1>1 DEF Copied, sent, Tables
  <2> QED
    BY <1>1, <1>3, <2>1 DEF Tables
<1>5. Upload(t) = [host |-> t.host, uploaded |-> t.host, device |-> t.host]
  BY <1>4 DEF Upload
<1> QED
  BY <1>1, <1>5 DEF InStep, Tables

(* A failed upload that is clean changes nothing. *)
LEMMA FailedUploadIs ==
  ASSUME CleanFailures, NEW t, NEW failed \in FailedUploads(t)
  PROVE  failed = t
BY DEF FailedUploads, CleanFailures

(* Rows of different slots. *)
OwnSlots(rows) == \A a, b \in rows : a.slot = b.slot => a = b

(* Binding some rows changes the host's rows of their slots only. *)
LEMMA SetRowsIs ==
  ASSUME NEW t, InStep(t), NEW rows, rows \subseteq Rows, OwnSlots(rows)
  PROVE  LET bound == SetRows(t, rows) IN
         /\ InStep(bound) /\ bound.device = t.device
         /\ \A row \in rows : bound.host[row.slot] = row.pages
         /\ \A s \in Slots : s \notin {row.slot : row \in rows} => bound.host[s] = t.host[s]
<1> DEFINE Of(s) == CHOOSE row \in rows : row.slot = s
           host == [s \in Slots |-> IF s \in {row.slot : row \in rows} THEN Of(s).pages ELSE t.host[s]]
           bound == SetRows(t, rows)
<1>1. t \in Tables /\ t.device = t.uploaded /\ t.host \in [Slots -> Seq(Pages)]
  BY DEF InStep, Tables
<1>2. bound = [t EXCEPT !.host = host]
  BY <1>1 DEF SetRows, Tables
<1>3. \A s \in {row.slot : row \in rows} : Of(s) \in rows /\ Of(s).slot = s
  OBVIOUS
<1>4. \A row \in rows : Of(row.slot) = row
  BY <1>3 DEF OwnSlots
<1>5. \A row \in rows : row.slot \in Slots /\ row.pages \in Seq(Pages)
  BY RowFields
<1>6. host \in [Slots -> Seq(Pages)]
  BY <1>1, <1>3, <1>5
<1>7. \A row \in rows : host[row.slot] = row.pages
  BY <1>4, <1>5
<1>8. \A s \in Slots : s \notin {row.slot : row \in rows} => host[s] = t.host[s]
  OBVIOUS
<1> HIDE DEF host, bound
<1>9. /\ bound \in Tables /\ bound.host = host /\ bound.device = t.device
      /\ bound.uploaded = t.uploaded
  BY <1>1, <1>2, <1>6 DEF Tables
<1> QED
  BY <1>1, <1>7, <1>8, <1>9 DEF bound, InStep

(* So does clearing them. *)
LEMMA ClearRowsIs ==
  ASSUME NEW t, InStep(t), NEW rows, rows \subseteq Rows, OwnSlots(rows)
  PROVE  LET cleared == ClearRows(t, rows) IN
         /\ InStep(cleared) /\ cleared.device = t.device
         /\ \A s \in Slots : s \notin {row.slot : row \in rows} => cleared.host[s] = t.host[s]
<1> DEFINE gone == {[row EXCEPT !.pages = <<>>] : row \in rows}
<1>1. ASSUME NEW row \in rows
      PROVE  /\ [row EXCEPT !.pages = <<>>] \in Rows
             /\ [row EXCEPT !.pages = <<>>].slot = row.slot
  <2>1. row \in Rows /\ <<>> \in Seq(Pages)
    OBVIOUS
  <2> QED
    BY <2>1 DEF Rows
<1>2. gone \subseteq Rows /\ {row.slot : row \in gone} = {row.slot : row \in rows}
  <2>1. gone \subseteq Rows
    BY <1>1
  <2>2. ASSUME NEW a \in gone PROVE a.slot \in {row.slot : row \in rows}
    <3>1. PICK row \in rows : a = [row EXCEPT !.pages = <<>>]
      OBVIOUS
    <3> QED
      BY <1>1, <3>1
  <2>3. ASSUME NEW row \in rows PROVE row.slot \in {a.slot : a \in gone}
    <3>1. [row EXCEPT !.pages = <<>>] \in gone
      OBVIOUS
    <3> QED
      BY <1>1, <3>1
  <2> HIDE DEF gone
  <2> QED
    BY <2>1, <2>2, <2>3
<1>3. OwnSlots(gone)
  <2>1. ASSUME NEW a \in gone, NEW b \in gone, a.slot = b.slot PROVE a = b
    <3>1. PICK x \in rows : a = [x EXCEPT !.pages = <<>>]
      OBVIOUS
    <3>2. PICK y \in rows : b = [y EXCEPT !.pages = <<>>]
      OBVIOUS
    <3>3. x.slot = y.slot
      BY <1>1, <2>1, <3>1, <3>2
    <3>4. x = y
      BY <3>3 DEF OwnSlots
    <3> QED
      BY <3>1, <3>2, <3>4
  <2> QED
    BY <2>1 DEF OwnSlots
<1>4. ClearRows(t, rows) = SetRows(t, gone)
  BY DEF ClearRows
<1> HIDE DEF gone
<1>5. /\ InStep(SetRows(t, gone)) /\ SetRows(t, gone).device = t.device
      /\ \A s \in Slots : s \notin {row.slot : row \in gone} => SetRows(t, gone).host[s] = t.host[s]
  BY <1>2, <1>3, SetRowsIs
<1>6. \A s \in Slots : s \notin {row.slot : row \in rows} => SetRows(t, gone).host[s] = t.host[s]
  BY <1>2, <1>5
<1> QED
  BY <1>4, <1>5, <1>6

(* Some rows of a batch have different slots. *)
LEMMA SlotsOfRows ==
  ASSUME NEW rows \in Seq(Rows), SlotsDiffer(rows), NEW some, some \subseteq Range(rows)
  PROVE  some \subseteq Rows /\ OwnSlots(some)
<1>1. \A row \in some : \E k \in DOMAIN rows : row = rows[k]
  BY DEF Range
<1>2. \A k \in DOMAIN rows : rows[k] \in Rows
  BY RowOfSequence
<1> QED
  BY <1>1, <1>2 DEF SlotsDiffer, OwnSlots

(* A row's slot is not the slot of any row of a part that it is not in. *)
LEMMA SlotApart ==
  ASSUME NEW rows \in Seq(Rows), SlotsDiffer(rows), NEW k \in DOMAIN rows,
         NEW some, some \subseteq Range(rows), rows[k] \notin some
  PROVE  rows[k].slot \notin {row.slot : row \in some}
<1>1. \A row \in some : \E l \in DOMAIN rows : row = rows[l]
  BY DEF Range
<1> QED
  BY <1>1 DEF SlotsDiffer

-----------------------------------------------------------------------------
(* Where a position is. *)
LEMMA Positions ==
  ASSUME NEW n \in Nat, n >= 1
  PROVE  /\ PageIndex(n) \in Nat /\ PageIndex(n) >= 1 /\ OffsetOf(n) \in 1..PageSize
         /\ n = (PageIndex(n) - 1) * PageSize + OffsetOf(n)
         /\ n <= PageIndex(n) * PageSize
         /\ \A k \in Nat : n <= k * PageSize => PageIndex(n) <= k
<1> DEFINE q == (n - 1) \div PageSize
           r == (n - 1) % PageSize
<1>1. PageSize \in Nat /\ PageSize >= 1
  BY PageSizeAssumption
<1>2. n - 1 \in Nat
  OBVIOUS
<1>3. q \in Nat /\ q * PageSize <= n - 1 /\ n - 1 < q * PageSize + PageSize
  BY <1>2, WholePages
<1>4. q * PageSize \in Nat /\ (q + 1) * PageSize = q * PageSize + PageSize
  BY <1>1, <1>3
<1>5. r \in 0..(PageSize - 1) /\ n - 1 = q * PageSize + r
  BY <1>1, <1>2
<1>6. PageIndex(n) = q + 1 /\ OffsetOf(n) = r + 1
  BY DEF PageIndex, OffsetOf
<1> HIDE DEF q, r
<1>7. ASSUME NEW k \in Nat, n <= k * PageSize PROVE q + 1 <= k
  <2>1. SUFFICES ASSUME k <= q PROVE FALSE
    BY <1>3
  <2>2. k * PageSize <= q * PageSize /\ k * PageSize \in Nat
    BY <1>3, <2>1, TimesPageSize
  <2> QED
    BY <1>3, <1>4, <1>7, <2>2
<1>8. (PageIndex(n) - 1) * PageSize = q * PageSize
  BY <1>3, <1>6
<1>9. PageIndex(n) * PageSize = q * PageSize + PageSize
  BY <1>4, <1>6
<1>10. PageIndex(n) \in Nat /\ PageIndex(n) >= 1 /\ OffsetOf(n) \in 1..PageSize
  BY <1>1, <1>3, <1>5, <1>6
<1>11. n = q * PageSize + OffsetOf(n)
  BY <1>3, <1>4, <1>5, <1>6
<1>12. n <= q * PageSize + PageSize
  BY <1>1, <1>3, <1>4
<1> QED
  BY <1>6, <1>7, <1>8, <1>9, <1>10, <1>11, <1>12

(* A page and an offset are of one position. *)
LEMMA SamePosition ==
  ASSUME NEW n \in Nat, n >= 1, NEW k \in Nat, k >= 1,
         PageIndex(n) = PageIndex(k), OffsetOf(n) = OffsetOf(k)
  PROVE  n = k
<1>1. n = (PageIndex(n) - 1) * PageSize + OffsetOf(n)
      /\ k = (PageIndex(k) - 1) * PageSize + OffsetOf(k)
  BY Positions
<1> QED
  BY <1>1

(* What a row writes beyond its committed positions is its own page. *)
WritesAt(m, rows, k, n) ==
  /\ rows \in Seq(Rows) /\ Sound(m, rows) /\ k \in DOMAIN rows
  /\ n \in Nat /\ n > rows[k].committed /\ PageIndex(n) <= Len(rows[k].pages)

(* The page of a position past the committed ones is the row's alone: it is leased *)
(* once, in no record, at one place of one row.                                    *)
LEMMA WritesOwnPage ==
  ASSUME NEW m \in Managers, NEW rows, NEW k, NEW n, WritesAt(m, rows, k, n)
  PROVE  LET p == rows[k].pages[PageIndex(n)] IN
         /\ PageIndex(n) \in DOMAIN rows[k].pages
         /\ p \in Pages /\ m.active[p] = 1 /\ m.cached[p] = 0
         /\ \A l \in DOMAIN rows : \A j \in DOMAIN rows[l].pages :
              rows[l].pages[j] = p => l = k /\ j = PageIndex(n)
<1> DEFINE i == PageIndex(n)
           row == rows[k]
           p == row.pages[i]
<1>1. /\ rows \in Seq(Rows) /\ Sound(m, rows) /\ k \in DOMAIN rows /\ n \in Nat
      /\ n > row.committed /\ i <= Len(row.pages)
  BY DEF WritesAt
<1>2. /\ row \in Rows /\ RowOK(row) /\ RowIndexed(m, row) /\ RowsAgree(rows)
      /\ Counts(m.active, PagesOf(rows))
  BY <1>1, RowOfSequence DEF Sound
<1>3. /\ DOMAIN row.pages = 1..Len(row.pages) /\ Len(row.pages) \in Nat /\ row.committed \in Nat
      /\ \A j \in 1..Len(row.pages) : row.pages[j] \in Pages /\ row.pages[j] \in Range(row.pages)
  BY <1>2, RowFields
<1>4. n >= 1
  BY <1>1, <1>3
<1>5. i \in Nat /\ i >= 1 /\ n <= i * PageSize /\ i * PageSize \in Nat
  BY <1>1, <1>4, Positions, TimesPageSize
<1>6. i \in DOMAIN row.pages /\ ~(i * PageSize <= row.committed)
  BY <1>1, <1>3, <1>5
<1>7. p \in Pages /\ p \in Range(row.pages) /\ m.cached[p] \in Nat
  BY <1>3, <1>6 DEF Managers
<1> HIDE DEF i, row
<1>8. ASSUME NEW l \in DOMAIN rows, NEW j \in DOMAIN rows[l].pages, rows[l].pages[j] = p
      PROVE  l = k /\ j = i
  <2>1. CASE l = k
    <3>1. IsInjective(row.pages)
      BY <1>2 DEF RowOK
    <3> QED
      BY <1>6, <1>8, <2>1, <3>1 DEF IsInjective, row
  <2>2. CASE l # k
    BY <1>1, <1>2, <1>6, <1>8, <2>2 DEF RowsAgree, row
  <2> QED
    BY <2>1, <2>2
<1>9. m.cached[p] = 0
  <2>1. ~(m.cached[p] > 0)
    BY <1>2, <1>6 DEF RowIndexed
  <2> QED
    BY <1>7, <2>1
<1>10. m.active[p] = 1
  <2> DEFINE leases == PagesOf(rows)
  <2>1. k \in DOMAIN leases /\ leases[k] = row.pages /\ DOMAIN leases = DOMAIN rows
    BY <1>1, RowOfSequence DEF row, PagesOf
  <2>2. ASSUME NEW l \in DOMAIN leases, p \in Range(leases[l]) PROVE l = k
    <3>1. l \in DOMAIN rows /\ leases[l] = rows[l].pages
      BY <2>1 DEF PagesOf
    <3>2. PICK j \in DOMAIN rows[l].pages : rows[l].pages[j] = p
      BY <2>2, <3>1 DEF Range
    <3> QED
      BY <1>8, <3>1, <3>2
  <2>3. p \in Range(leases[k])
    BY <1>7, <2>1
  <2> HIDE DEF leases, p
  <2>4. Counts(m.active, leases)
    BY <1>2 DEF leases
  <2> QED
    BY <1>7, <2>1, <2>2, <2>3, <2>4, HeldByOneIsCountedOnce
<1> QED
  BY <1>6, <1>7, <1>8, <1>9, <1>10 DEF i, row

-----------------------------------------------------------------------------
(* The device invariant.                                                     *)

(* The pages that one lease has and no record. *)
Private(m) == {p \in Pages : m.active[p] = 1 /\ m.cached[p] = 0}

(* At these points of the loop the table's rows are the leases. *)
OnDevice(at, rows, t) ==
  at \in {"prefilling", "settled", "seating", "decoding", "evicting", "compacting"} =>
    \A k \in DOMAIN rows : /\ t.host[rows[k].slot] = rows[k].pages
                            /\ t.device[rows[k].slot] = rows[k].pages

(* Where kernels may be running, and that whoever may find them running waits for *)
(* them.                                                                          *)
Flight(at, pages, drain) ==
  /\ at \in {"begun", "settled", "seating", "evicting", "finishing"} => pages = {}
  /\ at \in {"prefilling", "decoding", "compacting", "failed"} /\ pages # {} => drain = TRUE

(* The device invariant: its rows are the leases while a batch is served, and what *)
(* kernels may write is private and waited for.                                    *)
Device ==
  /\ InStep(table) /\ OnDevice(pc, seqs, table)
  /\ inflight \subseteq Private(manager) /\ pending \in BOOLEAN
  /\ Flight(pc, inflight, pending)

(* Binding some rows of a batch, the others being bound. *)
BindsRows(t, rows, some) ==
  /\ InStep(t) /\ rows \in Seq(Rows) /\ SlotsDiffer(rows) /\ some \subseteq Range(rows)
  /\ \A k \in DOMAIN rows : rows[k] \in some \/ t.host[rows[k].slot] = rows[k].pages

(* An upload after binding leaves every row's lease on the device. *)
LEMMA RowsBound ==
  ASSUME NEW t, NEW rows, NEW some, BindsRows(t, rows, some)
  PROVE  LET bound == SetRows(t, some)
             sent == Upload(bound)
         IN /\ InStep(bound) /\ InStep(sent) /\ bound.device = t.device
            /\ \A k \in DOMAIN rows : /\ sent.host[rows[k].slot] = rows[k].pages
                                      /\ sent.device[rows[k].slot] = rows[k].pages
<1> DEFINE bound == SetRows(t, some)
<1>1. /\ InStep(t) /\ rows \in Seq(Rows) /\ SlotsDiffer(rows) /\ some \subseteq Range(rows)
      /\ \A k \in DOMAIN rows : rows[k] \in some \/ t.host[rows[k].slot] = rows[k].pages
  BY DEF BindsRows
<1>2. some \subseteq Rows /\ OwnSlots(some)
  BY <1>1, SlotsOfRows
<1>3. /\ InStep(bound) /\ bound.device = t.device
      /\ \A row \in some : bound.host[row.slot] = row.pages
      /\ \A s \in Slots : s \notin {row.slot : row \in some} => bound.host[s] = t.host[s]
  BY <1>1, <1>2, SetRowsIs
<1> HIDE DEF bound
<1>4. ASSUME NEW k \in DOMAIN rows PROVE bound.host[rows[k].slot] = rows[k].pages
  <2>1. CASE rows[k] \in some
    BY <1>3, <2>1
  <2>2. CASE rows[k] \notin some
    <3>1. rows[k].slot \notin {row.slot : row \in some}
      BY <1>1, <2>2, SlotApart
    <3>2. rows[k].slot \in Slots
      BY <1>1, RowOfSequence, RowFields
    <3> QED
      BY <1>1, <1>3, <2>2, <3>1, <3>2
  <2> QED
    BY <2>1, <2>2
<1>5. InStep(Upload(bound)) /\ Upload(bound).host = bound.host /\ Upload(bound).device = bound.host
  BY <1>3, UploadIs
<1> QED
  BY <1>3, <1>4, <1>5 DEF bound

(* Clearing some rows of a batch leaves the others. *)
ClearsRows(t, rows, some) ==
  InStep(t) /\ rows \in Seq(Rows) /\ SlotsDiffer(rows) /\ some \subseteq Range(rows)

(* An upload after clearing leaves the other rows' leases on the device. *)
LEMMA RowsCleared ==
  ASSUME NEW t, NEW rows, NEW some, ClearsRows(t, rows, some)
  PROVE  LET cleared == ClearRows(t, some)
             sent == Upload(cleared)
         IN /\ InStep(cleared) /\ InStep(sent) /\ cleared.device = t.device
            /\ \A k \in DOMAIN rows : rows[k] \notin some =>
                 /\ cleared.host[rows[k].slot] = t.host[rows[k].slot]
                 /\ sent.host[rows[k].slot] = t.host[rows[k].slot]
                 /\ sent.device[rows[k].slot] = t.host[rows[k].slot]
<1> DEFINE cleared == ClearRows(t, some)
<1>1. InStep(t) /\ rows \in Seq(Rows) /\ SlotsDiffer(rows) /\ some \subseteq Range(rows)
  BY DEF ClearsRows
<1>2. some \subseteq Rows /\ OwnSlots(some)
  BY <1>1, SlotsOfRows
<1>3. /\ InStep(cleared) /\ cleared.device = t.device
      /\ \A s \in Slots : s \notin {row.slot : row \in some} => cleared.host[s] = t.host[s]
  BY <1>1, <1>2, ClearRowsIs
<1> HIDE DEF cleared
<1>4. ASSUME NEW k \in DOMAIN rows, rows[k] \notin some
      PROVE  cleared.host[rows[k].slot] = t.host[rows[k].slot]
  <2>1. rows[k].slot \notin {row.slot : row \in some}
    BY <1>1, <1>4, SlotApart
  <2>2. rows[k].slot \in Slots
    BY <1>1, RowOfSequence, RowFields
  <2> QED
    BY <1>3, <2>1, <2>2
<1>5. /\ InStep(Upload(cleared)) /\ Upload(cleared).host = cleared.host
      /\ Upload(cleared).device = cleared.host
  BY <1>3, UploadIs
<1> QED
  BY <1>3, <1>4, <1>5 DEF cleared

(* The kernels of a step write pages that are their row's alone. *)
Sends(m, rows, t) ==
  /\ m \in Managers /\ rows \in Seq(Rows) /\ Sound(m, rows)
  /\ \A k \in DOMAIN rows : t.device[rows[k].slot] = rows[k].pages

(* Through rows that are the leases, kernels write private pages only. *)
LEMMA KernelsWriteOwn ==
  ASSUME NEW m, NEW rows, NEW t, Sends(m, rows, t), NEW row \in Range(rows)
  PROVE  /\ KernelPages(t, row, PrefillSpan(row)) \subseteq Private(m)
         /\ KernelPages(t, row, DecodeSpan(row)) \subseteq Private(m)
<1>1. /\ m \in Managers /\ rows \in Seq(Rows) /\ Sound(m, rows)
      /\ \A k \in DOMAIN rows : t.device[rows[k].slot] = rows[k].pages
  BY DEF Sends
<1>2. PICK k \in DOMAIN rows : row = rows[k]
  BY DEF Range
<1>3. t.device[row.slot] = row.pages /\ row.committed \in Nat /\ Len(row.tokens) \in Nat
  BY <1>1, <1>2, RowOfSequence, RowFields
<1>4. ASSUME NEW n \in Nat, n > row.committed, PageIndex(n) <= Len(row.pages)
      PROVE  row.pages[PageIndex(n)] \in Private(m)
  <2>1. WritesAt(m, rows, k, n)
    BY <1>1, <1>2, <1>4 DEF WritesAt
  <2> QED
    BY <1>1, <1>2, <2>1, WritesOwnPage DEF Private
<1>5. \A n \in PrefillSpan(row) : n \in Nat /\ n > row.committed
  BY <1>3 DEF PrefillSpan
<1>6. \A n \in DecodeSpan(row) : n \in Nat /\ n > row.committed
  BY <1>3 DEF DecodeSpan
<1>7. KernelPages(t, row, PrefillSpan(row)) \subseteq Private(m)
  BY <1>3, <1>4, <1>5 DEF KernelPages
<1>8. KernelPages(t, row, DecodeSpan(row)) \subseteq Private(m)
  BY <1>3, <1>4, <1>6 DEF KernelPages
<1> QED
  BY <1>7, <1>8

-----------------------------------------------------------------------------

(* A slot's places in the identity layout are pages. *)
LEMMA IdentityRow ==
  ASSUME NEW s \in Slots
  PROVE  [j \in 1..MaxPagesPerSeq |-> s * MaxPagesPerSeq + j - 1] \in Seq(Pages)
<1>1. /\ MaxPagesPerSeq \in Nat /\ Cardinality(Slots) \in Nat /\ s \in Nat /\ s < Cardinality(Slots)
  BY SlotsFinite, TableAssumption
<1>2. s * MaxPagesPerSeq + MaxPagesPerSeq <= Cardinality(Slots) * MaxPagesPerSeq
      /\ s * MaxPagesPerSeq \in Nat /\ Cardinality(Slots) * MaxPagesPerSeq \in Nat
  BY <1>1, Widths
<1>3. \A j \in 1..MaxPagesPerSeq :
        s * MaxPagesPerSeq + j - 1 \in 0..(Cardinality(Slots) * MaxPagesPerSeq - 1)
  BY <1>1, <1>2
<1>4. \A j \in 1..MaxPagesPerSeq : s * MaxPagesPerSeq + j - 1 \in Pages
  BY <1>3, PoolAssumption
<1> QED
  BY <1>1, <1>4

(* The device invariant holds at first. *)
LEMMA InitDevice == Init => Device
<1> SUFFICES ASSUME Init PROVE Device
  OBVIOUS
<1>1. table = IdentityTable /\ pc = "idle" /\ inflight = {} /\ pending = FALSE
  BY DEF Init
<1> DEFINE rows == [s \in Slots |-> [j \in 1..MaxPagesPerSeq |-> s * MaxPagesPerSeq + j - 1]]
<1>2. rows \in [Slots -> Seq(Pages)]
  BY IdentityRow
<1>3. IdentityTable = [host |-> rows, uploaded |-> rows, device |-> rows]
  BY DEF IdentityTable
<1> HIDE DEF rows
<1>4. InStep(table)
  BY <1>1, <1>2, <1>3 DEF InStep, Tables
<1> QED
  BY <1>1, <1>4 DEF Device, OnDevice, Flight

(* While nothing is leased but what is quarantined, and nothing is, nothing is written. *)
LEMMA NothingInFlight ==
  ASSUME Core, Device, quarantined = <<>>, seqs = <<>>
  PROVE  inflight = {}
<1>1. Counts(manager.active, <<>>)
  BY NoRows DEF Core
<1>2. \A p \in Pages : manager.active[p] = 0
  BY <1>1, CountedIsHeld
<1> QED
  BY <1>2 DEF Device, Private

(* beginRequest() keeps it: nothing is in flight. *)
LEMMA BeginDevice == Core /\ Device /\ Begin => Device'
<1> SUFFICES ASSUME Core, Device, Begin PROVE Device'
  OBVIOUS
<1>1. /\ pc = "idle" /\ pc' \in {"begun", "idle"} /\ UNCHANGED <<table, pending, inflight>>
  BY DEF Begin
<1>2. quarantined = <<>> /\ seqs = <<>>
  BY DEF Begin, Core, CoreTypes, Stage
<1>3. inflight = {}
  BY <1>2, NothingInFlight
<1>4. OnDevice(pc', seqs', table')
  BY <1>1 DEF OnDevice
<1> QED
  BY <1>1, <1>3, <1>4 DEF Device, Flight

(* preparePrefill() keeps it: the rows are uploaded before the kernels run. *)
LEMMA PreparePrefillDevice == CleanFailures /\ Core /\ Device /\ PreparePrefill => Device'
<1> SUFFICES ASSUME CleanFailures, Core, Device, PreparePrefill PROVE Device'
  OBVIOUS
<1> DEFINE bound == SetRows(table, Range(seqs))
<1>1. /\ pc = "begun" /\ pending' = TRUE /\ UNCHANGED <<manager, seqs, quarantined>>
      /\ \/ /\ table' = Upload(bound)
            /\ \/ pc' = "failed" /\ inflight' = {}
               \/ /\ pc' = "prefilling"
                  /\ inflight' = UNION {KernelPages(table', row, PrefillSpan(row)) : row \in Range(seqs)}
         \/ table' \in FailedUploads(bound) /\ pc' = "failed" /\ UNCHANGED inflight
  BY DEF PreparePrefill
<1>2. /\ manager \in Managers /\ seqs \in Seq(Rows) /\ Sound(manager, seqs) /\ SlotsDiffer(seqs)
  BY <1>1, CoreFacts, NoneQuarantined
<1>3. InStep(table) /\ inflight = {}
  BY <1>1 DEF Device, Flight
<1>4. BindsRows(table, seqs, Range(seqs))
  BY <1>2, <1>3 DEF BindsRows, Range
<1>5. /\ InStep(bound) /\ InStep(Upload(bound))
      /\ \A k \in DOMAIN seqs : /\ Upload(bound).host[seqs[k].slot] = seqs[k].pages
                                /\ Upload(bound).device[seqs[k].slot] = seqs[k].pages
  BY <1>4, RowsBound
<1> HIDE DEF bound
<1>6. CASE table' = Upload(bound) /\ pc' = "failed" /\ inflight' = {}
  BY <1>1, <1>5, <1>6 DEF Device, OnDevice, Flight
<1>7. CASE /\ table' = Upload(bound) /\ pc' = "prefilling"
           /\ inflight' = UNION {KernelPages(table', row, PrefillSpan(row)) : row \in Range(seqs)}
  <2>1. Sends(manager, seqs, table')
    BY <1>2, <1>5, <1>7 DEF Sends
  <2>2. \A row \in Range(seqs) : KernelPages(table', row, PrefillSpan(row)) \subseteq Private(manager)
    BY <2>1, KernelsWriteOwn
  <2>3. inflight' \subseteq Private(manager')
    BY <1>1, <1>7, <2>2
  <2>4. OnDevice(pc', seqs', table')
    BY <1>1, <1>5, <1>7 DEF OnDevice
  <2> QED
    BY <1>1, <1>5, <1>7, <2>3, <2>4 DEF Device, Flight
<1>8. CASE table' \in FailedUploads(bound) /\ pc' = "failed" /\ UNCHANGED inflight
  <2>1. table' = bound
    BY <1>8, FailedUploadIs
  <2> QED
    BY <1>1, <1>3, <1>5, <1>8, <2>1 DEF Device, OnDevice, Flight
<1> QED
  BY <1>1, <1>6, <1>7, <1>8

(* The rows go on in their slots with their pages, and nothing is in flight. *)
LEMMA GoOnDevice ==
  ASSUME Device, pc \in {"prefilling", "settled", "seating", "decoding", "evicting", "compacting"},
         RowsGoOn(seqs, seqs'), table' = table, inflight' = {}, pending' \in BOOLEAN
  PROVE  Device'
<1>1. \A k \in DOMAIN seqs : seqs'[k].slot = seqs[k].slot /\ seqs'[k].pages = seqs[k].pages
  BY DEF RowsGoOn, Continues
<1>2. OnDevice(pc', seqs', table')
  BY <1>1 DEF Device, OnDevice, RowsGoOn
<1> QED
  BY <1>2 DEF Device, Flight

(* The rows of a prefill go on. *)
LEMMA PrefillSeqsGoOn ==
  ASSUME Core, Completing, NEW sampled \in [NewRows -> Sampled], NEW stops
  PROVE  RowsGoOn(seqs, PrefillKept(Prefilled(NewRows, sampled, stops), NewRows))
<1> DEFINE rows == Prefilled(NewRows, sampled, stops)
           ready == Ready(rows, NewRows)
           kept == PrefillKept(rows, NewRows)
<1>1. RowsGoOn(seqs, rows)
  BY PrefilledGoOn
<1> HIDE DEF rows
<1>2. rows \in Seq(Rows) /\ \A i \in DOMAIN rows : RowOK(rows[i])
  BY <1>1 DEF RowsGoOn, Continues
<1>3. RowsGoOn(rows, ready) /\ RowsGoOn(ready, kept)
  BY <1>2, ReadyGoOn
<1> HIDE DEF ready, kept
<1>4. RowsGoOn(seqs, kept)
  BY <1>1, <1>3, GoOnTwice
<1> QED
  BY <1>4 DEF rows, kept

(* The end of a prefill keeps it. *)
LEMMA PrefillCompletesDevice == Core /\ Device /\ PrefillCompletes => Device'
<1> SUFFICES ASSUME Core, Device, PrefillCompletes PROVE Device'
  OBVIOUS
<1>1. Completing /\ inflight' = {} /\ pending' = FALSE /\ table' = table
  BY PrefillIs
<1>2. PICK sampled \in [NewRows -> Sampled], stops \in SUBSET NewRows : PrefillLeaves(sampled, stops)
  BY PrefillIs
<1>3. seqs' = PrefillKept(Prefilled(NewRows, sampled, stops), NewRows)
  BY <1>2 DEF PrefillLeaves
<1>4. RowsGoOn(seqs, seqs')
  BY <1>1, <1>3, PrefillSeqsGoOn
<1> QED
  BY <1>1, <1>4, GoOnDevice DEF Completing

(* completeDecodeStep() keeps it. *)
LEMMA DecodeCompletesDevice == Core /\ Device /\ DecodeCompletes => Device'
<1> SUFFICES ASSUME Core, Device, DecodeCompletes PROVE Device'
  OBVIOUS
<1>1. pc = "decoding" /\ inflight' = {} /\ pending' = FALSE /\ table' = table
  BY DecodeIs
<1>2. PICK sampled \in [Live -> Sampled], stops \in SUBSET Live : DecodeLeaves(sampled, stops)
  BY DecodeIs
<1> DEFINE rows == Decoded(sampled, stops)
<1>3. seqs' = MarkPublished(rows, "decodeEnd")
  BY <1>2 DEF DecodeLeaves
<1>4. RowsGoOn(seqs, rows)
  BY <1>1, DecodedGoOn
<1> HIDE DEF rows
<1>5. rows \in Seq(Rows) /\ \A i \in DOMAIN rows : RowOK(rows[i])
  BY <1>4 DEF RowsGoOn, Continues
<1>6. RowsGoOn(rows, seqs')
  BY <1>3, <1>5, MarkedGoOn
<1>7. RowsGoOn(seqs, seqs')
  BY <1>4, <1>6, GoOnTwice
<1> QED
  BY <1>1, <1>7, GoOnDevice

(* An admission keeps it: a withdrawn row leaves the others as they were. *)
LEMMA JoinDevice == CleanFailures /\ Core /\ Device /\ Join => Device'
<1> SUFFICES ASSUME CleanFailures, Core, Device, Join PROVE Device'
  OBVIOUS
<1>1. /\ pc = "settled" /\ Len(seqs) < Cardinality(Slots)
      /\ UNCHANGED <<pending, quarantined, inflight>>
  BY JoinIs
<1>2. PICK prompt \in Prompts, slot \in Slots \ {row.slot : row \in Range(seqs)} : JoinedBy(prompt, slot)
  BY JoinIs
<1> DEFINE lookup == seqs[1].lookup
           lease == Acquire(manager, prompt, lookup)
           row == NewRow(prompt, lookup, slot, lease)
           all == Append(seqs, row)
<1>3. /\ manager \in Managers /\ seqs \in Seq(Rows) /\ Sound(manager, seqs) /\ SlotsDiffer(seqs)
      /\ Len(seqs) \in Nat
  BY <1>1, CoreFacts, NoneQuarantined
<1>4. InStep(table) /\ inflight = {} /\ pending \in BOOLEAN
      /\ \A k \in DOMAIN seqs : /\ table.host[seqs[k].slot] = seqs[k].pages
                                /\ table.device[seqs[k].slot] = seqs[k].pages
  BY <1>1 DEF Device, OnDevice, Flight
<1>5. Seats(manager, seqs, prompt, lookup, slot, lease)
  BY <1>1, JoinerSeats
<1>6. IF ~lease.acquired THEN NoSeat(lease) ELSE Seated(lease, row) \/ Withdrawn(lease, row)
  BY <1>2 DEF JoinedBy, Joiner
<1>7. row.slot = slot /\ lease.acquired \in BOOLEAN
  BY <1>5, SeatRefused DEF NewRow
<1> HIDE DEF lease
<1>8. CASE ~lease.acquired
  <2>1. pc' = pc /\ table' = table /\ seqs' = seqs
    BY <1>6, <1>8 DEF NoSeat
  <2> QED
    BY <1>1, <1>4, <2>1 DEF Device, OnDevice, Flight
<1>9. CASE lease.acquired
  <2>1. row \in Rows /\ all \in Seq(Rows)
    BY <1>5, <1>9, RowSeated
  <2> HIDE DEF row
  <2>2. /\ DOMAIN all = 1..(Len(seqs) + 1) /\ all[Len(seqs) + 1] = row
        /\ DOMAIN seqs = 1..Len(seqs) /\ \A k \in 1..Len(seqs) : all[k] = seqs[k]
    BY <1>3, <2>1
  <2>3. SlotsDiffer(all)
    BY <1>2, <1>3, <1>7, SlotIsFree
  <2>4. {row} \subseteq Range(all)
    BY <1>3, <2>2 DEF Range
  <2>5. \A k \in DOMAIN all : (k \in DOMAIN seqs /\ all[k] = seqs[k]) \/ all[k] = row
    BY <1>3, <2>2
  <2> HIDE DEF all
  <2>6. BindsRows(table, all, {row})
    BY <1>4, <2>1, <2>3, <2>4, <2>5 DEF BindsRows
  <2> DEFINE bound == SetRows(table, {row})
  <2>7. /\ InStep(bound) /\ InStep(Upload(bound)) /\ bound.device = table.device
        /\ \A k \in DOMAIN all : /\ Upload(bound).host[all[k].slot] = all[k].pages
                                 /\ Upload(bound).device[all[k].slot] = all[k].pages
    BY <2>6, RowsBound
  <2>8. Upload(bound).host = bound.host
    BY <2>7, UploadIs
  <2> HIDE DEF bound
  <2>9. CASE Seated(lease, row)
    <3>1. table' = Upload(bound) /\ pc' = "seating" /\ seqs' = all
      BY <2>9 DEF Seated, bound, all
    <3> QED
      BY <1>1, <1>4, <2>7, <3>1 DEF Device, OnDevice, Flight
  <2>10. CASE Withdrawn(lease, row)
    <3>1. pc' = pc /\ seqs' = seqs
      BY <2>10 DEF Withdrawn
    <3>2. PICK failed \in FailedUploads(bound) : TakenBack(failed, row)
      BY <2>10 DEF Withdrawn, bound
    <3>3. failed = bound
      BY <3>2, FailedUploadIs
    <3> DEFINE cleared == ClearRows(bound, {row})
    <3>4. ClearsRows(bound, all, {row})
      BY <2>1, <2>3, <2>4, <2>7 DEF ClearsRows
    <3>5. /\ InStep(cleared) /\ InStep(Upload(cleared)) /\ cleared.device = bound.device
          /\ \A k \in DOMAIN all : all[k] \notin {row} =>
               /\ cleared.host[all[k].slot] = bound.host[all[k].slot]
               /\ Upload(cleared).host[all[k].slot] = bound.host[all[k].slot]
               /\ Upload(cleared).device[all[k].slot] = bound.host[all[k].slot]
      BY <3>4, RowsCleared
    <3> HIDE DEF cleared
    <3>6. table' = Upload(cleared) \/ table' \in FailedUploads(cleared)
      BY <3>2, <3>3 DEF TakenBack, cleared
    <3>7. table' = Upload(cleared) \/ table' = cleared
      BY <3>6, FailedUploadIs
    <3>8. ASSUME NEW k \in DOMAIN seqs
          PROVE  /\ table'.host[seqs[k].slot] = seqs[k].pages
                 /\ table'.device[seqs[k].slot] = seqs[k].pages
      <4>1. k \in DOMAIN all /\ all[k] = seqs[k]
        BY <1>3, <2>2
      <4>2. seqs[k].slot # slot
        BY DEF Range
      <4>3. all[k] \notin {row}
        BY <1>7, <4>1, <4>2 DEF row
      <4>4. bound.host[seqs[k].slot] = seqs[k].pages
        BY <2>7, <2>8, <4>1
      <4>5. cleared.device[seqs[k].slot] = seqs[k].pages
        BY <1>4, <2>7, <3>5
      <4> QED
        BY <3>5, <3>7, <4>1, <4>3, <4>4, <4>5
    <3>9. OnDevice(pc', seqs', table')
      BY <3>1, <3>8 DEF OnDevice
    <3> QED
      BY <1>1, <1>4, <3>1, <3>5, <3>7, <3>9 DEF Device, Flight
  <2> QED
    BY <1>6, <1>9, <2>9, <2>10
<1> QED
  BY <1>7, <1>8, <1>9

(* retractSequenceAdmission() keeps it. *)
LEMMA RetractDevice == CleanFailures /\ Core /\ Device /\ Retract => Device'
<1> SUFFICES ASSUME CleanFailures, Core, Device, Retract PROVE Device'
  OBVIOUS
<1> DEFINE cleared == ClearRows(table, {Last(seqs)})
<1>1. /\ pc = "seating" /\ pc' = "settled" /\ UNCHANGED <<pending, inflight>>
      /\ manager' = ReleaseLease(manager, Last(seqs).pages) /\ seqs' = Front(seqs)
      /\ table' = Upload(cleared) \/ table' \in FailedUploads(cleared)
  BY DEF Retract
<1>2. /\ manager \in Managers /\ seqs \in Seq(Rows) /\ Sound(manager, seqs) /\ SlotsDiffer(seqs)
      /\ Len(seqs) >= 2 /\ Len(seqs) \in Nat
  BY <1>1, CoreFacts, NoneQuarantined DEF Core, Stage
<1>3. InStep(table) /\ inflight = {} /\ pending \in BOOLEAN
      /\ \A k \in DOMAIN seqs : /\ table.host[seqs[k].slot] = seqs[k].pages
                                /\ table.device[seqs[k].slot] = seqs[k].pages
  BY <1>1 DEF Device, OnDevice, Flight
<1>4. /\ Len(seqs') = Len(seqs) - 1 /\ seqs' \in Seq(Rows)
      /\ \A i \in 1..(Len(seqs) - 1) : seqs'[i] = seqs[i]
  BY <1>1, <1>2, LastRowReleased
<1>5. /\ DOMAIN seqs' = 1..(Len(seqs) - 1) /\ DOMAIN seqs = 1..Len(seqs)
      /\ Len(seqs) \in DOMAIN seqs /\ Last(seqs) = seqs[Len(seqs)]
  BY <1>2, <1>4 DEF Last
<1>6. ClearsRows(table, seqs, {Last(seqs)})
  BY <1>2, <1>3, <1>5 DEF ClearsRows, Range
<1>7. /\ InStep(cleared) /\ InStep(Upload(cleared)) /\ cleared.device = table.device
      /\ \A k \in DOMAIN seqs : seqs[k] \notin {Last(seqs)} =>
           /\ cleared.host[seqs[k].slot] = table.host[seqs[k].slot]
           /\ Upload(cleared).host[seqs[k].slot] = table.host[seqs[k].slot]
           /\ Upload(cleared).device[seqs[k].slot] = table.host[seqs[k].slot]
  <2> DEFINE some == {Last(seqs)}
  <2>1. ClearsRows(table, seqs, some) /\ cleared = ClearRows(table, some)
    BY <1>6
  <2> HIDE DEF some, cleared
  <2>2. /\ InStep(cleared) /\ InStep(Upload(cleared)) /\ cleared.device = table.device
        /\ \A k \in DOMAIN seqs : seqs[k] \notin some =>
             /\ cleared.host[seqs[k].slot] = table.host[seqs[k].slot]
             /\ Upload(cleared).host[seqs[k].slot] = table.host[seqs[k].slot]
             /\ Upload(cleared).device[seqs[k].slot] = table.host[seqs[k].slot]
    BY <2>1, RowsCleared
  <2> QED
    BY <2>2 DEF some
<1> HIDE DEF cleared
<1>8. table' = Upload(cleared) \/ table' = cleared
  BY <1>1, FailedUploadIs
<1>9. ASSUME NEW k \in DOMAIN seqs'
      PROVE  /\ table'.host[seqs'[k].slot] = seqs'[k].pages
             /\ table'.device[seqs'[k].slot] = seqs'[k].pages
  <2>1. k \in DOMAIN seqs /\ seqs'[k] = seqs[k] /\ k # Len(seqs)
    BY <1>2, <1>4, <1>5
  <2>2. seqs[k] # Last(seqs)
    BY <1>2, <1>5, <2>1 DEF SlotsDiffer
  <2> QED
    BY <1>3, <1>7, <1>8, <2>1, <2>2
<1>10. OnDevice(pc', seqs', table')
  BY <1>9 DEF OnDevice
<1> QED
  BY <1>1, <1>3, <1>7, <1>8, <1>10 DEF Device, Flight

(* A joiner's failed prefill keeps it: its device work stays pending. *)
LEMMA SeatedPrefillFailsDevice == CleanFailures /\ Core /\ Device /\ SeatedPrefillFails => Device'
<1> SUFFICES ASSUME CleanFailures, Core, Device, SeatedPrefillFails PROVE Device'
  OBVIOUS
<1>1. /\ pc = "seating" /\ UNCHANGED <<manager, table>>
      /\ seqs' = [seqs EXCEPT ![Len(seqs)].ended = "dropped"]
      /\ inflight' = KernelPages(table, Last(seqs), PrefillSpan(Last(seqs)))
  BY DEF SeatedPrefillFails
<1>2. pc' = "compacting" /\ pending' = TRUE
  <2>1. PICK throws \in SeatedThrows : /\ pc' = IF throws THEN "failed" ELSE "compacting"
                                       /\ pending' = ~throws
    BY DEF SeatedPrefillFails
  <2>2. throws = FALSE
    BY DEF CleanFailures
  <2> QED
    BY <2>1, <2>2
<1>3. /\ manager \in Managers /\ seqs \in Seq(Rows) /\ Sound(manager, seqs)
      /\ Len(seqs) >= 2 /\ Len(seqs) \in Nat /\ DOMAIN seqs = 1..Len(seqs)
  BY <1>1, CoreFacts, NoneQuarantined DEF Core, Stage
<1>4. InStep(table)
      /\ \A k \in DOMAIN seqs : /\ table.host[seqs[k].slot] = seqs[k].pages
                                /\ table.device[seqs[k].slot] = seqs[k].pages
  BY <1>1 DEF Device, OnDevice
<1>5. Last(seqs) \in Range(seqs)
  BY <1>3 DEF Last, Range
<1>6. inflight' \subseteq Private(manager')
  <2>1. Sends(manager, seqs, table)
    BY <1>3, <1>4 DEF Sends
  <2> QED
    BY <1>1, <1>5, <2>1, KernelsWriteOwn
<1>7. ASSUME NEW k \in DOMAIN seqs
      PROVE  seqs'[k].slot = seqs[k].slot /\ seqs'[k].pages = seqs[k].pages
  <2>1. seqs[k] \in Rows
    BY <1>3, RowOfSequence
  <2>2. seqs'[k] = IF k = Len(seqs) THEN [seqs[k] EXCEPT !.ended = "dropped"] ELSE seqs[k]
    BY <1>1
  <2> QED
    BY <2>1, <2>2 DEF Rows
<1>8. DOMAIN seqs' = DOMAIN seqs
  BY <1>1
<1>9. OnDevice(pc', seqs', table')
  BY <1>1, <1>4, <1>7, <1>8 DEF OnDevice
<1> QED
  BY <1>1, <1>2, <1>4, <1>6, <1>9 DEF Device, Flight

(* prepareDecodeStep() keeps it: grown rows are uploaded before the kernels run. *)
LEMMA PrepareDecodeDevice == CleanFailures /\ Core /\ Core' /\ Device /\ PrepareDecode => Device'
<1> SUFFICES ASSUME CleanFailures, Core, Core', Device, PrepareDecode PROVE Device'
  OBVIOUS
<1>1. pc = "settled" /\ quarantined' = quarantined
  BY PrepareDecodeIs
<1>2. PICK cancelled \in SUBSET DOMAIN seqs :
        GrownTo(Cancelled(cancelled), Grown(Cancelled(cancelled)))
  BY PrepareDecodeIs
<1> DEFINE rows == Cancelled(cancelled)
           grown == Grown(rows)
<1>3. /\ manager \in Managers /\ seqs \in Seq(Rows) /\ SlotsDiffer(seqs) /\ quarantined = <<>>
  BY <1>1, CoreFacts, NoneQuarantined
<1>4. InStep(table) /\ inflight = {} /\ pending \in BOOLEAN
      /\ \A k \in DOMAIN seqs : table.host[seqs[k].slot] = seqs[k].pages
  BY <1>1 DEF Device, OnDevice, Flight
<1>5. RowsGoOn(seqs, rows) /\ Sound(manager, rows)
  BY <1>1, CancelledGoOn
<1>6. GrownTo(rows, grown)
  BY <1>2
<1> HIDE DEF rows
<1>7. /\ rows \in Seq(Rows) /\ DOMAIN rows = DOMAIN seqs
      /\ \A k \in DOMAIN seqs : rows[k].slot = seqs[k].slot /\ rows[k].pages = seqs[k].pages
  BY <1>5 DEF RowsGoOn, Continues
<1>8. Stretched(manager, rows, grown, Len(rows))
  BY <1>3, <1>5, <1>7, RowsStretched
<1> HIDE DEF grown
<1>9. /\ grown.rows \in Seq(Rows) /\ DOMAIN grown.rows = DOMAIN seqs /\ grown.ok \in BOOLEAN
      /\ \A k \in DOMAIN seqs : grown.rows[k].slot = seqs[k].slot
  BY <1>7, <1>8 DEF Stretched, Batches, PagesGrow
<1>10. SlotsDiffer(grown.rows)
  BY <1>3, <1>9 DEF SlotsDiffer
<1> DEFINE some == Range(grown.rows) \ Range(rows)
           bound == SetRows(table, some)
<1>11. ASSUME NEW k \in DOMAIN grown.rows
       PROVE  grown.rows[k] \in some \/ table.host[grown.rows[k].slot] = grown.rows[k].pages
  <2>1. grown.rows[k] \in Range(grown.rows)
    BY DEF Range
  <2>2. CASE grown.rows[k] \in Range(rows)
    <3>1. PICK l \in DOMAIN rows : grown.rows[k] = rows[l]
      BY <2>2 DEF Range
    <3>2. k \in DOMAIN seqs /\ l \in DOMAIN seqs /\ seqs[k].slot = seqs[l].slot
      BY <1>7, <1>9, <3>1
    <3>3. l = k
      BY <1>3, <3>2 DEF SlotsDiffer
    <3> QED
      BY <1>4, <1>7, <1>9, <3>1, <3>2, <3>3
  <2> QED
    BY <2>1, <2>2
<1>12. BindsRows(table, grown.rows, some)
  BY <1>4, <1>9, <1>10, <1>11 DEF BindsRows
<1>13. /\ InStep(bound) /\ InStep(Upload(bound))
       /\ \A k \in DOMAIN grown.rows : /\ Upload(bound).host[grown.rows[k].slot] = grown.rows[k].pages
                                       /\ Upload(bound).device[grown.rows[k].slot] = grown.rows[k].pages
  <2> DEFINE next == grown.rows
  <2> HIDE DEF next, some
  <2>1. BindsRows(table, next, some)
    BY <1>12 DEF next
  <2>2. /\ InStep(bound) /\ InStep(Upload(bound))
        /\ \A k \in DOMAIN next : /\ Upload(bound).host[next[k].slot] = next[k].pages
                                    /\ Upload(bound).device[next[k].slot] = next[k].pages
    BY <2>1, RowsBound
  <2> QED
    BY <2>2 DEF next
<1>14. /\ seqs' = grown.rows
       /\ \/ pc' = "failed" /\ UNCHANGED <<table, pending, inflight>>
          \/ /\ table' = Upload(bound) /\ pc' = "decoding" /\ pending' = TRUE
             /\ inflight' = UNION {KernelPages(table', row, DecodeSpan(row)) : row \in Range(seqs')}
          \/ table' \in FailedUploads(bound) /\ pc' = "failed" /\ UNCHANGED <<pending, inflight>>
  BY <1>6, <1>9 DEF GrownTo
<1> HIDE DEF bound, some
<1>15. CASE pc' = "failed" /\ UNCHANGED <<table, pending, inflight>>
  BY <1>4, <1>15 DEF Device, OnDevice, Flight
<1>16. CASE table' \in FailedUploads(bound) /\ pc' = "failed" /\ UNCHANGED <<pending, inflight>>
  <2>1. table' = bound
    BY <1>16, FailedUploadIs
  <2> QED
    BY <1>4, <1>13, <1>16, <2>1 DEF Device, OnDevice, Flight
<1>17. CASE /\ table' = Upload(bound) /\ pc' = "decoding" /\ pending' = TRUE
            /\ inflight' = UNION {KernelPages(table', row, DecodeSpan(row)) : row \in Range(seqs')}
  <2>1. manager' \in Managers /\ seqs' \in Seq(Rows) /\ Sound(manager', seqs')
    BY <1>1, <1>3 DEF Core, CoreTypes
  <2>2. Sends(manager', seqs', table')
    BY <1>13, <1>14, <1>17, <2>1 DEF Sends
  <2>3. \A row \in Range(seqs') : KernelPages(table', row, DecodeSpan(row)) \subseteq Private(manager')
    BY <2>2, KernelsWriteOwn
  <2>4. inflight' \subseteq Private(manager')
    BY <1>17, <2>3
  <2>5. OnDevice(pc', seqs', table')
    BY <1>13, <1>14, <1>17 DEF OnDevice
  <2> QED
    BY <1>13, <1>17, <2>4, <2>5 DEF Device, Flight
<1> QED
  BY <1>14, <1>15, <1>16, <1>17

(* beginBatchCompaction() keeps it. *)
LEMMA BeginCompactionDevice == Core /\ Device /\ BeginCompaction => Device'
<1> SUFFICES ASSUME Core, Device, BeginCompaction PROVE Device'
  OBVIOUS
<1>1. /\ pc = "evicting" /\ pc' = "compacting" /\ pending' = TRUE
      /\ UNCHANGED <<manager, table, seqs, inflight>>
  BY DEF BeginCompaction
<1> QED
  BY <1>1 DEF Device, OnDevice, Flight

(* A request that is set aside whole keeps its pages, in flight or not. *)
LEMMA QuarantineDevice == Device /\ Quarantine /\ InStep(table') => Device'
<1> SUFFICES ASSUME Device, Quarantine, InStep(table') PROVE Device'
  OBVIOUS
<1>1. pc' = "idle" /\ pending' = FALSE /\ UNCHANGED <<manager, inflight>>
  BY DEF Quarantine, RequestEnds
<1> QED
  BY <1>1 DEF Device, OnDevice, Flight

(* compactBatch() keeps it: leases are released after the drain, and the rows that *)
(* stay stay uploaded.                                                             *)
LEMMA CompactBatchDevice == CleanFailures /\ Core /\ Device /\ CompactBatch => Device'
<1> SUFFICES ASSUME CleanFailures, Core, Device, CompactBatch PROVE Device'
  OBVIOUS
<1> DEFINE gone == Range(InOrder(seqs, GoneRows))
           cleared == ClearRows(table, gone)
<1>1. /\ pc = "compacting"
      /\ \/ ClearFails
         \/ Quarantine /\ table' = Upload(cleared)
         \/ Compacted
  BY CompactBatchIs
<1>2. /\ manager \in Managers /\ seqs \in Seq(Rows) /\ Sound(manager, seqs) /\ SlotsDiffer(seqs)
  BY <1>1, CoreFacts, NoneQuarantined
<1>3. InStep(table)
      /\ \A k \in DOMAIN seqs : /\ table.host[seqs[k].slot] = seqs[k].pages
                                /\ table.device[seqs[k].slot] = seqs[k].pages
  BY <1>1 DEF Device, OnDevice
<1>4. GoneRows \subseteq DOMAIN seqs /\ StayRows \subseteq DOMAIN seqs /\ GoneRows \cap StayRows = {}
      /\ GoneRows \cup StayRows = DOMAIN seqs
  BY DEF GoneRows, StayRows
<1>5. gone = {seqs[i] : i \in GoneRows}
  BY <1>2, <1>4, InOrderItems
<1>6. gone \subseteq Range(seqs) /\ \A k \in StayRows : seqs[k] \notin gone
  BY <1>2, <1>4, <1>5 DEF Range, SlotsDiffer
<1> HIDE DEF gone
<1>7. ClearsRows(table, seqs, gone)
  BY <1>2, <1>3, <1>6 DEF ClearsRows
<1>8. /\ InStep(cleared) /\ InStep(Upload(cleared))
      /\ \A k \in DOMAIN seqs : seqs[k] \notin gone =>
           /\ Upload(cleared).host[seqs[k].slot] = table.host[seqs[k].slot]
           /\ Upload(cleared).device[seqs[k].slot] = table.host[seqs[k].slot]
  BY <1>7, RowsCleared
<1> HIDE DEF cleared
<1>9. CASE ClearFails
  <2>1. /\ table' \in FailedUploads(cleared) /\ pc' = "failed"
        /\ UNCHANGED <<manager, seqs, pending, inflight>>
    BY <1>9 DEF ClearFails, cleared, gone
  <2>2. table' = cleared
    BY <2>1, FailedUploadIs
  <2> QED
    BY <1>1, <1>8, <2>1, <2>2 DEF Device, OnDevice, Flight
<1>10. CASE Quarantine /\ table' = Upload(cleared)
  BY <1>8, <1>10, QuarantineDevice
<1>11. CASE Compacted
  <2>1. /\ table' = Upload(cleared) /\ seqs' = InOrder(seqs, StayRows) /\ pending' = FALSE
        /\ inflight' = {} /\ pc' \in {"finishing", "settled"}
    BY <1>11 DEF Compacted, cleared, gone
  <2>2. \A k \in DOMAIN seqs' : \E i \in StayRows : seqs'[k] = seqs[i]
    BY <1>2, <1>4, <2>1, InOrderItems
  <2>3. \A k \in DOMAIN seqs' : /\ table'.host[seqs'[k].slot] = seqs'[k].pages
                                /\ table'.device[seqs'[k].slot] = seqs'[k].pages
    BY <1>3, <1>4, <1>6, <1>8, <2>1, <2>2
  <2>4. OnDevice(pc', seqs', table')
    BY <2>3 DEF OnDevice
  <2> QED
    BY <1>8, <2>1, <2>4 DEF Device, Flight
<1> QED
  BY <1>1, <1>9, <1>10, <1>11

(* finish() keeps it. *)
LEMMA FinishDevice == Core /\ Device /\ Finish => Device'
<1> SUFFICES ASSUME Core, Device, Finish PROVE Device'
  OBVIOUS
<1>1. /\ pc = "finishing" /\ pc' = "idle" /\ pending' = FALSE
      /\ UNCHANGED <<manager, table, inflight>>
  BY DEF Finish, RequestEnds
<1> QED
  BY <1>1 DEF Device, OnDevice, Flight

(* abandon() keeps it: what is in flight is pending, and pending work is drained or *)
(* quarantined.                                                                     *)
LEMMA AbandonDevice == Core /\ Device /\ Abandon => Device'
<1> SUFFICES ASSUME Core, Device, Abandon PROVE Device'
  OBVIOUS
<1>1. /\ Quarantine \/ Abandoned
      /\ InStep(table) /\ pending \in BOOLEAN /\ inflight \subseteq Private(manager)
  BY AbandonIs DEF Device
<1>2. pc \notin {"idle", "closed"} /\ table' = table
  BY AbandonIs
<1>3. CASE Quarantine
  BY <1>1, <1>2, <1>3, QuarantineDevice
<1>4. CASE Abandoned
  <2>1. pc' = "idle" /\ pending' = FALSE /\ inflight' = IF pending THEN {} ELSE inflight
    BY <1>4 DEF Abandoned, RequestEnds, MustDrain
  <2>2. inflight # {} => pending = TRUE
    <3>1. pc \in {"begun", "settled", "seating", "evicting", "finishing",
                  "prefilling", "decoding", "compacting", "failed"}
      BY <1>2, CoreFacts
    <3> QED
      BY <3>1 DEF Device, Flight
  <2>3. inflight' = {}
    BY <2>1, <2>2
  <2> QED
    BY <1>1, <1>2, <2>1, <2>3 DEF Device, OnDevice, Flight
<1> QED
  BY <1>1, <1>3, <1>4

(* shutdown() keeps it. *)
LEMMA ShutdownDevice == Core /\ Device /\ Shutdown => Device'
<1> SUFFICES ASSUME Core, Device, Shutdown PROVE Device'
  OBVIOUS
<1>1. /\ pc' = "closed" /\ UNCHANGED <<table, pending>>
      /\ inflight' = {} \/ UNCHANGED <<manager, inflight>>
  BY DEF Shutdown
<1> QED
  BY <1>1 DEF Device, OnDevice, Flight

(* A step that changes nothing keeps it. *)
LEMMA StutterDevice == Device /\ UNCHANGED vars => Device'
<1> SUFFICES ASSUME Device, UNCHANGED vars PROVE Device'
  OBVIOUS
<1>1. UNCHANGED <<pc, manager, table, seqs, pending, inflight>>
  BY DEF vars
<1> QED
  BY <1>1 DEF Device, OnDevice, Flight

(* Every step keeps it. *)
LEMMA DeviceStep == CleanFailures /\ Core /\ Core' /\ Device /\ [Next]_vars => Device'
<1> SUFFICES ASSUME CleanFailures, Core, Core', Device, [Next]_vars PROVE Device'
  OBVIOUS
<1>1. CASE Begin
  BY <1>1, BeginDevice
<1>2. CASE PreparePrefill
  BY <1>2, PreparePrefillDevice
<1>3. CASE PrefillCompletes
  BY <1>3, PrefillCompletesDevice
<1>4. CASE Join
  BY <1>4, JoinDevice
<1>5. CASE Retract
  BY <1>5, RetractDevice
<1>6. CASE SeatedPrefillFails
  BY <1>6, SeatedPrefillFailsDevice
<1>7. CASE PrepareDecode
  BY <1>7, PrepareDecodeDevice
<1>8. CASE DecodeCompletes
  BY <1>8, DecodeCompletesDevice
<1>9. CASE BeginCompaction
  BY <1>9, BeginCompactionDevice
<1>10. CASE CompactBatch
  BY <1>10, CompactBatchDevice
<1>11. CASE Finish
  BY <1>11, FinishDevice
<1>12. CASE Abandon
  BY <1>12, AbandonDevice
<1>13. CASE Shutdown
  BY <1>13, ShutdownDevice
<1>14. CASE Terminated \/ UNCHANGED vars
  BY <1>14, StutterDevice DEF Terminated
<1> QED
  BY <1>1, <1>2, <1>3, <1>4, <1>5, <1>6, <1>7, <1>8, <1>9, <1>10, <1>11, <1>12, <1>13, <1>14
     DEF Next

(* What is private is leased. *)
LEMMA DeviceIsQuiet == Core /\ Device => ReleasedPagesAreQuiet
<1> SUFFICES ASSUME Core, Device, NEW p \in inflight PROVE p \in Leased
  BY DEF ReleasedPagesAreQuiet
<1>1. p \in Pages /\ manager.active[p] = 1
  BY DEF Device, Private
<1>2. \E i \in DOMAIN Leases : p \in Range(Leases[i])
  BY <1>1, LeasesAre, CountedIsHeld
<1> QED
  BY <1>2 DEF Leased

(* When failed uploads are clean, the rows on the device are the leases at every step *)
(* of a batch, and kernels write only pages that one live lease has and no record     *)
(* (uploads before each step, drains before each release).                            *)
THEOREM DeviceInvariance == ASSUME CleanFailures PROVE Spec => [](Core /\ Device)
<1>1. Init => Core /\ Device
  BY InitCore, InitDevice
<1>2. Core /\ Device /\ [Next]_vars => (Core /\ Device)'
  BY CoreStep, DeviceStep
<1> QED
  BY <1>1, <1>2, PTL DEF Spec

(* When failed uploads are clean, the pages are counted and no kernel writes a page *)
(* that its lease has given back ("An abnormal exit drains the bound stream before  *)
(* releasing active page references", contextCacheCoordinator.h).                   *)
THEOREM PagesConserved == ASSUME CleanFailures PROVE Spec => []PagesAreConserved
<1>1. Core /\ Device => PagesAreConserved
  BY CoreCounts, DeviceIsQuiet DEF PagesAreConserved
<1> QED
  BY <1>1, DeviceInvariance, PTL

-----------------------------------------------------------------------------
(* What is where: the index and the rows, against what the kernels wrote.    *)

(* An indexed page holds the KV of its block. *)
IndexTrue(m, kv) ==
  \A block \in DOMAIN m.index : \A o \in 1..PageSize :
    kv[m.index[block]][o] = SubSeq(block, 1, Len(block) - PageSize + o)

(* A row's committed positions hold its own KV. *)
RowTrue(row, kv) ==
  \A n \in 1..row.committed :
    kv[row.pages[PageIndex(n)]][OffsetOf(n)] = SubSeq(row.tokens, 1, n)

(* So do all the rows'. *)
RowsTrue(rows, kv) == \A k \in DOMAIN rows : RowTrue(rows[k], kv)

(* The positions of a page. *)
LEMMA PositionIn ==
  ASSUME NEW i \in Nat, i >= 1, NEW o \in 1..PageSize
  PROVE  LET n == (i - 1) * PageSize + o IN
         /\ n \in Nat /\ n >= 1 /\ n <= i * PageSize
         /\ PageIndex(n) = i /\ OffsetOf(n) = o
<1> DEFINE j == i - 1
           n == j * PageSize + o
<1>1. PageSize \in Nat /\ PageSize >= 1 /\ j \in Nat /\ i = j + 1 /\ o \in Nat
  BY PageSizeAssumption
<1>2. j * PageSize \in Nat /\ i * PageSize = j * PageSize + PageSize
  BY <1>1
<1>3. n \in Nat /\ n >= 1 /\ n <= i * PageSize
  BY <1>1, <1>2
<1> DEFINE p == PageIndex(n)
           q == OffsetOf(n)
<1>4. /\ p \in Nat /\ p >= 1 /\ q \in 1..PageSize /\ n = (p - 1) * PageSize + q
      /\ n <= p * PageSize
      /\ \A k \in Nat : n <= k * PageSize => p <= k
  BY <1>3, Positions
<1> HIDE DEF p, q
<1>5. p <= i
  BY <1>3, <1>4
<1>6. i <= p
  <2>1. SUFFICES ASSUME p <= j PROVE FALSE
    BY <1>1, <1>4
  <2>2. p * PageSize <= j * PageSize
    BY <1>1, <1>4, <2>1, TimesPageSize
  <2>3. p * PageSize \in Nat
    BY <1>1, <1>4
  <2> QED
    BY <1>1, <1>2, <1>4, <2>2, <2>3
<1>7. p = i
  BY <1>1, <1>4, <1>5, <1>6
<1>8. n = j * PageSize + q
  BY <1>4, <1>7
<1>9. q = o
  BY <1>1, <1>2, <1>4, <1>8
<1> QED
  BY <1>3, <1>7, <1>9 DEF p, q

(* A prefix of a prefix is one of the whole. *)
LEMMA PrefixOfPrefix ==
  ASSUME NEW T, NEW tokens \in Seq(T), NEW n \in Nat, NEW k \in Nat, n <= k, k <= Len(tokens)
  PROVE  SubSeq(SubSeq(tokens, 1, k), 1, n) = SubSeq(tokens, 1, n)
<1>1. SubSeq(tokens, 1, k) \in Seq(T) /\ Len(SubSeq(tokens, 1, k)) = k
      /\ \A i \in 1..k : SubSeq(tokens, 1, k)[i] = tokens[i]
  OBVIOUS
<1> QED
  BY <1>1

(* Sequences that agree so far have the same prefixes. *)
LEMMA SamePrefix ==
  ASSUME NEW T, NEW tokens \in Seq(T), NEW more \in Seq(T), NEW n \in Nat,
         n <= Len(tokens), Len(tokens) <= Len(more),
         \A o \in 1..Len(tokens) : more[o] = tokens[o]
  PROVE  SubSeq(more, 1, n) = SubSeq(tokens, 1, n)
OBVIOUS

(* A committed position is in a page of the row. *)
LEMMA CommittedIsHeld ==
  ASSUME NEW row \in Rows, RowOK(row), NEW n \in 1..row.committed
  PROVE  /\ n \in Nat /\ n >= 1 /\ PageIndex(n) \in DOMAIN row.pages
         /\ row.pages[PageIndex(n)] \in Pages /\ row.pages[PageIndex(n)] \in Range(row.pages)
         /\ n <= Len(row.tokens) /\ OffsetOf(n) \in 1..PageSize
<1>1. /\ row.committed \in Nat /\ Len(row.pages) \in Nat /\ Len(row.tokens) \in Nat
      /\ DOMAIN row.pages = 1..Len(row.pages)
      /\ \A i \in 1..Len(row.pages) : row.pages[i] \in Pages /\ row.pages[i] \in Range(row.pages)
  BY RowFields
<1>2. row.committed < Len(row.tokens) /\ row.committed <= Len(row.pages) * PageSize
  BY DEF RowOK
<1>3. n \in Nat /\ n >= 1 /\ n <= row.committed
  BY <1>1
<1>4. Len(row.pages) * PageSize \in Nat
  BY <1>1, TimesPageSize
<1>5. /\ PageIndex(n) \in Nat /\ PageIndex(n) >= 1 /\ OffsetOf(n) \in 1..PageSize
      /\ \A k \in Nat : n <= k * PageSize => PageIndex(n) <= k
  BY <1>3, Positions
<1>6. PageIndex(n) <= Len(row.pages)
  BY <1>1, <1>2, <1>3, <1>4, <1>5
<1> QED
  BY <1>1, <1>2, <1>3, <1>5, <1>6

(* Blanking the free pages touches neither the index nor a row. *)
LEMMA SettledIndexTrue ==
  ASSUME NEW m \in Managers, ManagerOK(m), NEW kv, IndexTrue(m, kv)
  PROVE  IndexTrue(m, Settled(m, kv))
<1>1. ASSUME NEW block \in DOMAIN m.index
      PROVE  Settled(m, kv)[m.index[block]] = kv[m.index[block]]
  <2>1. m.index[block] \in Range(m.index)
    BY DEF Range
  <2>2. m.index[block] \in Pages /\ m.cached[m.index[block]] > 0
    BY <2>1 DEF ManagerOK, IndexIsOfCached
  <2>3. m.index[block] \notin Range(m.free)
    BY <2>2 DEF ManagerOK, FreeAreUnused
  <2> QED
    BY <2>2, <2>3 DEF Settled
<1> QED
  BY <1>1 DEF IndexTrue

(* Nor does it touch a page of a row. *)
LEMMA SettledRowsTrue ==
  ASSUME NEW m \in Managers, NEW rows \in Seq(Rows), Sound(m, rows), NEW kv, RowsTrue(rows, kv)
  PROVE  RowsTrue(rows, Settled(m, kv))
<1>1. ASSUME NEW k \in DOMAIN rows, NEW n \in 1..rows[k].committed
      PROVE  Settled(m, kv)[rows[k].pages[PageIndex(n)]] = kv[rows[k].pages[PageIndex(n)]]
  <2> DEFINE p == rows[k].pages[PageIndex(n)]
             leases == PagesOf(rows)
  <2>1. rows[k] \in Rows /\ RowOK(rows[k]) /\ k \in DOMAIN leases /\ leases[k] = rows[k].pages
    BY RowOfSequence DEF Sound
  <2>2. p \in Pages /\ p \in Range(leases[k])
    BY <2>1, CommittedIsHeld
  <2>3. Counts(m.active, leases)
    BY DEF Sound
  <2> HIDE DEF p, leases
  <2>4. m.active[p] > 0
    BY <2>1, <2>2, <2>3, CountedIsHeld
  <2>5. p \notin Range(m.free)
    BY <2>4 DEF Sound, ManagerOK, FreeAreUnused
  <2>6. Settled(m, kv)[p] = kv[p]
    BY <2>2, <2>5 DEF Settled
  <2> QED
    BY <2>6 DEF p
<1> QED
  BY <1>1 DEF RowsTrue, RowTrue

(* What is left of an index is as true as it was. *)
LEMMA ShrinksTrue ==
  ASSUME NEW m, NEW less, NEW kv, Shrinks(m, less), IndexTrue(m, kv)
  PROVE  IndexTrue(less, kv)
BY DEF Shrinks, IndexTrue

(* The blocks that a row reuses are its own. *)
LEMMA ReusedTrue ==
  ASSUME NEW m, NEW row \in Rows, RowOK(row), Reuses(m, row), NEW kv, IndexTrue(m, kv)
  PROVE  RowTrue(row, kv)
<1>1. PICK reuse \in Nat :
        /\ row.committed = reuse * PageSize /\ reuse <= Len(row.pages)
        /\ \A i \in 1..reuse : /\ Block(row.tokens, i) \in DOMAIN m.index
                               /\ m.index[Block(row.tokens, i)] = row.pages[i]
  BY DEF Reuses
<1>2. /\ row.tokens \in Seq(Tokens) /\ Len(row.tokens) \in Nat /\ row.committed \in Nat
      /\ row.committed < Len(row.tokens)
  BY RowFields DEF RowOK
<1>3. ASSUME NEW n \in 1..row.committed
      PROVE  kv[row.pages[PageIndex(n)]][OffsetOf(n)] = SubSeq(row.tokens, 1, n)
  <2> DEFINE i == PageIndex(n)
             o == OffsetOf(n)
             block == Block(row.tokens, i)
  <2>1. n \in Nat /\ n >= 1 /\ n <= reuse * PageSize
    BY <1>1, <1>2
  <2>2. /\ i \in Nat /\ i >= 1 /\ o \in 1..PageSize /\ n = (i - 1) * PageSize + o
        /\ n <= i * PageSize /\ i <= reuse
    BY <1>1, <2>1, Positions
  <2>3. block \in DOMAIN m.index /\ m.index[block] = row.pages[i]
    BY <1>1, <2>2
  <2>4. i * PageSize \in Nat /\ i * PageSize <= Len(row.tokens)
    <3>1. i * PageSize <= reuse * PageSize /\ i * PageSize \in Nat
      BY <1>1, <2>2, TimesPageSize
    <3> QED
      BY <1>1, <1>2, <3>1
  <2>5. Len(block) = i * PageSize
    BY <1>2, <2>2, <2>4, BlockOfTokens
  <2>6. i * PageSize - PageSize + o = n
    BY <2>2, PageSizeAssumption
  <2> HIDE DEF i, o
  <2>7. kv[row.pages[i]][o] = SubSeq(block, 1, n)
    BY <2>2, <2>3, <2>5, <2>6 DEF IndexTrue
  <2>8. SubSeq(block, 1, n) = SubSeq(row.tokens, 1, n)
    BY <1>2, <2>1, <2>2, <2>4, PrefixOfPrefix DEF Block
  <2> QED
    BY <2>7, <2>8 DEF i, o
<1> QED
  BY <1>3 DEF RowTrue

(* A row that goes on with as much committed keeps what it has. *)
Keeps(row, more) ==
  /\ row \in Rows /\ more \in Rows /\ RowOK(row) /\ more.committed = row.committed
  /\ \A i \in DOMAIN row.pages : more.pages[i] = row.pages[i]
  /\ more.tokens = row.tokens

(* Its committed positions are as true as they were. *)
LEMMA KeptTrue ==
  ASSUME NEW row, NEW more, Keeps(row, more), NEW kv, RowTrue(row, kv)
  PROVE  RowTrue(more, kv)
<1>1. \A n \in 1..row.committed : PageIndex(n) \in DOMAIN row.pages
  BY CommittedIsHeld DEF Keeps
<1> QED
  BY <1>1 DEF Keeps, RowTrue

(* What is published is what the rows computed. *)
LEMMA PublishedTrue ==
  ASSUME NEW m, NEW rows \in Seq(Rows), NEW after, Published(m, rows, after), NEW kv,
         IndexTrue(m, kv), RowsTrue(rows, kv)
  PROVE  IndexTrue(after, kv)
<1>1. ASSUME NEW block \in DOMAIN after.index, NEW o \in 1..PageSize
      PROVE  kv[after.index[block]][o] = SubSeq(block, 1, Len(block) - PageSize + o)
  <2>1. CASE block \in DOMAIN m.index /\ after.index[block] = m.index[block]
    BY <2>1 DEF IndexTrue
  <2>2. ASSUME NEW k \in DOMAIN rows, NEW i \in DOMAIN rows[k].pages,
               i * PageSize <= rows[k].committed, block = Block(rows[k].tokens, i),
               after.index[block] = rows[k].pages[i]
        PROVE  kv[after.index[block]][o] = SubSeq(block, 1, Len(block) - PageSize + o)
    <3> DEFINE row == rows[k]
               n == (i - 1) * PageSize + o
    <3>1. row \in Rows /\ RowOK(row)
      BY RowOfSequence DEF Published, Sound
    <3>2. /\ row.tokens \in Seq(Tokens) /\ Len(row.tokens) \in Nat /\ row.committed \in Nat
          /\ row.committed < Len(row.tokens) /\ i \in Nat /\ i >= 1
      BY <3>1, RowFields DEF RowOK
    <3>3. n \in Nat /\ n >= 1 /\ n <= i * PageSize /\ PageIndex(n) = i /\ OffsetOf(n) = o
      BY <3>2, PositionIn
    <3>4. i * PageSize \in Nat /\ i * PageSize <= Len(row.tokens)
      BY <2>2, <3>2, TimesPageSize
    <3>5. Len(block) = i * PageSize /\ n = i * PageSize - PageSize + o
      <4>1. Len(block) = i * PageSize
        BY <2>2, <3>2, <3>4, BlockOfTokens
      <4>2. i \in Nat /\ PageSize \in Nat
        BY <3>2, PageSizeAssumption
      <4>3. (i - 1) * PageSize = i * PageSize - PageSize
        BY <4>2
      <4> QED
        BY <4>1, <4>3
    <3> HIDE DEF n
    <3>6. n \in 1..row.committed
      BY <2>2, <3>2, <3>3, <3>4
    <3>7. kv[row.pages[i]][o] = SubSeq(row.tokens, 1, n)
      BY <3>3, <3>6 DEF RowsTrue, RowTrue
    <3>8. SubSeq(block, 1, n) = SubSeq(row.tokens, 1, n)
      BY <2>2, <3>2, <3>3, <3>4, PrefixOfPrefix DEF Block
    <3> QED
      BY <2>2, <3>5, <3>7, <3>8
  <2> QED
    BY <2>1, <2>2 DEF Published
<1> QED
  BY <1>1 DEF IndexTrue

(* The kernels of a step write each row's own positions, none of them committed. *)
Spanned(spans) ==
  /\ manager \in Managers /\ seqs \in Seq(Rows) /\ Sound(manager, seqs)
  /\ \A k \in DOMAIN seqs : table.device[seqs[k].slot] = seqs[k].pages
  /\ DOMAIN spans \subseteq DOMAIN seqs
  /\ \A k \in DOMAIN spans : \A n \in spans[k] :
       /\ n \in Nat /\ n > seqs[k].committed /\ n <= Len(seqs[k].tokens)
       /\ PageIndex(n) <= Len(seqs[k].pages)

(* A row writes this place of the pool. *)
Reaches(spans, k, p, o) ==
  {n \in spans[k] : /\ PageIndex(n) <= Len(seqs[k].pages)
                    /\ seqs[k].pages[PageIndex(n)] = p
                    /\ OffsetOf(n) = o}

(* What is written at a place: nothing where no span reaches it, the prefix up to the *)
(* position where one does.                                                           *)
LEMMA WrittenIs ==
  ASSUME NEW spans, Spanned(spans), NEW p \in Pages, NEW o \in 1..PageSize
  PROVE  /\ (\A k \in DOMAIN spans : Reaches(spans, k, p, o) = {}) =>
              Written(spans)[p][o] = content[p][o]
         /\ \A k \in DOMAIN spans : \A n \in spans[k] :
              /\ Reaches(spans, k, p, o) = {n}
              /\ \A l \in DOMAIN spans : l # k => Reaches(spans, l, p, o) = {}
              => Written(spans)[p][o] = SubSeq(seqs[k].tokens, 1, n)
<1> DEFINE DeviceRow(i) == table.device[seqs[i].slot]
           At(i, q, a) == {n \in spans[i] : /\ PageIndex(n) <= Len(DeviceRow(i))
                                            /\ DeviceRow(i)[PageIndex(n)] = q
                                            /\ OffsetOf(n) = a}
           Writers(q, a) == {i \in DOMAIN spans : At(i, q, a) # {}}
<1>1. Written(spans)[p][o] =
        IF Writers(p, o) = {} THEN content[p][o]
        ELSE LET last == Max(Writers(p, o)) IN SubSeq(seqs[last].tokens, 1, Max(At(last, p, o)))
  BY DEF Written
<1>2. \A i \in DOMAIN spans : At(i, p, o) = Reaches(spans, i, p, o)
  BY DEF Spanned, Reaches
<1> HIDE DEF At
<1>3. ASSUME \A k \in DOMAIN spans : Reaches(spans, k, p, o) = {}
      PROVE  Written(spans)[p][o] = content[p][o]
  BY <1>1, <1>2, <1>3
<1>4. ASSUME NEW k \in DOMAIN spans, NEW n \in spans[k], Reaches(spans, k, p, o) = {n},
             \A l \in DOMAIN spans : l # k => Reaches(spans, l, p, o) = {}
      PROVE  Written(spans)[p][o] = SubSeq(seqs[k].tokens, 1, n)
  <2>1. Writers(p, o) = {k}
    BY <1>2, <1>4
  <2>2. At(k, p, o) = {n}
    BY <1>2, <1>4
  <2> HIDE DEF Writers
  <2>3. k \in Nat /\ n \in Nat
    BY <1>4 DEF Spanned
  <2>4. Max({k}) = k /\ Max({n}) = n
    BY <2>3 DEF Max
  <2> QED
    BY <1>1, <2>1, <2>2, <2>4
<1> QED
  BY <1>3, <1>4

(* An indexed page is not written. *)
LEMMA CachedIsKept ==
  ASSUME NEW spans, Spanned(spans), NEW p \in Pages, manager.cached[p] > 0, NEW o \in 1..PageSize
  PROVE  Written(spans)[p][o] = content[p][o]
<1>1. ASSUME NEW k \in DOMAIN spans, NEW n \in Reaches(spans, k, p, o)
      PROVE  FALSE
  <2>1. /\ n \in spans[k] /\ seqs[k].pages[PageIndex(n)] = p
    BY <1>1 DEF Reaches
  <2>2. manager \in Managers /\ WritesAt(manager, seqs, k, n)
    BY <1>1, <2>1 DEF Spanned, WritesAt
  <2>3. manager.cached[p] = 0
    BY <2>1, <2>2, WritesOwnPage
  <2> QED
    BY <2>3
<1> QED
  BY <1>1, WrittenIs

(* A committed position of a row is not written. *)
LEMMA CommittedIsKept ==
  ASSUME NEW spans, Spanned(spans), NEW k \in DOMAIN seqs, NEW n \in 1..seqs[k].committed
  PROVE  Written(spans)[seqs[k].pages[PageIndex(n)]][OffsetOf(n)]
           = content[seqs[k].pages[PageIndex(n)]][OffsetOf(n)]
<1> DEFINE p == seqs[k].pages[PageIndex(n)]
           o == OffsetOf(n)
<1>1. /\ manager \in Managers /\ seqs \in Seq(Rows) /\ Sound(manager, seqs)
  BY DEF Spanned
<1>2. seqs[k] \in Rows /\ RowOK(seqs[k]) /\ seqs[k].committed \in Nat
  BY <1>1, RowOfSequence, RowFields DEF Sound
<1>3. /\ n \in Nat /\ n >= 1 /\ PageIndex(n) \in DOMAIN seqs[k].pages
      /\ p \in Pages /\ o \in 1..PageSize
  BY <1>2, CommittedIsHeld
<1>4. ASSUME NEW l \in DOMAIN spans, NEW a \in Reaches(spans, l, p, o)
      PROVE  FALSE
  <2>1. /\ a \in spans[l] /\ seqs[l].pages[PageIndex(a)] = p /\ OffsetOf(a) = o
    BY <1>4 DEF Reaches
  <2>2. WritesAt(manager, seqs, l, a) /\ a \in Nat /\ a > seqs[l].committed
    BY <1>4, <2>1 DEF Spanned, WritesAt
  <2>3. k = l /\ PageIndex(n) = PageIndex(a)
    BY <1>1, <1>3, <2>1, <2>2, WritesOwnPage
  <2>4. a >= 1
    BY <1>2, <2>2, <2>3
  <2>5. n = a
    BY <1>3, <2>1, <2>2, <2>3, <2>4, SamePosition
  <2> QED
    BY <1>2, <2>2, <2>3, <2>5
<1> HIDE DEF p, o
<1>5. Written(spans)[p][o] = content[p][o]
  BY <1>3, <1>4, WrittenIs
<1> QED
  BY <1>5 DEF p, o

(* Every position of a span gets its row's own prefix. *)
LEMMA WrittenAt ==
  ASSUME NEW spans, Spanned(spans), NEW k \in DOMAIN spans, NEW n \in spans[k]
  PROVE  Written(spans)[seqs[k].pages[PageIndex(n)]][OffsetOf(n)] = SubSeq(seqs[k].tokens, 1, n)
<1> DEFINE p == seqs[k].pages[PageIndex(n)]
           o == OffsetOf(n)
<1>1. /\ manager \in Managers /\ seqs \in Seq(Rows) /\ Sound(manager, seqs) /\ k \in DOMAIN seqs
      /\ n \in Nat /\ n > seqs[k].committed /\ PageIndex(n) <= Len(seqs[k].pages)
  BY DEF Spanned
<1>2. WritesAt(manager, seqs, k, n)
  BY <1>1 DEF WritesAt
<1>3. seqs[k].committed \in Nat
  BY <1>1, RowOfSequence, RowFields
<1>4. n >= 1 /\ o \in 1..PageSize
  BY <1>1, <1>3, Positions
<1>5. /\ PageIndex(n) \in DOMAIN seqs[k].pages /\ p \in Pages
      /\ \A l \in DOMAIN seqs : \A j \in DOMAIN seqs[l].pages :
           seqs[l].pages[j] = p => l = k /\ j = PageIndex(n)
  BY <1>1, <1>2, WritesOwnPage
<1>6. n \in Reaches(spans, k, p, o)
  BY <1>1 DEF Reaches
<1>7. ASSUME NEW l \in DOMAIN spans, NEW a \in Reaches(spans, l, p, o)
      PROVE  l = k /\ a = n
  <2>1. /\ a \in spans[l] /\ seqs[l].pages[PageIndex(a)] = p /\ OffsetOf(a) = o
        /\ PageIndex(a) <= Len(seqs[l].pages)
    BY <1>7 DEF Reaches
  <2>2. /\ l \in DOMAIN seqs /\ a \in Nat /\ a > seqs[l].committed
        /\ seqs[l].committed \in Nat
    BY <1>1, <1>7, <2>1, RowOfSequence, RowFields DEF Spanned
  <2>3. WritesAt(manager, seqs, l, a)
    BY <1>1, <2>1, <2>2 DEF WritesAt
  <2>4. PageIndex(a) \in DOMAIN seqs[l].pages
    BY <1>1, <2>3, WritesOwnPage
  <2>5. l = k /\ PageIndex(a) = PageIndex(n)
    BY <1>5, <2>1, <2>2, <2>4
  <2>6. a >= 1
    BY <2>2
  <2> QED
    BY <1>1, <1>4, <2>1, <2>2, <2>5, <2>6, SamePosition
<1> HIDE DEF p, o
<1>8. Reaches(spans, k, p, o) = {n} /\ \A l \in DOMAIN spans : l # k => Reaches(spans, l, p, o) = {}
  BY <1>6, <1>7
<1>9. Written(spans)[p][o] = SubSeq(seqs[k].tokens, 1, n)
  BY <1>4, <1>5, <1>8, WrittenIs
<1> QED
  BY <1>9 DEF p, o

(* The index is as true after the kernels as before. *)
LEMMA WrittenIndexTrue ==
  ASSUME NEW spans, Spanned(spans), IndexTrue(manager, content)
  PROVE  IndexTrue(manager, Written(spans))
<1>1. ManagerOK(manager) /\ manager \in Managers
  BY SoundManager DEF Spanned
<1>2. \A block \in DOMAIN manager.index :
        manager.index[block] \in Pages /\ manager.cached[manager.index[block]] > 0
  BY <1>1 DEF ManagerOK, IndexIsOfCached, Range
<1>3. ASSUME NEW block \in DOMAIN manager.index, NEW o \in 1..PageSize
      PROVE  Written(spans)[manager.index[block]][o] = SubSeq(block, 1, Len(block) - PageSize + o)
  <2>1. Written(spans)[manager.index[block]][o] = content[manager.index[block]][o]
    BY <1>2, CachedIsKept
  <2> QED
    BY <2>1 DEF IndexTrue
<1> QED
  BY <1>3 DEF IndexTrue

(* The rows go on, and what they commit was committed or is computed. *)
Computes(spans, next) ==
  /\ Spanned(spans) /\ RowsGoOn(seqs, next)
  /\ \A k \in DOMAIN seqs : \A n \in 1..next[k].committed :
       n <= seqs[k].committed \/ (k \in DOMAIN spans /\ n \in spans[k])

(* The rows that go on are true of what was computed for them. *)
LEMMA ComputedRowsTrue ==
  ASSUME NEW spans, NEW next, Computes(spans, next), RowsTrue(seqs, content)
  PROVE  RowsTrue(next, Written(spans))
<1>1. ASSUME NEW k \in DOMAIN seqs, NEW n \in 1..next[k].committed
      PROVE  Written(spans)[next[k].pages[PageIndex(n)]][OffsetOf(n)] = SubSeq(next[k].tokens, 1, n)
  <2>1. /\ Continues(seqs[k], next[k]) /\ next[k].pages = seqs[k].pages
        /\ seqs[k] \in Rows /\ next[k] \in Rows
        /\ Len(seqs[k].tokens) <= Len(next[k].tokens)
        /\ \A o \in 1..Len(seqs[k].tokens) : next[k].tokens[o] = seqs[k].tokens[o]
        /\ RowOK(seqs[k])
    BY DEF Computes, RowsGoOn, Continues
  <2>2. /\ seqs[k].tokens \in Seq(Tokens) /\ next[k].tokens \in Seq(Tokens)
        /\ seqs[k].committed \in Nat /\ next[k].committed \in Nat /\ Len(seqs[k].tokens) \in Nat
        /\ n \in Nat
    BY <2>1, RowFields
  <2>3. n <= Len(seqs[k].tokens)
        /\ Written(spans)[seqs[k].pages[PageIndex(n)]][OffsetOf(n)] = SubSeq(seqs[k].tokens, 1, n)
    <3>1. CASE n <= seqs[k].committed
      <4>1. n \in 1..seqs[k].committed
        BY <2>2, <3>1
      <4>2. Written(spans)[seqs[k].pages[PageIndex(n)]][OffsetOf(n)]
              = content[seqs[k].pages[PageIndex(n)]][OffsetOf(n)]
        BY <4>1, CommittedIsKept DEF Computes
      <4>3. content[seqs[k].pages[PageIndex(n)]][OffsetOf(n)] = SubSeq(seqs[k].tokens, 1, n)
        BY <4>1 DEF RowsTrue, RowTrue
      <4> QED
        BY <2>1, <2>2, <3>1, <4>2, <4>3 DEF RowOK
    <3>2. CASE k \in DOMAIN spans /\ n \in spans[k]
      BY <3>2, WrittenAt DEF Computes, Spanned
    <3> QED
      BY <3>1, <3>2 DEF Computes
  <2>4. SubSeq(next[k].tokens, 1, n) = SubSeq(seqs[k].tokens, 1, n)
    BY <2>1, <2>2, <2>3, SamePrefix
  <2> QED
    BY <2>1, <2>3, <2>4
<1>2. DOMAIN next = DOMAIN seqs
  BY DEF Computes, RowsGoOn
<1> QED
  BY <1>1, <1>2 DEF RowsTrue, RowTrue

-----------------------------------------------------------------------------
(* The content invariant.                                                    *)

(* The manager and the rows are true of the KV, which the settling of free pages keeps. *)
Truths(m, rows, kv) == IndexTrue(m, kv) /\ RowsTrue(rows, kv)

(* The content invariant, of the state. *)
Truth == Truths(manager, seqs, content)

(* Settling the free pages keeps it. *)
LEMMA SettledTrue ==
  ASSUME NEW m \in Managers, ManagerOK(m), NEW rows \in Seq(Rows), rows = <<>> \/ Sound(m, rows),
         NEW kv, Truths(m, rows, kv)
  PROVE  Truths(m, rows, Settled(m, kv))
<1>1. IndexTrue(m, Settled(m, kv))
  BY SettledIndexTrue DEF Truths
<1>2. CASE rows = <<>>
  BY <1>1, <1>2 DEF Truths, RowsTrue
<1>3. CASE Sound(m, rows)
  BY <1>1, <1>3, SettledRowsTrue DEF Truths
<1> QED
  BY <1>2, <1>3

(* A step keeps it whose manager and rows are true of the KV before the settling. *)
LEMMA SettledNext ==
  ASSUME Core', NEW kv, content' = Settled(manager', kv), Truths(manager', seqs', kv)
  PROVE  Truth'
<1>1. /\ manager' \in Managers /\ ManagerOK(manager') /\ seqs' \in Seq(Rows)
      /\ seqs' = <<>> \/ Sound(manager', seqs')
  BY DEF Core, CoreTypes, Stage
<1>2. Truths(manager', seqs', Settled(manager', kv))
  BY <1>1, SettledTrue
<1> QED
  BY <1>2 DEF Truth

(* No rows are true of anything. *)
LEMMA NoRowsTrue == ASSUME NEW kv PROVE RowsTrue(<<>>, kv)
BY DEF RowsTrue

(* The content invariant holds at first. *)
LEMMA InitTruth == Init => Truth
<1> SUFFICES ASSUME Init PROVE Truth
  OBVIOUS
<1>1. manager = NewManager /\ seqs = <<>>
  BY DEF Init
<1>2. manager.index = <<>>
  BY <1>1 DEF NewManager
<1> QED
  BY <1>1, <1>2 DEF Truth, Truths, IndexTrue, RowsTrue

(* beginRequest() keeps it: what a founder starts with is the index's. *)
LEMMA BeginTruth == Core /\ Core' /\ Truth /\ Begin => Truth'
<1> SUFFICES ASSUME Core, Core', Truth, Begin PROVE Truth'
  OBVIOUS
<1>1. pc = "idle" /\ poisoned = FALSE /\ poisoned \in BOOLEAN /\ content' = Settled(manager', content)
  BY DEF Begin, Core, CoreTypes
<1>2. /\ quarantined = <<>> /\ seqs = <<>> /\ Sound(manager, <<>>) /\ manager \in Managers
  <2>1. quarantined = <<>>
    BY <1>1 DEF Core
  <2>2. seqs = <<>>
    BY <1>1 DEF Core, Stage
  <2> QED
    BY <2>1, <2>2 DEF Core, CoreTypes
<1>3. PICK size \in 1..Cardinality(Slots) : \E prompts \in [1..size -> Prompts],
           lookups \in [1..size -> Lookups], generated \in Commits :
        FoundBy(Taken(prompts, lookups), generated)
  BY DEF Begin, FoundBy
<1>4. PICK prompts \in [1..size -> Prompts], lookups \in [1..size -> Lookups],
            generated \in Commits : FoundBy(Taken(prompts, lookups), generated)
  BY <1>3
<1> DEFINE taken == Taken(prompts, lookups)
<1>5. size \in Nat /\ size >= 1 /\ size <= Cardinality(Slots)
  BY SlotsFinite
<1>6. Founders(manager, taken, size)
  BY <1>2, <1>5, FoundersTaken
<1>7. FoundBy(taken, generated)
  BY <1>4
<1> HIDE DEF taken
<1>8. /\ taken.ok \in BOOLEAN /\ taken.manager \in Managers /\ taken.rows \in Seq(Rows)
      /\ Sound(taken.manager, taken.rows) /\ Shrinks(manager, taken.manager)
  BY <1>6 DEF Founders, Batches
<1>9. IndexTrue(manager, content) /\ IndexTrue(taken.manager, content)
  BY <1>8, ShrinksTrue DEF Truth, Truths
<1>10. CASE taken.ok = TRUE
  <2>1. seqs' = taken.rows /\ manager' = taken.manager
    BY <1>7, <1>10 DEF FoundBy
  <2>2. ASSUME NEW i \in DOMAIN taken.rows
        PROVE  RowTrue(taken.rows[i], content)
    <3>1. taken.rows[i] \in Rows /\ RowOK(taken.rows[i]) /\ Reuses(manager, taken.rows[i])
      BY <1>6, <1>8 DEF Founders, Sound
    <3> QED
      BY <1>9, <3>1, ReusedTrue
  <2>3. Truths(manager', seqs', content)
    BY <1>9, <2>1, <2>2 DEF Truths, RowsTrue
  <2> QED
    BY <1>1, <2>3, SettledNext
<1>11. CASE taken.ok = FALSE
  <2>1. manager' = ReleaseAll(taken.manager, PagesOf(taken.rows)) /\ seqs' = seqs
    BY <1>7, <1>11 DEF FoundBy
  <2>2. manager'.index = taken.manager.index
    BY <1>8, <2>1, AllAreReleased
  <2>3. Truths(manager', seqs', content)
    BY <1>2, <1>9, <2>1, <2>2 DEF Truths, IndexTrue, RowsTrue
  <2> QED
    BY <1>1, <2>3, SettledNext
<1> QED
  BY <1>8, <1>10, <1>11

-----------------------------------------------------------------------------

(* The positions of a prefill, and those of a step, are the rows' own. *)
LEMMA PrefillSpanned ==
  ASSUME Core, Device, Completing
  PROVE  Spanned([i \in NewRows |-> PrefillSpan(seqs[i])])
<1> DEFINE spans == [i \in NewRows |-> PrefillSpan(seqs[i])]
<1>1. /\ manager \in Managers /\ seqs \in Seq(Rows) /\ Sound(manager, seqs)
      /\ DOMAIN seqs = 1..Len(seqs) /\ Len(seqs) \in Nat /\ Stage(pc, seqs)
  BY CoreFacts, NoneQuarantined DEF Completing, Core
<1>2. \A k \in DOMAIN seqs : table.device[seqs[k].slot] = seqs[k].pages
  BY DEF Device, OnDevice, Completing
<1>3. NewRows \subseteq DOMAIN seqs /\ \A k \in NewRows : Filled(seqs[k])
  <2>1. CASE pc = "prefilling"
    BY <1>1, <2>1 DEF NewRows, Stage
  <2>2. CASE pc = "seating"
    BY <1>1, <2>2 DEF NewRows, Stage, Last
  <2> QED
    BY <2>1, <2>2 DEF Completing
<1>4. ASSUME NEW k \in DOMAIN spans, NEW n \in spans[k]
      PROVE  /\ n \in Nat /\ n > seqs[k].committed /\ n <= Len(seqs[k].tokens)
             /\ PageIndex(n) <= Len(seqs[k].pages)
  <2>1. /\ seqs[k].committed \in Nat /\ Len(seqs[k].tokens) \in Nat /\ Len(seqs[k].pages) \in Nat
    BY <1>1, <1>3, RowOfSequence, RowFields
  <2>2. n \in Nat /\ n > seqs[k].committed /\ n <= Len(seqs[k].tokens) /\ n >= 1
    BY <2>1 DEF PrefillSpan
  <2>3. Len(seqs[k].tokens) <= Len(seqs[k].pages) * PageSize /\ Len(seqs[k].pages) * PageSize \in Nat
    BY <1>3, <2>1, TimesPageSize DEF Filled
  <2>4. n <= Len(seqs[k].pages) * PageSize
    BY <2>1, <2>2, <2>3
  <2> QED
    BY <2>1, <2>2, <2>4, Positions
<1> QED
  <2>1. DOMAIN spans = NewRows
    OBVIOUS
  <2> HIDE DEF spans
  <2>2. Spanned(spans)
    BY <1>1, <1>2, <1>3, <1>4, <2>1 DEF Spanned
  <2> QED
    BY <2>2 DEF spans

(* So are those of a step. *)
LEMMA DecodeSpanned ==
  ASSUME Core, Device, pc = "decoding"
  PROVE  Spanned([i \in DOMAIN seqs |-> DecodeSpan(seqs[i])])
<1> DEFINE spans == [i \in DOMAIN seqs |-> DecodeSpan(seqs[i])]
<1>1. /\ manager \in Managers /\ seqs \in Seq(Rows) /\ Sound(manager, seqs)
      /\ \A k \in DOMAIN seqs : Grows(seqs[k]) /\ RowOK(seqs[k])
  BY CoreFacts, NoneQuarantined DEF Core, Stage, Sound
<1>2. \A k \in DOMAIN seqs : table.device[seqs[k].slot] = seqs[k].pages
  BY DEF Device, OnDevice
<1>4. ASSUME NEW k \in DOMAIN spans, NEW n \in spans[k]
      PROVE  /\ n \in Nat /\ n > seqs[k].committed /\ n <= Len(seqs[k].tokens)
             /\ PageIndex(n) <= Len(seqs[k].pages)
  <2>1. /\ seqs[k].committed \in Nat /\ Len(seqs[k].tokens) \in Nat /\ Len(seqs[k].pages) \in Nat
    BY <1>1, RowOfSequence, RowFields
  <2>2. n = seqs[k].committed + 1
    BY DEF DecodeSpan
  <2>3. seqs[k].committed < Len(seqs[k].tokens)
    BY <1>1 DEF RowOK
  <2>4. n <= Len(seqs[k].pages) * PageSize
    BY <1>1, <2>2 DEF Grows
  <2>5. n \in Nat /\ n >= 1 /\ n > seqs[k].committed /\ n <= Len(seqs[k].tokens)
    BY <2>1, <2>2, <2>3
  <2>6. PageIndex(n) <= Len(seqs[k].pages)
    BY <2>1, <2>4, <2>5, Positions
  <2> QED
    BY <2>5, <2>6
<1> QED
  BY <1>1, <1>2, <1>4 DEF Spanned

(* The end of a prefill keeps it: what it publishes and commits is what was computed. *)
LEMMA PrefillCompletesTruth == Core /\ Core' /\ Device /\ Truth /\ PrefillCompletes => Truth'
<1> SUFFICES ASSUME Core, Core', Device, Truth, PrefillCompletes PROVE Truth'
  OBVIOUS
<1>1. Completing
  BY PrefillIs
<1>2. PICK sampled \in [NewRows -> Sampled], stops \in SUBSET NewRows : PrefillLeaves(sampled, stops)
  BY PrefillIs
<1> DEFINE spans == [i \in NewRows |-> PrefillSpan(seqs[i])]
           rows == Prefilled(NewRows, sampled, stops)
           ready == Ready(rows, NewRows)
           kept == PrefillKept(rows, NewRows)
<1>3. /\ manager' = PublishRows(manager, ready, "prefillEnd") /\ seqs' = kept
      /\ content' = Settled(manager', Written(spans))
  BY <1>2 DEF PrefillLeaves
<1>4. Spanned(spans) /\ DOMAIN spans = NewRows /\ \A i \in NewRows : spans[i] = PrefillSpan(seqs[i])
  BY <1>1, PrefillSpanned
<1>5. /\ RowsGoOn(seqs, rows)
      /\ \A i \in NewRows : i \in DOMAIN seqs /\ rows[i].committed = Len(seqs[i].tokens)
      /\ \A i \in DOMAIN seqs : i \notin NewRows => rows[i] = seqs[i]
  BY <1>1, PrefilledGoOn
<1> HIDE DEF rows, spans
<1>6. rows \in Seq(Rows) /\ (\A i \in DOMAIN rows : RowOK(rows[i])) /\ DOMAIN rows = DOMAIN seqs
  BY <1>5 DEF RowsGoOn, Continues
<1>7. /\ RowsGoOn(rows, ready) /\ RowsGoOn(ready, kept)
      /\ \A i \in DOMAIN rows : /\ kept[i].committed = rows[i].committed
                                /\ ready[i].committed = rows[i].committed
  BY <1>6, ReadyGoOn
<1> HIDE DEF ready, kept
<1>8. RowsGoOn(seqs, ready)
  BY <1>5, <1>7, GoOnTwice
<1>9. RowsGoOn(seqs, kept)
  BY <1>7, <1>8, GoOnTwice
<1>10. ASSUME NEW k \in DOMAIN seqs, NEW n \in 1..rows[k].committed
       PROVE  n <= seqs[k].committed \/ (k \in DOMAIN spans /\ n \in spans[k])
  <2>1. seqs[k].committed \in Nat /\ Len(seqs[k].tokens) \in Nat
    BY CoreFacts, RowOfSequence, RowFields
  <2> QED
    BY <1>4, <1>5, <1>10, <2>1 DEF PrefillSpan
<1>11. Computes(spans, ready) /\ Computes(spans, kept)
  BY <1>4, <1>6, <1>7, <1>8, <1>9, <1>10 DEF Computes
<1>12. RowsTrue(ready, Written(spans)) /\ RowsTrue(kept, Written(spans))
  BY <1>11, ComputedRowsTrue DEF Truth, Truths
<1>13. IndexTrue(manager, Written(spans))
  BY <1>4, WrittenIndexTrue DEF Truth, Truths
<1>14. manager \in Managers /\ seqs \in Seq(Rows) /\ Sound(manager, seqs) /\ ready \in Seq(Rows)
  BY <1>4, <1>7 DEF Spanned, RowsGoOn
<1>15. Sound(manager, ready)
  BY <1>8, <1>14, GoOnSound
<1>16. Published(manager, ready, manager')
  BY <1>3, <1>14, <1>15, RowsPublished
<1>17. IndexTrue(manager', Written(spans))
  BY <1>12, <1>13, <1>14, <1>16, PublishedTrue
<1>18. Truths(manager', seqs', Written(spans))
  BY <1>3, <1>12, <1>17 DEF Truths
<1> QED
  BY <1>3, <1>18, SettledNext

(* completeDecodeStep() keeps it: a row commits the position it wrote, and publishes *)
(* whole blocks of what it committed.                                                *)
LEMMA DecodeCompletesTruth == Core /\ Core' /\ Device /\ Truth /\ DecodeCompletes => Truth'
<1> SUFFICES ASSUME Core, Core', Device, Truth, DecodeCompletes PROVE Truth'
  OBVIOUS
<1>1. pc = "decoding"
  BY DecodeIs
<1>2. PICK sampled \in [Live -> Sampled], stops \in SUBSET Live : DecodeLeaves(sampled, stops)
  BY DecodeIs
<1> DEFINE spans == [i \in DOMAIN seqs |-> DecodeSpan(seqs[i])]
           rows == Decoded(sampled, stops)
           kept == MarkPublished(rows, "decodeEnd")
<1>3. /\ manager' = PublishRows(manager, rows, "decodeEnd") /\ seqs' = kept
      /\ content' = Settled(manager', Written(spans))
  BY <1>2 DEF DecodeLeaves
<1>4. Spanned(spans) /\ DOMAIN spans = DOMAIN seqs /\ \A i \in DOMAIN seqs : spans[i] = DecodeSpan(seqs[i])
  BY <1>1, DecodeSpanned
<1>5. /\ RowsGoOn(seqs, rows)
      /\ \A i \in Live : i \in DOMAIN seqs /\ rows[i].committed = seqs[i].committed + 1
      /\ \A i \in DOMAIN seqs : i \notin Live => rows[i] = seqs[i]
  BY <1>1, DecodedGoOn
<1> HIDE DEF rows, spans
<1>6. rows \in Seq(Rows) /\ (\A i \in DOMAIN rows : RowOK(rows[i])) /\ DOMAIN rows = DOMAIN seqs
  BY <1>5 DEF RowsGoOn, Continues
<1>7. /\ RowsGoOn(rows, kept)
      /\ \A i \in DOMAIN rows : kept[i].committed = rows[i].committed
  BY <1>6, MarkedGoOn
<1> HIDE DEF kept
<1>8. RowsGoOn(seqs, kept)
  BY <1>5, <1>7, GoOnTwice
<1>9. ASSUME NEW k \in DOMAIN seqs, NEW n \in 1..rows[k].committed
      PROVE  n <= seqs[k].committed \/ (k \in DOMAIN spans /\ n \in spans[k])
  <2>1. seqs[k].committed \in Nat
    BY CoreFacts, RowOfSequence, RowFields
  <2>2. rows[k].committed \in {seqs[k].committed, seqs[k].committed + 1}
    BY <1>5
  <2> QED
    BY <1>4, <1>9, <2>1, <2>2 DEF DecodeSpan
<1>10. Computes(spans, rows) /\ Computes(spans, kept)
  BY <1>4, <1>5, <1>6, <1>7, <1>8, <1>9 DEF Computes
<1>11. RowsTrue(rows, Written(spans)) /\ RowsTrue(kept, Written(spans))
  BY <1>10, ComputedRowsTrue DEF Truth, Truths
<1>12. IndexTrue(manager, Written(spans))
  BY <1>4, WrittenIndexTrue DEF Truth, Truths
<1>13. manager \in Managers /\ seqs \in Seq(Rows) /\ Sound(manager, seqs)
  BY <1>4 DEF Spanned
<1>14. Sound(manager, rows)
  BY <1>5, <1>13, GoOnSound
<1>15. Published(manager, rows, manager')
  BY <1>3, <1>6, <1>13, <1>14, RowsPublished
<1>16. IndexTrue(manager', Written(spans))
  BY <1>6, <1>11, <1>12, <1>15, PublishedTrue
<1>17. Truths(manager', seqs', Written(spans))
  BY <1>3, <1>11, <1>16 DEF Truths
<1> QED
  BY <1>3, <1>17, SettledNext

(* A row is true by its tokens, its pages and what it has committed. *)
LEMMA SameRowsTrue ==
  ASSUME NEW rows, NEW next, DOMAIN next = DOMAIN rows, NEW kv, RowsTrue(rows, kv),
         \A k \in DOMAIN rows : /\ next[k].tokens = rows[k].tokens /\ next[k].pages = rows[k].pages
                                /\ next[k].committed = rows[k].committed
  PROVE  RowsTrue(next, kv)
BY DEF RowsTrue, RowTrue

(* Some of the rows are as true as all. *)
LEMMA PartIsTrue ==
  ASSUME NEW rows, NEW next, NEW kv, RowsTrue(rows, kv),
         \A k \in DOMAIN next : \E l \in DOMAIN rows : next[k] = rows[l]
  PROVE  RowsTrue(next, kv)
BY DEF RowsTrue

(* A lease's reused blocks are the index's. *)
LEMMA AcquiredReuses ==
  ASSUME NEW m, NEW prompt, NEW lookup, NEW slot, NEW lease, AcquiredFor(m, lease, prompt)
  PROVE  Reuses(m, NewRow(prompt, lookup, slot, lease))
<1> DEFINE row == NewRow(prompt, lookup, slot, lease)
<1>1. row.pages = lease.pages /\ row.tokens = prompt /\ row.committed = lease.reuse * PageSize
  BY DEF NewRow
<1> HIDE DEF row
<1>2. /\ lease.reuse \in Nat /\ lease.reuse <= Len(lease.pages)
      /\ \A i \in 1..lease.reuse : /\ Block(prompt, i) \in DOMAIN m.index
                                    /\ lease.pages[i] = m.index[Block(prompt, i)]
  BY DEF AcquiredFor
<1>3. Reuses(m, row)
  BY <1>1, <1>2 DEF Reuses
<1> QED
  BY <1>3 DEF row

(* An admission keeps the content invariant, refused, seated or withdrawn. *)
LEMMA JoinTruth == Core /\ Core' /\ Truth /\ Join => Truth'
<1> SUFFICES ASSUME Core, Core', Truth, Join PROVE Truth'
  OBVIOUS
<1>1. pc = "settled" /\ content' = Settled(manager', content)
  BY JoinIs
<1>2. PICK prompt \in Prompts, slot \in Slots \ {row.slot : row \in Range(seqs)} : JoinedBy(prompt, slot)
  BY JoinIs
<1> DEFINE lookup == seqs[1].lookup
           lease == Acquire(manager, prompt, lookup)
           row == NewRow(prompt, lookup, slot, lease)
<1>3. /\ manager \in Managers /\ seqs \in Seq(Rows) /\ Len(seqs) >= 1 /\ Len(seqs) \in Nat
  BY <1>1, CoreFacts DEF Core, Stage
<1>4. Seats(manager, seqs, prompt, lookup, slot, lease)
  BY <1>1, JoinerSeats
<1>5. IF ~lease.acquired THEN NoSeat(lease) ELSE Seated(lease, row) \/ Withdrawn(lease, row)
  BY <1>2 DEF JoinedBy, Joiner
<1>6. row.pages = lease.pages
  BY DEF NewRow
<1> HIDE DEF lease
<1>7. /\ lease.acquired \in BOOLEAN /\ lease.manager \in Managers
      /\ Shrinks(manager, lease.manager)
  BY <1>4, SeatRefused
<1>8. IndexTrue(manager, content) /\ RowsTrue(seqs, content) /\ IndexTrue(lease.manager, content)
  BY <1>7, ShrinksTrue DEF Truth, Truths
<1>9. CASE ~lease.acquired
  <2>1. manager' = lease.manager /\ seqs' = seqs
    BY <1>5, <1>9 DEF NoSeat
  <2>2. Truths(manager', seqs', content)
    BY <1>8, <2>1 DEF Truths
  <2> QED
    BY <1>1, <2>2, SettledNext
<1>10. CASE lease.acquired
  <2>1. /\ row \in Rows /\ Append(seqs, row) \in Seq(Rows)
        /\ Sound(lease.manager, Append(seqs, row)) /\ AcquiredFor(manager, lease, prompt)
    BY <1>4, <1>10, RowSeated
  <2>2. Reuses(manager, row)
    BY <2>1, AcquiredReuses
  <2>3. Seated(lease, row) \/ Withdrawn(lease, row)
    BY <1>5, <1>10
  <2> HIDE DEF row
  <2>4. /\ Append(seqs, row)[Len(seqs) + 1] = row /\ DOMAIN Append(seqs, row) = 1..(Len(seqs) + 1)
        /\ \A i \in 1..Len(seqs) : Append(seqs, row)[i] = seqs[i]
        /\ Len(Append(seqs, row)) = Len(seqs) + 1
    BY <1>3, <2>1, AppendItems
  <2>5. RowOK(row)
    BY <1>3, <2>1, <2>4 DEF Sound
  <2>6. RowTrue(row, content)
    BY <1>8, <2>1, <2>2, <2>5, ReusedTrue
  <2>7. RowsTrue(Append(seqs, row), content)
    BY <1>3, <1>8, <2>4, <2>6 DEF RowsTrue
  <2>8. CASE Seated(lease, row)
    <3>1. manager' = lease.manager /\ seqs' = Append(seqs, row)
      BY <2>8 DEF Seated
    <3>2. Truths(manager', seqs', content)
      BY <1>8, <2>7, <3>1 DEF Truths
    <3> QED
      BY <1>1, <3>2, SettledNext
  <2>9. CASE Withdrawn(lease, row)
    <3> DEFINE rows == Append(seqs, row)
    <3>1. Last(rows) = row /\ Len(rows) >= 1
      BY <1>3, <2>4 DEF Last
    <3>2. manager' = ReleaseLease(lease.manager, Last(rows).pages) /\ seqs' = seqs
      BY <1>6, <2>9, <3>1 DEF Withdrawn
    <3>3. rows \in Seq(Rows) /\ Sound(lease.manager, rows)
      BY <2>1
    <3> HIDE DEF rows
    <3>4. manager'.index = lease.manager.index
      BY <1>7, <3>1, <3>2, <3>3, LastRowReleased
    <3>5. Truths(manager', seqs', content)
      BY <1>8, <3>2, <3>4 DEF Truths, IndexTrue
    <3> QED
      BY <1>1, <3>5, SettledNext
  <2> QED
    BY <2>3, <2>8, <2>9
<1> QED
  BY <1>7, <1>9, <1>10

(* retractSequenceAdmission() keeps it. *)
LEMMA RetractTruth == Core /\ Core' /\ Truth /\ Retract => Truth'
<1> SUFFICES ASSUME Core, Core', Truth, Retract PROVE Truth'
  OBVIOUS
<1>1. /\ pc = "seating" /\ content' = Settled(manager', content)
      /\ manager' = ReleaseLease(manager, Last(seqs).pages) /\ seqs' = Front(seqs)
  BY DEF Retract
<1>2. /\ manager \in Managers /\ seqs \in Seq(Rows) /\ Sound(manager, seqs)
      /\ Len(seqs) >= 2 /\ Len(seqs) \in Nat
  BY <1>1, CoreFacts, NoneQuarantined DEF Core, Stage
<1>3. /\ seqs' \in Seq(Rows) /\ Len(seqs') = Len(seqs) - 1
      /\ \A i \in 1..(Len(seqs) - 1) : seqs'[i] = seqs[i]
      /\ manager'.index = manager.index
  BY <1>1, <1>2, LastRowReleased
<1>4. \A k \in DOMAIN seqs' : k \in DOMAIN seqs /\ seqs'[k] = seqs[k]
  BY <1>2, <1>3
<1>5. Truths(manager', seqs', content)
  BY <1>3, <1>4, PartIsTrue DEF Truth, Truths, IndexTrue
<1> QED
  BY <1>1, <1>5, SettledNext

(* A joiner's failed prefill keeps it: nothing of its row is committed. *)
LEMMA SeatedPrefillFailsTruth == Core /\ Truth /\ SeatedPrefillFails => Truth'
<1> SUFFICES ASSUME Core, Truth, SeatedPrefillFails PROVE Truth'
  OBVIOUS
<1> DEFINE next == [seqs EXCEPT ![Len(seqs)].ended = "dropped"]
<1>1. UNCHANGED <<manager, content>> /\ seqs' = next /\ pc = "seating"
  BY DEF SeatedPrefillFails
<1>2. seqs \in Seq(Rows) /\ \A i \in DOMAIN seqs : RowOK(seqs[i])
  BY <1>1, CoreFacts, NoneQuarantined DEF Sound
<1>3. DropsSome(seqs, next)
  BY DEF DropsSome
<1> HIDE DEF next
<1>4. RowsGoOn(seqs, next) /\ KeepsTexts(seqs, next)
  BY <1>2, <1>3, FlagsGoOn
<1>5. DOMAIN next = DOMAIN seqs
  BY <1>4 DEF RowsGoOn
<1>6. RowsTrue(next, content)
  BY <1>4, <1>5, SameRowsTrue DEF KeepsTexts, Truth, Truths
<1> QED
  BY <1>1, <1>6 DEF Truth, Truths

(* prepareDecodeStep() keeps it: growth moves no page, and evicts no page of a row. *)
LEMMA PrepareDecodeTruth == Core /\ Core' /\ Truth /\ PrepareDecode => Truth'
<1> SUFFICES ASSUME Core, Core', Truth, PrepareDecode PROVE Truth'
  OBVIOUS
<1>1. pc = "settled" /\ content' = Settled(manager', content)
  BY PrepareDecodeIs
<1>2. PICK cancelled \in SUBSET DOMAIN seqs :
        GrownTo(Cancelled(cancelled), Grown(Cancelled(cancelled)))
  BY PrepareDecodeIs
<1> DEFINE rows == Cancelled(cancelled)
           grown == Grown(rows)
<1>3. manager \in Managers /\ seqs \in Seq(Rows)
  BY CoreFacts
<1>4. /\ RowsGoOn(seqs, rows) /\ Sound(manager, rows)
      /\ \A i \in DOMAIN seqs : /\ rows[i].committed = seqs[i].committed
                                /\ rows[i].pages = seqs[i].pages /\ rows[i].tokens = seqs[i].tokens
  BY <1>1, CancelledGoOn
<1>5. GrownTo(rows, grown)
  BY <1>2
<1> HIDE DEF rows
<1>6. rows \in Seq(Rows) /\ DOMAIN rows = DOMAIN seqs
  BY <1>4 DEF RowsGoOn
<1>7. RowsTrue(rows, content)
  BY <1>4, <1>6, SameRowsTrue DEF Truth, Truths
<1>8. Stretched(manager, rows, grown, Len(rows))
  BY <1>3, <1>4, <1>6, RowsStretched
<1> HIDE DEF grown
<1>9. /\ Shrinks(manager, grown.manager) /\ DOMAIN grown.rows = DOMAIN rows
      /\ \A i \in DOMAIN rows : PagesGrow(rows[i], grown.rows[i])
  BY <1>8 DEF Stretched
<1>10. manager' = grown.manager /\ seqs' = grown.rows
  BY <1>5 DEF GrownTo
<1>11. IndexTrue(manager', content)
  BY <1>9, <1>10, ShrinksTrue DEF Truth, Truths
<1>12. ASSUME NEW k \in DOMAIN rows
       PROVE  RowTrue(grown.rows[k], content)
  <2>1. RowOK(rows[k]) /\ rows[k] \in Rows
    BY <1>4, <1>6, RowOfSequence DEF Sound
  <2>2. DOMAIN rows[k].pages = 1..Len(rows[k].pages)
    BY <2>1, RowFields
  <2>3. Keeps(rows[k], grown.rows[k])
    BY <1>9, <2>1, <2>2 DEF PagesGrow, Keeps
  <2> QED
    BY <1>7, <2>3, KeptTrue DEF RowsTrue
<1>13. Truths(manager', seqs', content)
  BY <1>9, <1>10, <1>11, <1>12 DEF Truths, RowsTrue
<1> QED
  BY <1>1, <1>13, SettledNext

(* The request is gone, and its rows with it. *)
LEMMA GoneTruth ==
  ASSUME Truth, seqs' = <<>>, UNCHANGED <<manager, content>>
  PROVE  Truth'
BY NoRowsTrue DEF Truth, Truths

(* compactBatch() keeps it: the rows that stay stay as they are. *)
LEMMA CompactBatchTruth == Core /\ Core' /\ Truth /\ CompactBatch => Truth'
<1> SUFFICES ASSUME Core, Core', Truth, CompactBatch PROVE Truth'
  OBVIOUS
<1>1. pc = "compacting" /\ (ClearFails \/ Quarantine \/ Compacted)
  BY CompactBatchIs
<1>2. CASE ClearFails
  BY <1>2 DEF ClearFails, Truth, Truths
<1>3. CASE Quarantine
  BY <1>3, GoneTruth DEF Quarantine, RequestEnds
<1>4. CASE Compacted
  <2> DEFINE less == ReleaseAll(manager, PagesOf(InOrder(seqs, GoneRows)))
             kept == InOrder(seqs, StayRows)
  <2>1. manager \in Managers /\ seqs \in Seq(Rows) /\ Sound(manager, seqs)
    BY <1>1, CoreFacts, NoneQuarantined
  <2>2. GoneRows \cup StayRows = DOMAIN seqs /\ GoneRows \cap StayRows = {}
    BY DEF GoneRows, StayRows
  <2>3. Compacts(manager, seqs, GoneRows, StayRows)
    BY <2>1, <2>2 DEF Compacts
  <2>4. less.index = manager.index /\ IsPart(seqs, kept, Ascending(StayRows))
    BY <2>3, RowsCompacted
  <2>5. manager' = less /\ seqs' = kept /\ content' = Settled(manager', content)
    BY <1>4 DEF Compacted
  <2> HIDE DEF less, kept
  <2>6. RowsTrue(kept, content)
    BY <2>4, PartIsTrue DEF IsPart, Truth, Truths
  <2>7. Truths(manager', seqs', content)
    BY <2>4, <2>5, <2>6 DEF Truth, Truths, IndexTrue
  <2> QED
    BY <2>5, <2>7, SettledNext
<1> QED
  BY <1>1, <1>2, <1>3, <1>4

(* abandon() keeps it. *)
LEMMA AbandonTruth == Core /\ Core' /\ Truth /\ Abandon => Truth'
<1> SUFFICES ASSUME Core, Core', Truth, Abandon PROVE Truth'
  OBVIOUS
<1>1. pc \notin {"idle", "closed"} /\ (Quarantine \/ Abandoned)
  BY AbandonIs
<1>2. CASE Quarantine
  BY <1>2, GoneTruth DEF Quarantine, RequestEnds
<1>3. CASE Abandoned
  <2>1. /\ manager' = ReleaseAll(manager, PagesOf(seqs)) /\ seqs' = <<>>
        /\ content' = Settled(manager', content)
    BY <1>3 DEF Abandoned, RequestEnds
  <2>2. manager \in Managers /\ seqs \in Seq(Rows) /\ Sound(manager, seqs)
    BY <1>1, CoreFacts, NoneQuarantined
  <2>3. manager'.index = manager.index
    BY <2>1, <2>2, AllAreReleased
  <2>4. Truths(manager', seqs', content)
    BY <2>1, <2>3, NoRowsTrue DEF Truth, Truths, IndexTrue
  <2> QED
    BY <2>1, <2>4, SettledNext
<1> QED
  BY <1>1, <1>2, <1>3

(* shutdown() keeps it. *)
LEMMA ShutdownTruth == Core /\ Core' /\ Truth /\ Shutdown => Truth'
<1> SUFFICES ASSUME Core, Core', Truth, Shutdown PROVE Truth'
  OBVIOUS
<1>1. /\ pc = "idle" /\ seqs' = seqs
      /\ \/ manager' = ReleaseAll(manager, quarantined) /\ content' = Settled(manager', content)
         \/ UNCHANGED <<manager, content>>
  BY DEF Shutdown
<1>2. /\ manager \in Managers /\ seqs = <<>> /\ quarantined \in Seq(Seq(Pages)) /\ ManagerOK(manager)
  BY <1>1 DEF Core, CoreTypes, Stage
<1>3. CASE UNCHANGED <<manager, content>>
  BY <1>1, <1>3 DEF Truth, Truths
<1>4. CASE manager' = ReleaseAll(manager, quarantined) /\ content' = Settled(manager', content)
  <2>1. Counts(manager.active, quarantined)
    <3>1. CASE quarantined = <<>>
      <4>1. Sound(manager, <<>>)
        BY <1>2, <3>1 DEF Core
      <4> QED
        BY <3>1, <4>1, NoRows
    <3>2. CASE quarantined # <<>>
      BY <3>2 DEF Core
    <3> QED
      BY <3>1, <3>2
  <2>2. DOMAIN quarantined = 1..Len(quarantined) /\ Len(quarantined) \in Nat
    BY <1>2
  <2>3. manager'.index = manager.index
    BY <1>2, <1>4, <2>1, <2>2, AllReleased
  <2>4. Truths(manager', seqs', content)
    BY <1>1, <2>3 DEF Truth, Truths, IndexTrue
  <2> QED
    BY <1>4, <2>4, SettledNext
<1> QED
  BY <1>1, <1>3, <1>4

(* Steps that change neither the manager nor what the device holds keep it. *)
LEMMA QuietTruth ==
  ASSUME Truth, PreparePrefill \/ BeginCompaction \/ Finish \/ Terminated \/ UNCHANGED vars
  PROVE  Truth'
<1>1. UNCHANGED <<manager, content>> /\ (seqs' = seqs \/ seqs' = <<>>)
  BY DEF PreparePrefill, BeginCompaction, Finish, RequestEnds, Terminated, vars
<1> QED
  BY <1>1, GoneTruth DEF Truth, Truths

(* Every step keeps it. *)
LEMMA TruthStep == Core /\ Core' /\ Device /\ Truth /\ [Next]_vars => Truth'
<1> SUFFICES ASSUME Core, Core', Device, Truth, [Next]_vars PROVE Truth'
  OBVIOUS
<1>1. CASE Begin
  BY <1>1, BeginTruth
<1>2. CASE PreparePrefill \/ BeginCompaction \/ Finish \/ Terminated \/ UNCHANGED vars
  BY <1>2, QuietTruth
<1>3. CASE PrefillCompletes
  BY <1>3, PrefillCompletesTruth
<1>4. CASE Join
  BY <1>4, JoinTruth
<1>5. CASE Retract
  BY <1>5, RetractTruth
<1>6. CASE SeatedPrefillFails
  BY <1>6, SeatedPrefillFailsTruth
<1>7. CASE PrepareDecode
  BY <1>7, PrepareDecodeTruth
<1>8. CASE DecodeCompletes
  BY <1>8, DecodeCompletesTruth
<1>9. CASE CompactBatch
  BY <1>9, CompactBatchTruth
<1>10. CASE Abandon
  BY <1>10, AbandonTruth
<1>11. CASE Shutdown
  BY <1>11, ShutdownTruth
<1> QED
  BY <1>1, <1>2, <1>3, <1>4, <1>5, <1>6, <1>7, <1>8, <1>9, <1>10, <1>11 DEF Next

(* The three invariants say that the cache is truthful. *)
LEMMA TruthIsTold == Core /\ Device /\ Truth => CacheIsTruthful
<1> SUFFICES ASSUME Core, Device, Truth PROVE CacheIsTruthful
  OBVIOUS
<1>1. \A block \in DOMAIN manager.index : \A o \in 1 .. PageSize :
        content[manager.index[block]][o] = SubSeq(block, 1, Len(block) - PageSize + o)
  BY DEF Truth, Truths, IndexTrue
<1>2. \A row \in Range(seqs) : row.committed < Len(row.tokens)
  <2>1. seqs = <<>> \/ Sound(manager, seqs)
    BY DEF Core, Stage
  <2> QED
    BY <2>1 DEF Sound, RowOK, Range
<1>3. \A row \in Range(seqs) : \A n \in 1 .. row.committed :
        content[row.pages[PageIndex(n)]][OffsetOf(n)] = SubSeq(row.tokens, 1, n)
  BY DEF Truth, Truths, RowsTrue, RowTrue, Range
<1>4. pc \in {"prefilling", "seating", "decoding"} =>
        \A row \in Range(seqs) : table.device[row.slot] = row.pages
  BY DEF Device, OnDevice, Range
<1>5. \A p \in inflight : manager.active[p] = 1 /\ manager.cached[p] = 0
  BY DEF Device, Private
<1> QED
  BY <1>1, <1>2, <1>3, <1>4, <1>5 DEF CacheIsTruthful

(* When failed uploads are clean, an indexed page holds the KV of its block, a       *)
(* sequence's committed positions hold its own and leave it a token to compute, the  *)
(* kernels that run go through the leases, and what they write is shared with nobody *)
(* (reuse and its rewind, publication at committed boundaries, canonical pages,      *)
(* uploads before each step).                                                        *)
THEOREM CacheAlwaysTruthful == ASSUME CleanFailures PROVE Spec => []CacheIsTruthful
<1>1. Init => Core /\ Device /\ Truth
  BY InitCore, InitDevice, InitTruth
<1>2. Core /\ Device /\ Truth /\ [Next]_vars => (Core /\ Device /\ Truth)'
  BY CoreStep, DeviceStep, TruthStep
<1>3. Core /\ Device /\ Truth => CacheIsTruthful
  BY TruthIsTold
<1> QED
  BY <1>1, <1>2, <1>3, PTL DEF Spec

-----------------------------------------------------------------------------
(* The types of the page table and of what kernels may write, which need no *)
(* hypothesis: a row that was not uploaded is still a row.                  *)

(* Lists of pages that fit into a row of the table. *)
PageLists == {pages \in Seq(Pages) : Len(pages) <= MaxPagesPerSeq}
NarrowTables == [host : [Slots -> PageLists], uploaded : [Slots -> PageLists],
                 device : [Slots -> PageLists]]

(* Rows that fit into it. *)
NarrowRows == {row \in Rows : Len(row.pages) <= MaxPagesPerSeq}

(* The types that Core does not have. *)
TableTypes == table \in NarrowTables /\ inflight \subseteq Pages /\ pending \in BOOLEAN

(* Every row starts with as many pages as it has places. *)
LEMMA IdentityIsNarrow == IdentityTable \in NarrowTables
<1> DEFINE rows == [s \in Slots |-> [j \in 1..MaxPagesPerSeq |-> s * MaxPagesPerSeq + j - 1]]
<1>1. MaxPagesPerSeq \in Nat
  BY TableAssumption
<1>2. rows \in [Slots -> PageLists]
  <2>1. ASSUME NEW s \in Slots
        PROVE  [j \in 1..MaxPagesPerSeq |-> s * MaxPagesPerSeq + j - 1] \in PageLists
    <3> DEFINE list == [j \in 1..MaxPagesPerSeq |-> s * MaxPagesPerSeq + j - 1]
    <3>1. list \in Seq(Pages)
      BY IdentityRow
    <3>2. Len(list) = MaxPagesPerSeq
      BY <1>1, <3>1
    <3> HIDE DEF list
    <3>3. list \in PageLists
      BY <1>1, <3>1, <3>2 DEF PageLists
    <3> QED
      BY <3>3 DEF list
  <2> QED
    BY <2>1
<1>3. IdentityTable = [host |-> rows, uploaded |-> rows, device |-> rows]
  BY DEF IdentityTable
<1> HIDE DEF rows
<1> QED
  BY <1>2, <1>3 DEF NarrowTables

(* Uploads that succeed or fail only copy rows. *)
LEMMA UploadIsNarrow ==
  ASSUME NEW t \in NarrowTables
  PROVE  /\ Upload(t) \in NarrowTables
         /\ \A failed \in FailedUploads(t) : failed \in NarrowTables
<1>1. /\ t.host \in [Slots -> PageLists] /\ t.uploaded \in [Slots -> PageLists]
      /\ t.device \in [Slots -> PageLists]
  BY DEF NarrowTables
<1> DEFINE sent == [s \in Slots |-> IF s \in DirtyRows(t) THEN t.host[s] ELSE t.device[s]]
<1>2. sent \in [Slots -> PageLists]
  BY <1>1
<1>3. Copied(t) = [t EXCEPT !.device = sent]
  BY <1>1 DEF Copied, NarrowTables
<1> HIDE DEF sent
<1>4. Copied(t) \in NarrowTables
  BY <1>2, <1>3 DEF NarrowTables
<1>5. Upload(t) \in NarrowTables
  BY <1>1, <1>4 DEF Upload, NarrowTables
<1>6. \A failed \in FailedUploads(t) : failed = t \/ failed = Copied(t)
  BY DEF FailedUploads
<1> QED
  BY <1>4, <1>5, <1>6

(* Binding rows that fit keeps the table's types. *)
LEMMA SetRowsIsNarrow ==
  ASSUME NEW t \in NarrowTables, NEW rows, rows \subseteq NarrowRows
  PROVE  SetRows(t, rows) \in NarrowTables
<1> DEFINE Of(s) == CHOOSE row \in rows : row.slot = s
           host == [s \in Slots |-> IF s \in {row.slot : row \in rows} THEN Of(s).pages ELSE t.host[s]]
<1>1. t.host \in [Slots -> PageLists]
  BY DEF NarrowTables
<1>2. SetRows(t, rows) = [t EXCEPT !.host = host]
  BY <1>1 DEF SetRows, NarrowTables
<1>3. \A s \in {row.slot : row \in rows} : Of(s) \in rows
  OBVIOUS
<1>4. ASSUME NEW row \in rows PROVE row.pages \in PageLists
  <2>1. row \in Rows /\ Len(row.pages) <= MaxPagesPerSeq
    BY DEF NarrowRows
  <2>2. row.pages \in Seq(Pages)
    BY <2>1, RowFields
  <2> QED
    BY <2>1, <2>2 DEF PageLists
<1>5. host \in [Slots -> PageLists]
  BY <1>1, <1>3, <1>4
<1> HIDE DEF host
<1> QED
  BY <1>2, <1>5 DEF NarrowTables

(* So does clearing rows. *)
LEMMA ClearRowsIsNarrow ==
  ASSUME NEW t \in NarrowTables, NEW rows, rows \subseteq Rows
  PROVE  ClearRows(t, rows) \in NarrowTables
<1> DEFINE gone == {[row EXCEPT !.pages = <<>>] : row \in rows}
<1>1. ASSUME NEW row \in rows PROVE [row EXCEPT !.pages = <<>>] \in NarrowRows
  <2> DEFINE bare == [row EXCEPT !.pages = <<>>]
  <2>1. row \in Rows /\ <<>> \in Seq(Pages)
    OBVIOUS
  <2>2. bare \in Rows /\ bare.pages = <<>>
    BY <2>1 DEF Rows
  <2> HIDE DEF bare
  <2>3. Len(bare.pages) <= MaxPagesPerSeq
    BY <2>2, TableAssumption
  <2>4. bare \in NarrowRows
    BY <2>2, <2>3 DEF NarrowRows
  <2> QED
    BY <2>4 DEF bare
<1>2. gone \subseteq NarrowRows
  BY <1>1
<1>3. ClearRows(t, rows) = SetRows(t, gone)
  BY DEF ClearRows
<1> HIDE DEF gone
<1> QED
  BY <1>2, <1>3, SetRowsIsNarrow

(* Kernels reach pages. *)
LEMMA KernelsReachPages ==
  ASSUME NEW t \in NarrowTables, NEW row \in Rows
  PROVE  /\ KernelPages(t, row, PrefillSpan(row)) \subseteq Pages
         /\ KernelPages(t, row, DecodeSpan(row)) \subseteq Pages
<1>1. row.slot \in Slots /\ row.committed \in Nat /\ Len(row.tokens) \in Nat
  BY RowFields
<1>2. t.device[row.slot] \in Seq(Pages)
  BY <1>1 DEF NarrowTables, PageLists
<1>3. \A n \in Nat : n >= 1 => PageIndex(n) \in Nat /\ PageIndex(n) >= 1
  BY Positions
<1>4. ASSUME NEW n \in Nat, n >= 1, PageIndex(n) <= Len(t.device[row.slot])
      PROVE  t.device[row.slot][PageIndex(n)] \in Pages
  BY <1>2, <1>3, <1>4
<1>5. \A n \in PrefillSpan(row) : n \in Nat /\ n >= 1
  BY <1>1 DEF PrefillSpan
<1>6. \A n \in DecodeSpan(row) : n \in Nat /\ n >= 1
  BY <1>1 DEF DecodeSpan
<1>7. KernelPages(t, row, PrefillSpan(row)) \subseteq Pages
  BY <1>4, <1>5 DEF KernelPages
<1>8. KernelPages(t, row, DecodeSpan(row)) \subseteq Pages
  BY <1>4, <1>6 DEF KernelPages
<1> QED
  BY <1>7, <1>8

(* The rows that hold leases fit into the table. *)
LEMMA RowsAreNarrow ==
  ASSUME NEW m, NEW rows \in Seq(Rows), rows = <<>> \/ Sound(m, rows)
  PROVE  Range(rows) \subseteq NarrowRows /\ Range(rows) \subseteq Rows
<1>1. ASSUME NEW k \in DOMAIN rows PROVE rows[k] \in NarrowRows /\ rows[k] \in Rows
  <2>1. rows[k] \in Rows
    BY RowOfSequence
  <2>2. Sound(m, rows)
    OBVIOUS
  <2>3. RowOK(rows[k])
    BY <2>2 DEF Sound
  <2>4. Len(rows[k].pages) <= MaxPagesPerSeq
    BY <2>3 DEF RowOK
  <2> QED
    BY <2>1, <2>4 DEF NarrowRows
<1> QED
  BY <1>1 DEF Range

(* So do those of the state, and the last of them when a joiner is being seated. *)
LEMMA LeasedRowsAreNarrow ==
  ASSUME Core
  PROVE  /\ Range(seqs) \subseteq NarrowRows /\ Range(seqs) \subseteq Rows
         /\ pc = "seating" => Last(seqs) \in Range(seqs)
<1>1. seqs \in Seq(Rows) /\ (seqs = <<>> \/ Sound(manager, seqs))
  BY DEF Core, CoreTypes, Stage
<1>2. Range(seqs) \subseteq NarrowRows /\ Range(seqs) \subseteq Rows
  BY <1>1, RowsAreNarrow
<1>3. ASSUME pc = "seating" PROVE Last(seqs) \in Range(seqs)
  <2>1. Len(seqs) >= 2 /\ Len(seqs) \in Nat /\ DOMAIN seqs = 1..Len(seqs)
    BY <1>1, <1>3 DEF Core, Stage
  <2>2. Len(seqs) \in DOMAIN seqs
    BY <2>1
  <2> QED
    BY <2>2 DEF Last, Range
<1> QED
  BY <1>2, <1>3

(* preparePrefill() keeps the types. *)
LEMMA PreparePrefillTypes == Core /\ TableTypes /\ PreparePrefill => TableTypes'
<1> SUFFICES ASSUME Core, TableTypes, PreparePrefill PROVE TableTypes'
  OBVIOUS
<1> DEFINE bound == SetRows(table, Range(seqs))
<1>1. /\ pending' = TRUE
      /\ table' = Upload(bound) \/ table' \in FailedUploads(bound)
      /\ \/ inflight' = {} \/ inflight' = inflight
         \/ inflight' = UNION {KernelPages(table', row, PrefillSpan(row)) : row \in Range(seqs)}
  BY DEF PreparePrefill
<1>2. table \in NarrowTables /\ inflight \subseteq Pages
  BY DEF TableTypes
<1>3. bound \in NarrowTables
  BY <1>2, LeasedRowsAreNarrow, SetRowsIsNarrow
<1> HIDE DEF bound
<1>4. table' \in NarrowTables
  BY <1>1, <1>3, UploadIsNarrow
<1>5. \A row \in Range(seqs) : KernelPages(table', row, PrefillSpan(row)) \subseteq Pages
  BY <1>4, LeasedRowsAreNarrow, KernelsReachPages
<1>6. inflight' \subseteq Pages
  BY <1>1, <1>2, <1>5
<1> QED
  BY <1>1, <1>4, <1>6 DEF TableTypes

(* reserveAdmission() and admitSequence() keep them. *)
LEMMA JoinTypes == Core /\ TableTypes /\ Join => TableTypes'
<1> SUFFICES ASSUME Core, TableTypes, Join PROVE TableTypes'
  OBVIOUS
<1>1. pc = "settled" /\ UNCHANGED <<pending, inflight>>
  BY JoinIs
<1>2. PICK prompt \in Prompts, slot \in Slots \ {row.slot : row \in Range(seqs)} : JoinedBy(prompt, slot)
  BY JoinIs
<1> DEFINE lease == Acquire(manager, prompt, seqs[1].lookup)
           row == NewRow(prompt, seqs[1].lookup, slot, lease)
           all == Append(seqs, row)
<1>3. IF ~lease.acquired THEN NoSeat(lease) ELSE Seated(lease, row) \/ Withdrawn(lease, row)
  BY <1>2 DEF JoinedBy, Joiner
<1>4. table \in NarrowTables
  BY DEF TableTypes
<1>5. ASSUME lease.acquired PROVE {row} \subseteq NarrowRows /\ {row} \subseteq Rows
  <2>1. Seats(manager, seqs, prompt, seqs[1].lookup, slot, lease)
    BY <1>1, JoinerSeats
  <2> HIDE DEF lease
  <2>2. row \in Rows /\ Sound(lease.manager, all) /\ all \in Seq(Rows)
    BY <1>5, <2>1, RowSeated
  <2> HIDE DEF row
  <2>3. seqs \in Seq(Rows) /\ Len(seqs) \in Nat
    BY CoreFacts
  <2>4. Len(seqs) + 1 \in DOMAIN all /\ all[Len(seqs) + 1] = row
    BY <2>2, <2>3
  <2> HIDE DEF all
  <2>5. RowOK(row)
    BY <2>2, <2>4 DEF Sound
  <2> QED
    BY <2>2, <2>5 DEF RowOK, NarrowRows
<1> HIDE DEF lease, row, all
<1>6. CASE ~lease.acquired
  BY <1>1, <1>3, <1>6 DEF NoSeat, TableTypes
<1>7. CASE lease.acquired
  <2> DEFINE bound == SetRows(table, {row})
  <2>1. bound \in NarrowTables
    BY <1>4, <1>5, <1>7, SetRowsIsNarrow
  <2>2. CASE Seated(lease, row)
    <3>1. table' = Upload(bound)
      BY <2>2 DEF Seated
    <3> HIDE DEF bound
    <3>2. table' \in NarrowTables
      BY <2>1, <3>1, UploadIsNarrow
    <3> QED
      BY <1>1, <3>2 DEF TableTypes
  <2>3. CASE Withdrawn(lease, row)
    <3>1. PICK failed \in FailedUploads(bound) : TakenBack(failed, row)
      BY <2>3 DEF Withdrawn
    <3> HIDE DEF bound
    <3>2. failed \in NarrowTables
      BY <2>1, UploadIsNarrow
    <3>3. ClearRows(failed, {row}) \in NarrowTables
      BY <1>5, <1>7, <3>2, ClearRowsIsNarrow
    <3>4. table' = Upload(ClearRows(failed, {row})) \/ table' \in FailedUploads(ClearRows(failed, {row}))
      BY <3>1 DEF TakenBack
    <3>5. table' \in NarrowTables
      BY <3>3, <3>4, UploadIsNarrow
    <3> QED
      BY <1>1, <3>5 DEF TableTypes
  <2> QED
    BY <1>3, <1>7, <2>2, <2>3
<1> QED
  BY <1>6, <1>7

(* retractSequenceAdmission() keeps them. *)
LEMMA RetractTypes == Core /\ TableTypes /\ Retract => TableTypes'
<1> SUFFICES ASSUME Core, TableTypes, Retract PROVE TableTypes'
  OBVIOUS
<1> DEFINE cleared == ClearRows(table, {Last(seqs)})
<1>1. /\ pc = "seating" /\ UNCHANGED <<pending, inflight>>
      /\ table' = Upload(cleared) \/ table' \in FailedUploads(cleared)
  BY DEF Retract
<1>2. Last(seqs) \in Range(seqs)
  BY <1>1, LeasedRowsAreNarrow
<1>3. {Last(seqs)} \subseteq Rows
  BY <1>2, LeasedRowsAreNarrow
<1>4. cleared \in NarrowTables
  BY <1>3, ClearRowsIsNarrow DEF TableTypes
<1> HIDE DEF cleared
<1>5. table' \in NarrowTables
  BY <1>1, <1>4, UploadIsNarrow
<1> QED
  BY <1>1, <1>5 DEF TableTypes

(* A joiner's failed prefill keeps them. *)
LEMMA SeatedPrefillFailsTypes == Core /\ TableTypes /\ SeatedPrefillFails => TableTypes'
<1> SUFFICES ASSUME Core, TableTypes, SeatedPrefillFails PROVE TableTypes'
  OBVIOUS
<1>1. /\ pc = "seating" /\ UNCHANGED table /\ pending' \in BOOLEAN
      /\ inflight' = KernelPages(table, Last(seqs), PrefillSpan(Last(seqs)))
  BY InputAssumption DEF SeatedPrefillFails
<1>2. Last(seqs) \in Rows
  BY <1>1, LeasedRowsAreNarrow
<1>3. inflight' \subseteq Pages
  BY <1>1, <1>2, KernelsReachPages DEF TableTypes
<1> QED
  BY <1>1, <1>3 DEF TableTypes

(* prepareDecodeStep() keeps them. *)
LEMMA PrepareDecodeTypes == Core /\ Core' /\ TableTypes /\ PrepareDecode => TableTypes'
<1> SUFFICES ASSUME Core, Core', TableTypes, PrepareDecode PROVE TableTypes'
  OBVIOUS
<1>1. PICK cancelled \in SUBSET DOMAIN seqs :
        GrownTo(Cancelled(cancelled), Grown(Cancelled(cancelled)))
  BY PrepareDecodeIs
<1> DEFINE some == Range(Grown(Cancelled(cancelled)).rows) \ Range(Cancelled(cancelled))
           bound == SetRows(table, some)
<1>2. /\ seqs' = Grown(Cancelled(cancelled)).rows
      /\ table' = table \/ table' = Upload(bound) \/ table' \in FailedUploads(bound)
      /\ pending' = pending \/ pending' = TRUE
      /\ \/ inflight' = inflight
         \/ inflight' = UNION {KernelPages(table', row, DecodeSpan(row)) : row \in Range(seqs')}
  BY <1>1 DEF GrownTo
<1>3. Range(seqs') \subseteq NarrowRows /\ Range(seqs') \subseteq Rows
  <2>1. seqs' \in Seq(Rows) /\ (seqs' = <<>> \/ Sound(manager', seqs'))
    BY DEF Core, CoreTypes, Stage
  <2> QED
    BY <2>1, RowsAreNarrow
<1>4. some \subseteq NarrowRows
  BY <1>2, <1>3
<1>5. table \in NarrowTables /\ inflight \subseteq Pages /\ pending \in BOOLEAN
  BY DEF TableTypes
<1>6. bound \in NarrowTables
  BY <1>4, <1>5, SetRowsIsNarrow
<1> HIDE DEF some, bound
<1>7. table' \in NarrowTables
  BY <1>2, <1>5, <1>6, UploadIsNarrow
<1>8. \A row \in Range(seqs') : KernelPages(table', row, DecodeSpan(row)) \subseteq Pages
  BY <1>3, <1>7, KernelsReachPages
<1>9. inflight' \subseteq Pages
  BY <1>2, <1>5, <1>8
<1> QED
  BY <1>2, <1>5, <1>7, <1>9 DEF TableTypes

(* compactBatch() keeps them. *)
LEMMA CompactBatchTypes == Core /\ TableTypes /\ CompactBatch => TableTypes'
<1> SUFFICES ASSUME Core, TableTypes, CompactBatch PROVE TableTypes'
  OBVIOUS
<1> DEFINE gone == Range(InOrder(seqs, GoneRows))
           cleared == ClearRows(table, gone)
<1>1. ClearFails \/ (Quarantine /\ table' = Upload(cleared)) \/ Compacted
  BY CompactBatchIs
<1>2. /\ table' = Upload(cleared) \/ table' \in FailedUploads(cleared)
      /\ inflight' = inflight \/ inflight' = {}
      /\ pending' = pending \/ pending' = FALSE
  BY <1>1 DEF ClearFails, Quarantine, RequestEnds, Compacted
<1>3. seqs \in Seq(Rows) /\ GoneRows \subseteq DOMAIN seqs
  BY CoreFacts DEF GoneRows
<1>4. gone = {seqs[i] : i \in GoneRows}
  BY <1>3, InOrderItems
<1>5. gone \subseteq Rows
  BY <1>3, <1>4, RowOfSequence
<1> HIDE DEF gone
<1>6. cleared \in NarrowTables
  BY <1>5, ClearRowsIsNarrow DEF TableTypes
<1> HIDE DEF cleared
<1>7. table' \in NarrowTables
  BY <1>2, <1>6, UploadIsNarrow
<1> QED
  BY <1>2, <1>7 DEF TableTypes

(* Every step keeps them. *)
LEMMA TypesStep == Core /\ Core' /\ TableTypes /\ [Next]_vars => TableTypes'
<1> SUFFICES ASSUME Core, Core', TableTypes, [Next]_vars PROVE TableTypes'
  OBVIOUS
<1>1. CASE PreparePrefill
  BY <1>1, PreparePrefillTypes
<1>2. CASE Join
  BY <1>2, JoinTypes
<1>3. CASE Retract
  BY <1>3, RetractTypes
<1>4. CASE SeatedPrefillFails
  BY <1>4, SeatedPrefillFailsTypes
<1>5. CASE PrepareDecode
  BY <1>5, PrepareDecodeTypes
<1>6. CASE CompactBatch
  BY <1>6, CompactBatchTypes
<1>7. CASE Begin
  BY <1>7 DEF Begin, TableTypes
<1>8. CASE PrefillCompletes
  BY <1>8 DEF PrefillCompletes, TableTypes
<1>9. CASE DecodeCompletes
  BY <1>9 DEF DecodeCompletes, TableTypes
<1>10. CASE BeginCompaction \/ Finish
  BY <1>10 DEF BeginCompaction, Finish, RequestEnds, TableTypes
<1>11. CASE Abandon
  <2>1. /\ table' = table /\ pending' = FALSE
        /\ inflight' = inflight \/ inflight' = {}
    BY <1>11 DEF Abandon, Quarantine, RequestEnds
  <2> QED
    BY <2>1 DEF TableTypes
<1>12. CASE Shutdown
  BY <1>12 DEF Shutdown, TableTypes
<1>13. CASE Terminated \/ UNCHANGED vars
  BY <1>13 DEF Terminated, vars, TableTypes
<1> QED
  BY <1>1, <1>2, <1>3, <1>4, <1>5, <1>6, <1>7, <1>8, <1>9, <1>10, <1>11, <1>12, <1>13 DEF Next

(* With Core they are the type invariant. *)
LEMMA TypesAreOK == Core /\ TableTypes => TypeOK
<1> SUFFICES ASSUME Core, TableTypes PROVE TypeOK
  OBVIOUS
<1>1. ASSUME NEW s \in Slots
      PROVE  /\ Range(table.host[s]) \cup Range(table.device[s]) \subseteq Pages
             /\ Len(table.host[s]) <= MaxPagesPerSeq
  <2>1. /\ table.host[s] \in Seq(Pages) /\ Len(table.host[s]) <= MaxPagesPerSeq
        /\ table.device[s] \in Seq(Pages)
    BY DEF TableTypes, NarrowTables, PageLists
  <2>2. ASSUME NEW list \in Seq(Pages) PROVE Range(list) \subseteq Pages
    BY DEF Range
  <2> QED
    BY <2>1, <2>2
<1>2. ASSUME NEW row \in Range(seqs)
      PROVE  /\ row.slot \in Slots /\ row.committed <= Len(row.tokens)
             /\ Len(row.pages) <= MaxPagesPerSeq
  <2>1. row \in Rows /\ Len(row.pages) <= MaxPagesPerSeq
    BY LeasedRowsAreNarrow DEF NarrowRows
  <2>2. row.slot \in Slots /\ row.committed \in Nat /\ Len(row.tokens) \in Nat
    BY <2>1, RowFields
  <2>3. seqs = <<>> \/ Sound(manager, seqs)
    BY DEF Core, Stage
  <2>4. PICK k \in DOMAIN seqs : row = seqs[k]
    BY DEF Range
  <2>5. Sound(manager, seqs)
    BY <2>3, <2>4
  <2>6. RowOK(row)
    BY <2>4, <2>5 DEF Sound
  <2>7. row.committed < Len(row.tokens)
    BY <2>6 DEF RowOK
  <2> QED
    BY <2>1, <2>2, <2>7
<1>3. pc \in {"idle", "begun", "prefilling", "settled", "seating", "decoding", "evicting",
              "compacting", "finishing", "failed", "closed"}
      /\ poisoned \in BOOLEAN
  BY CoreFacts
<1>4. inflight \subseteq Pages /\ pending \in BOOLEAN
  BY DEF TableTypes
<1> QED
  BY <1>1, <1>2, <1>3, <1>4 DEF TypeOK

(* Every variable keeps its type, and no row of the table is longer than the table *)
(* is wide, whatever uploads and prefills do (contextCacheCoordinator.cpp,         *)
(* kvPageTable.cpp).                                                               *)
THEOREM TypeCorrect == Spec => []TypeOK
<1>1. Init => Core /\ TableTypes
  <2>1. Init => TableTypes
    BY IdentityIsNarrow DEF Init, TableTypes
  <2> QED
    BY <2>1, InitCore
<1>2. Core /\ TableTypes /\ [Next]_vars => (Core /\ TableTypes)'
  BY CoreStep, TypesStep
<1> QED
  BY <1>1, <1>2, TypesAreOK, PTL DEF Spec
=============================================================================
