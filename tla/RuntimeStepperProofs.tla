------------------------ MODULE RuntimeStepperProofs ------------------------
(***************************************************************************)
(* Proofs about module RuntimeStepper and the pool of resident slots.      *)
(* First the pool, as a value; then what the eviction of a set of rows     *)
(* leaves; then the inductive invariant, one lemma per way in which a tick *)
(* changes a batch; and the theorems.                                      *)
(***************************************************************************)
EXTENDS RuntimeStepper, FiniteSetTheorems, SequenceTheorems, TLAPS

-----------------------------------------------------------------------------
(* The pool.                                                               *)

(* reset() leaves every slot free. *)
LEMMA FreshPool ==
  /\ Reset \in Pools
  /\ Consistent(Reset)
  /\ Reset.occupied = {}
  /\ Reset.epochs = [s \in Slots |-> 1]
  /\ Available(Reset) = Capacity
<1>0. Capacity \in Nat
  BY PoolCapacityAssumption
<1> DEFINE line == [i \in 1..Capacity |-> Capacity - i]
<1>1. /\ line \in Seq(Slots)
      /\ Len(line) = Capacity
      /\ DOMAIN line = 1..Capacity
  BY <1>0 DEF Slots
<1>2. {line[i] : i \in DOMAIN line} = Slots
  <2>1. ASSUME NEW s \in Slots
        PROVE  Capacity - s \in 1..Capacity /\ line[Capacity - s] = s
    BY <1>0 DEF Slots
  <2>2. \A i \in DOMAIN line : line[i] \in Slots
    BY <1>0, <1>1 DEF Slots
  <2> QED
    BY <1>1, <2>1, <2>2
<1>3. \A i, j \in DOMAIN line : i # j => line[i] # line[j]
  BY <1>0
<1>4. Reset = [epochs |-> [s \in Slots |-> 1], occupied |-> {}, free |-> line]
  BY DEF Reset
<1> HIDE DEF line
<1> QED
  BY <1>1, <1>2, <1>3, <1>4 DEF Pools, Consistent, Available

(* acquire() hands out a slot that was free, and changes no epoch. *)
LEMMA TakeSlot ==
  ASSUME NEW p \in Pools, Consistent(p), Available(p) > 0
  PROVE  /\ Acquired(p) \in Refs
         /\ Acquired(p).slot \notin p.occupied
         /\ Acquired(p).epoch = p.epochs[Acquired(p).slot]
         /\ AfterAcquire(p) \in Pools
         /\ Consistent(AfterAcquire(p))
         /\ AfterAcquire(p).occupied = p.occupied \cup {Acquired(p).slot}
         /\ AfterAcquire(p).epochs = p.epochs
<1> DEFINE line == p.free
           last == Len(line)
           rest == SubSeq(line, 1, last - 1)
<1>1. /\ line \in Seq(Slots)
      /\ p.epochs \in [Slots -> Nat \ {0}]
      /\ p.occupied \in SUBSET Slots
  BY DEF Pools
<1>2. last \in Nat \ {0} /\ DOMAIN line = 1..last
  BY <1>1 DEF Available
<1>3. /\ rest \in Seq(Slots)
      /\ Len(rest) = last - 1
      /\ DOMAIN rest = 1..(last - 1)
      /\ \A i \in 1..(last - 1) : rest[i] = line[i]
  BY <1>1, <1>2
<1>4. /\ Acquired(p).slot = line[last]
      /\ Acquired(p).epoch = p.epochs[line[last]]
      /\ Acquired(p) = [slot |-> line[last], epoch |-> p.epochs[line[last]]]
  BY DEF Acquired
<1>5. line[last] \in Slots
  BY <1>1, <1>2
<1>6. /\ AfterAcquire(p).occupied = p.occupied \cup {line[last]}
      /\ AfterAcquire(p).free = rest
      /\ AfterAcquire(p).epochs = p.epochs
      /\ AfterAcquire(p) \in Pools
  <2>1. AfterAcquire(p) = [epochs |-> p.epochs, occupied |-> p.occupied \cup {line[last]},
                           free |-> rest]
    BY <1>4 DEF AfterAcquire
  <2> HIDE DEF line, last, rest
  <2> QED
    BY <1>1, <1>3, <1>5, <2>1 DEF Pools
<1>7. /\ {line[i] : i \in 1..last} = Slots \ p.occupied
      /\ \A i, j \in 1..last : i # j => line[i] # line[j]
  BY <1>2 DEF Consistent
<1> HIDE DEF line, last, rest
<1>8. {rest[i] : i \in 1..(last - 1)} = Slots \ (p.occupied \cup {line[last]})
  <2>1. ASSUME NEW i \in 1..(last - 1)
        PROVE  i \in 1..last /\ i # last /\ last \in 1..last
    BY <1>2
  <2>2. ASSUME NEW i \in 1..last, i # last
        PROVE  i \in 1..(last - 1)
    BY <1>2, <2>2
  <2> QED
    BY <1>3, <1>7, <2>1, <2>2
<1>9. \A i, j \in 1..(last - 1) : i # j => rest[i] # rest[j]
  BY <1>2, <1>3, <1>7
<1>10. line[last] \notin p.occupied
  BY <1>2, <1>7
<1>11. Acquired(p) \in Refs
  BY <1>1, <1>4, <1>5 DEF Refs
<1>12. Consistent(AfterAcquire(p))
  BY <1>3, <1>6, <1>8, <1>9 DEF Consistent
<1> QED
  BY <1>4, <1>6, <1>10, <1>11, <1>12

(* release() of references that hold different slots frees these and makes every     *)
(* reference to them out of date.                                                    *)
LEMMA GiveSlotsBack ==
  ASSUME NEW p \in Pools, Consistent(p), NEW refs \in Seq(Refs),
         \A i \in DOMAIN refs : refs[i].slot \in p.occupied,
         \A i, j \in DOMAIN refs : i # j => refs[i].slot # refs[j].slot
  PROVE  /\ AfterRelease(p, refs) \in Pools
         /\ Consistent(AfterRelease(p, refs))
         /\ AfterRelease(p, refs).occupied = p.occupied \ SlotsOf(refs)
         /\ \A s \in Slots : AfterRelease(p, refs).epochs[s] =
                               IF s \in SlotsOf(refs) THEN p.epochs[s] + 1 ELSE p.epochs[s]
<1> DEFINE line == p.free
           back == [i \in DOMAIN refs |-> refs[i].slot]
           whole == line \o back
           m == Len(line)
           n == Len(refs)
           epochs == [s \in Slots |-> IF s \in SlotsOf(refs) THEN p.epochs[s] + 1
                                      ELSE p.epochs[s]]
<1>1. /\ line \in Seq(Slots)
      /\ p.epochs \in [Slots -> Nat \ {0}]
      /\ p.occupied \in SUBSET Slots
  BY DEF Pools
<1>2. /\ m \in Nat /\ n \in Nat
      /\ DOMAIN line = 1..m
      /\ DOMAIN refs = 1..n
  BY <1>1
<1>3. back \in Seq(Slots) /\ Len(back) = n
  <2>1. \A i \in 1..n : refs[i] \in Refs
    BY <1>2
  <2>2. \A i \in 1..n : refs[i].slot \in Slots
    BY <2>1 DEF Refs
  <2> QED
    BY <1>2, <2>2
<1>4. /\ whole \in Seq(Slots)
      /\ DOMAIN whole = 1..(m + n)
      /\ \A i \in 1..m : whole[i] = line[i]
      /\ \A i \in 1..n : whole[m + i] = refs[i].slot
  <2>1. \A i \in 1..n : back[i] = refs[i].slot
    BY <1>2
  <2> HIDE DEF line, back
  <2>2. \A i \in 1..n : whole[m + i] = back[i]
    BY <1>1, <1>2, <1>3
  <2>3. whole \in Seq(Slots) /\ Len(whole) = m + n
    <3>1. /\ line \o back \in Seq(Slots)
          /\ Len(line \o back) = Len(line) + Len(back)
      BY <1>1, <1>3, ConcatProperties
    <3> QED
      BY <1>3, <3>1
  <2>4. \A i \in 1..m : whole[i] = line[i]
    BY <1>1, <1>2, <1>3
  <2> QED
    BY <2>1, <2>2, <2>3, <2>4
<1>5. /\ AfterRelease(p, refs).occupied = p.occupied \ SlotsOf(refs)
      /\ AfterRelease(p, refs).free = whole
      /\ AfterRelease(p, refs).epochs = epochs
      /\ AfterRelease(p, refs) \in Pools
  <2>1. epochs \in [Slots -> Nat \ {0}]
    BY <1>1
  <2>2. AfterRelease(p, refs) = [epochs |-> epochs, occupied |-> p.occupied \ SlotsOf(refs),
                                 free |-> whole]
    BY DEF AfterRelease
  <2> HIDE DEF line, back, whole, epochs
  <2> QED
    BY <1>1, <1>4, <2>1, <2>2 DEF Pools
<1>6. /\ {line[i] : i \in 1..m} = Slots \ p.occupied
      /\ \A i, j \in 1..m : i # j => line[i] # line[j]
  BY <1>2 DEF Consistent
<1>7. SlotsOf(refs) = {refs[i].slot : i \in 1..n} /\ SlotsOf(refs) \subseteq p.occupied
  BY <1>2 DEF SlotsOf
<1>8. \A s \in Slots : epochs[s] = IF s \in SlotsOf(refs) THEN p.epochs[s] + 1 ELSE p.epochs[s]
  OBVIOUS
<1> HIDE DEF line, back, whole, m, n, epochs
<1>9. \A k \in 1..(m + n) : k \in 1..m \/ (k - m \in 1..n /\ m + (k - m) = k)
  BY <1>2
<1>10. \A i \in 1..n : m + i \in 1..(m + n)
  BY <1>2
<1>11. \A i \in 1..m : i \in 1..(m + n)
  BY <1>2
<1>12. {whole[k] : k \in 1..(m + n)} = Slots \ (p.occupied \ SlotsOf(refs))
  <2>1. ASSUME NEW k \in 1..(m + n)
        PROVE  whole[k] \in Slots \ (p.occupied \ SlotsOf(refs))
    <3>1. CASE k \in 1..m
      BY <1>4, <1>6, <3>1
    <3>2. CASE k - m \in 1..n /\ m + (k - m) = k
      BY <1>1, <1>4, <1>7, <3>2
    <3> QED
      BY <1>9, <3>1, <3>2
  <2>2. ASSUME NEW s \in Slots \ (p.occupied \ SlotsOf(refs))
        PROVE  \E k \in 1..(m + n) : whole[k] = s
    <3>1. CASE s \in SlotsOf(refs)
      BY <1>4, <1>7, <1>10, <3>1
    <3>2. CASE s \notin p.occupied
      BY <1>4, <1>6, <1>11, <3>2
    <3> QED
      BY <3>1, <3>2
  <2> QED
    BY <2>1, <2>2
<1>13. ASSUME NEW j \in 1..(m + n), NEW k \in 1..(m + n), j # k
       PROVE  whole[j] # whole[k]
  <2>1. CASE j \in 1..m /\ k \in 1..m
    BY <1>4, <1>6, <1>13, <2>1
  <2>2. CASE j \in 1..m /\ k - m \in 1..n /\ m + (k - m) = k
    BY <1>4, <1>6, <1>7, <2>2
  <2>3. CASE k \in 1..m /\ j - m \in 1..n /\ m + (j - m) = j
    BY <1>4, <1>6, <1>7, <2>3
  <2>4. CASE /\ j - m \in 1..n /\ m + (j - m) = j
             /\ k - m \in 1..n /\ m + (k - m) = k
    <3>1. j - m # k - m
      BY <1>13, <2>4
    <3> QED
      BY <1>2, <1>4, <2>4, <3>1
  <2> QED
    BY <1>9, <2>1, <2>2, <2>3, <2>4
<1> QED
  BY <1>4, <1>5, <1>8, <1>12, <1>13 DEF Consistent

(* What is not taken is free. *)
LEMMA SlotsAreCounted ==
  ASSUME NEW p \in Pools, Consistent(p)
  PROVE  /\ IsFiniteSet(p.occupied)
         /\ Available(p) = Capacity - Cardinality(p.occupied)
<1> DEFINE line == p.free
           m == Len(line)
<1>1. line \in Seq(Slots) /\ p.occupied \in SUBSET Slots
  BY DEF Pools
<1>2. m \in Nat /\ DOMAIN line = 1..m /\ line \in [1..m -> Slots]
  BY <1>1
<1>3. /\ {line[i] : i \in 1..m} = Slots \ p.occupied
      /\ \A i, j \in 1..m : i # j => line[i] # line[j]
  BY <1>2 DEF Consistent
<1> HIDE DEF line, m
<1>4. line \in Bijection(1..m, Slots \ p.occupied)
  <2>1. line \in [1..m -> Slots \ p.occupied]
    BY <1>2, <1>3
  <2> QED
    BY <1>3, <2>1 DEF Bijection, Injection, Surjection, IsInjective
<1>5. IsFiniteSet(1..m) /\ Cardinality(1..m) = m
  <2>1. 1 \in Int /\ m \in Int
    BY <1>2
  <2>2. Cardinality(1..m) = IF 1 > m THEN 0 ELSE m - 1 + 1
    BY <2>1, FS_Interval
  <2> QED
    BY <1>2, <2>1, <2>2, FS_Interval
<1>6. Cardinality(Slots \ p.occupied) = m
  BY <1>4, <1>5, FS_Bijection DEF ExistsBijection
<1>7. IsFiniteSet(Slots) /\ Cardinality(Slots) = Capacity
  <2>1. 0 \in Int /\ Capacity - 1 \in Int
    BY PoolCapacityAssumption
  <2>2. Cardinality(Slots) = IF 0 > Capacity - 1 THEN 0 ELSE Capacity - 1 - 0 + 1
    BY <2>1, FS_Interval DEF Slots
  <2> QED
    BY <2>1, <2>2, FS_Interval, PoolCapacityAssumption DEF Slots
<1>8. IsFiniteSet(p.occupied) /\ Cardinality(p.occupied) \in Nat
  BY <1>1, <1>7, FS_Subset, FS_CardinalityType
<1>9. Cardinality(Slots \ p.occupied) = Cardinality(Slots) - Cardinality(p.occupied)
  <2>1. Slots \cap p.occupied = p.occupied
    BY <1>1
  <2> QED
    BY <1>7, <2>1, FS_Difference
<1> QED
  BY <1>2, <1>6, <1>7, <1>8, <1>9, PoolCapacityAssumption DEF Available, line, m

-----------------------------------------------------------------------------
(* The rows: no two share a number or a slot, and a step divides them into those that *)
(* stay and those that leave, in the order they had.                                  *)

SlotsIn(someRows) == {someRows[i].ref.slot : i \in DOMAIN someRows}
Differ(someRows) == \A i, j \in DOMAIN someRows :
                      i # j => /\ someRows[i].index # someRows[j].index
                               /\ someRows[i].ref.slot # someRows[j].ref.slot

(* A row after a step, and all of them. *)
Lasts(new, old) == new.index = old.index /\ new.ref = old.ref /\ old.tokens <= new.tokens
Stepped(stepped) == /\ stepped \in Seq(Rows)
                    /\ DOMAIN stepped = DOMAIN rows
                    /\ \A i \in DOMAIN rows : Lasts(stepped[i], rows[i])

Divided(kept, ended) ==
  /\ kept \in Seq(Rows) /\ ended \in Seq(Rows)
  /\ Len(kept) <= Len(rows)
  /\ Differ(kept) /\ Differ(ended)
  /\ \A i \in DOMAIN kept : \E j \in DOMAIN rows : Lasts(kept[i], rows[j])
  /\ \A i \in DOMAIN ended : \E j \in DOMAIN rows : Lasts(ended[i], rows[j])
  /\ \A j \in DOMAIN rows : \/ \E i \in DOMAIN kept : Lasts(kept[i], rows[j])
                            \/ \E i \in DOMAIN ended : Lasts(ended[i], rows[j])
  /\ \A i \in DOMAIN kept, j \in DOMAIN ended : /\ kept[i].index # ended[j].index
                                                /\ kept[i].ref.slot # ended[j].ref.slot

(* Numbers in ascending order are each there once. *)
Lists(order, m, numbers) == /\ order \in [1..m -> numbers]
                            /\ \A i, j \in 1..m : i # j => order[i] # order[j]
                            /\ \A x \in numbers : \E i \in 1..m : order[i] = x

LEMMA AscendingIsBijective ==
  ASSUME NEW n, n \in Nat, NEW numbers, numbers \in SUBSET (1..n),
         NEW order, order \in Ascending(numbers)
  PROVE  \E m \in 0..n : Lists(order, m, numbers)
<1> DEFINE m == Cardinality(numbers)
<1>1. /\ IsFiniteSet(1..n) /\ Cardinality(1..n) = n
      /\ IsFiniteSet(numbers) /\ m \in Nat /\ m <= n
  <2>1. 1 \in Int /\ n \in Int
    OBVIOUS
  <2>2. IsFiniteSet(1..n) /\ Cardinality(1..n) = IF 1 > n THEN 0 ELSE n - 1 + 1
    BY <2>1, FS_Interval
  <2>3. Cardinality(1..n) = n
    BY <2>2
  <2> QED
    BY <2>2, <2>3, FS_Subset, FS_CardinalityType
<1>2. /\ order \in [1..m -> numbers]
      /\ \A i, j \in 1..m : i < j => order[i] < order[j]
  BY DEF Ascending
<1>3. /\ IsFiniteSet(1..m) /\ Cardinality(1..m) = m
  <2>1. 1 \in Int /\ m \in Int
    BY <1>1
  <2>2. IsFiniteSet(1..m) /\ Cardinality(1..m) = IF 1 > m THEN 0 ELSE m - 1 + 1
    BY <2>1, FS_Interval
  <2> QED
    BY <1>1, <2>2
<1> HIDE DEF m
<1>4. \A i, j \in 1..m : i # j => order[i] # order[j]
  <2>1. \A i \in 1..m : order[i] \in 1..n
    BY <1>2
  <2>2. ASSUME NEW i \in 1..m, NEW j \in 1..m, i < j
        PROVE  order[i] # order[j]
    BY <1>2, <2>1, <2>2
  <2> QED
    BY <1>1, <2>2
<1>5. order \in Injection(1..m, numbers)
  BY <1>2, <1>4 DEF Injection, IsInjective
<1>6. order \in Surjection(1..m, numbers)
  BY <1>1, <1>3, <1>5, FS_Injection DEF m
<1> QED
  BY <1>1, <1>2, <1>4, <1>6 DEF Surjection, Lists

(* The rows of some numbers. *)
Selects(part, s, order, m) == /\ part \in Seq(Rows) /\ Len(part) = m /\ DOMAIN part = 1..m
                              /\ \A i \in 1..m : part[i] = s[order[i]]

LEMMA RowsOfNumbers ==
  ASSUME NEW s, s \in Seq(Rows), NEW m, m \in Nat,
         NEW numbers, numbers \in SUBSET (DOMAIN s), NEW order, Lists(order, m, numbers)
  PROVE  Selects(TheseRows(s, order), s, order, m)
<1>1. \A i \in 1..m : order[i] \in DOMAIN s /\ s[order[i]] \in Rows
  <2>1. \A i \in 1..m : order[i] \in DOMAIN s
    BY DEF Lists
  <2> HIDE DEF Rows
  <2> QED
    BY <2>1
<1> QED
  BY <1>1 DEF TheseRows, Lists, Selects

(* The live rows and those that ended are a division of the rows. *)
LEMMA RowsDivide ==
  ASSUME rows \in Seq(Rows), Differ(rows), NEW stepped, Stepped(stepped),
         NEW alive \in SUBSET (DOMAIN rows), NEW gone \in SUBSET (DOMAIN rows),
         alive \cap gone = {}, \A i \in DOMAIN rows : i \in alive \/ i \in gone,
         NEW live, live \in Ascending(alive), NEW over, over \in Ascending(gone)
  PROVE  Divided(TheseRows(stepped, live), TheseRows(stepped, over))
<1> DEFINE kept == TheseRows(stepped, live)
           ended == TheseRows(stepped, over)
           n == Len(rows)
<1>1. /\ n \in Nat /\ DOMAIN rows = 1..n
      /\ stepped \in Seq(Rows) /\ DOMAIN stepped = 1..n
      /\ \A i \in 1..n : Lasts(stepped[i], rows[i])
  BY DEF Stepped
<1>2. /\ alive \in SUBSET (1..n) /\ gone \in SUBSET (1..n)
      /\ alive \cap gone = {}
      /\ \A i \in 1..n : i \in alive \/ i \in gone
  BY <1>1
<1> HIDE DEF n
<1>3. PICK k \in 0..n : Lists(live, k, alive)
  BY <1>1, <1>2, AscendingIsBijective
<1>4. PICK e \in 0..n : Lists(over, e, gone)
  BY <1>1, <1>2, AscendingIsBijective
<1>5. k \in Nat /\ e \in Nat /\ k <= n
  BY <1>1
<1>6. /\ kept \in Seq(Rows) /\ Len(kept) = k /\ DOMAIN kept = 1..k
      /\ \A i \in 1..k : kept[i] = stepped[live[i]]
  <2>1. stepped \in Seq(Rows) /\ alive \in SUBSET (DOMAIN stepped)
    BY <1>1, <1>2
  <2>2. Selects(kept, stepped, live, k)
    BY <1>3, <1>5, <2>1, RowsOfNumbers
  <2> HIDE DEF kept
  <2> QED
    BY <2>2 DEF Selects
<1>7. /\ ended \in Seq(Rows) /\ DOMAIN ended = 1..e
      /\ \A i \in 1..e : ended[i] = stepped[over[i]]
  <2>1. stepped \in Seq(Rows) /\ gone \in SUBSET (DOMAIN stepped)
    BY <1>1, <1>2
  <2>2. Selects(ended, stepped, over, e)
    BY <1>4, <1>5, <2>1, RowsOfNumbers
  <2> HIDE DEF ended
  <2> QED
    BY <2>2 DEF Selects
<1> HIDE DEF kept, ended
<1>8. \A i \in 1..k : live[i] \in 1..n
  BY <1>2, <1>3 DEF Lists
<1>9. \A i \in 1..e : over[i] \in 1..n
  BY <1>2, <1>4 DEF Lists
<1>10. \A i, j \in 1..n : i # j => /\ stepped[i].index # stepped[j].index
                                   /\ stepped[i].ref.slot # stepped[j].ref.slot
  BY <1>1 DEF Differ, Lasts
<1>11. Differ(kept)
  <2>1. ASSUME NEW i \in 1..k, NEW j \in 1..k, i # j
        PROVE  kept[i].index # kept[j].index /\ kept[i].ref.slot # kept[j].ref.slot
    <3>1. live[i] # live[j] /\ live[i] \in 1..n /\ live[j] \in 1..n
      BY <1>3, <1>8, <2>1 DEF Lists
    <3>2. kept[i] = stepped[live[i]] /\ kept[j] = stepped[live[j]]
      BY <1>6
    <3> QED
      BY <1>10, <3>1, <3>2
  <2> QED
    BY <1>6, <2>1 DEF Differ
<1>12. Differ(ended)
  <2>1. ASSUME NEW i \in 1..e, NEW j \in 1..e, i # j
        PROVE  ended[i].index # ended[j].index /\ ended[i].ref.slot # ended[j].ref.slot
    <3>1. over[i] # over[j] /\ over[i] \in 1..n /\ over[j] \in 1..n
      BY <1>4, <1>9, <2>1 DEF Lists
    <3>2. ended[i] = stepped[over[i]] /\ ended[j] = stepped[over[j]]
      BY <1>7
    <3> QED
      BY <1>10, <3>1, <3>2
  <2> QED
    BY <1>7, <2>1 DEF Differ
<1>13. \A i \in 1..k : \E j \in DOMAIN rows : Lasts(kept[i], rows[j])
  BY <1>1, <1>6, <1>8
<1>14. \A i \in 1..e : \E j \in DOMAIN rows : Lasts(ended[i], rows[j])
  BY <1>1, <1>7, <1>9
<1>15. ASSUME NEW j \in 1..n
       PROVE  \/ \E i \in 1..k : Lasts(kept[i], rows[j])
              \/ \E i \in 1..e : Lasts(ended[i], rows[j])
  <2>1. CASE j \in alive
    <3>1. PICK i \in 1..k : live[i] = j
      BY <1>3, <2>1 DEF Lists
    <3> QED
      BY <1>1, <1>6, <3>1
  <2>2. CASE j \in gone
    <3>1. PICK i \in 1..e : over[i] = j
      BY <1>4, <2>2 DEF Lists
    <3> QED
      BY <1>1, <1>7, <3>1
  <2> QED
    BY <1>2, <2>1, <2>2
<1>16. ASSUME NEW i \in 1..k, NEW j \in 1..e
       PROVE  kept[i].index # ended[j].index /\ kept[i].ref.slot # ended[j].ref.slot
  <2>1. live[i] # over[j]
    BY <1>2, <1>3, <1>4 DEF Lists
  <2> QED
    BY <1>6, <1>7, <1>8, <1>9, <1>10, <2>1
<1>17. Len(kept) <= Len(rows)
  BY <1>5, <1>6 DEF n
<1> QED
  BY <1>1, <1>6, <1>7, <1>11, <1>12, <1>13, <1>14, <1>15, <1>16, <1>17 DEF Divided, kept, ended

(* The names the two parts have between them. *)
LEMMA NamesDivide ==
  ASSUME NEW kept, NEW ended, Divided(kept, ended)
  PROVE  /\ Indices(rows) = Indices(kept) \cup Indices(ended)
         /\ Indices(kept) \cap Indices(ended) = {}
         /\ SlotsIn(kept) = SlotsIn(rows) \ SlotsIn(ended)
         /\ SlotsIn(ended) \subseteq SlotsIn(rows)
<1>1. \A i \in DOMAIN kept : \E j \in DOMAIN rows : /\ kept[i].index = rows[j].index
                                                    /\ kept[i].ref.slot = rows[j].ref.slot
  BY DEF Divided, Lasts
<1>2. \A i \in DOMAIN ended : \E j \in DOMAIN rows : /\ ended[i].index = rows[j].index
                                                     /\ ended[i].ref.slot = rows[j].ref.slot
  BY DEF Divided, Lasts
<1>3. \A j \in DOMAIN rows :
         \/ \E i \in DOMAIN kept : /\ kept[i].index = rows[j].index
                                   /\ kept[i].ref.slot = rows[j].ref.slot
         \/ \E i \in DOMAIN ended : /\ ended[i].index = rows[j].index
                                    /\ ended[i].ref.slot = rows[j].ref.slot
  BY DEF Divided, Lasts
<1>4. \A i \in DOMAIN kept, j \in DOMAIN ended : /\ kept[i].index # ended[j].index
                                                 /\ kept[i].ref.slot # ended[j].ref.slot
  BY DEF Divided
<1>5. Indices(rows) = Indices(kept) \cup Indices(ended)
  BY <1>1, <1>2, <1>3 DEF Indices
<1>6. Indices(kept) \cap Indices(ended) = {}
  BY <1>4 DEF Indices
<1>7. SlotsIn(ended) \subseteq SlotsIn(rows)
  BY <1>2 DEF SlotsIn
<1>8. SlotsIn(rows) \subseteq SlotsIn(kept) \cup SlotsIn(ended)
  BY <1>3 DEF SlotsIn
<1>9. SlotsIn(kept) \subseteq SlotsIn(rows) \ SlotsIn(ended)
  BY <1>1, <1>4 DEF SlotsIn
<1> QED
  BY <1>5, <1>6, <1>7, <1>8, <1>9

(* A row is found by its number. *)
LEMMA RowFound ==
  ASSUME NEW s, Differ(s), NEW i \in DOMAIN s
  PROVE  RowOf(s, s[i].index) = s[i]
<1>1. \A j \in DOMAIN s : s[j].index = s[i].index => j = i
  BY DEF Differ
<1> QED
  BY <1>1 DEF RowOf

(* The slots, by the references. *)
LEMMA SlotsByReference ==
  ASSUME NEW s
  PROVE  /\ {ref.slot : ref \in RefsOf(s)} = SlotsIn(s)
         /\ SlotsOf([i \in DOMAIN s |-> s[i].ref]) = SlotsIn(s)
BY DEF RefsOf, SlotsIn, SlotsOf

(* As many slots as rows. *)
LEMMA RowsAreCounted ==
  ASSUME NEW s \in Seq(Rows), Differ(s)
  PROVE  Cardinality(SlotsIn(s)) = Len(s)
<1> DEFINE f == [i \in 1..Len(s) |-> s[i].ref.slot]
<1>1. Len(s) \in Nat /\ DOMAIN s = 1..Len(s)
  BY DEF Rows
<1>2. f \in [1..Len(s) -> SlotsIn(s)] /\ \A i \in 1..Len(s) : f[i] = s[i].ref.slot
  BY <1>1 DEF SlotsIn
<1> HIDE DEF f
<1>3. f \in Bijection(1..Len(s), SlotsIn(s))
  <2>1. \A i, j \in 1..Len(s) : f[i] = f[j] => i = j
    BY <1>1, <1>2 DEF Differ
  <2>2. \A x \in SlotsIn(s) : \E i \in 1..Len(s) : f[i] = x
    BY <1>1, <1>2 DEF SlotsIn
  <2> QED
    BY <1>2, <2>1, <2>2 DEF Bijection, Injection, Surjection, IsInjective
<1>4. /\ IsFiniteSet(1..Len(s)) /\ Cardinality(1..Len(s)) = Len(s)
  <2>1. 1 \in Int /\ Len(s) \in Int
    BY <1>1
  <2>2. IsFiniteSet(1..Len(s)) /\ Cardinality(1..Len(s)) = IF 1 > Len(s) THEN 0 ELSE Len(s) - 1 + 1
    BY <2>1, FS_Interval
  <2> QED
    BY <1>1, <2>2
<1> QED
  BY <1>3, <1>4, FS_Bijection DEF ExistsBijection

-----------------------------------------------------------------------------
(* The inductive invariant.                                                *)

(* The slots taken are those of the rows, and each row's reference is of its slot's    *)
(* present epoch.                                                                      *)
PoolHoldsRows ==
  /\ Consistent(pool)
  /\ Running => /\ pool.occupied = SlotsIn(rows)
                /\ \A i \in DOMAIN rows : pool.epochs[rows[i].ref.slot] = rows[i].ref.epoch

(* A reference that was given back is older than its slot's epoch. *)
Outdated == \A ref \in retired : ref.epoch < pool.epochs[ref.slot]

(* The stepper's tables and the scheduler's hold the rows and nothing else. *)
TablesHoldRows ==
  Running => /\ DOMAIN mRefs = Indices(rows)
             /\ DOMAIN mReported = Indices(rows)
             /\ DOMAIN table = SlotsIn(rows)
             /\ \A i \in DOMAIN rows : /\ mRefs[rows[i].index] = rows[i].ref
                                       /\ table[rows[i].ref.slot].ref = rows[i].ref
                                       /\ table[rows[i].ref.slot].request = rows[i].index

(* An index handed out is a row's or has its outcome, and not both. *)
Filed == {o.index : o \in outcomes}
Histories ==
  /\ DOMAIN prompts = 0..(nextIndex - 1)
  /\ DOMAIN delivered = 0..(nextIndex - 1)
  /\ \A o \in outcomes : o.index = o.request
  /\ Filed \cup Indices(rows) = DOMAIN prompts
  /\ Filed \cap Indices(rows) = {}
  /\ ~Running => rows = <<>>

(* The sequence whose prefill is next is the youngest row, or the founder alone. *)
Seat ==
  /\ Len(rows) <= MaxBatchSize
  /\ mPending # 0 => /\ phase = "tick" /\ awaiting # NoRef
                     /\ mPending = Len(rows) /\ mPending > 1 /\ rows[mPending].ref = awaiting
  /\ phase = "tick" /\ awaiting # NoRef /\ mPending = 0 => Len(rows) = 1

(* The deltas of a row amount to what the stepper says it reported, and that is all the *)
(* row has unless its prefill is still to come.                                         *)
Reports ==
  phase \in {"tick", "decode"} =>
    \A i \in DOMAIN rows :
      LET index == rows[i].index
      IN  /\ prompts[index] + delivered[index] = mReported[index]
          /\ mReported[index] <= rows[i].tokens
          /\ rows[i].ref # awaiting => mReported[index] = rows[i].tokens

IInv == /\ TypeOK /\ Differ(rows) /\ PoolHoldsRows /\ Outdated /\ TablesHoldRows /\ Histories
        /\ Seat /\ Reports

-----------------------------------------------------------------------------
(* The invariant implies what the runs check.                              *)

LEMMA InvariantImpliesTables ==
  ASSUME IInv
  PROVE  TablesAgree
<1> SUFFICES ASSUME Running PROVE TablesAgree!2
  BY DEF TablesAgree
<1>1. pool \in Pools /\ rows \in Seq(Rows)
  BY DEF IInv, TypeOK
<1>2. \A i \in DOMAIN rows : rows[i] \in Rows /\ rows[i].ref.slot \in Slots
  <2>1. \A i \in DOMAIN rows : rows[i] \in Rows
    BY <1>1
  <2> QED
    BY <2>1 DEF Rows, Refs
<1>3. /\ pool.occupied = SlotsIn(rows) /\ Consistent(pool)
      /\ \A i \in DOMAIN rows : pool.epochs[rows[i].ref.slot] = rows[i].ref.epoch
  BY DEF IInv, PoolHoldsRows
<1>4. \A i \in DOMAIN rows : Contains(pool, rows[i].ref)
  BY <1>2, <1>3 DEF Contains, SlotsIn
<1>5. Cardinality(pool.occupied) = Len(rows)
  BY <1>1, <1>3, RowsAreCounted DEF IInv
<1>6. Len(rows) < MaxBatchSize => Available(pool) > 0
  <2>1. Available(pool) = Capacity - Len(rows)
    BY <1>1, <1>3, <1>5, SlotsAreCounted
  <2>2. Len(rows) \in Nat /\ MaxBatchSize \in 1..Capacity /\ Capacity \in Nat
    BY <1>1, StepperAssumption, PoolCapacityAssumption
  <2> QED
    BY <2>1, <2>2
<1>7. {ref.slot : ref \in RefsOf(rows)} = SlotsIn(rows)
  BY SlotsByReference
<1> QED
  BY <1>3, <1>4, <1>5, <1>6, <1>7 DEF IInv, TablesHoldRows

LEMMA InvariantImpliesFresh ==
  ASSUME IInv
  PROVE  SeatsAreFresh
<1>1. \A ref \in retired : ~Contains(pool, ref)
  <2>1. ASSUME NEW ref \in retired, Contains(pool, ref)
        PROVE  FALSE
    <3>1. ref \in Refs /\ ref.epoch < pool.epochs[ref.slot]
      BY DEF IInv, TypeOK, Outdated
    <3>2. pool.epochs[ref.slot] = ref.epoch
      BY <2>1 DEF Contains
    <3>3. ref.epoch \in Nat
      BY <3>1 DEF Refs
    <3> QED
      BY <3>1, <3>2, <3>3
  <2> QED
    BY <2>1
<1>2. \A index \in DOMAIN prompts : index < nextIndex
  BY DEF IInv, TypeOK, Histories
<1> QED
  BY <1>1, <1>2 DEF IInv, Seat, SeatsAreFresh

LEMMA InvariantImpliesDeltas ==
  ASSUME IInv
  PROVE  DeltasAreExact
BY DEF IInv, Reports, DeltasAreExact

LEMMA InvariantImpliesOutcomes ==
  ASSUME IInv
  PROVE  OutcomesReachOwners
<1>1. ~Running => Indices(rows) = {}
  BY DEF IInv, Histories, Indices
<1> QED
  BY <1>1 DEF IInv, Histories, Filed, OutcomesReachOwners

-----------------------------------------------------------------------------
(* Each action keeps the invariant.                                        *)

LEMMA StartHolds ==
  ASSUME Init
  PROVE  IInv
<1>1. TypeOK
  <2>1. 0 \in 0..(MaxIndex + 1) /\ <<>> \in Seq(Rows)
    BY StepperAssumption
  <2>2. \A k \in DOMAIN Empty : FALSE
    BY DEF Empty
  <2> QED
    BY FreshPool, <2>1, <2>2 DEF Init, TypeOK
<1>2. Differ(rows) /\ Histories
  BY DEF Init, Differ, Histories, Filed, Indices, Empty, Running
<1>3. PoolHoldsRows /\ Outdated /\ TablesHoldRows /\ Seat /\ Reports
  BY FreshPool, StepperAssumption
     DEF Init, PoolHoldsRows, Outdated, TablesHoldRows, Seat, Reports, Running
<1> QED
  BY <1>1, <1>2, <1>3 DEF IInv

(* No reference is the one that stands for none. *)
LEMMA NoRefIsNone == NoRef \notin Refs
<1>1. -1 \notin Slots
  BY PoolCapacityAssumption DEF Slots
<1> QED
  BY <1>1 DEF NoRef, Refs

LEMMA FoundKeeps ==
  ASSUME IInv, NEW prompt \in 1..MaxPrompt, Found(prompt)
  PROVE  IInv'
<1> DEFINE ref == Acquired(Reset)
           row == [index |-> 0, ref |-> ref, tokens |-> prompt + 1, generated |-> 1,
                   reason |-> Live]
<1>1. Available(Reset) > 0
  BY FreshPool, StepperAssumption, PoolCapacityAssumption
<1>2. /\ ref \in Refs
      /\ ref.epoch = Reset.epochs[ref.slot]
      /\ pool' \in Pools /\ Consistent(pool')
      /\ pool'.occupied = {ref.slot}
      /\ pool'.epochs = Reset.epochs
  BY <1>1, FreshPool, TakeSlot DEF Found
<1>3. prompt \in Nat
  BY StepperAssumption
<1>4. rows' = <<row>> /\ row \in Rows
  BY <1>2, <1>3 DEF Found, Rows
<1>5. /\ row.index = 0 /\ row.ref = ref /\ row.tokens = prompt + 1
  OBVIOUS
<1>6. /\ phase' = "tick" /\ mRefs' = Entry(0, ref) /\ mReported' = Entry(0, prompt)
      /\ mPending' = 0 /\ table' = Entry(ref.slot, [ref |-> ref, request |-> 0])
      /\ awaiting' = ref /\ nextIndex' = 1 /\ retired' = {}
      /\ prompts' = Entry(0, prompt) /\ delivered' = Entry(0, 0) /\ outcomes' = {}
  BY DEF Found
<1> HIDE DEF ref, row
<1>7. rows' \in Seq(Rows) /\ Len(rows') = 1 /\ DOMAIN rows' = {1} /\ rows'[1] = row
  BY <1>4
<1>8. Indices(rows') = {0} /\ SlotsIn(rows') = {ref.slot}
  BY <1>5, <1>7 DEF Indices, SlotsIn
<1>9. TypeOK'
  <2>1. [ref |-> ref, request |-> 0] \in [ref : Refs, request : Nat]
    BY <1>2
  <2>2. nextIndex' \in 0..(MaxIndex + 1)
    BY <1>6, StepperAssumption
  <2> QED
    BY <1>2, <1>3, <1>6, <1>7, <2>1, <2>2 DEF TypeOK, Entry
<1>10. Differ(rows)'
  BY <1>7 DEF Differ
<1>11. PoolHoldsRows'
  BY <1>2, <1>5, <1>7, <1>8 DEF PoolHoldsRows
<1>12. Outdated'
  BY <1>6 DEF Outdated
<1>13. TablesHoldRows'
  BY <1>5, <1>6, <1>7, <1>8 DEF TablesHoldRows, Entry
<1>14. Histories'
  <2>1. Running'
    BY <1>6 DEF Running
  <2> QED
    BY <1>6, <1>8, <2>1 DEF Histories, Entry, Filed
<1>15. Seat'
  BY <1>6, <1>7, StepperAssumption DEF Seat
<1>16. Reports'
  <2>1. prompt + 0 = prompt /\ prompt <= prompt + 1
    BY <1>3
  <2> QED
    BY <1>5, <1>6, <1>7, <2>1 DEF Reports, Entry
<1> QED
  BY <1>9, <1>10, <1>11, <1>12, <1>13, <1>14, <1>15, <1>16 DEF IInv

(* An admission refused before it reserved anything changes only what the tick does next. *)
LEMMA RefusedKeeps ==
  ASSUME IInv, AdmitRefused
  PROVE  IInv'
<1>1. /\ phase = "tick" /\ phase' = "decode" /\ awaiting = NoRef
      /\ UNCHANGED <<pool, rows, stepperVars, schedVars, historyVars>>
  BY DEF AdmitRefused, MayOffer
<1>2. mPending = 0
  BY <1>1 DEF IInv, Seat
<1> USE DEF stepperVars, schedVars, historyVars
<1>3. TypeOK' /\ Differ(rows)'
  BY <1>1 DEF IInv, TypeOK, Differ
<1>4. PoolHoldsRows' /\ Outdated'
  BY <1>1 DEF IInv, PoolHoldsRows, Outdated, Running
<1>5. TablesHoldRows'
  BY <1>1 DEF IInv, TablesHoldRows, Running, SlotsIn, Indices
<1>6. Histories'
  BY <1>1 DEF IInv, Histories, Running, Filed, Indices
<1>7. Seat' /\ Reports'
  BY <1>1, <1>2 DEF IInv, Seat, Reports
<1> QED
  BY <1>3, <1>4, <1>5, <1>6, <1>7 DEF IInv

(* A rolled back admission leaves the slot free, with a new epoch. *)
LEMMA RolledBackKeeps ==
  ASSUME IInv, AdmitRolledBack
  PROVE  IInv'
<1> DEFINE ref == Acquired(pool)
           taken == AfterAcquire(pool)
<1>1. /\ phase = "tick" /\ phase' = "decode" /\ awaiting = NoRef /\ Available(pool) > 0
      /\ pool' = AfterRelease(taken, <<ref>>) /\ retired' = retired \cup {ref}
      /\ rows' = rows
      /\ UNCHANGED <<stepperVars, schedVars, prompts, delivered, outcomes>>
  BY DEF AdmitRolledBack, MayOffer
<1>2. mPending = 0
  BY <1>1 DEF IInv, Seat
<1>3. pool \in Pools /\ Consistent(pool) /\ pool.occupied = SlotsIn(rows)
  BY <1>1 DEF IInv, TypeOK, PoolHoldsRows, Running
<1>4. /\ ref \in Refs /\ ref.slot \in Slots /\ ref.slot \notin pool.occupied
      /\ ref.epoch = pool.epochs[ref.slot]
      /\ taken \in Pools /\ Consistent(taken)
      /\ taken.occupied = pool.occupied \cup {ref.slot} /\ taken.epochs = pool.epochs
  <2>1. /\ ref \in Refs /\ ref.slot \notin pool.occupied /\ ref.epoch = pool.epochs[ref.slot]
        /\ taken \in Pools /\ Consistent(taken)
        /\ taken.occupied = pool.occupied \cup {ref.slot} /\ taken.epochs = pool.epochs
    BY <1>1, <1>3, TakeSlot
  <2> QED
    BY <2>1 DEF Refs
<1> HIDE DEF ref, taken
<1>5. /\ pool' \in Pools /\ Consistent(pool')
      /\ pool'.occupied = pool.occupied
      /\ \A s \in Slots : pool'.epochs[s] = IF s = ref.slot THEN pool.epochs[s] + 1
                                            ELSE pool.epochs[s]
  <2>1. PICK back : back = <<ref>>
    OBVIOUS
  <2>2. back \in Seq(Refs) /\ DOMAIN back = {1} /\ back[1] = ref
    BY <1>4, <2>1
  <2>3. SlotsOf(back) = {ref.slot}
    BY <2>2 DEF SlotsOf
  <2>4. /\ \A i \in DOMAIN back : back[i].slot \in taken.occupied
        /\ \A i, j \in DOMAIN back : i # j => back[i].slot # back[j].slot
    BY <1>4, <2>2
  <2>5. /\ AfterRelease(taken, back) \in Pools /\ Consistent(AfterRelease(taken, back))
        /\ AfterRelease(taken, back).occupied = taken.occupied \ SlotsOf(back)
        /\ \A s \in Slots : AfterRelease(taken, back).epochs[s] =
                             IF s \in SlotsOf(back) THEN taken.epochs[s] + 1
                                                    ELSE taken.epochs[s]
    BY <1>4, <2>2, <2>4, GiveSlotsBack
  <2>6. pool' = AfterRelease(taken, back)
    BY <1>1, <2>1
  <2>7. (pool.occupied \cup {ref.slot}) \ {ref.slot} = pool.occupied
    BY <1>4
  <2> QED
    BY <1>4, <2>3, <2>5, <2>6, <2>7
<1>6. \A s \in Slots : pool.epochs[s] \in Nat
  BY <1>3 DEF Pools
<1> USE DEF stepperVars, schedVars
<1>7. TypeOK' /\ Differ(rows)'
  BY <1>1, <1>4, <1>5 DEF IInv, TypeOK, Differ
<1>8. PoolHoldsRows'
  <2>1. SlotsIn(rows)' = SlotsIn(rows)
    BY <1>1 DEF SlotsIn
  <2>2. ASSUME NEW i \in DOMAIN rows
        PROVE  pool'.epochs[rows[i].ref.slot] = rows[i].ref.epoch
    <3>1. rows[i].ref.slot \in pool.occupied
      BY <1>3 DEF SlotsIn
    <3>2. rows[i].ref.slot \in Slots /\ rows[i].ref.slot # ref.slot
      BY <1>3, <1>4, <3>1 DEF Pools
    <3> QED
      BY <1>1, <1>5, <3>2 DEF IInv, PoolHoldsRows, Running
  <2> QED
    BY <1>1, <1>3, <1>5, <2>1, <2>2 DEF PoolHoldsRows
<1>9. Outdated'
  <2>1. ASSUME NEW old \in retired'
        PROVE  old.epoch < pool'.epochs[old.slot]
    <3>1. CASE old = ref
      <4>1. pool'.epochs[ref.slot] = ref.epoch + 1 /\ ref.epoch \in Nat
        BY <1>4, <1>5, <1>6
      <4> QED
        BY <3>1, <4>1
    <3>2. CASE old \in retired
      <4>1. old \in Refs /\ old.epoch < pool.epochs[old.slot]
        BY <3>2 DEF IInv, TypeOK, Outdated
      <4>2. old.slot \in Slots /\ old.epoch \in Nat
        BY <4>1 DEF Refs
      <4> QED
        BY <1>5, <1>6, <4>1, <4>2
    <3> QED
      BY <1>1, <3>1, <3>2
  <2> QED
    BY <2>1 DEF Outdated
<1>10. TablesHoldRows'
  BY <1>1 DEF IInv, TablesHoldRows, Running, SlotsIn, Indices
<1>11. Histories'
  BY <1>1 DEF IInv, Histories, Running, Filed, Indices
<1>12. Seat' /\ Reports'
  BY <1>1, <1>2 DEF IInv, Seat, Reports
<1> QED
  BY <1>7, <1>8, <1>9, <1>10, <1>11, <1>12 DEF IInv

(* A table with one entry more. *)
LEMMA ExtendedType ==
  ASSUME NEW S, NEW f, NEW key, NEW value \in S, \A k \in DOMAIN f : f[k] \in S
  PROVE  \A k \in DOMAIN Extended(f, key, value) : Extended(f, key, value)[k] \in S
BY DEF Extended

(* A seated admission is the youngest row, with a free slot and an index of its own. *)
LEMMA SeatedKeeps ==
  ASSUME IInv, NEW prompt \in 1..MaxPrompt, AdmitSeated(prompt)
  PROVE  IInv'
<1> DEFINE ref == Acquired(pool)
           row == [index |-> nextIndex, ref |-> ref, tokens |-> prompt, generated |-> 0,
                   reason |-> Live]
           n == Len(rows)
<1>1. /\ phase = "tick" /\ phase' = "tick" /\ Running /\ Running'
      /\ awaiting = NoRef /\ rows # <<>> /\ n < MaxBatchSize
      /\ nextIndex <= MaxIndex /\ Available(pool) > 0
      /\ pool' = AfterAcquire(pool) /\ rows' = Append(rows, row)
      /\ mRefs' = Extended(mRefs, nextIndex, ref)
      /\ mReported' = Extended(mReported, nextIndex, prompt)
      /\ mPending' = n + 1
      /\ table' = Extended(table, ref.slot, [ref |-> ref, request |-> nextIndex])
      /\ awaiting' = ref /\ nextIndex' = nextIndex + 1
      /\ prompts' = Extended(prompts, nextIndex, prompt)
      /\ delivered' = Extended(delivered, nextIndex, 0)
      /\ UNCHANGED <<retired, outcomes>>
  BY DEF AdmitSeated, MayOffer, Running
<1>2. /\ nextIndex \in Nat /\ prompt \in Nat /\ nextIndex + 1 \in 0..(MaxIndex + 1)
      /\ rows \in Seq(Rows) /\ n \in Nat \ {0} /\ DOMAIN rows = 1..n
  <2>1. rows \in Seq(Rows) /\ nextIndex \in 0..(MaxIndex + 1)
    BY DEF IInv, TypeOK
  <2> QED
    BY <1>1, <2>1, StepperAssumption
<1>3. /\ pool \in Pools /\ Consistent(pool) /\ pool.occupied = SlotsIn(rows)
      /\ \A i \in DOMAIN rows : pool.epochs[rows[i].ref.slot] = rows[i].ref.epoch
  BY <1>1 DEF IInv, TypeOK, PoolHoldsRows
<1>4. /\ ref \in Refs /\ ref.slot \notin pool.occupied /\ ref.epoch = pool.epochs[ref.slot]
      /\ pool' \in Pools /\ Consistent(pool')
      /\ pool'.occupied = pool.occupied \cup {ref.slot} /\ pool'.epochs = pool.epochs
  BY <1>1, <1>3, TakeSlot
<1>5. row \in Rows
  BY <1>2, <1>4 DEF Rows
<1>6. /\ row.index = nextIndex /\ row.ref = ref /\ row.tokens = prompt
  OBVIOUS
<1> HIDE DEF ref, row, n
<1>7. /\ rows' \in Seq(Rows) /\ Len(rows') = n + 1 /\ DOMAIN rows' = 1..(n + 1)
      /\ \A i \in 1..n : rows'[i] = rows[i]
      /\ rows'[n + 1] = row
  BY <1>1, <1>2, <1>5, AppendProperties DEF n
<1>8. /\ Indices(rows') = Indices(rows) \cup {nextIndex}
      /\ SlotsIn(rows') = SlotsIn(rows) \cup {ref.slot}
  <2>1. \A i \in 1..(n + 1) : i \in 1..n \/ i = n + 1
    BY <1>2
  <2>2. n + 1 \in 1..(n + 1) /\ \A i \in 1..n : i \in 1..(n + 1)
    BY <1>2
  <2>3. Indices(rows') = Indices(rows) \cup {nextIndex}
    BY <1>2, <1>6, <1>7, <2>1, <2>2 DEF Indices
  <2>4. SlotsIn(rows') = SlotsIn(rows) \cup {ref.slot}
    BY <1>2, <1>6, <1>7, <2>1, <2>2 DEF SlotsIn
  <2> QED
    BY <2>3, <2>4
<1>9. nextIndex \notin Indices(rows) /\ nextIndex \notin DOMAIN prompts
  BY <1>2 DEF IInv, Histories
<1>10. /\ \A i \in DOMAIN rows : rows[i].index # nextIndex /\ rows[i].ref.slot # ref.slot
  BY <1>3, <1>4, <1>9 DEF Indices, SlotsIn
<1>11. \A i \in 1..(n + 1) : \/ i \in DOMAIN rows /\ rows'[i] = rows[i]
                             \/ i = n + 1 /\ rows'[i] = row
  <2>1. \A i \in 1..(n + 1) : i \in 1..n \/ i = n + 1
    BY <1>2
  <2> QED
    BY <1>2, <1>7, <2>1
<1>12. TypeOK'
  <2>1. [ref |-> ref, request |-> nextIndex] \in [ref : Refs, request : Nat]
    BY <1>2, <1>4
  <2>2. n + 1 \in Nat
    BY <1>2
  <2>3. /\ \A index \in DOMAIN mReported' : mReported'[index] \in Nat
        /\ \A index \in DOMAIN prompts' : prompts'[index] \in Nat
        /\ \A index \in DOMAIN delivered' : delivered'[index] \in Nat
    <3>1. \A f \in {mReported, prompts, delivered} : \A index \in DOMAIN f : f[index] \in Nat
      BY DEF IInv, TypeOK
    <3>2. 0 \in Nat
      OBVIOUS
    <3> QED
      BY <1>1, <1>2, <3>1, <3>2, ExtendedType
  <2>4. \A index \in DOMAIN mRefs' : mRefs'[index] \in Refs
    <3>1. \A index \in DOMAIN mRefs : mRefs[index] \in Refs
      BY DEF IInv, TypeOK
    <3> QED
      BY <1>1, <1>4, <3>1, ExtendedType
  <2>5. \A slot \in DOMAIN table' : table'[slot] \in [ref : Refs, request : Nat]
    <3>1. \A slot \in DOMAIN table : table[slot] \in [ref : Refs, request : Nat]
      BY DEF IInv, TypeOK
    <3> QED
      BY <1>1, <2>1, <3>1, ExtendedType
  <2>6. rows' \in Seq(Rows) /\ pool' \in Pools
    BY <1>4, <1>7
  <2>7. phase' \in {"idle", "tick", "decode", "failing"} /\ retired' \subseteq Refs
    BY <1>1 DEF IInv, TypeOK
  <2>8. mPending' \in Nat /\ awaiting' \in Refs \cup {NoRef} /\ nextIndex' \in 0..(MaxIndex + 1)
    BY <1>1, <1>2, <1>4, <2>2
  <2> QED
    BY <2>3, <2>4, <2>5, <2>6, <2>7, <2>8 DEF TypeOK
<1>13. Differ(rows)'
  <2>1. ASSUME NEW i \in 1..(n + 1), NEW j \in 1..(n + 1), i # j
        PROVE  rows'[i].index # rows'[j].index /\ rows'[i].ref.slot # rows'[j].ref.slot
    BY <1>6, <1>10, <1>11, <2>1 DEF IInv, Differ
  <2> QED
    BY <1>7, <2>1 DEF Differ
<1>14. PoolHoldsRows'
  <2>1. \A i \in 1..(n + 1) : pool'.epochs[rows'[i].ref.slot] = rows'[i].ref.epoch
    BY <1>3, <1>4, <1>6, <1>11
  <2> QED
    BY <1>3, <1>4, <1>7, <1>8, <2>1 DEF PoolHoldsRows
<1>15. Outdated'
  BY <1>1, <1>4 DEF IInv, Outdated
<1>16. TablesHoldRows'
  <2>1. /\ DOMAIN mRefs = Indices(rows) /\ DOMAIN mReported = Indices(rows)
        /\ DOMAIN table = SlotsIn(rows)
        /\ \A i \in DOMAIN rows : /\ mRefs[rows[i].index] = rows[i].ref
                                  /\ table[rows[i].ref.slot].ref = rows[i].ref
                                  /\ table[rows[i].ref.slot].request = rows[i].index
    BY <1>1 DEF IInv, TablesHoldRows
  <2>2. /\ DOMAIN mRefs' = Indices(rows') /\ DOMAIN mReported' = Indices(rows')
        /\ DOMAIN table' = SlotsIn(rows')
    BY <1>1, <1>8, <2>1 DEF Extended
  <2>3. ASSUME NEW i \in 1..(n + 1)
        PROVE  /\ mRefs'[rows'[i].index] = rows'[i].ref
               /\ table'[rows'[i].ref.slot].ref = rows'[i].ref
               /\ table'[rows'[i].ref.slot].request = rows'[i].index
    <3>1. CASE i \in DOMAIN rows /\ rows'[i] = rows[i]
      <4>1. rows[i].index \in DOMAIN mRefs /\ rows[i].ref.slot \in DOMAIN table
        BY <2>1, <3>1 DEF Indices, SlotsIn
      <4>2. /\ mRefs'[rows[i].index] = mRefs[rows[i].index]
            /\ table'[rows[i].ref.slot] = table[rows[i].ref.slot]
        BY <1>1, <1>10, <3>1, <4>1 DEF Extended
      <4> QED
        BY <2>1, <3>1, <4>2
    <3>2. CASE i = n + 1 /\ rows'[i] = row
      BY <1>1, <1>6, <3>2 DEF Extended
    <3> QED
      BY <1>11, <3>1, <3>2
  <2> QED
    BY <1>7, <2>2, <2>3 DEF TablesHoldRows
<1>17. Histories'
  <2>1. 0..(nextIndex' - 1) = 0..(nextIndex - 1) \cup {nextIndex}
    BY <1>1, <1>2
  <2>2. /\ DOMAIN prompts' = DOMAIN prompts \cup {nextIndex}
        /\ DOMAIN delivered' = DOMAIN delivered \cup {nextIndex}
    BY <1>1 DEF Extended
  <2>3. Filed' = Filed
    BY <1>1 DEF Filed
  <2>4. nextIndex \notin Filed
    BY <1>9 DEF IInv, Histories
  <2> QED
    BY <1>1, <1>8, <2>1, <2>2, <2>3, <2>4 DEF IInv, Histories
<1>18. Seat'
  <2>1. n + 1 <= MaxBatchSize /\ n + 1 > 1
    BY <1>1, <1>2, StepperAssumption
  <2>2. ref # NoRef
    BY <1>4, NoRefIsNone
  <2> QED
    BY <1>1, <1>6, <1>7, <2>1, <2>2 DEF Seat
<1>19. Reports'
  <2>1. ASSUME NEW i \in 1..(n + 1)
        PROVE  /\ prompts'[rows'[i].index] + delivered'[rows'[i].index] = mReported'[rows'[i].index]
               /\ mReported'[rows'[i].index] <= rows'[i].tokens
               /\ mReported'[rows'[i].index] = rows'[i].tokens
    <3>1. CASE i \in DOMAIN rows /\ rows'[i] = rows[i]
      <4>1. PICK index : index = rows[i].index
        OBVIOUS
      <4>2. /\ index \in DOMAIN prompts /\ index \in DOMAIN delivered /\ index \in DOMAIN mReported
            /\ index # nextIndex
        BY <1>1, <1>10, <3>1, <4>1 DEF IInv, Histories, TablesHoldRows, Indices
      <4>3. /\ prompts'[index] = prompts[index] /\ delivered'[index] = delivered[index]
            /\ mReported'[index] = mReported[index]
        BY <1>1, <4>2 DEF Extended
      <4>4. rows[i].ref # awaiting
        <5>1. rows[i] \in Rows
          BY <1>2, <3>1
        <5> QED
          BY <1>1, <5>1, NoRefIsNone DEF Rows
      <4>5. /\ prompts[index] + delivered[index] = mReported[index]
            /\ mReported[index] <= rows[i].tokens
            /\ mReported[index] = rows[i].tokens
        BY <1>1, <3>1, <4>1, <4>4 DEF IInv, Reports
      <4> QED
        BY <3>1, <4>1, <4>3, <4>5
    <3>2. CASE i = n + 1 /\ rows'[i] = row
      <4>1. /\ prompts'[nextIndex] = prompt /\ delivered'[nextIndex] = 0
            /\ mReported'[nextIndex] = prompt
        BY <1>1 DEF Extended
      <4>2. prompt + 0 = prompt /\ prompt <= prompt
        BY <1>2
      <4> QED
        BY <1>6, <3>2, <4>1, <4>2
    <3> QED
      BY <1>11, <3>1, <3>2
  <2> QED
    BY <1>7, <2>1 DEF Reports
<1> QED
  BY <1>12, <1>13, <1>14, <1>15, <1>16, <1>17, <1>18, <1>19 DEF IInv

-----------------------------------------------------------------------------
(* What every step ends with.                                              *)

(* The deltas of the rows that stay bring what was reported up to what they have. *)
LEMMA DeltasAreReported ==
  ASSUME IInv, phase \in {"tick", "decode"}, NEW kept, kept \in Seq(Rows), Differ(kept),
         \A i \in DOMAIN kept : \E j \in DOMAIN rows : Lasts(kept[i], rows[j]),
         ReportDeltas(kept)
  PROVE  /\ DOMAIN mReported' = DOMAIN mReported \cap Indices(kept)
         /\ DOMAIN delivered' = DOMAIN delivered
         /\ \A index \in DOMAIN mReported' : mReported'[index] \in Nat
         /\ \A index \in DOMAIN delivered' : delivered'[index] \in Nat
         /\ \A i \in DOMAIN kept :
              /\ mReported'[kept[i].index] = kept[i].tokens
              /\ prompts[kept[i].index] + delivered'[kept[i].index] = kept[i].tokens
<1>1. /\ mReported' = [index \in DOMAIN mReported \cap Indices(kept) |->
                         RowOf(kept, index).tokens]
      /\ delivered' = [index \in DOMAIN delivered |->
                         IF index \in Indices(kept)
                         THEN delivered[index] + RowOf(kept, index).tokens - mReported[index]
                         ELSE delivered[index]]
  BY DEF ReportDeltas
<1>2. Running
  BY DEF Running
<1>3. ASSUME NEW i \in DOMAIN kept, NEW index, index = kept[i].index
      PROVE  /\ index \in DOMAIN mReported /\ index \in DOMAIN delivered
             /\ RowOf(kept, index).tokens = kept[i].tokens
             /\ kept[i].tokens \in Nat
             /\ mReported[index] \in Nat /\ delivered[index] \in Nat /\ prompts[index] \in Nat
             /\ mReported[index] <= kept[i].tokens
             /\ prompts[index] + delivered[index] = mReported[index]
  <2>1. PICK j \in DOMAIN rows : Lasts(kept[i], rows[j])
    OBVIOUS
  <2>2. rows[j].index = index /\ rows[j].tokens <= kept[i].tokens
    BY <1>3, <2>1 DEF Lasts
  <2>3. index \in Indices(rows)
    BY <2>2 DEF Indices
  <2>4. index \in DOMAIN mReported /\ index \in DOMAIN prompts /\ index \in DOMAIN delivered
    BY <1>2, <2>3 DEF IInv, TablesHoldRows, Histories
  <2>5. mReported[index] \in Nat /\ delivered[index] \in Nat /\ prompts[index] \in Nat
    BY <2>4 DEF IInv, TypeOK
  <2>6. kept[i] \in Rows /\ rows[j] \in Rows
    BY DEF IInv, TypeOK
  <2>7. kept[i].tokens \in Nat /\ rows[j].tokens \in Nat
    BY <2>6 DEF Rows
  <2>8. /\ prompts[index] + delivered[index] = mReported[index]
        /\ mReported[index] <= rows[j].tokens
    BY <2>2 DEF IInv, Reports
  <2>9. mReported[index] <= kept[i].tokens
    BY <2>2, <2>5, <2>7, <2>8
  <2>10. RowOf(kept, index) = kept[i]
    BY <1>3, RowFound
  <2> QED
    BY <2>4, <2>5, <2>7, <2>8, <2>9, <2>10
<1>4. ASSUME NEW i \in DOMAIN kept, NEW index, index = kept[i].index
      PROVE  /\ mReported'[index] = kept[i].tokens
             /\ mReported'[index] \in Nat /\ delivered'[index] \in Nat
             /\ prompts[index] + delivered'[index] = kept[i].tokens
  <2>1. index \in Indices(kept)
    BY <1>4 DEF Indices
  <2>2. /\ mReported'[index] = kept[i].tokens
        /\ delivered'[index] = delivered[index] + kept[i].tokens - mReported[index]
    BY <1>1, <1>3, <1>4, <2>1
  <2>3. /\ kept[i].tokens \in Nat /\ mReported[index] \in Nat /\ delivered[index] \in Nat
        /\ prompts[index] \in Nat /\ mReported[index] <= kept[i].tokens
        /\ prompts[index] + delivered[index] = mReported[index]
    BY <1>3, <1>4
  <2>4. delivered[index] + kept[i].tokens - mReported[index] \in Nat
    BY <2>3
  <2>5. prompts[index] + (delivered[index] + kept[i].tokens - mReported[index]) = kept[i].tokens
    BY <2>3
  <2> QED
    BY <2>2, <2>3, <2>4, <2>5
<1>5. DOMAIN mReported' = DOMAIN mReported \cap Indices(kept) /\ DOMAIN delivered' = DOMAIN delivered
  BY <1>1
<1>6. \A index \in Indices(kept) : \E i \in DOMAIN kept : index = kept[i].index
  BY DEF Indices
<1>7. \A index \in DOMAIN mReported' : mReported'[index] \in Nat
  BY <1>4, <1>5, <1>6
<1>8. ASSUME NEW index \in DOMAIN delivered'
      PROVE  delivered'[index] \in Nat
  <2>1. CASE index \in Indices(kept)
    BY <1>4, <1>6, <2>1
  <2>2. CASE index \notin Indices(kept)
    <3>1. delivered'[index] = delivered[index]
      BY <1>1, <1>5, <2>2
    <3> QED
      BY <1>5, <3>1 DEF IInv, TypeOK
  <2> QED
    BY <2>1, <2>2
<1> QED
  BY <1>4, <1>5, <1>7, <1>8

(* A completed step: the ended rows' slots are free again, under new epochs, and the    *)
(* tables keep the rows that stay.                                                      *)
LEMMA EvictionKeepsPool ==
  ASSUME IInv, Running, NEW kept, NEW ended, Divided(kept, ended), Evict(ended, kept)
  PROVE  pool' \in Pools /\ retired' \subseteq Refs /\ PoolHoldsRows' /\ Outdated'
<1> DEFINE refs == [i \in DOMAIN ended |-> ended[i].ref]
<1>1. /\ pool' = AfterRelease(pool, refs) /\ rows' = kept
      /\ retired' = retired \cup RefsOf(ended)
  BY DEF Evict
<1>2. /\ kept \in Seq(Rows) /\ ended \in Seq(Rows) /\ Differ(ended)
      /\ \A i \in DOMAIN ended : \E j \in DOMAIN rows : Lasts(ended[i], rows[j])
      /\ \A i \in DOMAIN kept : \E j \in DOMAIN rows : Lasts(kept[i], rows[j])
  BY DEF Divided
<1>3. /\ pool \in Pools /\ Consistent(pool) /\ pool.occupied = SlotsIn(rows)
      /\ \A i \in DOMAIN rows : pool.epochs[rows[i].ref.slot] = rows[i].ref.epoch
      /\ \A s \in Slots : pool.epochs[s] \in Nat
  <2>1. /\ pool \in Pools /\ Consistent(pool) /\ pool.occupied = SlotsIn(rows)
        /\ \A i \in DOMAIN rows : pool.epochs[rows[i].ref.slot] = rows[i].ref.epoch
    BY DEF IInv, TypeOK, PoolHoldsRows
  <2> QED
    BY <2>1 DEF Pools
<1>4. /\ SlotsIn(kept) = SlotsIn(rows) \ SlotsIn(ended) /\ SlotsIn(ended) \subseteq SlotsIn(rows)
  BY NamesDivide
<1>5. /\ refs \in Seq(Refs) /\ DOMAIN refs = DOMAIN ended
      /\ \A i \in DOMAIN ended : refs[i] = ended[i].ref /\ refs[i] \in Refs
  <2>1. DOMAIN ended = 1..Len(ended) /\ Len(ended) \in Nat
    BY <1>2
  <2>2. \A i \in 1..Len(ended) : ended[i] \in Rows
    BY <1>2, <2>1
  <2>3. \A i \in 1..Len(ended) : ended[i].ref \in Refs
    BY <2>2 DEF Rows
  <2> QED
    BY <2>1, <2>3
<1>6. SlotsOf(refs) = SlotsIn(ended)
  BY SlotsByReference
<1> HIDE DEF refs
<1>7. /\ \A i \in DOMAIN refs : refs[i].slot \in pool.occupied
      /\ \A i, j \in DOMAIN refs : i # j => refs[i].slot # refs[j].slot
  <2>1. \A i \in DOMAIN refs : refs[i].slot \in SlotsIn(ended)
    BY <1>5 DEF SlotsIn
  <2>2. \A i \in DOMAIN refs : refs[i].slot \in pool.occupied
    BY <1>3, <1>4, <2>1
  <2>3. \A i, j \in DOMAIN refs : i # j => refs[i].slot # refs[j].slot
    <3>1. \A i, j \in DOMAIN ended : i # j => ended[i].ref.slot # ended[j].ref.slot
      BY <1>2 DEF Differ
    <3> QED
      BY <1>5, <3>1
  <2> QED
    BY <2>2, <2>3
<1>8. /\ pool' \in Pools /\ Consistent(pool')
      /\ pool'.occupied = SlotsIn(kept)
      /\ \A s \in Slots : pool'.epochs[s] = IF s \in SlotsIn(ended) THEN pool.epochs[s] + 1
                                            ELSE pool.epochs[s]
  <2>1. /\ AfterRelease(pool, refs) \in Pools /\ Consistent(AfterRelease(pool, refs))
        /\ AfterRelease(pool, refs).occupied = pool.occupied \ SlotsOf(refs)
        /\ \A s \in Slots : AfterRelease(pool, refs).epochs[s] =
                             IF s \in SlotsOf(refs) THEN pool.epochs[s] + 1
                                                    ELSE pool.epochs[s]
    BY <1>3, <1>5, <1>7, GiveSlotsBack
  <2> QED
    BY <1>1, <1>3, <1>4, <1>6, <2>1
<1>9. PoolHoldsRows'
  <2>1. ASSUME NEW i \in DOMAIN kept
        PROVE  pool'.epochs[kept[i].ref.slot] = kept[i].ref.epoch
    <3>1. PICK j \in DOMAIN rows : Lasts(kept[i], rows[j])
      BY <1>2
    <3>2. kept[i].ref.slot \in SlotsIn(kept)
      BY DEF SlotsIn
    <3>3. kept[i].ref.slot \in Slots /\ kept[i].ref.slot \notin SlotsIn(ended)
      BY <1>3, <1>4, <3>2 DEF Pools
    <3> QED
      BY <1>3, <1>8, <3>1, <3>3 DEF Lasts
  <2> QED
    BY <1>1, <1>8, <2>1 DEF PoolHoldsRows
<1>10. RefsOf(ended) \subseteq Refs /\ \A ref \in RefsOf(ended) : ref.epoch < pool'.epochs[ref.slot]
  <2>1. ASSUME NEW i \in DOMAIN ended
        PROVE  ended[i].ref \in Refs /\ ended[i].ref.epoch < pool'.epochs[ended[i].ref.slot]
    <3>1. PICK j \in DOMAIN rows : Lasts(ended[i], rows[j])
      BY <1>2
    <3>2. ended[i].ref.slot \in SlotsIn(ended)
      BY DEF SlotsIn
    <3>3. ended[i].ref.slot \in Slots
      BY <1>3, <1>4, <3>2 DEF Pools
    <3>4. pool.epochs[ended[i].ref.slot] = ended[i].ref.epoch
      BY <1>3, <3>1 DEF Lasts
    <3>5. pool'.epochs[ended[i].ref.slot] = ended[i].ref.epoch + 1 /\ ended[i].ref.epoch \in Nat
      BY <1>3, <1>8, <3>2, <3>3, <3>4
    <3> QED
      BY <1>5, <3>5
  <2> QED
    BY <2>1 DEF RefsOf
<1>11. ASSUME NEW ref \in retired
       PROVE  ref.epoch < pool'.epochs[ref.slot]
  <2>1. ref \in Refs /\ ref.epoch < pool.epochs[ref.slot]
    BY DEF IInv, TypeOK, Outdated
  <2>2. ref.slot \in Slots /\ ref.epoch \in Nat
    BY <2>1 DEF Refs
  <2> QED
    BY <1>3, <1>8, <2>1, <2>2
<1>12. Outdated'
  BY <1>1, <1>10, <1>11 DEF Outdated
<1>13. retired' \subseteq Refs
  BY <1>1, <1>10 DEF IInv, TypeOK
<1> QED
  BY <1>8, <1>9, <1>12, <1>13

LEMMA CompletionKeepsTables ==
  ASSUME IInv, phase \in {"tick", "decode"}, NEW kept, NEW ended, Divided(kept, ended),
         rows' = kept, FinalizeResult(kept), CommitTable(ended)
  PROVE  TablesHoldRows'
<1>1. /\ DOMAIN mRefs = Indices(rows) /\ DOMAIN mReported = Indices(rows)
      /\ DOMAIN table = SlotsIn(rows)
      /\ \A i \in DOMAIN rows : /\ mRefs[rows[i].index] = rows[i].ref
                                /\ table[rows[i].ref.slot].ref = rows[i].ref
                                /\ table[rows[i].ref.slot].request = rows[i].index
  BY DEF IInv, TablesHoldRows, Running
<1>2. /\ Indices(kept) \subseteq Indices(rows)
      /\ SlotsIn(kept) = SlotsIn(rows) \ SlotsIn(ended)
  BY NamesDivide
<1>3. /\ mRefs' = [index \in DOMAIN mRefs \cap Indices(kept) |-> mRefs[index]]
      /\ table' = [slot \in DOMAIN table \ SlotsIn(ended) |-> table[slot]]
  BY SlotsByReference DEF FinalizeResult, CommitTable, Less
<1>4. DOMAIN mReported' = DOMAIN mReported \cap Indices(kept)
  BY DEF FinalizeResult, ReportDeltas
<1>5. /\ DOMAIN mRefs' = Indices(kept) /\ DOMAIN mReported' = Indices(kept)
      /\ DOMAIN table' = SlotsIn(kept)
  BY <1>1, <1>2, <1>3, <1>4
<1>6. ASSUME NEW i \in DOMAIN kept
      PROVE  /\ mRefs'[kept[i].index] = kept[i].ref
             /\ table'[kept[i].ref.slot].ref = kept[i].ref
             /\ table'[kept[i].ref.slot].request = kept[i].index
  <2>1. kept[i].index \in Indices(kept) /\ kept[i].ref.slot \in SlotsIn(kept)
    BY DEF Indices, SlotsIn
  <2>2. /\ mRefs'[kept[i].index] = mRefs[kept[i].index]
        /\ table'[kept[i].ref.slot] = table[kept[i].ref.slot]
    BY <1>3, <1>5, <2>1
  <2>3. PICK j \in DOMAIN rows : kept[i].index = rows[j].index /\ kept[i].ref = rows[j].ref
    BY DEF Divided, Lasts
  <2> QED
    BY <1>1, <2>2, <2>3
<1> QED
  BY <1>5, <1>6 DEF TablesHoldRows

(* Each row that ended is answered, to the request its slot names. *)
LEMMA CompletionKeepsHistories ==
  ASSUME IInv, phase \in {"tick", "decode"}, NEW kept, NEW ended, Divided(kept, ended),
         rows' = kept, CommitTable(ended), phase' = "tick",
         UNCHANGED <<nextIndex, prompts>>, DOMAIN delivered' = DOMAIN delivered
  PROVE  Histories'
<1>1. outcomes' = outcomes \cup {[index |-> ended[i].index,
                                  request |-> table[ended[i].ref.slot].request] :
                                    i \in DOMAIN ended}
  BY DEF CommitTable
<1>2. \A i \in DOMAIN ended : table[ended[i].ref.slot].request = ended[i].index
  <2>1. \A i \in DOMAIN ended : \E j \in DOMAIN rows : /\ ended[i].index = rows[j].index
                                                       /\ ended[i].ref = rows[j].ref
    BY DEF Divided, Lasts
  <2>2. \A j \in DOMAIN rows : table[rows[j].ref.slot].request = rows[j].index
    BY DEF IInv, TablesHoldRows, Running
  <2> QED
    BY <2>1, <2>2
<1>3. outcomes' = outcomes \cup {[index |-> ended[i].index, request |-> ended[i].index] :
                                    i \in DOMAIN ended}
  BY <1>1, <1>2
<1>4. \A o \in outcomes' : o.index = o.request
  BY <1>3 DEF IInv, Histories
<1>5. Filed' = Filed \cup Indices(ended)
  <2> DEFINE answer(i) == [index |-> ended[i].index, request |-> ended[i].index]
             answers == {answer(i) : i \in DOMAIN ended}
  <2>1. \A i \in DOMAIN ended : answer(i).index = ended[i].index
    OBVIOUS
  <2>2. outcomes' = outcomes \cup answers
    BY <1>3
  <2>3. \A o \in answers : \E i \in DOMAIN ended : o = answer(i)
    OBVIOUS
  <2>4. \A i \in DOMAIN ended : answer(i) \in answers
    OBVIOUS
  <2> HIDE DEF answer, answers
  <2>5. \A o \in answers : o.index \in Indices(ended)
    BY <2>1, <2>3 DEF Indices
  <2>6. \A x \in Indices(ended) : \E o \in answers : x = o.index
    BY <2>1, <2>4 DEF Indices
  <2> QED
    BY <2>2, <2>5, <2>6 DEF Filed
<1>6. /\ Indices(rows) = Indices(kept) \cup Indices(ended)
      /\ Indices(kept) \cap Indices(ended) = {}
  BY NamesDivide
<1>7. Running'
  BY DEF Running
<1> QED
  BY <1>4, <1>5, <1>6, <1>7 DEF IInv, Histories

LEMMA CompletionKeeps ==
  ASSUME IInv, phase \in {"tick", "decode"}, NEW kept, NEW ended, Divided(kept, ended),
         Evict(ended, kept), FinalizeResult(kept), CommitTable(ended),
         mPending' = 0, awaiting' = NoRef, phase' = "tick", UNCHANGED <<nextIndex, prompts>>
  PROVE  IInv'
<1>1. Running /\ Running'
  BY DEF Running
<1>2. /\ rows' = kept /\ kept \in Seq(Rows) /\ Differ(kept) /\ Len(kept) <= Len(rows)
      /\ \A i \in DOMAIN kept : \E j \in DOMAIN rows : Lasts(kept[i], rows[j])
  BY DEF Evict, Divided
<1>3. pool' \in Pools /\ retired' \subseteq Refs /\ PoolHoldsRows' /\ Outdated'
  BY <1>1, EvictionKeepsPool
<1>4. /\ DOMAIN delivered' = DOMAIN delivered
      /\ \A index \in DOMAIN mReported' : mReported'[index] \in Nat
      /\ \A index \in DOMAIN delivered' : delivered'[index] \in Nat
      /\ \A i \in DOMAIN kept :
           /\ mReported'[kept[i].index] = kept[i].tokens
           /\ prompts[kept[i].index] + delivered'[kept[i].index] = kept[i].tokens
  BY <1>2, DeltasAreReported DEF FinalizeResult
<1>5. TablesHoldRows'
  BY <1>2, CompletionKeepsTables
<1>6. Histories'
  BY <1>2, <1>4, CompletionKeepsHistories
<1>7. TypeOK'
  <2>1. /\ \A index \in DOMAIN mRefs' : mRefs'[index] \in Refs
        /\ \A slot \in DOMAIN table' : table'[slot] \in [ref : Refs, request : Nat]
    BY DEF IInv, TypeOK, FinalizeResult, CommitTable, Less
  <2>2. \A f \in {mReported', prompts', delivered'} : \A index \in DOMAIN f : f[index] \in Nat
    BY <1>4 DEF IInv, TypeOK
  <2> QED
    BY <1>2, <1>3, <2>1, <2>2 DEF IInv, TypeOK
<1>8. Seat'
  <2>1. Len(kept) \in Nat /\ Len(rows) \in Nat /\ MaxBatchSize \in Nat
    BY <1>2, StepperAssumption, PoolCapacityAssumption DEF IInv, TypeOK
  <2> QED
    BY <1>2, <2>1 DEF IInv, Seat
<1>9. Reports'
  <2>1. \A i \in DOMAIN kept : kept[i].tokens \in Nat
    <3>1. \A i \in DOMAIN kept : kept[i] \in Rows
      BY <1>2
    <3> QED
      BY <3>1 DEF Rows
  <2>2. \A i \in DOMAIN kept : kept[i].tokens <= kept[i].tokens
    BY <2>1
  <2> QED
    BY <1>2, <1>4, <2>2 DEF Reports
<1> QED
  BY <1>2, <1>3, <1>5, <1>6, <1>7, <1>8, <1>9 DEF IInv

LEMMA CompleteKeeps ==
  ASSUME IInv, phase \in {"tick", "decode"}, NEW stepped, Stepped(stepped), Complete(stepped)
  PROVE  IInv'
<1>1. PICK alive, gone : /\ alive = {i \in DOMAIN stepped : IsLive(stepped[i])}
                         /\ gone = {i \in DOMAIN stepped : ~IsLive(stepped[i])}
  OBVIOUS
<1>2. PICK live \in Ascending(alive), over \in Ascending(gone) :
        /\ Evict(TheseRows(stepped, over), TheseRows(stepped, live))
        /\ FinalizeResult(TheseRows(stepped, live))
        /\ CommitTable(TheseRows(stepped, over))
        /\ mPending' = 0 /\ awaiting' = NoRef /\ phase' = "tick"
        /\ UNCHANGED <<nextIndex, prompts>>
  BY <1>1 DEF Complete
<1>3. /\ alive \in SUBSET (DOMAIN rows) /\ gone \in SUBSET (DOMAIN rows)
      /\ alive \cap gone = {}
      /\ \A i \in DOMAIN rows : i \in alive \/ i \in gone
  BY <1>1 DEF Stepped
<1>4. rows \in Seq(Rows) /\ Differ(rows)
  BY DEF IInv, TypeOK
<1>5. Divided(TheseRows(stepped, live), TheseRows(stepped, over))
  BY <1>3, <1>4, RowsDivide
<1> QED
  BY <1>2, <1>5, CompletionKeeps

(* A step that failed evicts nothing: every table still holds the rows. *)
LEMMA FailKeeps ==
  ASSUME IInv, phase \in {"tick", "decode"}, NEW stepped, Stepped(stepped), Fail(stepped)
  PROVE  IInv'
<1>1. /\ rows' = stepped /\ mPending' = 0 /\ awaiting' = NoRef /\ phase' = "failing"
      /\ UNCHANGED <<pool, mRefs, nextIndex, table, retired, prompts, outcomes>>
      /\ ReportDeltas(stepped) \/ UNCHANGED <<mReported, delivered>>
  BY DEF Fail
<1>2. Running /\ Running'
  BY <1>1 DEF Running
<1>3. /\ stepped \in Seq(Rows) /\ DOMAIN stepped = DOMAIN rows
      /\ \A i \in DOMAIN rows : Lasts(stepped[i], rows[i])
  BY DEF Stepped
<1>4. /\ Indices(stepped) = Indices(rows) /\ SlotsIn(stepped) = SlotsIn(rows)
      /\ Differ(stepped)
  BY <1>3 DEF IInv, Indices, SlotsIn, Differ, Lasts
<1>5. Len(stepped) = Len(rows)
  BY <1>3 DEF IInv, TypeOK
<1>6. /\ DOMAIN mReported' = DOMAIN mReported /\ DOMAIN delivered' = DOMAIN delivered
      /\ \A index \in DOMAIN mReported' : mReported'[index] \in Nat
      /\ \A index \in DOMAIN delivered' : delivered'[index] \in Nat
  <2>1. CASE ReportDeltas(stepped)
    <3>1. \A i \in DOMAIN stepped : \E j \in DOMAIN rows : Lasts(stepped[i], rows[j])
      BY <1>3
    <3>2. /\ DOMAIN mReported' = DOMAIN mReported \cap Indices(stepped)
          /\ DOMAIN delivered' = DOMAIN delivered
          /\ \A index \in DOMAIN mReported' : mReported'[index] \in Nat
          /\ \A index \in DOMAIN delivered' : delivered'[index] \in Nat
      BY <1>3, <1>4, <2>1, <3>1, DeltasAreReported
    <3>3. DOMAIN mReported = Indices(stepped)
      BY <1>2, <1>4 DEF IInv, TablesHoldRows
    <3> QED
      BY <3>2, <3>3
  <2>2. CASE UNCHANGED <<mReported, delivered>>
    BY <2>2 DEF IInv, TypeOK
  <2> QED
    BY <1>1, <2>1, <2>2
<1>7. TypeOK'
  BY <1>1, <1>3, <1>6 DEF IInv, TypeOK
<1>8. PoolHoldsRows' /\ Outdated'
  BY <1>1, <1>2, <1>3, <1>4 DEF IInv, PoolHoldsRows, Outdated, Lasts
<1>9. TablesHoldRows'
  BY <1>1, <1>2, <1>3, <1>4, <1>6 DEF IInv, TablesHoldRows, Lasts
<1>10. Histories'
  BY <1>1, <1>2, <1>4, <1>6 DEF IInv, Histories, Filed
<1>11. Seat'
  BY <1>1, <1>5 DEF IInv, Seat
<1>12. Reports'
  BY <1>1 DEF Reports
<1> QED
  BY <1>1, <1>4, <1>7, <1>8, <1>9, <1>10, <1>11, <1>12 DEF IInv

(* The end of a batch answers each row that is left under its own index. *)
LEMMA EndKeeps ==
  ASSUME IInv, EndBatch
  PROVE  IInv'
<1> DEFINE number(slot) == CHOOSE i \in DOMAIN mRefs : mRefs[i] = table[slot].ref
           answer(slot) == [index |-> number(slot), request |-> table[slot].request]
           answers == {answer(slot) : slot \in DOMAIN table}
<1>1. /\ Running /\ ~Running' /\ phase' = "idle"
      /\ outcomes' = outcomes \cup answers
      /\ table' = Empty /\ rows' = <<>> /\ mRefs' = Empty /\ mReported' = Empty
      /\ UNCHANGED <<pool, mPending, awaiting, nextIndex, retired, prompts, delivered>>
  BY DEF EndBatch, Running
<1>2. mPending = 0
  BY DEF EndBatch, IInv, Seat
<1>3. /\ DOMAIN mRefs = Indices(rows) /\ DOMAIN table = SlotsIn(rows)
      /\ \A i \in DOMAIN rows : /\ mRefs[rows[i].index] = rows[i].ref
                                /\ table[rows[i].ref.slot].ref = rows[i].ref
                                /\ table[rows[i].ref.slot].request = rows[i].index
  BY <1>1 DEF IInv, TablesHoldRows
<1>4. ASSUME NEW i \in DOMAIN rows
      PROVE  /\ answer(rows[i].ref.slot).index = rows[i].index
             /\ answer(rows[i].ref.slot).request = rows[i].index
  <2>1. rows[i].index \in DOMAIN mRefs /\ mRefs[rows[i].index] = rows[i].ref
    BY <1>3 DEF Indices
  <2>2. ASSUME NEW k \in DOMAIN mRefs, mRefs[k] = rows[i].ref
        PROVE  k = rows[i].index
    <3>1. PICK j \in DOMAIN rows : k = rows[j].index
      BY <1>3 DEF Indices
    <3>2. rows[j].ref = rows[i].ref
      BY <1>3, <2>2, <3>1
    <3>3. j = i
      BY <3>2 DEF IInv, Differ
    <3> QED
      BY <3>1, <3>3
  <2>3. (CHOOSE k \in DOMAIN mRefs : mRefs[k] = rows[i].ref) = rows[i].index
    BY <2>1, <2>2
  <2>4. number(rows[i].ref.slot) = rows[i].index
    BY <1>3, <2>3
  <2> QED
    BY <1>3, <2>4
<1>5. \A a \in answers : \E slot \in DOMAIN table : a = answer(slot)
  OBVIOUS
<1>6. \A slot \in DOMAIN table : answer(slot) \in answers
  OBVIOUS
<1> HIDE DEF number, answer, answers
<1>7. \A a \in answers : a.index = a.request /\ a.index \in Indices(rows)
  BY <1>3, <1>4, <1>5 DEF SlotsIn, Indices
<1>8. \A index \in Indices(rows) : \E a \in answers : a.index = index
  BY <1>3, <1>4, <1>6 DEF SlotsIn, Indices
<1>9. Filed' = Filed \cup Indices(rows)
  BY <1>1, <1>7, <1>8 DEF Filed
<1>10. Indices(rows') = {} /\ rows' \in Seq(Rows) /\ DOMAIN rows' = {} /\ Len(rows') = 0
  BY <1>1 DEF Indices
<1>11. Histories'
  BY <1>1, <1>7, <1>9, <1>10 DEF IInv, Histories
<1>12. TypeOK'
  <2>1. DOMAIN Empty = {}
    BY DEF Empty
  <2> QED
    BY <1>1, <1>10, <2>1 DEF IInv, TypeOK
<1>13. Differ(rows)' /\ Reports' /\ TablesHoldRows'
  BY <1>1, <1>10 DEF Differ, Reports, TablesHoldRows
<1>14. PoolHoldsRows' /\ Outdated'
  BY <1>1 DEF IInv, PoolHoldsRows, Outdated
<1>15. Seat'
  BY <1>1, <1>2, <1>10, StepperAssumption DEF Seat
<1> QED
  BY <1>11, <1>12, <1>13, <1>14, <1>15 DEF IInv

-----------------------------------------------------------------------------
(* The steps themselves: each changes a row's tokens, never its names.     *)

(* A row with a new reason, with or without a token. *)
LEMMA RowsLast ==
  ASSUME NEW row \in Rows, NEW reason \in Reasons \cup {Live}
  PROVE  /\ [row EXCEPT !.reason = reason] \in Rows
         /\ Lasts([row EXCEPT !.reason = reason], row)
         /\ [WithToken(row) EXCEPT !.reason = reason] \in Rows
         /\ Lasts([WithToken(row) EXCEPT !.reason = reason], row)
<1>1. /\ row.index \in Nat /\ row.ref \in Refs /\ row.tokens \in Nat /\ row.generated \in Nat
      /\ row.tokens + 1 \in Nat /\ row.generated + 1 \in Nat
      /\ row.tokens <= row.tokens /\ row.tokens <= row.tokens + 1
  BY DEF Rows
<1>2. /\ [row EXCEPT !.reason = reason] \in Rows
      /\ [row EXCEPT !.reason = reason].index = row.index
      /\ [row EXCEPT !.reason = reason].ref = row.ref
      /\ [row EXCEPT !.reason = reason].tokens = row.tokens
  BY DEF Rows
<1>3. /\ WithToken(row) \in Rows /\ WithToken(row).index = row.index
      /\ WithToken(row).ref = row.ref /\ WithToken(row).tokens = row.tokens + 1
  <2>1. PICK tokens \in Nat, generated \in Nat :
          tokens = row.tokens + 1 /\ generated = row.generated + 1
    BY <1>1
  <2>2. WithToken(row) = [row EXCEPT !.tokens = tokens, !.generated = generated]
    BY <2>1 DEF WithToken
  <2>3. /\ [row EXCEPT !.tokens = tokens, !.generated = generated] \in Rows
        /\ [row EXCEPT !.tokens = tokens, !.generated = generated].index = row.index
        /\ [row EXCEPT !.tokens = tokens, !.generated = generated].ref = row.ref
        /\ [row EXCEPT !.tokens = tokens, !.generated = generated].tokens = tokens
    BY DEF Rows
  <2> QED
    BY <2>1, <2>2, <2>3
<1>4. PICK more \in Rows : more = WithToken(row)
  BY <1>3
<1>5. /\ [more EXCEPT !.reason = reason] \in Rows
      /\ [more EXCEPT !.reason = reason].index = more.index
      /\ [more EXCEPT !.reason = reason].ref = more.ref
      /\ [more EXCEPT !.reason = reason].tokens = more.tokens
  BY DEF Rows
<1> QED
  BY <1>1, <1>2, <1>3, <1>4, <1>5 DEF Lasts

(* One row of the batch is stepped. *)
LEMMA OneRowStepped ==
  ASSUME rows \in Seq(Rows), NEW k \in DOMAIN rows, NEW after \in Rows, Lasts(after, rows[k])
  PROVE  Stepped([rows EXCEPT ![k] = after])
<1>1. [rows EXCEPT ![k] = after] \in Seq(Rows) /\ DOMAIN [rows EXCEPT ![k] = after] = DOMAIN rows
  OBVIOUS
<1>2. \A i \in DOMAIN rows : rows[i].tokens <= rows[i].tokens
  <2>1. \A i \in DOMAIN rows : rows[i] \in Rows
    OBVIOUS
  <2>2. \A i \in DOMAIN rows : rows[i].tokens \in Nat
    BY <2>1 DEF Rows
  <2> QED
    BY <2>2
<1> QED
  BY <1>1, <1>2 DEF Stepped, Lasts

LEMMA FounderKeeps ==
  ASSUME IInv, PrefillFounder
  PROVE  IInv'
<1>1. rows \in Seq(Rows) /\ Len(rows) = 1
  BY DEF IInv, TypeOK, Seat, PrefillFounder
<1>2. 1 \in DOMAIN rows /\ rows[1] \in Rows
  BY <1>1
<1>3. PICK reason \in Ending(rows[1]) :
        \/ Complete([rows EXCEPT ![1].reason = reason])
        \/ Fail([rows EXCEPT ![1].reason = reason])
  BY DEF PrefillFounder
<1>4. reason \in Reasons \cup {Live}
  BY DEF Ending
<1>5. PICK after : after = [rows[1] EXCEPT !.reason = reason]
  OBVIOUS
<1>6. [rows EXCEPT ![1].reason = reason] = [rows EXCEPT ![1] = after]
  BY <1>5
<1>7. after \in Rows /\ Lasts(after, rows[1])
  BY <1>2, <1>4, <1>5, RowsLast
<1>8. Stepped([rows EXCEPT ![1] = after])
  BY <1>1, <1>2, <1>7, OneRowStepped
<1> QED
  BY <1>3, <1>6, <1>8, CompleteKeeps, FailKeeps DEF PrefillFounder

LEMMA SeatedPrefillKeeps ==
  ASSUME IInv, PrefillSeated
  PROVE  IInv'
<1>1. rows \in Seq(Rows) /\ mPending = Len(rows) /\ mPending > 1
  BY DEF IInv, TypeOK, Seat, PrefillSeated
<1>2. mPending \in DOMAIN rows /\ rows[mPending] \in Rows
  BY <1>1
<1>3. PICK after : /\ \/ after = [rows[mPending] EXCEPT !.reason = "kError"]
                      \/ after = [WithToken(rows[mPending]) EXCEPT !.reason = "kError"]
                      \/ \E reason \in Ending(WithToken(rows[mPending])) :
                           after = [WithToken(rows[mPending]) EXCEPT !.reason = reason]
                   /\ \/ Complete([rows EXCEPT ![mPending] = after])
                      \/ Fail([rows EXCEPT ![mPending] = after])
  BY DEF PrefillSeated
<1>4. \A reason \in Ending(WithToken(rows[mPending])) : reason \in Reasons \cup {Live}
  BY DEF Ending
<1>5. "kError" \in Reasons \cup {Live}
  BY DEF Reasons
<1>6. after \in Rows /\ Lasts(after, rows[mPending])
  BY <1>2, <1>3, <1>4, <1>5, RowsLast
<1>7. Stepped([rows EXCEPT ![mPending] = after])
  BY <1>1, <1>2, <1>6, OneRowStepped
<1> QED
  BY <1>3, <1>7, CompleteKeeps, FailKeeps DEF PrefillSeated

LEMMA DecodeKeeps ==
  ASSUME IInv, Decode
  PROVE  IInv'
<1>1. rows \in Seq(Rows) /\ phase \in {"tick", "decode"}
  BY DEF IInv, TypeOK, Decode
<1>2. \A i \in DOMAIN rows : rows[i] \in Rows
  BY <1>1
<1>3. CASE Fail(rows)
  <2>1. \A i \in DOMAIN rows : rows[i].tokens \in Nat
    BY <1>2 DEF Rows
  <2>2. Stepped(rows)
    BY <1>1, <2>1 DEF Stepped, Lasts
  <2> QED
    BY <1>1, <1>3, <2>2, FailKeeps
<1>4. ASSUME NEW reasons \in [DOMAIN rows -> Reasons \cup {Live}],
             NEW stepped, stepped = [i \in DOMAIN rows |->
                                       [WithToken(rows[i]) EXCEPT !.reason = reasons[i]]],
             Complete(stepped) \/ Fail(stepped)
      PROVE  IInv'
  <2>1. ASSUME NEW i \in DOMAIN rows
        PROVE  stepped[i] \in Rows /\ Lasts(stepped[i], rows[i])
    <3>1. stepped[i] = [WithToken(rows[i]) EXCEPT !.reason = reasons[i]]
      BY <1>4
    <3>2. rows[i] \in Rows /\ reasons[i] \in Reasons \cup {Live}
      BY <1>2
    <3> QED
      BY <3>1, <3>2, RowsLast
  <2>2. stepped \in Seq(Rows) /\ DOMAIN stepped = DOMAIN rows
    <3>1. DOMAIN rows = 1..Len(rows) /\ Len(rows) \in Nat
      BY <1>1
    <3>2. stepped \in [1..Len(rows) -> Rows]
      BY <1>4, <2>1, <3>1
    <3> QED
      BY <3>1, <3>2
  <2>3. Stepped(stepped)
    BY <2>1, <2>2 DEF Stepped
  <2> QED
    BY <1>1, <1>4, <2>3, CompleteKeeps, FailKeeps
<1> QED
  BY <1>3, <1>4 DEF Decode

-----------------------------------------------------------------------------
(* The theorems.                                                           *)

LEMMA StepKeeps ==
  ASSUME IInv, [Next]_vars
  PROVE  IInv'
<1>1. CASE Next
  BY <1>1, FoundKeeps, SeatedKeeps, RefusedKeeps, RolledBackKeeps, FounderKeeps,
     SeatedPrefillKeeps, DecodeKeeps, EndKeeps DEF Next
<1>2. CASE UNCHANGED vars
  <2> USE <1>2 DEF vars, stepperVars, schedVars, historyVars
  <2>1. TypeOK' /\ Differ(rows)'
    BY DEF IInv, TypeOK, Differ
  <2>2. PoolHoldsRows' /\ Outdated' /\ TablesHoldRows'
    BY DEF IInv, PoolHoldsRows, Outdated, TablesHoldRows, Running, SlotsIn, Indices
  <2>3. Histories'
    BY DEF IInv, Histories, Running, Filed, Indices
  <2>4. Seat' /\ Reports'
    BY DEF IInv, Seat, Reports
  <2> QED
    BY <2>1, <2>2, <2>3, <2>4 DEF IInv
<1> QED
  BY <1>1, <1>2

(* The invariant holds in every state of a stepped batch, whatever the sizes of the     *)
(* pool, the batch, the prompts and the generations.                                    *)
THEOREM Invariance == Spec => []IInv
<1>1. Init => IInv
  BY StartHolds
<1>2. IInv /\ [Next]_vars => IInv'
  BY StepKeeps
<1> QED
  BY <1>1, <1>2, PTL DEF Spec

(* The variables keep their types. *)
THEOREM TypeCorrect == Spec => []TypeOK
<1>1. IInv => TypeOK
  BY DEF IInv
<1> QED
  BY <1>1, Invariance, PTL

(* The four names of a row agree in every table, no slot is shared or leaked, and a     *)
(* batch below its limit finds a free one: the checks of residents(), finalizeResult(), *)
(* add() and commit() never fail (runtimeStepper, requestCoordinator).                  *)
THEOREM TablesAlwaysAgree == Spec => []TablesAgree
<1>1. IInv => TablesAgree
  BY InvariantImpliesTables
<1> QED
  BY <1>1, Invariance, PTL

(* An admission gets an unused index, its prefill is that of the youngest row, and a    *)
(* reference given back never names a row again (admit(), ResidentSlotPool::release).   *)
THEOREM SeatsAlwaysFresh == Spec => []SeatsAreFresh
<1>1. IInv => SeatsAreFresh
  BY InvariantImpliesFresh
<1> QED
  BY <1>1, Invariance, PTL

(* Every token of a surviving row was in exactly one delta (finalizeResult()). *)
THEOREM DeltasAlwaysExact == Spec => []DeltasAreExact
<1>1. IInv => DeltasAreExact
  BY InvariantImpliesDeltas
<1> QED
  BY <1>1, Invariance, PTL

(* Each sequence has one outcome, under the request that owns it, once the batch is     *)
(* over (commit(), failEverything()).                                                   *)
THEOREM OutcomesAlwaysReachOwners == Spec => []OutcomesReachOwners
<1>1. IInv => OutcomesReachOwners
  BY InvariantImpliesOutcomes
<1> QED
  BY <1>1, Invariance, PTL
=============================================================================
