--------------------------- MODULE SchedulerProofs ---------------------------
(***************************************************************************)
(* The ring implements the bounded line and grants each cell to one thread *)
(* at a time, for any number of producers, commands and cells; and what a  *)
(* request's record lets get() answer, for any set of cancelling threads.  *)
(***************************************************************************)
EXTENDS CommandQueue, RequestRecord, Integers, SequenceTheorems, TLAPS

-----------------------------------------------------------------------------
(* The command queue.                                                      *)

(* The oldest position whose cell has not been handed on, and the positions that *)
(* share the cells out between them at this moment.                              *)
Freed == IF popPc = "free" THEN mDequeuePos - 1 ELSE mDequeuePos
Window == Freed .. (Freed + mCapacity - 1)

Holding(p) == pc[p] \in {"write", "publish"}
Writing(p) == pc[p] = "write"
Published(at) == at < mEnqueuePos /\ \A p \in Producers : Holding(p) => position[p] # at
Filled(at) == /\ FirstUntaken <= at /\ at < mEnqueuePos
              /\ \A p \in Producers : Writing(p) => position[p] # at

(* The positions: at most a ring's worth is claimed, and what is taken was claimed. *)
Counters == /\ Freed \in Nat
            /\ FirstUntaken <= mEnqueuePos
            /\ mEnqueuePos <= Freed + mCapacity
            /\ popPc = "take" => Published(mDequeuePos)

(* A producer that holds a position holds it alone, among those claimed and not taken; *)
(* one about to claim saw the cell of its position free, which lasts until the position *)
(* is claimed.                                                                          *)
Claims ==
  /\ \A p \in Producers :
       /\ position[p] <= mEnqueuePos
       /\ pc[p] = "claim" => position[p] < Freed + mCapacity
       /\ Holding(p) => FirstUntaken <= position[p] /\ position[p] < mEnqueuePos
  /\ \A p, q \in Producers : Holding(p) /\ Holding(q) /\ position[p] = position[q] => p = q

(* The sequence of a cell says how far its position in the window has come. *)
Sequences == \A at \in Window :
  sequence[CellOf(at)] = IF Published(at) THEN at + 1 ELSE at

(* A cell holds a command from the write to the take, *)
Contents == \A at \in Window : command[CellOf(at)] # NoCommand <=> Filled(at)
(* a producer from the call to the write, *)
Arguments == \A p \in Producers : arg[p] # NoCommand <=> pc[p] \in {"read", "claim", "write"}
(* and nobody two of them, or one that is already delivered or destroyed. *)
Spent == {taken[i] : i \in DOMAIN taken} \cup refused
OneOwner ==
  /\ \A p, q \in Producers : arg[p] = arg[q] /\ arg[p] # NoCommand => p = q
  /\ \A c, d \in Cells : command[c] = command[d] /\ command[c] # NoCommand => c = d
  /\ \A p \in Producers, c \in Cells : arg[p] = command[c] => arg[p] = NoCommand
  /\ \A p \in Producers : arg[p] \notin Spent
  /\ \A c \in Cells : command[c] \notin Spent

Ring == TypeOK /\ Counters /\ Claims /\ Sequences
Goods == Contents /\ Arguments /\ OneOwner
IInv == Ring /\ Goods

-----------------------------------------------------------------------------
(* Cells and laps.                                                         *)

(* RingSize() never returns less than two. *)
LEMMA RingSizeIsTwo == mCapacity \in Nat /\ mCapacity >= 2
BY RingSizeAssumption DEF kMinCapacity

(* A lap further is a ring's worth further. *)
LEMMA LapsGrow ==
  ASSUME NEW q \in Int, NEW r \in Int, q < r
  PROVE  mCapacity * q \in Int /\ mCapacity * r \in Int /\ mCapacity * q + mCapacity <= mCapacity * r
BY RingSizeIsTwo

(* A position is a lap and a cell, *)
LEMMA Laps ==
  ASSUME NEW a \in Nat
  PROVE  \E q \in Nat, r \in Cells : a = mCapacity * q + r /\ CellOf(a) = r
<1>1. a = mCapacity * (a \div mCapacity) + (a % mCapacity) /\ a \div mCapacity \in Nat
  BY RingSizeIsTwo
<1>2. a % mCapacity \in Cells
  BY RingSizeIsTwo DEF Cells
<1> QED
  BY <1>1, <1>2 DEF CellOf

(* in one way only. *)
LEMMA LapIsUnique ==
  ASSUME NEW q \in Nat, NEW r \in Cells
  PROVE  CellOf(mCapacity * q + r) = r
<1> DEFINE a == mCapacity * q + r
<1> USE RingSizeIsTwo DEF Cells
<1>1. mCapacity * q \in Nat /\ a \in Nat
  OBVIOUS
<1>2. PICK s \in Nat, t \in Cells : a = mCapacity * s + t /\ CellOf(a) = t
  BY <1>1, Laps
<1>3. mCapacity * s \in Nat
  OBVIOUS
<1>4. ~ (q < s) /\ ~ (s < q)
  BY <1>1, <1>2, <1>3, LapsGrow
<1>5. q = s
  BY <1>4
<1>6. r = t
  BY <1>1, <1>2, <1>3, <1>5
<1> QED
  BY <1>2, <1>6

(* Positions a ring apart share a cell, *)
LEMMA SameCell ==
  ASSUME NEW a \in Nat
  PROVE  CellOf(a) \in Cells /\ CellOf(a + mCapacity) = CellOf(a)
<1>1. PICK q \in Nat, r \in Cells : a = mCapacity * q + r /\ CellOf(a) = r
  BY Laps
<1>2. a + mCapacity = mCapacity * (q + 1) + r /\ q + 1 \in Nat
  BY <1>1, RingSizeIsTwo DEF Cells
<1>3. CellOf(mCapacity * (q + 1) + r) = r
  BY <1>2, LapIsUnique
<1> QED
  BY <1>1, <1>2, <1>3

(* positions that share a cell are a ring apart, *)
LEMMA CellsApart ==
  ASSUME NEW a \in Nat, NEW b \in Nat, a < b, CellOf(a) = CellOf(b)
  PROVE  a + mCapacity <= b
<1>1. PICK q \in Nat, r \in Cells : a = mCapacity * q + r /\ CellOf(a) = r
  BY Laps
<1>2. PICK s \in Nat, t \in Cells : b = mCapacity * s + t /\ CellOf(b) = t
  BY Laps
<1>3. mCapacity * q \in Nat /\ mCapacity * s \in Nat
  BY RingSizeIsTwo
<1>4. ~ (s < q) /\ q # s
  BY <1>1, <1>2, <1>3, RingSizeIsTwo, LapsGrow DEF Cells
<1>5. q < s
  BY <1>4
<1> QED
  BY <1>1, <1>2, <1>3, <1>5, RingSizeIsTwo, LapsGrow DEF Cells

(* and every cell has a position in a window of a ring's length. *)
LEMMA WindowCovers ==
  ASSUME NEW c \in Cells, NEW f \in Nat
  PROVE  \E at \in f .. (f + mCapacity - 1) : CellOf(at) = c
<1>1. PICK q \in Nat, r \in Cells : f = mCapacity * q + r /\ CellOf(f) = r
  BY Laps
<1>2. mCapacity * (q + 1) = mCapacity * q + mCapacity /\ mCapacity * q \in Nat /\ q + 1 \in Nat
  BY RingSizeIsTwo
<1>3. CellOf(mCapacity * q + c) = c /\ CellOf(mCapacity * (q + 1) + c) = c
  BY <1>2, LapIsUnique
<1> QED
  BY <1>1, <1>2, <1>3, RingSizeIsTwo DEF Cells

(* So the cells of a window are one each. *)
LEMMA WindowCells ==
  ASSUME TypeOK, Counters
  PROVE  /\ Freed \in Nat /\ Window \subseteq Nat
         /\ \A at \in Window : CellOf(at) \in Cells
         /\ \A a, b \in Window : CellOf(a) = CellOf(b) => a = b
         /\ \A c \in Cells : \E at \in Window : CellOf(at) = c
<1>1. Freed \in Nat /\ Window \subseteq Nat
  BY RingSizeIsTwo DEF Counters, Window
<1>2. \A at \in Window : CellOf(at) \in Cells
  BY <1>1, SameCell
<1>3. ASSUME NEW a \in Window, NEW b \in Window, CellOf(a) = CellOf(b)
      PROVE  a = b
  <2>1. ~ (a < b) /\ ~ (b < a)
    BY <1>1, <1>3, CellsApart, RingSizeIsTwo DEF Window
  <2> QED
    BY <2>1, <1>1
<1>4. \A c \in Cells : \E at \in Window : CellOf(at) = c
  BY <1>1, WindowCovers DEF Window
<1> QED
  BY <1>1, <1>2, <1>3, <1>4

-----------------------------------------------------------------------------
(* The positions and sequences.                                            *)

(* The ring starts with every cell free for the first lap. *)
LEMMA InitRing == Init => Ring
<1> SUFFICES ASSUME Init PROVE Ring
  OBVIOUS
<1> USE RingSizeIsTwo DEF Init
<1>1. TypeOK
  BY DEF TypeOK, Cells
<1>2. Counters
  BY DEF Counters, Freed, FirstUntaken
<1>3. Claims
  BY DEF Claims, Holding, Freed, FirstUntaken
<1>4. Sequences
  <2>1. ASSUME NEW at \in Window PROVE sequence[CellOf(at)] = at
    <3>1. at \in Nat /\ at \in Cells
      BY DEF Window, Freed, Cells
    <3>2. CellOf(mCapacity * 0 + at) = at
      BY <3>1, LapIsUnique
    <3>3. CellOf(at) = at
      BY <3>1, <3>2
    <3> QED
      BY <3>1, <3>3
  <2>2. \A at \in Window : ~ Published(at)
    BY DEF Window, Freed, Published
  <2> QED
    BY <2>1, <2>2 DEF Sequences
<1> QED
  BY <1>1, <1>2, <1>3, <1>4 DEF Ring

(* A free cell seen from a position that nobody has passed is one lap's at most. *)
LEMMA SeenFree ==
  ASSUME Ring, NEW p \in Producers, sequence[CellOf(position[p])] = position[p]
  PROVE  position[p] < Freed + mCapacity
<1>1. position[p] \in Nat /\ position[p] <= Freed + mCapacity /\ Freed \in Nat
  <2>1. position[p] \in Nat /\ mEnqueuePos \in Nat /\ Freed \in Nat
    BY DEF Ring, TypeOK, Counters
  <2>2. position[p] <= mEnqueuePos /\ mEnqueuePos <= Freed + mCapacity
    BY DEF Ring, Counters, Claims
  <2> QED
    BY <2>1, <2>2, RingSizeIsTwo
<1>2. ASSUME position[p] = Freed + mCapacity PROVE FALSE
  <2>1. CellOf(position[p]) = CellOf(Freed) /\ Freed \in Window
    BY <1>1, <1>2, SameCell, RingSizeIsTwo DEF Window
  <2>2. sequence[CellOf(Freed)] <= Freed + 1
    BY <2>1, <1>1 DEF Ring, Sequences
  <2> QED
    BY <2>1, <2>2, <1>1, <1>2, RingSizeIsTwo
<1> QED
  BY <1>1, <1>2, RingSizeIsTwo

(* A sequence behind the position: all cells are claimed or wait to be freed. *)
LEMMA SeenFull ==
  ASSUME Ring, NEW p \in Producers, sequence[CellOf(position[p])] < position[p]
  PROVE  mEnqueuePos = Freed + mCapacity
<1>1. position[p] \in Nat /\ position[p] <= mEnqueuePos /\ mEnqueuePos <= Freed + mCapacity
      /\ mEnqueuePos \in Nat /\ Freed \in Nat
  BY DEF Ring, TypeOK, Counters, Claims
<1>2. PICK at \in Window : CellOf(at) = CellOf(position[p])
  BY <1>1, SameCell, WindowCells DEF Ring
<1>3. at \in Nat /\ at >= Freed
  BY <1>1, RingSizeIsTwo DEF Window
<1>4. at < position[p]
  BY <1>1, <1>2, <1>3 DEF Ring, Sequences
<1> QED
  BY <1>1, <1>2, <1>3, <1>4, CellsApart, RingSizeIsTwo

(* A call of push() hands its command to the producer and touches no cell. *)
LEMMA PushBeginRing ==
  ASSUME Ring, NEW p \in Producers, NEW c \in Commands, PushBegin(p, c)
  PROVE  Ring'
<1> USE DEF PushBegin, Ring
<1>1. TypeOK'
  BY DEF TypeOK
<1>2. Counters'
  BY DEF TypeOK, Counters, Freed, FirstUntaken, Published, Holding
<1>3. Claims'
  BY DEF TypeOK, Claims, Holding, Freed, FirstUntaken
<1>4. Sequences'
  BY DEF TypeOK, Sequences, Window, Freed, Published, Holding
<1> QED
  BY <1>1, <1>2, <1>3, <1>4


(* A push that finds its cell not yet freed gives up and touches no cell. *)
LEMMA PushFullRing ==
  ASSUME Ring, Arguments, NEW p \in Producers, PushFull(p)
  PROVE  Ring'
<1> USE DEF PushFull, Ring
<1>1. TypeOK'
  BY DEF TypeOK, Arguments
<1>2. \A q \in Producers : Holding(q)' <=> Holding(q)
  BY DEF TypeOK, Holding
<1>3. Counters'
  BY <1>2 DEF Counters, Freed, FirstUntaken, Published
<1>4. Claims'
  BY <1>2 DEF TypeOK, Claims, Freed, FirstUntaken
<1>5. Sequences'
  BY <1>2 DEF Sequences, Window, Freed, Published
<1> QED
  BY <1>1, <1>3, <1>4, <1>5

(* A push that finds its cell free may claim the position it read. *)
LEMMA PushFreeRing ==
  ASSUME Ring, NEW p \in Producers, PushFree(p)
  PROVE  Ring'
<1> USE DEF PushFree, Ring
<1>1. TypeOK'
  BY DEF TypeOK
<1>2. \A q \in Producers : Holding(q)' <=> Holding(q)
  BY DEF TypeOK, Holding
<1>3. Counters'
  BY <1>2 DEF Counters, Freed, FirstUntaken, Published
<1>4. Claims'
  <2>1. position[p] < Freed + mCapacity
    BY SeenFree
  <2> QED
    BY <1>2, <2>1 DEF TypeOK, Claims, Freed, FirstUntaken
<1>5. Sequences'
  BY <1>2 DEF Sequences, Window, Freed, Published
<1> QED
  BY <1>1, <1>3, <1>4, <1>5

(* A producer that loses a cell or a claim holds no position: it reads a new one. *)
LEMMA PushAgainRing ==
  ASSUME Ring, NEW p \in Producers, PushChase(p) \/ PushClaimFails(p)
  PROVE  Ring'
<1> USE DEF PushChase, PushClaimFails, Ring
<1>1. TypeOK'
  BY DEF TypeOK
<1>2. \A q \in Producers : Holding(q)' <=> Holding(q) /\ q # p
  BY DEF TypeOK, Holding
<1>3. ~ Holding(p) /\ \A q \in Producers : q # p => position'[q] = position[q]
  BY DEF TypeOK, Holding
<1>4. Counters'
  BY <1>2, <1>3 DEF Counters, Freed, FirstUntaken, Published
<1>5. Claims'
  BY <1>2, <1>3 DEF TypeOK, Claims, Freed, FirstUntaken
<1>6. Sequences'
  BY <1>2, <1>3 DEF Sequences, Window, Freed, Published
<1> QED
  BY <1>1, <1>4, <1>5, <1>6

(* The compare-and-swap moves mEnqueuePos past the position it claims. *)
LEMMA PushClaimRing ==
  ASSUME Ring, NEW p \in Producers, PushClaim(p)
  PROVE  Ring'
<1> USE DEF PushClaim, Ring
<1>1. TypeOK'
  BY DEF TypeOK
<1>2. \A q \in Producers : Holding(q)' <=> Holding(q) \/ q = p
  BY DEF TypeOK, Holding
<1>3. /\ ~ Holding(p) /\ position[p] = mEnqueuePos /\ mEnqueuePos < Freed + mCapacity
      /\ mEnqueuePos \in Nat /\ Freed' = Freed /\ FirstUntaken' = FirstUntaken
      /\ Freed \in Nat /\ mDequeuePos \in Nat /\ FirstUntaken \in Nat
  BY DEF TypeOK, Claims, Counters, Holding, Freed, FirstUntaken
<1>4. \A at \in Nat : Published(at)' <=> Published(at)
  BY <1>2, <1>3 DEF Published
<1>5. Counters'
  BY <1>3, <1>4, RingSizeIsTwo DEF Counters
<1>6. Claims'
  <2>1. ASSUME NEW q \in Producers
        PROVE  /\ position[q] <= mEnqueuePos + 1
               /\ pc'[q] = "claim" => position[q] < Freed + mCapacity
               /\ Holding(q)' => FirstUntaken <= position[q] /\ position[q] < mEnqueuePos + 1
    BY <1>2, <1>3 DEF TypeOK, Claims, Counters
  <2>2. ASSUME NEW q \in Producers, NEW r \in Producers,
               Holding(q)', Holding(r)', position[q] = position[r]
        PROVE  q = r
    <3>1. \A s \in Producers : Holding(s) => position[s] # position[p]
      BY <1>3 DEF TypeOK, Claims
    <3> QED
      BY <1>2, <2>2, <3>1 DEF Claims
  <2> QED
    BY <1>3, <2>1, <2>2 DEF Claims
<1>7. Sequences'
  <2>1. Window' = Window /\ Window \subseteq Nat
    BY <1>3 DEF Window
  <2> QED
    BY <1>4, <2>1 DEF Sequences
<1> QED
  BY <1>1, <1>5, <1>6, <1>7

(* A producer writes the cell of the position it claimed. *)
LEMMA PushWriteRing ==
  ASSUME Ring, Arguments, NEW p \in Producers, PushWrite(p)
  PROVE  Ring'
<1> USE DEF PushWrite, Ring
<1>1. TypeOK'
  BY DEF TypeOK
<1>2. \A q \in Producers : Holding(q)' <=> Holding(q)
  BY DEF TypeOK, Holding
<1>3. Counters'
  BY <1>2 DEF Counters, Freed, FirstUntaken, Published
<1>4. Claims'
  BY <1>2 DEF TypeOK, Claims, Freed, FirstUntaken
<1>5. Sequences'
  BY <1>2 DEF Sequences, Window, Freed, Published
<1> QED
  BY <1>1, <1>3, <1>4, <1>5

(* A held position is in the window. *)
LEMMA HeldInWindow ==
  ASSUME Ring, NEW p \in Producers, Holding(p)
  PROVE  /\ position[p] \in Window /\ position[p] \in Nat
         /\ FirstUntaken <= position[p] /\ position[p] < mEnqueuePos
<1>1. /\ FirstUntaken <= position[p] /\ position[p] < mEnqueuePos
      /\ mEnqueuePos <= Freed + mCapacity /\ Freed <= FirstUntaken
      /\ position[p] \in Nat /\ Freed \in Nat /\ FirstUntaken \in Nat /\ mEnqueuePos \in Nat
  BY DEF Ring, TypeOK, Claims, Counters, Freed, FirstUntaken
<1> QED
  BY <1>1, RingSizeIsTwo DEF Window

(* The store of the sequence publishes the position, and only that one. *)
LEMMA PushPublishRing ==
  ASSUME Ring, NEW p \in Producers, PushPublish(p)
  PROVE  Ring'
<1> USE DEF PushPublish, Ring
<1>1. TypeOK'
  <2>1. position[p] + 1 \in Nat
    BY DEF TypeOK
  <2> QED
    BY <2>1 DEF TypeOK
<1>2. \A q \in Producers : Holding(q)' <=> Holding(q) /\ q # p
  BY DEF TypeOK, Holding
<1>3. Holding(p)
  BY DEF Holding
<1>4. \A at : Published(at)' <=> Published(at) \/ at = position[p]
  BY <1>2, <1>3, HeldInWindow DEF Published, Claims
<1>5. Counters'
  BY <1>4 DEF Counters, Freed, FirstUntaken
<1>6. Claims'
  BY <1>2 DEF TypeOK, Claims, Freed, FirstUntaken
<1>7. Sequences'
  <2>1. Window' = Window /\ position[p] \in Window
    BY <1>3, HeldInWindow DEF Window, Freed
  <2>2. ASSUME NEW at \in Window
        PROVE  sequence'[CellOf(at)] = IF Published(at) \/ at = position[p] THEN at + 1 ELSE at
    <3>1. CellOf(at) \in Cells /\ (CellOf(at) = CellOf(position[p]) => at = position[p])
      BY <2>1, WindowCells
    <3> QED
      BY <3>1 DEF TypeOK, Sequences
  <2> QED
    BY <1>4, <2>1, <2>2 DEF Sequences
<1> QED
  BY <1>1, <1>5, <1>6, <1>7

(* The consumer goes on only with a position that has been published. *)
LEMMA PopReadyRing ==
  ASSUME Ring, PopReady
  PROVE  Ring'
<1> USE DEF PopReady, Ring
<1>1. TypeOK'
  BY DEF TypeOK
<1>2. Published(mDequeuePos)
  <2>1. mDequeuePos \in Window /\ mDequeuePos \in Nat
    BY RingSizeIsTwo DEF TypeOK, Window, Freed
  <2> QED
    BY <2>1 DEF Sequences
<1>3. Counters'
  BY <1>2 DEF Counters, Freed, FirstUntaken, Published, Holding
<1>4. Claims'
  BY DEF Claims, Freed, FirstUntaken, Holding
<1>5. Sequences'
  BY DEF Sequences, Window, Freed, Published, Holding
<1> QED
  BY <1>1, <1>3, <1>4, <1>5

(* The position the consumer is about to take. *)
LEMMA TakenIsFilled ==
  ASSUME Ring, popPc = "take"
  PROVE  /\ mDequeuePos \in Window /\ Filled(mDequeuePos) /\ mDequeuePos \in Nat
         /\ FirstUntaken = mDequeuePos /\ Freed = mDequeuePos /\ mDequeuePos < mEnqueuePos
<1>1. Published(mDequeuePos) /\ mDequeuePos \in Nat
  BY DEF Ring, Counters, TypeOK
<1> QED
  BY <1>1, RingSizeIsTwo DEF Window, Freed, FirstUntaken, Filled, Published, Holding, Writing

(* The consumer empties the cell it found published. *)
LEMMA PopTakeRing ==
  ASSUME Ring, Contents, PopTake
  PROVE  Ring'
<1> USE DEF PopTake, Ring
<1>1. /\ mDequeuePos \in Window /\ Filled(mDequeuePos) /\ mDequeuePos \in Nat
      /\ FirstUntaken = mDequeuePos /\ Freed = mDequeuePos /\ mDequeuePos < mEnqueuePos
      /\ Freed' = Freed /\ FirstUntaken' = FirstUntaken + 1
  BY TakenIsFilled DEF Freed, FirstUntaken
<1>2. TypeOK'
  <2>1. command[CellOf(mDequeuePos)] \in Commands
    BY <1>1, WindowCells DEF TypeOK, Contents
  <2>2. taken' \in Seq(Commands)
    BY <2>1 DEF TypeOK
  <2> QED
    BY <2>2 DEF TypeOK
<1>3. Counters'
  BY <1>1 DEF TypeOK, Counters
<1>4. Claims'
  <2>1. \A q \in Producers : Holding(q) => position[q] # mDequeuePos
    BY DEF Counters, Published
  <2>2. \A q \in Producers : Holding(q)' <=> Holding(q)
    BY DEF Holding
  <2> QED
    BY <1>1, <2>1, <2>2 DEF TypeOK, Claims
<1>5. Sequences'
  BY <1>1 DEF Sequences, Window, Published, Holding
<1> QED
  BY <1>2, <1>3, <1>4, <1>5

(* The consumer advances mDequeuePos; the cell stays its own until it is freed. *)
LEMMA PopAdvanceRing ==
  ASSUME Ring, PopAdvance
  PROVE  Ring'
<1> USE DEF PopAdvance, Ring
<1>1. TypeOK'
  BY DEF TypeOK
<1>2. Freed' = Freed /\ FirstUntaken' = FirstUntaken
  BY DEF TypeOK, Freed, FirstUntaken
<1>3. Counters'
  BY <1>2 DEF Counters
<1>4. Claims'
  BY <1>2 DEF Claims, Holding
<1>5. Sequences'
  BY <1>2 DEF Sequences, Window, Published, Holding
<1> QED
  BY <1>1, <1>3, <1>4, <1>5

(* The window slides over the freed cell, to the position one lap later. *)
LEMMA PopFreeWindow ==
  ASSUME Ring, PopFree
  PROVE  /\ Freed = mDequeuePos - 1 /\ Freed \in Nat /\ Freed \in Window
         /\ Freed' = Freed + 1 /\ FirstUntaken' = FirstUntaken /\ FirstUntaken = Freed + 1
         /\ Window' = (Window \ {Freed}) \cup {Freed + mCapacity}
         /\ CellOf(Freed + mCapacity) = CellOf(Freed)
         /\ \A at \in Window \ {Freed} : CellOf(at) # CellOf(Freed)
         /\ mEnqueuePos <= Freed + mCapacity /\ mEnqueuePos \in Nat
         /\ sequence' = [sequence EXCEPT ![CellOf(Freed)] = Freed + mCapacity]
<1> USE DEF PopFree, Ring
<1>1. Freed = mDequeuePos - 1 /\ Freed \in Nat /\ mDequeuePos \in Nat /\ mEnqueuePos \in Nat
  BY DEF TypeOK, Counters, Freed
<1>2. Freed' = Freed + 1 /\ FirstUntaken' = FirstUntaken /\ FirstUntaken = Freed + 1
  BY <1>1 DEF Freed, FirstUntaken
<1>3. Freed \in Window /\ Window' = (Window \ {Freed}) \cup {Freed + mCapacity}
  BY <1>1, <1>2, RingSizeIsTwo DEF Window
<1>4. CellOf(Freed + mCapacity) = CellOf(Freed)
  BY <1>1, SameCell
<1>5. \A at \in Window \ {Freed} : CellOf(at) # CellOf(Freed)
  BY <1>3, WindowCells
<1>6. sequence' = [sequence EXCEPT ![CellOf(Freed)] = Freed + mCapacity]
  BY <1>1
<1> QED
  BY <1>1, <1>2, <1>3, <1>4, <1>5, <1>6 DEF Counters

(* Freeing a cell moves it one lap ahead, to the end of the window. *)
LEMMA PopFreeRing ==
  ASSUME Ring, PopFree
  PROVE  Ring'
<1> USE DEF PopFree, Ring
<1>1. /\ Freed \in Nat /\ Freed \in Window /\ Freed' = Freed + 1
      /\ FirstUntaken' = FirstUntaken /\ FirstUntaken = Freed + 1
      /\ Window' = (Window \ {Freed}) \cup {Freed + mCapacity}
      /\ CellOf(Freed + mCapacity) = CellOf(Freed)
      /\ mEnqueuePos <= Freed + mCapacity /\ mEnqueuePos \in Nat
  BY PopFreeWindow
<1>2. \A at \in Window \ {Freed} : CellOf(at) # CellOf(Freed)
  BY PopFreeWindow
<1>3. /\ sequence' = [sequence EXCEPT ![CellOf(Freed)] = Freed + mCapacity]
      /\ Freed + mCapacity \in Nat /\ CellOf(Freed) \in Cells
  BY <1>1, PopFreeWindow, WindowCells, RingSizeIsTwo
<1>4. TypeOK'
  BY <1>3 DEF TypeOK
<1>5. \A at : Published(at)' <=> Published(at)
  BY DEF Published, Holding
<1>6. Counters'
  BY <1>1, RingSizeIsTwo DEF Counters
<1>7. Claims'
  BY <1>1, RingSizeIsTwo DEF TypeOK, Claims, Holding
<1>8. Sequences'
  <2>1. ASSUME NEW at \in Window \ {Freed}
        PROVE  sequence'[CellOf(at)] = IF Published(at) THEN at + 1 ELSE at
    <3>1. CellOf(at) \in Cells /\ CellOf(at) # CellOf(Freed)
      BY <1>2, WindowCells
    <3>2. sequence'[CellOf(at)] = sequence[CellOf(at)]
      BY <1>3, <3>1 DEF TypeOK
    <3> QED
      BY <3>2 DEF Sequences
  <2>2. /\ ~ Published(Freed + mCapacity)
        /\ sequence'[CellOf(Freed + mCapacity)] = Freed + mCapacity
    BY <1>1, <1>3, RingSizeIsTwo DEF TypeOK, Published
  <2> QED
    BY <1>1, <1>5, <2>1, <2>2 DEF Sequences
<1> QED
  BY <1>4, <1>6, <1>7, <1>8

-----------------------------------------------------------------------------
(* The commands.                                                           *)

(* No command is anywhere at the start. *)
LEMMA InitGoods == Init => Goods
BY RingSizeIsTwo, NoCommandAssumption, WindowCells, InitRing
   DEF Init, Goods, Ring, Contents, Filled, Window, Arguments, OneOwner, Spent, FirstUntaken

(* What is taken or refused is a command. *)
LEMMA SpentCommands == TypeOK => NoCommand \notin Spent
BY NoCommandAssumption DEF TypeOK, Spent

(* The command of a call is new: no cell and no other producer holds it. *)
LEMMA PushBeginGoods ==
  ASSUME IInv, NEW p \in Producers, NEW c \in Commands, PushBegin(p, c)
  PROVE  Goods'
<1> USE DEF PushBegin, IInv, Goods
<1>1. c # NoCommand /\ c \notin Spent
      /\ (\A q \in Producers : arg[q] # c) /\ (\A d \in Cells : command[d] # c)
  BY NoCommandAssumption DEF Owned, Spent
<1>2. Contents'
  BY DEF Ring, TypeOK, Claims, Contents, Window, Freed, Filled, FirstUntaken, Writing
<1>3. Arguments'
  BY <1>1 DEF Ring, TypeOK, Arguments
<1>4. OneOwner'
  <2>1. \A q \in Producers : arg'[q] = IF q = p THEN c ELSE arg[q]
    BY DEF Ring, TypeOK
  <2>2. Spent' = Spent
    BY DEF Spent
  <2> QED
    BY <1>1, <2>1, <2>2 DEF OneOwner
<1> QED
  BY <1>2, <1>3, <1>4

(* A refused command is destroyed, and no cell or producer holds it. *)
LEMMA PushFullGoods ==
  ASSUME IInv, NEW p \in Producers, PushFull(p)
  PROVE  Goods'
<1> USE DEF PushFull, IInv, Goods
<1>1. Contents'
  BY DEF Ring, TypeOK, Contents, Window, Freed, Filled, FirstUntaken, Writing
<1>2. Arguments'
  BY DEF Ring, TypeOK, Arguments
<1>3. OneOwner'
  <2>1. \A q \in Producers : arg'[q] = IF q = p THEN NoCommand ELSE arg[q]
    BY DEF Ring, TypeOK
  <2>2. Spent' = Spent \cup {arg[p]} /\ NoCommand \notin Spent /\ arg[p] # NoCommand
    BY SpentCommands DEF Ring, Spent, Arguments
  <2> QED
    BY <2>1, <2>2 DEF OneOwner
<1> QED
  BY <1>1, <1>2, <1>3

(* The steps that look at the ring or move a position leave the commands where they are. *)
LEMMA PushLookGoods ==
  ASSUME IInv, NEW p \in Producers, PushFree(p) \/ PushChase(p) \/ PushClaimFails(p)
  PROVE  Goods'
<1> USE DEF PushFree, PushChase, PushClaimFails, IInv, Goods
<1>1. Contents'
  <2>1. \A at : Filled(at)' <=> Filled(at)
    BY DEF Ring, TypeOK, Filled, FirstUntaken, Writing
  <2> QED
    BY <2>1 DEF Contents, Window, Freed
<1>2. Arguments'
  BY DEF Ring, TypeOK, Arguments
<1>3. OneOwner'
  BY DEF OneOwner, Spent
<1> QED
  BY <1>1, <1>2, <1>3

(* A claim moves no command. *)
LEMMA PushClaimGoods ==
  ASSUME IInv, NEW p \in Producers, PushClaim(p)
  PROVE  Goods'
<1> USE DEF PushClaim, IInv, Goods
<1>1. Contents'
  <2>1. \A q \in Producers : Writing(q)' <=> Writing(q) \/ q = p
    BY DEF Ring, TypeOK, Writing
  <2>2. ASSUME NEW at \in Nat PROVE Filled(at)' <=> Filled(at)
    BY <2>1 DEF Ring, TypeOK, Filled, FirstUntaken
  <2>3. Window' = Window /\ Window \subseteq Nat
    BY WindowCells DEF Ring, Window, Freed
  <2> QED
    BY <2>2, <2>3 DEF Contents
<1>2. Arguments'
  BY DEF Ring, TypeOK, Arguments
<1>3. OneOwner'
  BY DEF OneOwner, Spent
<1> QED
  BY <1>1, <1>2, <1>3

(* The write moves the command from the producer to its cell. *)
LEMMA PushWriteGoods ==
  ASSUME IInv, NEW p \in Producers, PushWrite(p)
  PROVE  Goods'
<1> USE DEF PushWrite, IInv, Goods
<1>1. Holding(p) /\ arg[p] # NoCommand
  BY DEF Holding, Arguments
<1>2. /\ position[p] \in Window /\ FirstUntaken <= position[p] /\ position[p] < mEnqueuePos
      /\ CellOf(position[p]) \in Cells /\ Window' = Window
  BY <1>1, HeldInWindow, WindowCells DEF Ring, Window, Freed
<1>3. Contents'
  <2>1. \A q \in Producers : Writing(q)' <=> Writing(q) /\ q # p
    BY DEF Ring, TypeOK, Writing
  <2>2. \A q \in Producers : Writing(q) /\ position[q] = position[p] => q = p
    BY <1>1 DEF Ring, Claims, Writing, Holding
  <2>3. ASSUME NEW at \in Window PROVE Filled(at)' <=> Filled(at) \/ at = position[p]
    BY <1>2, <2>1, <2>2 DEF Filled, FirstUntaken
  <2>4. ASSUME NEW at \in Window
        PROVE  command'[CellOf(at)] = IF at = position[p] THEN arg[p] ELSE command[CellOf(at)]
    <3>1. CellOf(at) \in Cells /\ (CellOf(at) = CellOf(position[p]) => at = position[p])
      BY <1>2, WindowCells DEF Ring
    <3> QED
      BY <3>1 DEF Ring, TypeOK
  <2> QED
    BY <1>1, <1>2, <2>3, <2>4 DEF Contents
<1>4. Arguments'
  BY DEF Ring, TypeOK, Arguments
<1>5. OneOwner'
  <2>1. \A q \in Producers : arg'[q] = IF q = p THEN NoCommand ELSE arg[q]
    BY DEF Ring, TypeOK
  <2>2. \A d \in Cells :
          command'[d] = IF d = CellOf(position[p]) THEN arg[p] ELSE command[d]
    BY DEF Ring, TypeOK
  <2>3. Spent' = Spent /\ NoCommand \notin Spent
    BY SpentCommands DEF Ring, Spent
  <2> QED
    BY <1>1, <2>1, <2>2, <2>3 DEF OneOwner
<1> QED
  BY <1>3, <1>4, <1>5

(* Publication moves no command. *)
LEMMA PushPublishGoods ==
  ASSUME IInv, NEW p \in Producers, PushPublish(p)
  PROVE  Goods'
<1> USE DEF PushPublish, IInv, Goods
<1>1. Contents'
  <2>1. \A at : Filled(at)' <=> Filled(at)
    BY DEF Ring, TypeOK, Filled, FirstUntaken, Writing
  <2> QED
    BY <2>1 DEF Contents, Window, Freed
<1>2. Arguments'
  BY DEF Ring, TypeOK, Arguments
<1>3. OneOwner'
  BY DEF OneOwner, Spent
<1> QED
  BY <1>1, <1>2, <1>3

(* The consumer's other steps move no command. *)
LEMMA PopMoveGoods ==
  ASSUME IInv, PopReady \/ PopAdvance
  PROVE  Goods'
<1> USE DEF PopReady, PopAdvance, IInv, Goods
<1>1. Freed' = Freed /\ FirstUntaken' = FirstUntaken
  BY DEF Ring, TypeOK, Freed, FirstUntaken
<1>2. Contents'
  BY <1>1 DEF Contents, Window, Filled, Writing
<1>3. Arguments' /\ OneOwner'
  BY DEF Arguments, OneOwner, Spent
<1> QED
  BY <1>2, <1>3

(* The take moves the command from its cell to the delivered ones. *)
LEMMA PopTakeGoods ==
  ASSUME IInv, PopTake
  PROVE  Goods'
<1> USE DEF PopTake, IInv, Goods
<1> DEFINE cell == CellOf(mDequeuePos)
<1>1. /\ mDequeuePos \in Window /\ Filled(mDequeuePos) /\ mDequeuePos \in Nat
      /\ FirstUntaken = mDequeuePos /\ FirstUntaken' = mDequeuePos + 1
      /\ Window' = Window /\ Window \subseteq Nat
  BY TakenIsFilled, WindowCells DEF Ring, FirstUntaken, Window, Freed
<1>2. cell \in Cells /\ command[cell] \in Commands /\ command[cell] # NoCommand
  BY <1>1, WindowCells DEF Ring, TypeOK, Contents
<1>3. Contents'
  <2>1. ASSUME NEW at \in Window PROVE Filled(at)' <=> Filled(at) /\ at # mDequeuePos
    BY <1>1 DEF Ring, TypeOK, Filled, Writing
  <2>2. ASSUME NEW at \in Window
        PROVE  command'[CellOf(at)] = IF at = mDequeuePos THEN NoCommand ELSE command[CellOf(at)]
    <3>1. CellOf(at) \in Cells /\ (CellOf(at) = cell => at = mDequeuePos)
      BY <1>1, WindowCells DEF Ring
    <3> QED
      BY <3>1 DEF Ring, TypeOK
  <2> QED
    BY <1>1, <2>1, <2>2 DEF Contents
<1>4. Arguments'
  BY DEF Arguments
<1>5. OneOwner'
  <2>1. \A d \in Cells : command'[d] = IF d = cell THEN NoCommand ELSE command[d]
    BY DEF Ring, TypeOK
  <2>2. Spent' = Spent \cup {command[cell]} /\ NoCommand \notin Spent
    <3>1. taken \in Seq(Commands) /\ Len(taken) \in Nat
      BY DEF Ring, TypeOK
    <3>2. DOMAIN taken' = DOMAIN taken \cup {Len(taken) + 1} /\ taken'[Len(taken) + 1] = command[cell]
          /\ \A i \in DOMAIN taken : taken'[i] = taken[i]
      BY <3>1, <1>2
    <3> QED
      BY <3>2, SpentCommands DEF Ring, Spent
  <2> QED
    BY <1>2, <2>1, <2>2 DEF OneOwner
<1> QED
  BY <1>3, <1>4, <1>5

(* A cell is freed empty. *)
LEMMA PopFreeGoods ==
  ASSUME IInv, PopFree
  PROVE  Goods'
<1> USE DEF PopFree, IInv, Goods
<1>1. /\ Freed \in Window /\ Freed \in Nat /\ FirstUntaken' = FirstUntaken
      /\ FirstUntaken = Freed + 1 /\ CellOf(Freed + mCapacity) = CellOf(Freed)
      /\ Window' = (Window \ {Freed}) \cup {Freed + mCapacity}
      /\ mEnqueuePos <= Freed + mCapacity /\ mEnqueuePos \in Nat
  BY PopFreeWindow
<1>2. Contents'
  <2>1. \A at : Filled(at)' <=> Filled(at)
    BY <1>1 DEF Filled, Writing
  <2>2. ~ Filled(Freed) /\ ~ Filled(Freed + mCapacity)
    BY <1>1, RingSizeIsTwo DEF Filled
  <2>3. command[CellOf(Freed + mCapacity)] = NoCommand
    BY <1>1, <2>2 DEF Contents
  <2> QED
    BY <1>1, <2>1, <2>2, <2>3 DEF Contents
<1>3. Arguments' /\ OneOwner'
  BY DEF Arguments, OneOwner, Spent
<1> QED
  BY <1>2, <1>3

-----------------------------------------------------------------------------
(* The invariant and what it says of the cells.                            *)

(* The invariant holds at the start. *)
LEMMA InitInvariant == Init => IInv
BY InitRing, InitGoods DEF IInv

(* Every step keeps the invariant. *)
LEMMA NextInvariant == IInv /\ [Next]_vars => IInv'
<1> SUFFICES ASSUME IInv, [Next]_vars PROVE IInv'
  OBVIOUS
<1>1. Ring /\ Arguments /\ Contents
  BY DEF IInv, Goods
<1>2. ASSUME NEW p \in Producers, NEW c \in Commands, PushBegin(p, c) PROVE IInv'
  BY <1>1, <1>2, PushBeginRing, PushBeginGoods DEF IInv
<1>3. ASSUME NEW p \in Producers, Push(p) PROVE IInv'
  <2>1. CASE PushFull(p)
    BY <1>1, <2>1, PushFullRing, PushFullGoods DEF IInv
  <2>2. CASE PushFree(p)
    BY <1>1, <2>2, PushFreeRing, PushLookGoods DEF IInv
  <2>3. CASE PushChase(p)
    BY <1>1, <2>3, PushAgainRing, PushLookGoods DEF IInv
  <2>4. CASE PushClaim(p)
    BY <1>1, <2>4, PushClaimRing, PushClaimGoods DEF IInv
  <2>5. CASE PushWrite(p)
    BY <1>1, <2>5, PushWriteRing, PushWriteGoods DEF IInv
  <2>6. CASE PushPublish(p)
    BY <1>1, <2>6, PushPublishRing, PushPublishGoods DEF IInv
  <2> QED
    BY <1>3, <2>1, <2>2, <2>3, <2>4, <2>5, <2>6 DEF Push
<1>4. ASSUME NEW p \in Producers, PushClaimFails(p) PROVE IInv'
  BY <1>1, <1>4, PushAgainRing, PushLookGoods DEF IInv
<1>5. CASE PopReady
  BY <1>1, <1>5, PopReadyRing, PopMoveGoods DEF IInv
<1>6. CASE PopTake
  BY <1>1, <1>6, PopTakeRing, PopTakeGoods DEF IInv
<1>7. CASE PopAdvance
  BY <1>1, <1>7, PopAdvanceRing, PopMoveGoods DEF IInv
<1>8. CASE PopFree
  BY <1>1, <1>8, PopFreeRing, PopFreeGoods DEF IInv
<1>9. CASE UNCHANGED vars
  BY <1>9 DEF vars, IInv, Ring, Goods, TypeOK, Counters, Claims, Sequences, Contents, Arguments,
     OneOwner, Spent, Freed, Window, Holding, Writing, Published, Filled, FirstUntaken
<1> QED
  BY <1>2, <1>3, <1>4, <1>5, <1>6, <1>7, <1>8, <1>9 DEF Next, Pop

(* Who owns each cell is settled in every reachable state: the positions, the cells' *)
(* sequence numbers and the claims of push() and pop() agree.                        *)
THEOREM Invariance == Spec => []IInv
BY InitInvariant, NextInvariant, PTL DEF Spec

(* The program's variables keep their types: what a cell, a push() and the line of *)
(* delivered commands hold are commands, and the counters count (commandQueue.h).  *)
THEOREM TypeCorrect == Spec => []TypeOK
<1>1. IInv => TypeOK
  BY DEF IInv, Ring
<1> QED
  BY <1>1, Invariance, PTL

(* No two threads touch one cell's command at the same time: two producers never *)
(* hold one position, nor positions a lap apart, and a cell being taken is out of *)
(* the producers' hands (Cell::command in commandQueue.h).                        *)
THEOREM CellsAreExclusive == Spec => []ExclusiveCells
<1>1. ASSUME IInv PROVE ExclusiveCells
  <2> USE <1>1 DEF IInv
  <2>1. \A p \in Producers : Holding(p) => position[p] \in Window
    BY HeldInWindow
  <2>2. ASSUME NEW p \in Producers, NEW q \in Producers, p # q, Holding(p), Holding(q)
        PROVE  CellOf(position[p]) # CellOf(position[q])
    BY <2>1, <2>2, WindowCells DEF Ring, Claims
  <2>3. ASSUME NEW p \in Producers, Holding(p), popPc = "take"
        PROVE  CellOf(position[p]) # CellOf(mDequeuePos)
    BY <2>1, <2>3, TakenIsFilled, WindowCells DEF Ring, Counters, Published
  <2> QED
    BY <2>2, <2>3 DEF ExclusiveCells, ProducerCells, ConsumerCells, Holding
<1> QED
  BY <1>1, Invariance, PTL

-----------------------------------------------------------------------------
(* The line that the ring holds.                                           *)

Places == [cmd : Commands, ready : BOOLEAN]
InLine == FirstUntaken .. (mEnqueuePos - 1)
NoWriterAt(at) == \A p \in Producers : Writing(p) => position[p] # at

(* The command of a position is its writer's, or in its cell once that has written it. *)
LineFits ==
  /\ FirstUntaken \in Nat /\ mEnqueuePos \in Nat /\ FirstUntaken <= mEnqueuePos
  /\ InLine \subseteq Window
  /\ \A at \in InLine :
       /\ Entry(at) \in Places
       /\ \A p \in Producers : Writing(p) /\ position[p] = at => CommandAt(at) = arg[p]
       /\ NoWriterAt(at) => CommandAt(at) = command[CellOf(at)]
  /\ Line \in Seq(Places)
  /\ Len(Line) = mEnqueuePos - FirstUntaken
  /\ \A i \in 1..Len(Line) : FirstUntaken + i - 1 \in InLine /\ Line[i] = Entry(FirstUntaken + i - 1)

(* What the refinement shows as the line is as long as the two positions say. *)
LEMMA LineIsFit == IInv => LineFits
<1> SUFFICES ASSUME IInv PROVE LineFits
  OBVIOUS
<1> USE DEF IInv, Goods
<1>1. /\ FirstUntaken \in Nat /\ mEnqueuePos \in Nat /\ FirstUntaken <= mEnqueuePos
      /\ Freed \in Nat /\ Freed <= FirstUntaken /\ mEnqueuePos <= Freed + mCapacity
  BY DEF Ring, TypeOK, Counters, Freed, FirstUntaken
<1>2. InLine \subseteq Window
  BY <1>1, RingSizeIsTwo DEF InLine, Window
<1>3. ASSUME NEW at \in InLine, NEW p \in Producers, Writing(p), position[p] = at
      PROVE  CommandAt(at) = arg[p] /\ arg[p] \in Commands
  <2>1. \A q \in Producers : Writing(q) /\ position[q] = at => q = p
    BY <1>3 DEF Ring, Claims, Writing, Holding
  <2>2. CommandAt(at) = arg[p]
    BY <1>3, <2>1 DEF CommandAt, Writing
  <2> QED
    BY <1>3, <2>2 DEF Ring, TypeOK, Arguments, Writing
<1>4. ASSUME NEW at \in InLine, NoWriterAt(at)
      PROVE  CommandAt(at) = command[CellOf(at)] /\ command[CellOf(at)] \in Commands
  <2>1. CommandAt(at) = command[CellOf(at)]
    BY <1>4 DEF CommandAt, NoWriterAt, Writing
  <2>2. Filled(at) /\ at \in Window /\ CellOf(at) \in Cells
    BY <1>1, <1>2, <1>4, WindowCells DEF Ring, NoWriterAt, Filled, InLine
  <2> QED
    BY <2>1, <2>2 DEF Ring, TypeOK, Contents
<1>5. \A at \in InLine : Entry(at) \in Places
  <2>1. \A at \in InLine : CommandAt(at) \in Commands
    BY <1>3, <1>4 DEF NoWriterAt
  <2> QED
    BY <2>1 DEF Entry, Places
<1>6. \A i \in 1..(mEnqueuePos - FirstUntaken) : FirstUntaken + i - 1 \in InLine
  BY <1>1 DEF InLine
<1>7. /\ Line \in Seq(Places)
      /\ Len(Line) = mEnqueuePos - FirstUntaken
      /\ \A i \in 1..(mEnqueuePos - FirstUntaken) : Line[i] = Entry(FirstUntaken + i - 1)
  <2>1. mEnqueuePos - FirstUntaken \in Nat
    BY <1>1
  <2> QED
    BY <1>5, <1>6, <2>1 DEF Line
<1> QED
  BY <1>1, <1>2, <1>3, <1>4, <1>5, <1>6, <1>7 DEF LineFits

(* Lines of the same entries are the same. *)
LEMMA SameLine ==
  ASSUME LineFits, LineFits', mEnqueuePos' = mEnqueuePos, FirstUntaken' = FirstUntaken,
         \A at \in InLine : /\ CommandAt(at)' = CommandAt(at)
                            /\ sequence'[CellOf(at)] = at + 1 <=> sequence[CellOf(at)] = at + 1
  PROVE  Line' = Line
<1>1. \A at \in InLine : Entry(at)' = Entry(at)
  BY DEF Entry
<1>2. \A i \in 1..Len(Line) : Line'[i] = Line[i]
  BY <1>1 DEF LineFits
<1> QED
  BY <1>2, SeqEqual DEF LineFits

(* The commands of the line stay where they are when the writers and the cells do. *)
LEMMA SameCommands ==
  ASSUME LineFits, LineFits', InLine' = InLine, command' = command,
         \A q \in Producers : Writing(q)' <=> Writing(q),
         \A q \in Producers : Writing(q) => arg'[q] = arg[q] /\ position'[q] = position[q]
  PROVE  \A at \in InLine : CommandAt(at)' = CommandAt(at)
<1> SUFFICES ASSUME NEW at \in InLine PROVE CommandAt(at)' = CommandAt(at)
  OBVIOUS
<1>1. CASE NoWriterAt(at)
  <2>1. NoWriterAt(at)'
    BY <1>1 DEF NoWriterAt
  <2> QED
    BY <1>1, <2>1 DEF LineFits
<1>2. CASE ~ NoWriterAt(at)
  BY <1>2 DEF LineFits, NoWriterAt
<1> QED
  BY <1>1, <1>2

(* A producer that has yet to claim keeps a command that nobody else has. *)
LEMMA ArgumentIsFresh ==
  ASSUME IInv, NEW p \in Producers, pc[p] \in {"read", "claim"}
  PROVE  arg[p] \in Commands /\ Fifo!Fresh(arg[p])
<1> USE DEF IInv, Goods
<1>1. arg[p] \in Commands /\ arg[p] # NoCommand /\ arg[p] \notin Spent
  BY DEF Ring, TypeOK, Arguments, OneOwner
<1>2. LineFits
  BY LineIsFit
<1>3. ASSUME NEW at \in InLine PROVE CommandAt(at) # arg[p]
  <2>1. CASE NoWriterAt(at)
    <3>1. CellOf(at) \in Cells /\ CommandAt(at) = command[CellOf(at)]
      BY <1>2, <2>1, WindowCells DEF Ring, LineFits
    <3> QED
      BY <1>1, <3>1 DEF OneOwner
  <2>2. CASE ~ NoWriterAt(at)
    <3>1. PICK q \in Producers : Writing(q) /\ position[q] = at
      BY <2>2 DEF NoWriterAt
    <3>2. CommandAt(at) = arg[q] /\ q # p
      BY <1>2, <3>1 DEF LineFits, Writing
    <3> QED
      BY <1>1, <3>2 DEF OneOwner
  <2> QED
    BY <2>1, <2>2
<1>4. \A i \in DOMAIN Line : Line[i].cmd # arg[p]
  <2>1. DOMAIN Line = 1..Len(Line)
    BY <1>2, LenProperties DEF LineFits
  <2>2. \A at \in InLine : Entry(at).cmd # arg[p]
    BY <1>3 DEF Entry
  <2> QED
    BY <1>2, <2>1, <2>2 DEF LineFits
<1> QED
  BY <1>1, <1>4 DEF Spent, Fifo!Fresh, Fifo!Waiting, Fifo!Delivered

(* A place stays occupied until its cell is freed. *)
LEMMA OccupiedPlaces ==
  ASSUME IInv
  PROVE  Fifo!Occupied = mEnqueuePos - Freed
<1>1. /\ Len(Line) = mEnqueuePos - FirstUntaken /\ mEnqueuePos \in Nat /\ mDequeuePos \in Nat
      /\ popPc \in {"idle", "take", "advance", "free"}
  BY LineIsFit DEF IInv, Ring, TypeOK, LineFits
<1>2. FirstUntaken - Freed = IF Held THEN 1 ELSE 0
  BY <1>1 DEF Held, Freed, FirstUntaken
<1>3. FirstUntaken \in Nat /\ Freed \in Int
  BY <1>1 DEF Freed, FirstUntaken
<1> QED
  BY <1>1, <1>2, <1>3 DEF Fifo!Occupied

(* A step of a push() that neither claims nor writes nor publishes moves nothing in the line. *)
LEMMA PushLookStutters ==
  ASSUME IInv, IInv', NEW p \in Producers,
         \/ \E c \in Commands : PushBegin(p, c)
         \/ PushFull(p) \/ PushFree(p) \/ PushChase(p) \/ PushClaimFails(p)
  PROVE  Line' = Line /\ Held' = Held
<1> USE DEF PushBegin, PushFull, PushFree, PushChase, PushClaimFails
<1>1. LineFits /\ LineFits'
  BY LineIsFit, PTL
<1>2. \A q \in Producers :
        /\ Writing(q)' <=> Writing(q)
        /\ Writing(q) => arg'[q] = arg[q] /\ position'[q] = position[q]
  BY DEF IInv, Ring, TypeOK, Writing
<1>3. /\ mEnqueuePos' = mEnqueuePos /\ FirstUntaken' = FirstUntaken /\ InLine' = InLine
      /\ command' = command /\ sequence' = sequence /\ popPc' = popPc
  BY DEF FirstUntaken, InLine
<1>4. \A at \in InLine : CommandAt(at)' = CommandAt(at)
  BY <1>1, <1>2, <1>3, SameCommands
<1>5. Line' = Line
  BY <1>1, <1>3, <1>4, SameLine
<1> QED
  BY <1>3, <1>5 DEF Held

(* push() finds the ring full: so is the line. *)
LEMMA PushFullRefuses ==
  ASSUME IInv, IInv', NEW p \in Producers, PushFull(p)
  PROVE  Fifo!Refuse(arg[p])
<1>1. Fifo!Fresh(arg[p]) /\ Line' = Line /\ Held' = Held
  BY ArgumentIsFresh, PushLookStutters DEF PushFull
<1>2. Fifo!Occupied = mCapacity
  <2>1. mEnqueuePos = Freed + mCapacity
    BY SeenFull DEF IInv, PushFull
  <2>2. Freed \in Nat
    BY DEF IInv, Ring, Counters
  <2> QED
    BY <2>1, <2>2, OccupiedPlaces, RingSizeIsTwo
<1> QED
  BY <1>1, <1>2 DEF Fifo!Refuse, PushFull

(* The claim is the producer's place at the end of the line. *)
LEMMA PushClaimClaims ==
  ASSUME IInv, IInv', NEW p \in Producers, PushClaim(p)
  PROVE  Fifo!Claim(arg[p])
<1> USE DEF PushClaim
<1>0. PICK last : last = mEnqueuePos
  OBVIOUS
<1>1. LineFits /\ LineFits'
  BY LineIsFit, PTL
<1>2. Fifo!Fresh(arg[p]) /\ arg[p] \in Commands
  BY ArgumentIsFresh
<1>3. /\ position[p] = last /\ mEnqueuePos = last /\ mEnqueuePos' = last + 1 /\ last < Freed + mCapacity /\ Freed \in Nat /\ last \in Nat
      /\ Freed <= last
  BY <1>0 DEF IInv, Ring, TypeOK, Claims, Counters, Freed, FirstUntaken
<1>4. Fifo!Occupied < mCapacity
  BY <1>3, OccupiedPlaces, RingSizeIsTwo
<1>5. /\ FirstUntaken' = FirstUntaken /\ InLine' = InLine \cup {last} /\ last \notin InLine
      /\ popPc' = popPc
  BY <1>1, <1>3 DEF FirstUntaken, InLine, LineFits
<1>6. \A q \in Producers : Writing(q)' <=> Writing(q) \/ q = p
  BY DEF IInv, Ring, TypeOK, Writing
<1>7. \A at \in InLine : Entry(at)' = Entry(at)
  <2>1. ASSUME NEW at \in InLine PROVE CommandAt(at)' = CommandAt(at)
    <3>1. CASE NoWriterAt(at)
      <4>1. NoWriterAt(at)'
        BY <1>3, <1>5, <1>6, <3>1 DEF NoWriterAt
      <4> QED
        BY <1>1, <1>5, <3>1, <4>1 DEF LineFits
    <3>2. CASE ~ NoWriterAt(at)
      <4>1. PICK q \in Producers : Writing(q) /\ position[q] = at
        BY <3>2 DEF NoWriterAt
      <4>2. q # p
        BY <4>1 DEF Writing
      <4>3. Writing(q)' /\ position'[q] = at /\ arg'[q] = arg[q] /\ at \in InLine'
        BY <1>5, <1>6, <4>1, <4>2
      <4>4. CommandAt(at) = arg[q]
        BY <1>1, <4>1 DEF LineFits
      <4>5. CommandAt(at)' = arg'[q]
        BY <1>1, <4>3 DEF LineFits
      <4> QED
        BY <4>3, <4>4, <4>5
    <3> QED
      BY <3>1, <3>2
  <2> QED
    BY <2>1 DEF Entry
<1>8. Entry(last)' = [cmd |-> arg[p], ready |-> FALSE]
  <2>1. CommandAt(last)' = arg[p]
    BY <1>1, <1>3, <1>5, <1>6 DEF LineFits
  <2>2. sequence[CellOf(last)] # last + 1
    <3>1. last \in Window /\ ~ Published(last)
      BY <1>3, RingSizeIsTwo DEF Window, Published
    <3> QED
      BY <1>3, <3>1 DEF IInv, Ring, Sequences
  <2> QED
    BY <2>1, <2>2 DEF Entry
<1>9. Line' = Append(Line, [cmd |-> arg[p], ready |-> FALSE])
  <2> DEFINE place == [cmd |-> arg[p], ready |-> FALSE]
  <2>1. place \in Places
    BY <1>2 DEF Places
  <2>2. /\ Append(Line, place) \in Seq(Places) /\ Len(Append(Line, place)) = Len(Line) + 1
        /\ \A i \in 1..Len(Line) : Append(Line, place)[i] = Line[i]
        /\ Append(Line, place)[Len(Line) + 1] = place
    <3>1. Line \in Seq(Places)
      BY <1>1 DEF LineFits
    <3> QED
      BY <2>1, <3>1, AppendProperties
  <2>3. Len(Line) = last - FirstUntaken /\ Len(Line') = Len(Line) + 1 /\ Len(Line) \in Nat
    BY <1>1, <1>3, <1>5 DEF LineFits
  <2>4. ASSUME NEW i \in 1..Len(Line') PROVE Line'[i] = Append(Line, place)[i]
    <3>1. CASE i = Len(Line) + 1
      <4>1. FirstUntaken + i - 1 = last
        <5>1. FirstUntaken \in Nat
          BY <1>1 DEF LineFits
        <5> QED
          BY <1>3, <2>3, <3>1, <5>1
      <4>2. Line'[i] = Entry(last)'
        BY <1>1, <1>5, <2>3, <4>1 DEF LineFits
      <4> QED
        BY <1>8, <2>2, <3>1, <4>2
    <3>2. CASE i # Len(Line) + 1
      <4>1. i \in 1..Len(Line)
        BY <2>3, <3>2
      <4>2. PICK at \in InLine : at = FirstUntaken + i - 1 /\ Line[i] = Entry(at)
        BY <1>1, <4>1 DEF LineFits
      <4>3. Line'[i] = Entry(at)'
        BY <1>1, <1>5, <4>2 DEF LineFits
      <4> QED
        BY <1>7, <2>2, <4>1, <4>2, <4>3
    <3> QED
      BY <3>1, <3>2
  <2> QED
    BY <1>1, <2>2, <2>3, <2>4, SeqEqual DEF LineFits
<1> QED
  BY <1>2, <1>4, <1>5, <1>9 DEF Fifo!Claim, Held

(* Writing the command hands it from the producer to the cell, in its place in the line. *)
LEMMA PushWriteStutters ==
  ASSUME IInv, IInv', NEW p \in Producers, PushWrite(p)
  PROVE  Line' = Line /\ Held' = Held
<1> USE DEF PushWrite
<1>1. LineFits /\ LineFits'
  BY LineIsFit, PTL
<1>2. Writing(p) /\ Holding(p)
  BY DEF Writing, Holding
<1>3. /\ mEnqueuePos' = mEnqueuePos /\ FirstUntaken' = FirstUntaken /\ InLine' = InLine
      /\ sequence' = sequence /\ popPc' = popPc
  BY DEF FirstUntaken, InLine
<1>4. /\ \A q \in Producers : Writing(q)' <=> Writing(q) /\ q # p
      /\ \A q \in Producers \ {p} : arg'[q] = arg[q] /\ position'[q] = position[q]
      /\ \A q \in Producers : Writing(q) /\ position[q] = position[p] => q = p
  BY <1>2 DEF IInv, Ring, TypeOK, Claims, Writing, Holding
<1>5. position[p] \in Window /\ CellOf(position[p]) \in Cells
  BY <1>2, HeldInWindow, WindowCells DEF IInv, Ring
<1>6. ASSUME NEW at \in InLine PROVE CommandAt(at)' = CommandAt(at)
  <2>1. CASE at = position[p]
    <3>1. NoWriterAt(at)'
      BY <1>4, <2>1 DEF NoWriterAt
    <3>2. command'[CellOf(at)] = arg[p]
      BY <1>5, <2>1 DEF IInv, Ring, TypeOK
    <3> QED
      BY <1>1, <1>2, <1>3, <2>1, <3>1, <3>2 DEF LineFits
  <2>2. CASE at # position[p] /\ NoWriterAt(at)
    <3>1. NoWriterAt(at)'
      BY <1>4, <2>2 DEF NoWriterAt
    <3>2. CellOf(at) \in Cells /\ CellOf(at) # CellOf(position[p])
      BY <1>1, <1>5, <2>2, WindowCells DEF IInv, Ring, LineFits
    <3>3. command'[CellOf(at)] = command[CellOf(at)]
      BY <3>2 DEF IInv, Ring, TypeOK
    <3> QED
      BY <1>1, <1>3, <2>2, <3>1, <3>3 DEF LineFits
  <2>3. CASE at # position[p] /\ ~ NoWriterAt(at)
    <3>1. PICK q \in Producers : Writing(q) /\ position[q] = at
      BY <2>3 DEF NoWriterAt
    <3>2. q # p /\ Writing(q)' /\ position'[q] = at /\ arg'[q] = arg[q]
      BY <1>4, <2>3, <3>1
    <3> QED
      BY <1>1, <1>3, <3>1, <3>2 DEF LineFits
  <2> QED
    BY <2>1, <2>2, <2>3
<1>7. Line' = Line
  BY <1>1, <1>3, <1>6, SameLine
<1> QED
  BY <1>3, <1>7 DEF Held

(* The store of the sequence is the publication of one entry of the line. *)
LEMMA PushPublishPublishes ==
  ASSUME IInv, IInv', NEW p \in Producers, PushPublish(p)
  PROVE  \E i \in DOMAIN Line : Fifo!Publish(i)
<1> USE DEF PushPublish
<1>0. PICK here, place : here = position[p] /\ place = here - FirstUntaken + 1
  OBVIOUS
<1>1. LineFits /\ LineFits'
  BY LineIsFit, PTL
<1>2. Holding(p)
  BY DEF Holding
<1>3. /\ here = position[p] /\ place = here - FirstUntaken + 1 /\ here \in Window /\ here \in Nat /\ FirstUntaken <= here /\ here < mEnqueuePos
      /\ CellOf(here) \in Cells
  BY <1>0, <1>2, HeldInWindow, WindowCells DEF IInv, Ring
<1>4. /\ mEnqueuePos' = mEnqueuePos /\ FirstUntaken' = FirstUntaken /\ InLine' = InLine
      /\ command' = command /\ popPc' = popPc /\ here \in InLine
  BY <1>1, <1>3 DEF FirstUntaken, InLine, LineFits
<1>5. \A at \in InLine : CommandAt(at)' = CommandAt(at)
  <2>1. \A q \in Producers :
          /\ Writing(q)' <=> Writing(q)
          /\ Writing(q) => arg'[q] = arg[q] /\ position'[q] = position[q]
    BY DEF IInv, Ring, TypeOK, Writing
  <2> QED
    BY <1>1, <1>4, <2>1, SameCommands
<1>6. ASSUME NEW at \in InLine, at # here PROVE Entry(at)' = Entry(at)
  <2>1. CellOf(at) \in Cells /\ CellOf(at) # CellOf(here)
    BY <1>1, <1>3, <1>6, WindowCells DEF IInv, Ring, LineFits
  <2>2. sequence'[CellOf(at)] = sequence[CellOf(at)]
    BY <1>3, <2>1 DEF IInv, Ring, TypeOK
  <2> QED
    BY <1>5, <2>2 DEF Entry
<1>7. /\ Entry(here) = [cmd |-> CommandAt(here), ready |-> FALSE]
      /\ Entry(here)' = [cmd |-> CommandAt(here), ready |-> TRUE]
  <2>1. sequence[CellOf(here)] # here + 1
    BY <1>2, <1>3 DEF IInv, Ring, Sequences, Published
  <2>2. sequence'[CellOf(here)] = here + 1
    BY <1>3 DEF IInv, Ring, TypeOK
  <2> QED
    BY <1>4, <1>5, <2>1, <2>2 DEF Entry
<1>8. /\ place \in 1..Len(Line) /\ FirstUntaken + place - 1 = here /\ DOMAIN Line = 1..Len(Line)
      /\ Len(Line') = Len(Line) /\ FirstUntaken \in Nat
      /\ \A i \in 1..Len(Line) : FirstUntaken + i - 1 = here => i = place
  <2>1. /\ Len(Line) = mEnqueuePos - FirstUntaken /\ Len(Line') = mEnqueuePos - FirstUntaken
        /\ FirstUntaken \in Nat /\ mEnqueuePos \in Nat
    BY <1>1, <1>4 DEF LineFits
  <2>2. place \in 1..(mEnqueuePos - FirstUntaken) /\ FirstUntaken + place - 1 = here
    BY <1>3, <2>1
  <2>3. \A i \in 1..(mEnqueuePos - FirstUntaken) : FirstUntaken + i - 1 = here => i = place
    BY <1>3, <2>1
  <2>4. DOMAIN Line = 1..Len(Line)
    <3>1. Line \in Seq(Places)
      BY <1>1 DEF LineFits
    <3> QED
      BY <3>1, LenProperties
  <2> QED
    BY <2>1, <2>2, <2>3, <2>4
<1>9. Line[place] = [cmd |-> CommandAt(here), ready |-> FALSE]
  BY <1>1, <1>7, <1>8 DEF LineFits
<1>10. Line' = [Line EXCEPT ![place].ready = TRUE]
  <2> DEFINE ready == [cmd |-> CommandAt(here), ready |-> TRUE]
  <2>1. [Line EXCEPT ![place].ready = TRUE] = [Line EXCEPT ![place] = ready]
    <3>1. PICK c, f, t : c = CommandAt(here) /\ f = FALSE /\ t = TRUE
      OBVIOUS
    <3>2. [[cmd |-> c, ready |-> f] EXCEPT !.ready = t] = [cmd |-> c, ready |-> t]
      BY Z3
    <3>3. Line[place] = [cmd |-> c, ready |-> f]
      BY <1>9, <3>1
    <3>4. [Line[place] EXCEPT !.ready = t] = [cmd |-> c, ready |-> t]
      BY <3>2, <3>3
    <3>5. [Line EXCEPT ![place].ready = t] = [Line EXCEPT ![place] = [cmd |-> c, ready |-> t]]
      BY <3>4
    <3> QED
      BY <3>1, <3>5, Zenon
  <2>2. ready \in Places
    <3>1. Entry(here) \in Places
      BY <1>1, <1>4 DEF LineFits
    <3>2. CommandAt(here) \in Commands
      BY <1>7, <3>1 DEF Places
    <3> QED
      BY <3>2 DEF Places
  <2>3. /\ [Line EXCEPT ![place] = ready] \in Seq(Places)
        /\ Len([Line EXCEPT ![place] = ready]) = Len(Line)
        /\ \A i \in 1..Len(Line) :
             [Line EXCEPT ![place] = ready][i] = IF i = place THEN ready ELSE Line[i]
    BY <1>1, <1>8, <2>2, ExceptSeq DEF LineFits
  <2>4. ASSUME NEW i \in 1..Len(Line)
        PROVE  Line'[i] = IF i = place THEN ready ELSE Line[i]
    <3>1. PICK at \in InLine : at = FirstUntaken + i - 1 /\ Line[i] = Entry(at)
      BY <1>1 DEF LineFits
    <3>2. Line'[i] = Entry(at)'
      BY <1>1, <1>4, <1>8, <3>1 DEF LineFits
    <3> QED
      BY <1>3, <1>6, <1>7, <1>8, <3>1, <3>2
  <2> QED
    BY <1>1, <1>8, <2>1, <2>3, <2>4, SeqEqual DEF LineFits
<1>11. place \in DOMAIN Line /\ ~ Line[place].ready
  BY <1>8, <1>9
<1>12. Fifo!Publish(place)
  BY <1>4, <1>10, <1>11 DEF Fifo!Publish, Held
<1> QED
  BY <1>11, <1>12

(* The take is the removal of the head of the line. *)
LEMMA PopTakeTakes ==
  ASSUME IInv, IInv', PopTake
  PROVE  Fifo!Take
<1> USE DEF PopTake
<1> DEFINE head == mDequeuePos
<1>1. LineFits /\ LineFits'
  BY LineIsFit, PTL
<1>2. /\ head \in Window /\ Filled(head) /\ head \in Nat /\ head < mEnqueuePos
      /\ FirstUntaken = head /\ FirstUntaken' = head + 1 /\ mEnqueuePos' = mEnqueuePos
      /\ mEnqueuePos \in Nat /\ CellOf(head) \in Cells
  BY TakenIsFilled, WindowCells DEF IInv, Ring, TypeOK, FirstUntaken
<1>3. InLine' = InLine \ {head} /\ head \in InLine
  BY <1>2 DEF InLine
<1>4. Entry(head) = [cmd |-> command[CellOf(head)], ready |-> TRUE]
  <2>1. CommandAt(head) = command[CellOf(head)]
    BY <1>1, <1>2, <1>3 DEF LineFits, Filled, NoWriterAt
  <2>2. sequence[CellOf(head)] = head + 1
    BY <1>2 DEF IInv, Ring, Sequences, Counters
  <2> QED
    BY <2>1, <2>2 DEF Entry
<1>5. ASSUME NEW at \in InLine \ {head} PROVE Entry(at)' = Entry(at)
  <2>1. CellOf(at) \in Cells /\ CellOf(at) # CellOf(head)
    BY <1>1, <1>2, WindowCells DEF IInv, Ring, LineFits
  <2>2. command'[CellOf(at)] = command[CellOf(at)]
    BY <2>1 DEF IInv, Ring, TypeOK
  <2>3. CommandAt(at)' = CommandAt(at)
    <3>1. CASE NoWriterAt(at)
      <4>1. NoWriterAt(at)'
        BY <3>1 DEF NoWriterAt, Writing
      <4> QED
        BY <1>1, <1>3, <2>2, <3>1, <4>1 DEF LineFits
    <3>2. CASE ~ NoWriterAt(at)
      <4>1. PICK q \in Producers : Writing(q) /\ position[q] = at
        BY <3>2 DEF NoWriterAt
      <4>2. Writing(q)' /\ position'[q] = at /\ arg'[q] = arg[q]
        BY <4>1 DEF Writing
      <4>3. CommandAt(at) = arg[q]
        BY <1>1, <4>1 DEF LineFits
      <4>4. CommandAt(at)' = arg'[q]
        <5> HIDE DEF PopTake
        <5>1. at \in InLine'
          BY <1>3
        <5>2. (\A w \in Producers : Writing(w) /\ position[w] = at => CommandAt(at) = arg[w])'
          BY <1>1, <5>1 DEF LineFits
        <5> QED
          BY <4>2, <5>2
      <4> QED
        BY <4>2, <4>3, <4>4
    <3> QED
      BY <3>1, <3>2
  <2> QED
    BY <2>3 DEF Entry
<1>6. /\ Len(Line) = mEnqueuePos - head /\ Len(Line') = Len(Line) - 1 /\ Len(Line) \in Nat \ {0}
      /\ Line # <<>>
  <2>0. Len(Line) = mEnqueuePos - FirstUntaken /\ Len(Line') = mEnqueuePos' - FirstUntaken'
    BY <1>1 DEF LineFits
  <2>1. Len(Line) = mEnqueuePos - head /\ Len(Line') = mEnqueuePos - (head + 1)
    BY <1>2, <2>0
  <2>2. Len(Line') = Len(Line) - 1 /\ Len(Line) \in Nat \ {0}
    BY <1>2, <2>1
  <2> QED
    BY <2>1, <2>2
<1>7. Head(Line) = [cmd |-> command[CellOf(head)], ready |-> TRUE]
  <2>1. Line[1] = Entry(head)
    BY <1>1, <1>2, <1>6 DEF LineFits
  <2>2. Line \in Seq(Places)
    BY <1>1 DEF LineFits
  <2>3. Head(Line) = Line[1]
    BY <1>6, <2>2
  <2> QED
    BY <1>4, <2>1, <2>3
<1>8. Line' = Tail(Line)
  <2>1. /\ Tail(Line) \in Seq(Places) /\ Len(Tail(Line)) = Len(Line) - 1
        /\ \A i \in 1..Len(Tail(Line)) : Tail(Line)[i] = Line[i + 1]
    BY <1>1, <1>6, HeadTailProperties DEF LineFits
  <2>2. ASSUME NEW i \in 1..Len(Line') PROVE Line'[i] = Line[i + 1]
    <3>1. PICK at : at = head + i
      OBVIOUS
    <3>2. at \in InLine \ {head} /\ i + 1 \in 1..Len(Line)
      BY <1>2, <1>6, <3>1 DEF InLine
    <3>3. Line'[i] = Entry(at)'
      BY <1>1, <1>2, <3>1 DEF LineFits
    <3>4. Line[i + 1] = Entry(at)
      BY <1>1, <1>2, <3>1, <3>2 DEF LineFits
    <3> QED
      BY <1>5, <3>2, <3>3, <3>4
  <2>3. Line' \in Seq(Places)
    BY <1>1 DEF LineFits
  <2>4. Len(Line') = Len(Tail(Line))
    BY <1>6, <2>1
  <2>5. \A i \in 1..Len(Line') : Line'[i] = Tail(Line)[i]
    BY <2>1, <2>2, <2>4
  <2> QED
    BY <2>1, <2>3, <2>4, <2>5, SeqEqual
<1> QED
  BY <1>6, <1>7, <1>8 DEF Fifo!Take, Held

(* The consumer's reads and its advance are invisible in the line. *)
LEMMA PopMoveStutters ==
  ASSUME IInv, IInv', PopReady \/ PopAdvance
  PROVE  Line' = Line /\ Held' = Held
<1> USE DEF PopReady, PopAdvance
<1>1. LineFits /\ LineFits'
  BY LineIsFit, PTL
<1>2. /\ mEnqueuePos' = mEnqueuePos /\ FirstUntaken' = FirstUntaken /\ InLine' = InLine
      /\ command' = command /\ sequence' = sequence
  BY DEF FirstUntaken, InLine
<1>3. \A at \in InLine : CommandAt(at)' = CommandAt(at)
  BY <1>1, <1>2, SameCommands DEF Writing
<1>4. Line' = Line
  BY <1>1, <1>2, <1>3, SameLine
<1> QED
  BY <1>4 DEF Held

(* Freeing the cell gives the slot back. *)
LEMMA PopFreeFrees ==
  ASSUME IInv, IInv', PopFree
  PROVE  Fifo!Free
<1> USE DEF PopFree
<1>1. LineFits /\ LineFits'
  BY LineIsFit, PTL
<1>2. /\ FirstUntaken' = FirstUntaken /\ FirstUntaken = Freed + 1 /\ Freed \in Nat
      /\ sequence' = [sequence EXCEPT ![CellOf(Freed)] = Freed + mCapacity]
      /\ \A at \in Window \ {Freed} : CellOf(at) # CellOf(Freed)
  BY PopFreeWindow DEF IInv
<1>3. mEnqueuePos' = mEnqueuePos /\ InLine' = InLine /\ InLine \subseteq Window \ {Freed}
  BY <1>1, <1>2 DEF InLine, LineFits
<1>4. \A at \in InLine : CommandAt(at)' = CommandAt(at)
  BY <1>1, <1>3, SameCommands DEF Writing
<1>5. \A at \in InLine : sequence'[CellOf(at)] = sequence[CellOf(at)]
  BY <1>2, <1>3, WindowCells DEF IInv, Ring, TypeOK
<1>6. Line' = Line
  BY <1>1, <1>2, <1>3, <1>4, <1>5, SameLine
<1> QED
  BY <1>6 DEF Fifo!Free, Held

-----------------------------------------------------------------------------
(* The ring is the bounded line.                                           *)

(* An empty ring is an empty line. *)
LEMMA InitRefines == Init => Fifo!Init
<1> SUFFICES ASSUME Init PROVE Fifo!Init
  OBVIOUS
<1>1. LineFits /\ mEnqueuePos = 0 /\ FirstUntaken = 0
  BY InitInvariant, LineIsFit DEF Init, FirstUntaken
<1>2. Line = <<>>
  BY <1>1, EmptySeq DEF LineFits
<1> QED
  BY <1>2 DEF Init, Fifo!Init, Held

(* Every step of the ring is a step of the bounded line or a stutter. *)
LEMMA NextRefines == IInv /\ IInv' /\ [Next]_vars => [Fifo!Next]_(Fifo!vars)
<1> SUFFICES ASSUME IInv, IInv', [Next]_vars PROVE [Fifo!Next]_(Fifo!vars)
  OBVIOUS
<1> DEFINE Stutter == UNCHANGED <<Line, Held, taken, refused>>
<1>1. ASSUME NEW p \in Producers, NEW c \in Commands, PushBegin(p, c) PROVE Stutter
  BY <1>1, PushLookStutters DEF PushBegin
<1>2. ASSUME NEW p \in Producers, Push(p) PROVE Stutter \/ Fifo!Next
  <2>1. CASE PushFull(p)
    BY <2>1, PushFullRefuses, ArgumentIsFresh DEF PushFull, Fifo!Next
  <2>2. CASE PushFree(p)
    BY <2>2, PushLookStutters DEF PushFree
  <2>3. CASE PushChase(p)
    BY <2>3, PushLookStutters DEF PushChase
  <2>4. CASE PushClaim(p)
    BY <2>4, PushClaimClaims, ArgumentIsFresh DEF PushClaim, Fifo!Next
  <2>5. CASE PushWrite(p)
    BY <2>5, PushWriteStutters DEF PushWrite
  <2>6. CASE PushPublish(p)
    BY <2>6, PushPublishPublishes DEF Fifo!Next
  <2> QED
    BY <1>2, <2>1, <2>2, <2>3, <2>4, <2>5, <2>6 DEF Push
<1>3. ASSUME NEW p \in Producers, PushClaimFails(p) PROVE Stutter
  BY <1>3, PushLookStutters DEF PushClaimFails
<1>4. CASE PopReady \/ PopAdvance
  BY <1>4, PopMoveStutters DEF PopReady, PopAdvance, Fifo!vars
<1>5. CASE PopTake
  BY <1>5, PopTakeTakes DEF Fifo!Next
<1>6. CASE PopFree
  BY <1>6, PopFreeFrees DEF Fifo!Next
<1>7. CASE UNCHANGED vars
  BY <1>7 DEF vars, Line, Entry, CommandAt, FirstUntaken, Held, Fifo!vars
<1> QED
  BY <1>1, <1>2, <1>3, <1>4, <1>5, <1>6, <1>7 DEF Next, Pop, Fifo!vars

(* The ring implements the bounded line: commands leave in the order of the claims, none *)
(* is lost or delivered twice, none is seen ahead of an older claim, and a push() is     *)
(* refused by a full ring only (CommandQueue::push and pop).                             *)
THEOREM RingImplementsFifo == Spec => ImplementsBoundedFifo
BY InitRefines, NextRefines, Invariance, PTL DEF Spec, ImplementsBoundedFifo, Fifo!Spec

-----------------------------------------------------------------------------
(* The record of a request.                                                *)

Running == {"queued", "seated", "poll", "step", "emit", "decide"}
After == {"close", "teardown", "over"}

RecordTypes ==
  /\ mFinished \in BOOLEAN
  /\ mCancelled \in BOOLEAN
  /\ outcomePublished \in BOOLEAN
  /\ status \in Statuses \cup {None}
  /\ verdict \in Statuses \cup {None}
  /\ reason \in {"kEndId", "kCancelled", "kError", None}
  /\ actorPc \in Running \cup {"publish"} \cup After
  /\ getPc \in {"idle", "check", "holding", "waiting", "read", "returned"}
  /\ getResult \in Statuses \cup {None}
  /\ cancelPc \in [Cancellers -> {"idle", "wake", "done"}]
  /\ stopping \in BOOLEAN

(* The outcome is out exactly when the actor is past publishing it, and is its verdict, *)
(* which the actor has only from its decision on.                                       *)
PublishedIsVerdict ==
  /\ outcomePublished <=> actorPc \in After
  /\ status = IF outcomePublished THEN verdict ELSE None
  /\ verdict = None <=> actorPc \in Running

(* A verdict has a cause, and a cancelled verdict somebody who asked for it. *)
VerdictHasCause ==
  /\ actorPc \in {"emit", "decide"} => reason # None
  /\ reason = "kCancelled" => mCancelled /\ Asked
  /\ verdict = "kCompleted" => reason = "kEndId"
  /\ verdict = "kCancelled" => Asked
  /\ mCancelled => Asked \/ actorPc \in {"teardown", "over"}

(* A caller on its way out, or back, has a reason to be. *)
CallerHasReason ==
  /\ getPc = "read" => outcomePublished \/ (mCancelled /\ Asked)
  /\ getPc = "returned" <=> getResult # None
  /\ getResult = "kCancelled" => Asked
  /\ getResult = "kCancelled" => outcomePublished \/ mCancelled

(* get() returned, or is about to, on the strength of the cancel flag alone. *)
EarlyAnswer == (getPc = "read" /\ ~outcomePublished) \/ getResult = "kCancelled"

EarlyAnswerIsOpen == EarlyAnswer /\ verdict = "kCompleted" => ~mFinished

RecordInv == /\ RecordTypes /\ PublishedIsVerdict /\ VerdictHasCause /\ CallerHasReason
        /\ EarlyAnswerIsOpen

-----------------------------------------------------------------------------
(* A request that somebody asked to cancel stays one: cancelPc never returns to "idle" *)
(* and a shutdown is never taken back.                                                 *)
LEMMA AskedStays ==
  ASSUME RecordTypes, [RecordNext]_requestVars, Asked
  PROVE  Asked'
<1>1. CASE stopping
  BY <1>1 DEF RecordTypes, Asked, RecordNext, requestVars, GetCall, Get, GetCheck, GetWait, GetRead,
     CancelFlag, WakeWaiters, ShutdownCancels, Actor, DropQueued, FoundingFails, Start, SeatedPrefill,
     PlantCancel, Poll, Step, Emit, Decide, PublishOutcome, CloseChannel, Teardown
<1>2. CASE \E c \in Cancellers : cancelPc[c] # "idle"
  <2>1. PICK c \in Cancellers : cancelPc[c] # "idle"
    BY <1>2
  <2>2. cancelPc'[c] # "idle"
    BY <2>1 DEF RecordTypes, RecordNext, requestVars, GetCall, Get, GetCheck, GetWait, GetRead,
       CancelFlag, WakeWaiters, ShutdownCancels, actorRest, Actor, DropQueued, FoundingFails, Start,
       SeatedPrefill, PlantCancel, Poll, Step, Emit, Decide, PublishOutcome, CloseChannel,
       Teardown
  <2>3. QED
    BY <2>2 DEF Asked
<1>3. QED
  BY <1>1, <1>2 DEF Asked

LEMMA RecordStarts == RecordInit => RecordInv
  BY DEF RecordInit, RecordInv, RecordTypes, PublishedIsVerdict, VerdictHasCause, CallerHasReason,
     EarlyAnswerIsOpen, EarlyAnswer, Running, After, Statuses, None

LEMMA RecordSteps == RecordInv /\ [RecordNext]_requestVars => RecordInv'
<1> SUFFICES ASSUME RecordInv, [RecordNext]_requestVars PROVE RecordInv'
  OBVIOUS
<1>0. Asked => Asked'
  BY AskedStays DEF RecordInv
<1> USE <1>0 DEF RecordInv, RecordTypes, PublishedIsVerdict, VerdictHasCause, CallerHasReason,
     EarlyAnswerIsOpen, EarlyAnswer, Running, After, Statuses, None, streamVars, recordVars,
     actorVars, callerVars, actorRest
<1>1. CASE GetCall
  BY <1>1 DEF GetCall
<1>2. CASE GetCheck
  BY <1>2 DEF GetCheck, MayReturn
<1>3. CASE GetWait
  BY <1>3 DEF GetWait
<1>4. CASE GetRead
  BY <1>4 DEF GetRead
<1>5. ASSUME NEW c \in Cancellers, CancelFlag(c) PROVE RecordInv'
  <2>1. Asked'
    BY <1>5 DEF CancelFlag, Asked
  <2>2. QED
    BY <1>5, <2>1 DEF CancelFlag
<1>6. ASSUME NEW c \in Cancellers, WakeWaiters(c) PROVE RecordInv'
  BY <1>6 DEF WakeWaiters, Notify
<1>7. CASE ShutdownCancels
  BY <1>7 DEF ShutdownCancels
<1>8. CASE DropQueued
  <2>1. stopping => Asked
    BY DEF Asked
  <2>2. QED
    BY <1>8, <2>1 DEF DropQueued
<1>9. CASE FoundingFails
  BY <1>9 DEF FoundingFails
<1>10. CASE Start
  BY <1>10 DEF Start
<1>11. CASE SeatedPrefill
  BY <1>11 DEF SeatedPrefill
<1>12. CASE PlantCancel
  <2>1. Asked
    BY <1>12 DEF PlantCancel, Asked
  <2>2. QED
    BY <1>12, <2>1 DEF PlantCancel
<1>13. CASE Poll
  BY <1>13 DEF Poll
<1>14. CASE Step
  BY <1>14 DEF Step
<1>15. CASE Emit
  BY <1>15 DEF Emit
<1>16. CASE Decide
  BY <1>16 DEF Decide
<1>17. CASE PublishOutcome
  BY <1>17 DEF PublishOutcome, Notify
<1>18. CASE CloseChannel
  BY <1>18 DEF CloseChannel
<1>19. CASE Teardown
  BY <1>19 DEF Teardown
<1>20. CASE UNCHANGED requestVars
  BY <1>20 DEF requestVars
<1>21. QED
  BY <1>1, <1>2, <1>3, <1>4, <1>5, <1>6, <1>7, <1>8, <1>9, <1>10, <1>11, <1>12, <1>13, <1>14,
     <1>15, <1>16, <1>17, <1>18, <1>19, <1>20 DEF RecordNext, Get, Actor

(* The inductive invariant holds in every behaviour of the actor, caller and cancellers. *)
THEOREM RecordInvariance == RecordSpec => []RecordInv
<1>1. RecordInit => RecordInv
  BY RecordStarts
<1>2. RecordInv /\ [RecordNext]_requestVars => RecordInv'
  BY RecordSteps
<1>3. QED
  BY <1>1, <1>2, PTL DEF RecordSpec

(* Type correctness, and that get() never returns without an answer. *)
THEOREM RecordTypeCorrect == RecordSpec => []RecordTypeOK
<1>1. RecordInv => RecordTypeOK
  BY DEF RecordInv, RecordTypes, CallerHasReason, RecordTypeOK, Running, After
<1>2. QED
  BY RecordInvariance, <1>1, PTL

(* A failure is never reported to the caller as a cancellation nobody asked for. *)
THEOREM ErrorsReported == RecordSpec => []ErrorsAreReported
<1>1. RecordInv => ErrorsAreReported
  BY DEF RecordInv, CallerHasReason, ErrorsAreReported
<1>2. QED
  BY RecordInvariance, <1>1, PTL

(* A caller told "cancelled" early is contradicted by a completed outcome only for a     *)
(* stream that nobody finished.                                                          *)
THEOREM NotContradicted == RecordSpec => []CancelIsNotContradicted
<1>1. RecordInv => CancelIsNotContradicted
  BY DEF RecordInv, RecordTypes, PublishedIsVerdict, VerdictHasCause, EarlyAnswerIsOpen,
     EarlyAnswer, CancelIsNotContradicted, Statuses, None
<1>2. QED
  BY RecordInvariance, <1>1, PTL

(* Once the outcome is out, what get() returns is that outcome. *)
THEOREM ResultMatches == RecordSpec => ResultIsOutcome
<1>1. ASSUME [RecordNext]_requestVars
      PROVE  [getResult' # getResult /\ outcomePublished => getResult' = status]_requestVars
  BY <1>1 DEF RecordNext, requestVars, GetCall, Get, GetCheck, GetWait, GetRead, CancelFlag,
     WakeWaiters, ShutdownCancels, Actor, DropQueued, FoundingFails, Start, SeatedPrefill, PlantCancel, Poll,
     Step, Emit, Decide, PublishOutcome, CloseChannel, Teardown, callerVars, actorRest
<1>2. QED
  BY <1>1, PTL DEF RecordSpec, ResultIsOutcome
=============================================================================
