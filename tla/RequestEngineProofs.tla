------------------------- MODULE RequestEngineProofs -------------------------
(***************************************************************************)
(* Theorems about RequestEngine, for any set of requests and any limits.   *)
(* The invariants come in layers, each proved with the help of those       *)
(* before it: where the actor is and what it then works on; who holds each *)
(* request, and the accounts kept of them; how far a shutdown has come;    *)
(* why a request was cancelled; and that nobody overtakes in a line.       *)
(***************************************************************************)
EXTENDS RequestEngine, FiniteSetTheorems, SequenceTheorems, TLAPS

-----------------------------------------------------------------------------
(* Lines: what joining one, leaving its head and being taken out of its middle do to   *)
(* the set of those who wait in it, and that nobody waits twice.                       *)

(* Nobody waits in an empty line. *)
LEMMA EmptyLine ==
  /\ ToSet(<<>>) = {}
  /\ IsInjective(<<>>)
BY DEF ToSet, IsInjective

(* Appending adds one item, and a newcomer keeps the line free of repetitions. *)
LEMMA JoinLine ==
  ASSUME NEW S, NEW s \in Seq(S), NEW e \in S
  PROVE  /\ Append(s, e) \in Seq(S)
         /\ ToSet(Append(s, e)) = ToSet(s) \cup {e}
         /\ IsInjective(s) /\ e \notin ToSet(s) => IsInjective(Append(s, e))
<1>1. /\ Append(s, e) \in Seq(S)
      /\ Len(Append(s, e)) = Len(s) + 1
      /\ \A i \in 1..Len(s) : Append(s, e)[i] = s[i]
      /\ Append(s, e)[Len(s) + 1] = e
  BY AppendProperties
<1>2. /\ DOMAIN s = 1..Len(s)
      /\ DOMAIN Append(s, e) = 1..(Len(s) + 1)
      /\ Len(s) \in Nat
  BY <1>1, LenProperties
<1>3. ToSet(Append(s, e)) = ToSet(s) \cup {e}
  <2>1. \A i \in 1..(Len(s) + 1) : i \in 1..Len(s) \/ i = Len(s) + 1
    BY <1>2
  <2>2. \A i \in 1..Len(s) : i \in 1..(Len(s) + 1)
    BY <1>2
  <2>3. Len(s) + 1 \in 1..(Len(s) + 1)
    BY <1>2
  <2>4. QED
    BY <1>1, <1>2, <2>1, <2>2, <2>3 DEF ToSet
<1>4. IsInjective(s) /\ e \notin ToSet(s) => IsInjective(Append(s, e))
  BY <1>1, <1>2 DEF ToSet, IsInjective
<1>5. QED
  BY <1>1, <1>3, <1>4

(* The tail holds all but the head; in a line without repetitions the head is gone. *)
LEMMA LeaveLine ==
  ASSUME NEW S, NEW s \in Seq(S), s # <<>>
  PROVE  /\ Head(s) \in S
         /\ Tail(s) \in Seq(S)
         /\ ToSet(s) = ToSet(Tail(s)) \cup {Head(s)}
         /\ IsInjective(s) => IsInjective(Tail(s)) /\ Head(s) \notin ToSet(Tail(s))
<1>1. /\ Head(s) \in S
      /\ Tail(s) \in Seq(S)
      /\ Len(Tail(s)) = Len(s) - 1
      /\ \A i \in 1..Len(Tail(s)) : Tail(s)[i] = s[i + 1]
  BY HeadTailProperties
<1>2. /\ DOMAIN s = 1..Len(s)
      /\ DOMAIN Tail(s) = 1..(Len(s) - 1)
      /\ Len(s) \in Nat \ {0}
      /\ Head(s) = s[1]
  BY <1>1, LenProperties, EmptySeq
<1>3. ToSet(s) = ToSet(Tail(s)) \cup {Head(s)}
  <2>1. ASSUME NEW i \in 1..Len(s) PROVE s[i] \in ToSet(Tail(s)) \cup {Head(s)}
    <3>1. CASE i = 1
      BY <1>2, <3>1
    <3>2. CASE i # 1
      <4>1. i - 1 \in 1..(Len(s) - 1) /\ s[i] = Tail(s)[i - 1]
        BY <1>1, <1>2, <3>2
      <4>2. QED
        BY <1>2, <4>1 DEF ToSet
    <3>3. QED
      BY <3>1, <3>2
  <2>2. ASSUME NEW i \in 1..(Len(s) - 1) PROVE Tail(s)[i] \in ToSet(s)
    <3>1. i + 1 \in 1..Len(s) /\ Tail(s)[i] = s[i + 1]
      BY <1>1, <1>2
    <3>2. QED
      BY <1>2, <3>1 DEF ToSet
  <2>3. Head(s) \in ToSet(s)
    <3>1. 1 \in 1..Len(s)
      BY <1>2
    <3>2. QED
      BY <1>2, <3>1 DEF ToSet
  <2>4. QED
    BY <1>2, <2>1, <2>2, <2>3 DEF ToSet
<1>4. IsInjective(s) => IsInjective(Tail(s)) /\ Head(s) \notin ToSet(Tail(s))
  BY <1>1, <1>2 DEF ToSet, IsInjective
<1>5. QED
  BY <1>1, <1>3, <1>4

(* Taking out the item at a position closes the gap behind it. *)
LEMMA TakeFromLine ==
  ASSUME NEW S, NEW s \in Seq(S), NEW j \in 1..Len(s)
  PROVE  /\ RemoveAt(s, j) \in Seq(S)
         /\ Len(RemoveAt(s, j)) = Len(s) - 1
         /\ \A i \in 1..(Len(s) - 1) : RemoveAt(s, j)[i] = IF i < j THEN s[i] ELSE s[i + 1]
<1> DEFINE t == RemoveAt(s, j)
<1>0. /\ Len(s) \in Nat
      /\ DOMAIN s = 1..Len(s)
      /\ s[j] \in S
  BY LenProperties, ElementOfSeq
<1>1. /\ SubSeq(s, 1, j - 1) \in Seq(S)
      /\ Len(SubSeq(s, 1, j - 1)) = j - 1
      /\ \A i \in 1..(j - 1) : SubSeq(s, 1, j - 1)[i] = s[i]
  <2>1. \A i \in 1..(j - 1) : s[i] \in S
    BY <1>0, ElementOfSeq
  <2>2. QED
    BY <1>0, <2>1, SubSeqProperties
<1>2. /\ SubSeq(s, j + 1, Len(s)) \in Seq(S)
      /\ Len(SubSeq(s, j + 1, Len(s))) = Len(s) - j
      /\ \A i \in 1..(Len(s) - j) : SubSeq(s, j + 1, Len(s))[i] = s[j + i]
  <2>1. \A i \in (j + 1)..Len(s) : s[i] \in S
    BY <1>0, ElementOfSeq
  <2>2. j + 1 \in Int /\ Len(s) \in Int
    BY <1>0
  <2>3. /\ SubSeq(s, j + 1, Len(s)) \in Seq(S)
        /\ Len(SubSeq(s, j + 1, Len(s))) =
             IF j + 1 <= Len(s) THEN Len(s) - (j + 1) + 1 ELSE 0
        /\ \A i \in 1..(Len(s) - (j + 1) + 1) :
             SubSeq(s, j + 1, Len(s))[i] = s[(j + 1) + i - 1]
    BY <2>1, <2>2, SubSeqProperties
  <2>4. Len(SubSeq(s, j + 1, Len(s))) = Len(s) - j
    <3>1. CASE j + 1 <= Len(s)
      BY <1>0, <2>3, <3>1
    <3>2. CASE ~(j + 1 <= Len(s))
      <4>0. j \in Int /\ Len(s) \in Int /\ j <= Len(s)
        BY <1>0
      <4>1. j = Len(s)
        BY <4>0, <3>2
      <4>2. QED
        BY <1>0, <2>3, <3>2, <4>1
    <3>3. QED
      BY <3>1, <3>2
  <2>5. ASSUME NEW i \in 1..(Len(s) - j)
        PROVE  SubSeq(s, j + 1, Len(s))[i] = s[j + i]
    <3>1. i \in 1..(Len(s) - (j + 1) + 1) /\ (j + 1) + i - 1 = j + i
      BY <1>0
    <3>2. QED
      BY <2>3, <3>1
  <2>6. QED
    BY <2>3, <2>4, <2>5
<1>3. /\ t \in Seq(S)
      /\ Len(t) = Len(s) - 1
      /\ \A i \in 1..(Len(s) - 1) : t[i] = IF i < j THEN s[i] ELSE s[i + 1]
  <2> DEFINE u == SubSeq(s, 1, j - 1)
             v == SubSeq(s, j + 1, Len(s))
  <2>1. /\ u \o v \in Seq(S)
        /\ Len(u \o v) = Len(u) + Len(v)
        /\ \A i \in 1..(Len(u) + Len(v)) :
             (u \o v)[i] = IF i <= Len(u) THEN u[i] ELSE v[i - Len(u)]
    BY <1>1, <1>2, ConcatProperties
  <2>2. Len(u) = j - 1 /\ Len(v) = Len(s) - j /\ Len(u) + Len(v) = Len(s) - 1
    <3>1. Len(u) = j - 1 /\ Len(v) = Len(s) - j
      BY <1>1, <1>2
    <3> HIDE DEF u, v
    <3>2. QED
      BY <1>0, <3>1
  <2>3. t = u \o v
    BY DEF RemoveAt
  <2>4. ASSUME NEW i \in 1..(Len(s) - 1)
        PROVE  t[i] = IF i < j THEN s[i] ELSE s[i + 1]
    <3> HIDE DEF t, u, v
    <3>1. CASE i < j
      <4>1. i \in 1..(j - 1) /\ i <= Len(u)
        BY <1>0, <2>2, <3>1
      <4>2. u[i] = s[i]
        BY <1>1, <4>1 DEF u
      <4>3. QED
        BY <2>1, <2>2, <2>3, <3>1, <4>1, <4>2
    <3>2. CASE ~(i < j)
      <4>1. i - (j - 1) \in 1..(Len(s) - j) /\ ~(i <= Len(u)) /\ j + (i - (j - 1)) = i + 1
        BY <1>0, <2>2, <3>2
      <4>2. v[i - (j - 1)] = s[i + 1]
        BY <1>2, <4>1 DEF v
      <4>3. QED
        BY <2>1, <2>2, <2>3, <3>2, <4>1, <4>2
    <3>3. QED
      BY <3>1, <3>2
  <2>5. QED
    BY <2>1, <2>2, <2>3, <2>4
<1> QED
  BY <1>3 DEF t

(* It takes out that item and keeps the others. *)
LEMMA RemoveFromLine ==
  ASSUME NEW S, NEW s \in Seq(S), NEW j \in 1..Len(s)
  PROVE  /\ s[j] \in S
         /\ RemoveAt(s, j) \in Seq(S)
         /\ ToSet(s) = ToSet(RemoveAt(s, j)) \cup {s[j]}
         /\ IsInjective(s) => IsInjective(RemoveAt(s, j)) /\ s[j] \notin ToSet(RemoveAt(s, j))
<1> DEFINE t == RemoveAt(s, j)
<1>0. /\ Len(s) \in Nat
      /\ DOMAIN s = 1..Len(s)
      /\ s[j] \in S
  BY LenProperties, ElementOfSeq
<1>3. /\ t \in Seq(S)
      /\ Len(t) = Len(s) - 1
      /\ \A i \in 1..(Len(s) - 1) : t[i] = IF i < j THEN s[i] ELSE s[i + 1]
  BY TakeFromLine
<1> HIDE DEF t
<1>4. DOMAIN t = 1..(Len(s) - 1)
  BY <1>3, LenProperties
<1>5. ToSet(s) = ToSet(t) \cup {s[j]}
  <2>1. ASSUME NEW i \in 1..Len(s) PROVE s[i] \in ToSet(t) \cup {s[j]}
    <3>1. CASE i < j
      <4>1. i \in 1..(Len(s) - 1) /\ t[i] = s[i]
        BY <1>0, <1>3, <3>1
      <4>2. QED
        BY <1>4, <4>1 DEF ToSet
    <3>2. CASE i > j
      <4>1. i - 1 \in 1..(Len(s) - 1) /\ ~(i - 1 < j) /\ (i - 1) + 1 = i
        BY <1>0, <3>2
      <4>2. t[i - 1] = s[i]
        BY <1>3, <4>1
      <4>3. QED
        BY <1>4, <4>1, <4>2 DEF ToSet
    <3>3. QED
      BY <1>0, <3>1, <3>2
  <2>2. ASSUME NEW i \in 1..(Len(s) - 1) PROVE t[i] \in ToSet(s)
    <3>1. i \in 1..Len(s) /\ i + 1 \in 1..Len(s)
      BY <1>0
    <3>2. QED
      BY <1>0, <1>3, <3>1 DEF ToSet
  <2>3. s[j] \in ToSet(s)
    BY <1>0 DEF ToSet
  <2>4. QED
    BY <1>0, <1>4, <2>1, <2>2, <2>3 DEF ToSet
<1>6. IsInjective(s) => IsInjective(t) /\ s[j] \notin ToSet(t)
  <2> SUFFICES ASSUME IsInjective(s) PROVE IsInjective(t) /\ s[j] \notin ToSet(t)
    OBVIOUS
  <2> DEFINE from(i) == IF i < j THEN i ELSE i + 1
  <2>1. ASSUME NEW i \in 1..(Len(s) - 1)
        PROVE  from(i) \in 1..Len(s) /\ from(i) # j /\ t[i] = s[from(i)]
    BY <1>0, <1>3
  <2>2. ASSUME NEW a \in 1..(Len(s) - 1), NEW b \in 1..(Len(s) - 1), from(a) = from(b)
        PROVE  a = b
    BY <1>0, <2>2
  <2> HIDE DEF from
  <2>3. QED
    BY <1>0, <1>4, <2>1, <2>2 DEF ToSet, IsInjective
<1>7. QED
  BY <1>0, <1>3, <1>5, <1>6 DEF t

(* Whoever waits in a line over S is in S, and a line is empty when nobody waits. *)
LEMMA ItemsInDomain ==
  ASSUME NEW S, NEW s \in Seq(S)
  PROVE  /\ ToSet(s) \subseteq S
         /\ s # <<>> <=> ToSet(s) # {}
         /\ \A i \in 1..Len(s) : s[i] \in ToSet(s)
<1>1. DOMAIN s = 1..Len(s) /\ Len(s) \in Nat
  BY LenProperties
<1>2. \A i \in 1..Len(s) : s[i] \in S
  BY ElementOfSeq
<1>3. s # <<>> => 1 \in 1..Len(s)
  BY EmptySeq, <1>1
<1>4. s = <<>> => ToSet(s) = {}
  BY EmptyLine
<1>5. QED
  BY <1>1, <1>2, <1>3, <1>4 DEF ToSet

-----------------------------------------------------------------------------
(* A line that stands in the order of a relation R.                        *)

InOrder(R, s) == \A i, j \in DOMAIN s : i < j => <<s[i], s[j]>> \in R

(* An empty line is in any order. *)
LEMMA EmptyInOrder == \A R : InOrder(R, <<>>)
BY DEF InOrder

(* A newcomer behind everybody keeps the order. *)
LEMMA JoinInOrder ==
  ASSUME NEW S, NEW s \in Seq(S), NEW e \in S, NEW R, InOrder(R, s),
         \A x \in ToSet(s) : <<x, e>> \in R
  PROVE  InOrder(R, Append(s, e))
<1>1. /\ DOMAIN s = 1..Len(s) /\ Len(s) \in Nat
      /\ DOMAIN Append(s, e) = 1..(Len(s) + 1)
      /\ \A i \in 1..Len(s) : Append(s, e)[i] = s[i]
      /\ Append(s, e)[Len(s) + 1] = e
  BY AppendProperties, LenProperties
<1> DEFINE t == Append(s, e)
<1> HIDE DEF t
<1>2. ASSUME NEW i \in 1..(Len(s) + 1), NEW j \in 1..(Len(s) + 1), i < j
      PROVE  <<t[i], t[j]>> \in R
  <2>1. i \in 1..Len(s) /\ t[i] = s[i] /\ s[i] \in ToSet(s)
    BY <1>1, <1>2, ItemsInDomain DEF t
  <2>2. CASE j \in 1..Len(s)
    BY <1>1, <1>2, <2>1, <2>2 DEF InOrder, t
  <2>3. CASE j = Len(s) + 1
    BY <1>1, <2>1, <2>3 DEF t
  <2> QED
    BY <1>1, <2>2, <2>3
<1> QED
  BY <1>1, <1>2 DEF InOrder, t

(* The head leaves first, and in front of all that stay. *)
LEMMA LeaveInOrder ==
  ASSUME NEW S, NEW s \in Seq(S), s # <<>>, NEW R, InOrder(R, s)
  PROVE  /\ InOrder(R, Tail(s))
         /\ \A x \in ToSet(Tail(s)) : <<Head(s), x>> \in R
<1>1. /\ Len(s) \in Nat \ {0} /\ DOMAIN s = 1..Len(s) /\ Head(s) = s[1]
      /\ DOMAIN Tail(s) = 1..(Len(s) - 1)
      /\ \A i \in 1..(Len(s) - 1) : Tail(s)[i] = s[i + 1]
  BY HeadTailProperties, LenProperties, EmptySeq
<1> DEFINE t == Tail(s)
<1> HIDE DEF t
<1>2. \A i \in 1..(Len(s) - 1) : i + 1 \in 1..Len(s) /\ 1 < i + 1 /\ t[i] = s[i + 1]
  BY <1>1 DEF t
<1>3. 1 \in 1..Len(s) /\ \A i, j \in 1..(Len(s) - 1) : i < j => i + 1 < j + 1
  BY <1>1
<1>4. \A i, j \in 1..Len(s) : i < j => <<s[i], s[j]>> \in R
  BY <1>1 DEF InOrder
<1>5. \A i, j \in 1..(Len(s) - 1) : i < j => <<t[i], t[j]>> \in R
  BY <1>2, <1>3, <1>4
<1>6. \A i \in 1..(Len(s) - 1) : <<s[1], t[i]>> \in R
  BY <1>2, <1>3, <1>4
<1> QED
  BY <1>1, <1>5, <1>6 DEF InOrder, ToSet, t

(* Whoever leaves from the middle keeps the others in order. *)
LEMMA RemoveInOrder ==
  ASSUME NEW S, NEW s \in Seq(S), NEW j \in 1..Len(s), NEW R, InOrder(R, s)
  PROVE  InOrder(R, RemoveAt(s, j))
<1> DEFINE t == RemoveAt(s, j)
           from(i) == IF i < j THEN i ELSE i + 1
<1>1. /\ Len(s) \in Nat /\ DOMAIN s = 1..Len(s)
      /\ DOMAIN t = 1..(Len(s) - 1)
      /\ \A i \in 1..(Len(s) - 1) : t[i] = s[from(i)]
  BY TakeFromLine, LenProperties
<1> HIDE DEF t
<1>2. /\ \A i \in 1..(Len(s) - 1) : from(i) \in 1..Len(s)
      /\ \A a, b \in 1..(Len(s) - 1) : a < b => from(a) < from(b)
  BY <1>1
<1> HIDE DEF from
<1>3. \A a, b \in 1..(Len(s) - 1) : a < b => <<t[a], t[b]>> \in R
  BY <1>1, <1>2 DEF InOrder
<1> QED
  BY <1>1, <1>3 DEF InOrder, t

(* A larger relation orders all that the smaller one did. *)
LEMMA MoreInOrder ==
  ASSUME NEW s, NEW R, NEW Q, R \subseteq Q, InOrder(R, s)
  PROVE  InOrder(Q, s)
BY DEF InOrder

-----------------------------------------------------------------------------
(* First layer: types, and what the actor holds where.                     *)

CallersTyped == /\ subPc \in [Requests -> SubPcs]
                /\ canPc \in [Requests -> {"idle", "wake", "done"}]
                /\ shutPc \in {"running", "closed", "stopped", "notifying", "joining", "done"}
                /\ mAccepting \in BOOLEAN
                /\ mShutdownMode \in {"kDrain", "kCancel"}

LinesTyped == /\ commands \in Seq(Requests \cup {kShutdown})
              /\ mQueued \in Seq(Requests)
              /\ accepted \in Seq(Requests)
              /\ served \in Seq(Requests)

AccountsTyped == /\ mPendingCount \in Int
                 /\ mLiveRecords \subseteq Requests
                 /\ cancelled \subseteq Requests
                 /\ outcome \in [Requests -> Statuses \cup {NotYet}]
                 /\ mCounters \in [Statuses -> Nat]

ActorTyped == /\ actorPc \in ActorPcs
              /\ ret \in {"loop", "tick", "last", "admit", "offer"}
              /\ budget \in 0..QueueCapacity
              /\ cursor \in Nat \ {0}
              /\ stopping \in BOOLEAN
              /\ mStopRequested \in BOOLEAN

BatchTyped == /\ mResidentRecord \in Requests \cup {NoRequest}
              /\ mResidents \subseteq Requests
              /\ rows \subseteq Requests
              /\ awaitingPrefill \in Requests \cup {NoRequest}
              /\ results \subseteq [req : Requests, reason : Reasons]

ProgressTyped == /\ generated \in [Requests -> Nat]
                 /\ finished \in [Requests -> Reasons \cup {NotYet}]

Types == /\ CallersTyped /\ LinesTyped /\ AccountsTyped /\ ActorTyped /\ BatchTyped
         /\ ProgressTyped

(* A batch is being stepped, its drains and sweeps included. *)
InBatch == \/ actorPc \in {"tick", "offer", "decode", "publish"}
           \/ actorPc \in {"drain", "sweep"} /\ ret \in {"tick", "offer"}

(* The founder is recorded from its admission to the batch's end, and in between the   *)
(* ledger and the rows agree.  A prefill is pending only before a tick, and results    *)
(* only while they are published.                                                      *)
Shape ==
  /\ mResidentRecord # NoRequest <=> InBatch \/ actorPc \in {"found", "failing"}
  /\ InBatch => mResidents = rows
  /\ actorPc = "failing" => mResidents \subseteq rows
  /\ ~InBatch /\ actorPc # "failing" => mResidents = {} /\ rows = {}
  /\ awaitingPrefill # NoRequest =>
       /\ awaitingPrefill \in rows
       /\ actorPc = "tick" \/ (actorPc \in {"drain", "sweep"} /\ ret = "tick")
  /\ results # {} => actorPc = "publish"

IInv1 == Types /\ Shape

(* The engine starts well typed and idle. *)
LEMMA InitTyped == Init => IInv1
<1> SUFFICES ASSUME Init PROVE Types /\ Shape
  BY DEF IInv1
<1>1. CallersTyped
  BY DEF Init, CallersTyped, SubPcs
<1>2. LinesTyped
  BY EmptySeq DEF Init, LinesTyped
<1>3. AccountsTyped
  BY DEF Init, AccountsTyped, NotYet
<1>4. ActorTyped
  <2>1. QueueCapacity \in 0..QueueCapacity /\ 1 \in Nat \ {0}
    BY ConfigAssumption
  <2>2. QED
    BY <2>1 DEF Init, ActorTyped, ActorPcs
<1>5. BatchTyped
  BY DEF Init, BatchTyped
<1>6. ProgressTyped
  BY DEF Init, ProgressTyped
<1>7. Shape
  BY DEF Init, Shape, InBatch
<1>8. QED
  BY <1>1, <1>2, <1>3, <1>4, <1>5, <1>6, <1>7 DEF Types

-----------------------------------------------------------------------------
(* Who changes what.                                                       *)

Caller == \/ \E r \in Requests : Submit(r) \/ HandleCancel(r) \/ CancelById(r) \/ CancelWake(r)
          \/ \E mode \in Modes : ShutdownClose(mode)
          \/ Shutdown

ActorStep == Actor \/ ParkTimeout

(* Every step is a caller's or the actor's. *)
LEMMA Movers == [Next]_vars => Caller \/ ActorStep \/ UNCHANGED vars
  BY DEF Next, Caller, ActorStep, Finished

(* Callers leave the actor's own state alone, but for waking it. *)
LEMMA CallerFrame ==
  Caller =>
    /\ UNCHANGED <<finished, outcomeVars, localVars, mQueued, batchVars, served>>
    /\ actorPc' = actorPc \/ (actorPc = "parked" /\ actorPc' = "park")
    /\ UNCHANGED commands \/ ShutdownPost \/ \E r \in Requests : PostPush(r)
    /\ UNCHANGED accepted \/ \E r \in Requests : PostPush(r)
    /\ UNCHANGED mStopRequested \/ ShutdownStop
    /\ UNCHANGED <<mAccepting, mShutdownMode>> \/ \E mode \in Modes : ShutdownClose(mode)
    /\ UNCHANGED <<subPc, mPendingCount, mLiveRecords>> \/ \E r \in Requests : Submit(r)
    /\ UNCHANGED cancelled \/ \E r \in Requests : HandleCancel(r) \/ CancelById(r)
<1> USE DEF callerVars, gateVars, stopVars, streamVars, outcomeVars, localVars, batchVars,
            historyVars, actorState, quiet, WakeActor
<1>1. ASSUME NEW r \in Requests, Submit(r) PROVE CallerFrame!2
  <2>1. CASE PostPush(r)
    BY <1>1, <2>1 DEF PostPush
  <2>2. CASE ~PostPush(r)
    BY <1>1, <2>2 DEF Submit, SubmitReserve, SubmitBacklogFull, SubmitRegister, PostCheck,
       SubmitRefuse, SubmitReturn
  <2>3. QED
    BY <2>1, <2>2
<1>2. ASSUME NEW r \in Requests, HandleCancel(r) \/ CancelById(r) PROVE CallerFrame!2
  BY <1>2 DEF HandleCancel, CancelById
<1>3. ASSUME NEW r \in Requests, CancelWake(r) PROVE CallerFrame!2
  BY <1>3 DEF CancelWake
<1>4. ASSUME NEW mode \in Modes, ShutdownClose(mode) PROVE CallerFrame!2
  BY <1>4 DEF ShutdownClose
<1>5. CASE Shutdown
  BY <1>5 DEF Shutdown, ShutdownStop, ShutdownPost, ShutdownWake, ShutdownJoin
<1>6. QED
  BY <1>1, <1>2, <1>3, <1>4, <1>5 DEF Caller

(* The actor leaves the callers' state alone; which of its steps change what they share *)
(* or what it holds.                                                                    *)
Terminating == \/ SweepRetire \/ FoundFails \/ OfferRejected \/ PublishOne \/ FailOne
               \/ ExitQueued \/ (ExitCommand /\ Head(commands) # kShutdown)

Stepping == PrefillFounder \/ PrefillJoiner \/ Decode

(* What a step of the actor may change, and which of its steps do. *)
LEMMA ActorFrame ==
  ActorStep =>
    /\ UNCHANGED <<callerVars, mAccepting, mShutdownMode, accepted>>
    /\ commands' = commands \/ DrainPop \/ ExitCommand
    /\ mStopRequested' = mStopRequested \/ DrainPop
    /\ \/ UNCHANGED mQueued
       \/ DrainPop \/ SweepRetire \/ AdmitNext \/ OfferRejected \/ OfferAdmitted \/ ExitQueued
    /\ UNCHANGED served \/ AdmitNext \/ OfferAdmitted
    /\ UNCHANGED <<mPendingCount, mLiveRecords, outcome, mCounters>> \/ Terminating
    /\ UNCHANGED cancelled \/ Terminating \/ SweepDone
    /\ UNCHANGED finished \/ FoundFails \/ Stepping \/ Teardown
    /\ UNCHANGED generated \/ Stepping
    /\ \/ UNCHANGED mResidentRecord
       \/ AdmitNext \/ FoundFails \/ Teardown
    /\ UNCHANGED mResidents \/ Found \/ OfferAdmitted \/ Stepping \/ FailOne
    /\ UNCHANGED rows \/ Found \/ OfferAdmitted \/ Stepping \/ Teardown
    /\ UNCHANGED awaitingPrefill \/ Found \/ OfferAdmitted \/ Stepping
    /\ UNCHANGED results \/ Stepping \/ PublishOne
<1> USE DEF callerVars, gateVars, stopVars, streamVars, outcomeVars, localVars, batchVars,
            historyVars, actorState, quiet, Terminating, Stepping
<1>1. CASE Stepping
  BY <1>1 DEF PrefillFounder, PrefillJoiner, Decode, Commit, StepFails
<1>2. CASE Terminating
  BY <1>2 DEF SweepRetire, FoundFails, OfferRejected, PublishOne, FailOne, ExitQueued,
     ExitCommand
<1>3. CASE DrainPop \/ DrainDone \/ SweepDone \/ (ExitCommand /\ Head(commands) = kShutdown)
  BY <1>3 DEF DrainPop, DrainDone, SweepDone, ExitCommand, NoneTerminated
<1>4. CASE LoopTop \/ AdmitNext \/ AdmitNothing \/ LastDrain \/ ParkCheck \/ ParkSleep \/ ParkTimeout
  BY <1>4 DEF LoopTop, AdmitNext, AdmitNothing, LastDrain, ParkCheck, ParkSleep, ParkTimeout
<1>5. CASE Found \/ TickDecode \/ OfferNothing \/ OfferAdmitted \/ PublishDone \/ Teardown \/ ExitDone
  BY <1>5 DEF Found, TickDecode, OfferNothing, OfferAdmitted, PublishDone, Teardown, ExitDone
<1>6. QED
  BY <1>1, <1>2, <1>3, <1>4, <1>5 DEF ActorStep, Actor, Batch

-----------------------------------------------------------------------------
(* What the actor's compound steps come to.                                *)

(* A step of the runtime works on rows only, and a cancelled ending is one it polled. *)
RuntimeStep ==
  /\ actorPc \in {"tick", "decode"}
  /\ \E stepped \in SUBSET rows :
       \/ StepFails(stepped)
       \/ \E ending \in [stepped -> Reasons \cup {NotYet}], emits \in BOOLEAN :
            /\ Commit(stepped, ending, emits)
            /\ \A r \in stepped : ending[r] = "kCancelled" => r \in cancelled

(* Both prefills and the decode are such a step. *)
LEMMA SteppingIsCommit ==
  ASSUME IInv1, Stepping
  PROVE  RuntimeStep
<1> USE DEF IInv1, Shape, InBatch
<1>1. CASE PrefillFounder
  <2>1. awaitingPrefill \in rows /\ actorPc = "tick"
    BY <1>1 DEF PrefillFounder
  <2>2. CASE StepFails({awaitingPrefill})
    BY <2>1, <2>2 DEF RuntimeStep
  <2>3. ASSUME NEW why \in Endings(awaitingPrefill, 1),
               Commit({awaitingPrefill}, [q \in {awaitingPrefill} |-> why], TRUE)
        PROVE  RuntimeStep
    <3>1. why \in Reasons \cup {NotYet} /\ (why = "kCancelled" => awaitingPrefill \in cancelled)
      BY DEF Endings, Reasons, NotYet
    <3>2. [q \in {awaitingPrefill} |-> why] \in [{awaitingPrefill} -> Reasons \cup {NotYet}]
      BY <3>1
    <3>3. QED
      BY <2>1, <2>3, <3>1, <3>2 DEF RuntimeStep
  <2>4. QED
    BY <1>1, <2>2, <2>3 DEF PrefillFounder
<1>2. CASE PrefillJoiner
  <2>1. awaitingPrefill \in rows /\ actorPc = "tick"
    BY <1>2 DEF PrefillJoiner
  <2>2. CASE StepFails({})
    BY <2>1, <2>2 DEF RuntimeStep
  <2>3. ASSUME NEW why \in {"kEndId", NotYet, "kError"},
               Commit({awaitingPrefill}, [q \in {awaitingPrefill} |-> why], FALSE)
        PROVE  RuntimeStep
    <3>1. why \in Reasons \cup {NotYet} /\ why # "kCancelled"
      BY DEF Reasons, NotYet
    <3>2. [q \in {awaitingPrefill} |-> why] \in [{awaitingPrefill} -> Reasons \cup {NotYet}]
      BY <3>1
    <3>3. QED
      BY <2>1, <2>3, <3>1, <3>2 DEF RuntimeStep
  <2>4. QED
    BY <1>2, <2>2, <2>3 DEF PrefillJoiner
<1>3. CASE Decode
  <2>1. CASE StepFails(rows)
    BY <1>3, <2>1 DEF Decode, RuntimeStep
  <2>2. ASSUME NEW ending \in [rows -> Reasons \cup {NotYet}],
               \A r \in rows : ending[r] \in Endings(r, generated[r] + 1),
               Commit(rows, ending, TRUE)
        PROVE  RuntimeStep
    <3>1. \A r \in rows : ending[r] = "kCancelled" => r \in cancelled
      BY <2>2 DEF Endings, NotYet
    <3>2. QED
      BY <1>3, <2>2, <3>1 DEF Decode, RuntimeStep
  <2>3. QED
    BY <1>3, <2>1, <2>2 DEF Decode
<1>4. QED
  BY <1>1, <1>2, <1>3 DEF Stepping

(* Whoever the actor terminates it holds, and each has a status of its own. *)
LEMMA TerminatingTerminates ==
  ASSUME IInv1, Terminating
  PROVE  \E r \in Requests, status \in Statuses : Terminate(r, status)
<1> USE DEF IInv1, Types, LinesTyped, AccountsTyped, BatchTyped, Shape, InBatch, Statuses
<1>1. CASE SweepRetire
  <2>1. PICK k \in CancelledFrom(cursor) : Terminate(mQueued[k], "kCancelled")
    BY <1>1 DEF SweepRetire
  <2>2. k \in 1..Len(mQueued)
    BY <2>1 DEF CancelledFrom, ActorTyped
  <2>3. QED
    BY <2>1, <2>2, ElementOfSeq
<1>2. CASE FoundFails
  BY <1>2 DEF FoundFails
<1>3. CASE OfferRejected
  BY <1>3, HeadTailProperties DEF OfferRejected, MayOffer
<1>4. CASE PublishOne
  BY <1>4 DEF PublishOne, StatusOf
<1>5. CASE FailOne
  BY <1>5 DEF FailOne, StatusOf
<1>6. CASE ExitQueued
  BY <1>6, HeadTailProperties DEF ExitQueued
<1>7. CASE ExitCommand /\ Head(commands) # kShutdown
  BY <1>7, HeadTailProperties DEF ExitCommand
<1>8. QED
  BY <1>1, <1>2, <1>3, <1>4, <1>5, <1>6, <1>7 DEF Terminating

-----------------------------------------------------------------------------
(* The first layer is inductive.                                           *)

(* Every step keeps the callers, the gate and the shutdown mode within their types. *)
LEMMA CallersStayTyped == IInv1 /\ [Next]_vars => CallersTyped'
<1> SUFFICES ASSUME IInv1, [Next]_vars PROVE CallersTyped'
  OBVIOUS
<1> USE DEF CallersTyped, SubPcs, callerVars, stopVars, gateVars
<1>0. CallersTyped
  BY DEF IInv1, Types
<1>1. ASSUME NEW r \in Requests, Submit(r) PROVE CallersTyped'
  BY <1>0, <1>1 DEF Submit, SubmitReserve, SubmitBacklogFull, SubmitRegister, PostCheck, PostPush,
     SubmitRefuse, SubmitReturn
<1>2. ASSUME NEW r \in Requests, HandleCancel(r) \/ CancelById(r) \/ CancelWake(r)
      PROVE  CallersTyped'
  BY <1>0, <1>2 DEF HandleCancel, CancelById, CancelWake
<1>3. ASSUME NEW mode \in Modes, ShutdownClose(mode) PROVE CallersTyped'
  BY <1>0, <1>3, ConfigAssumption DEF ShutdownClose
<1>4. CASE Shutdown
  BY <1>0, <1>4 DEF Shutdown, ShutdownStop, ShutdownPost, ShutdownWake, ShutdownJoin
<1>5. CASE ActorStep
  BY <1>0, <1>5, ActorFrame
<1>6. CASE UNCHANGED vars
  BY <1>0, <1>6 DEF vars
<1>7. QED
  BY <1>1, <1>2, <1>3, <1>4, <1>5, <1>6, Movers DEF Caller

(* Every step keeps the ring, the queue and the histories sequences of requests. *)
LEMMA LinesStayTyped == IInv1 /\ [Next]_vars => LinesTyped'
<1> SUFFICES ASSUME IInv1, [Next]_vars PROVE LinesTyped'
  OBVIOUS
<1>0. LinesTyped /\ ActorTyped
  BY DEF IInv1, Types
<1> USE <1>0 DEF LinesTyped
<1>1. CASE Caller
  <2>1. ASSUME NEW r \in Requests, PostPush(r)
        PROVE  commands' \in Seq(Requests \cup {kShutdown}) /\ accepted' \in Seq(Requests)
    <3>1. /\ Append(commands, r) \in Seq(Requests \cup {kShutdown})
          /\ Append(accepted, r) \in Seq(Requests)
      BY AppendProperties
    <3>2. QED
      BY <2>1, <3>1 DEF PostPush
  <2>2. ShutdownPost => commands' \in Seq(Requests \cup {kShutdown})
    <3>1. Append(commands, kShutdown) \in Seq(Requests \cup {kShutdown})
      BY AppendProperties
    <3>2. QED
      BY <3>1 DEF ShutdownPost
  <2>3. QED
    BY <1>1, <2>1, <2>2, CallerFrame
<1>2. CASE ActorStep
  <2>1. commands' \in Seq(Requests \cup {kShutdown})
    <3>1. CASE DrainPop \/ ExitCommand
      <4>1. commands # <<>> /\ commands' = Tail(commands)
        BY <3>1 DEF DrainPop, ExitCommand
      <4>2. QED
        BY <4>1, HeadTailProperties
    <3>2. QED
      BY <1>2, <3>1, ActorFrame
  <2>2. mQueued' \in Seq(Requests)
    <3>1. CASE DrainPop
      <4>1. Head(commands) # kShutdown => Head(commands) \in Requests
        BY <3>1, HeadTailProperties DEF DrainPop
      <4>2. Head(commands) # kShutdown => Append(mQueued, Head(commands)) \in Seq(Requests)
        BY <4>1, AppendProperties
      <4>3. QED
        BY <3>1, <4>2 DEF DrainPop
    <3>2. CASE SweepRetire
      <4>1. PICK k \in CancelledFrom(cursor) : mQueued' = RemoveAt(mQueued, k)
        BY <3>2 DEF SweepRetire
      <4>2. k \in 1..Len(mQueued)
        BY <4>1 DEF CancelledFrom, ActorTyped
      <4>3. QED
        BY <4>1, <4>2, RemoveFromLine
    <3>3. CASE AdmitNext \/ OfferRejected \/ OfferAdmitted \/ ExitQueued
      BY <3>3, HeadTailProperties DEF AdmitNext, OfferRejected, OfferAdmitted, ExitQueued, MayOffer
    <3>4. QED
      BY <1>2, <3>1, <3>2, <3>3, ActorFrame
  <2>3. served' \in Seq(Requests)
    <3>1. CASE AdmitNext \/ OfferAdmitted
      <4>1. Head(mQueued) \in Requests
        BY <3>1, HeadTailProperties DEF AdmitNext, OfferAdmitted, MayOffer
      <4>2. Append(served, Head(mQueued)) \in Seq(Requests)
        BY <4>1, AppendProperties
      <4>3. QED
        BY <3>1, <4>2 DEF AdmitNext, OfferAdmitted
    <3>2. QED
      BY <1>2, <3>1, ActorFrame
  <2>4. QED
    BY <1>2, <2>1, <2>2, <2>3, ActorFrame
<1>3. CASE UNCHANGED vars
  BY <1>3 DEF vars, gateVars, historyVars
<1>4. QED
  BY <1>1, <1>2, <1>3, Movers

(* Every step keeps the counts, the registry, the flags and the outcomes typed. *)
LEMMA AccountsStayTyped == IInv1 /\ [Next]_vars => AccountsTyped'
<1> SUFFICES ASSUME IInv1, [Next]_vars PROVE AccountsTyped'
  OBVIOUS
<1>0. AccountsTyped /\ BatchTyped
  BY DEF IInv1, Types
<1> USE <1>0 DEF AccountsTyped, streamVars, outcomeVars
<1>1. CASE Caller
  <2>1. ASSUME NEW r \in Requests, Submit(r)
        PROVE  mPendingCount' \in Int /\ mLiveRecords' \subseteq Requests
    BY <2>1 DEF Submit, SubmitReserve, SubmitBacklogFull, SubmitRegister, PostCheck, PostPush,
       SubmitRefuse, SubmitReturn, gateVars
  <2>2. ASSUME NEW r \in Requests, HandleCancel(r) \/ CancelById(r)
        PROVE  cancelled' \subseteq Requests
    BY <2>2 DEF HandleCancel, CancelById
  <2>3. QED
    BY <1>1, <2>1, <2>2, CallerFrame
<1>2. ASSUME NEW r \in Requests, NEW status \in Statuses, Terminate(r, status)
      PROVE  AccountsTyped'
  BY <1>2 DEF Terminate
<1>3. CASE ActorStep /\ ~Terminating
  <2>1. SweepDone => cancelled' \subseteq Requests
    BY DEF SweepDone, BatchTyped
  <2>2. QED
    BY <1>3, <2>1, ActorFrame
<1>4. CASE UNCHANGED vars
  BY <1>4 DEF vars, gateVars
<1>5. QED
  BY <1>1, <1>2, <1>3, <1>4, Movers, TerminatingTerminates

(* Every step keeps token counts and stream endings typed. *)
LEMMA ProgressStaysTyped == IInv1 /\ [Next]_vars => ProgressTyped'
<1> SUFFICES ASSUME IInv1, [Next]_vars PROVE ProgressTyped'
  OBVIOUS
<1>0. ProgressTyped /\ BatchTyped
  BY DEF IInv1, Types
<1> USE <1>0 DEF ProgressTyped, Reasons, NotYet
<1>1. CASE Caller \/ UNCHANGED vars
  BY <1>1, CallerFrame DEF vars, streamVars, batchVars
<1>2. CASE Stepping
  <2>1. PICK stepped \in SUBSET rows :
          \/ StepFails(stepped)
          \/ \E ending \in [stepped -> Reasons \cup {NotYet}], emits \in BOOLEAN :
               Commit(stepped, ending, emits)
    BY <1>2, SteppingIsCommit DEF RuntimeStep
  <2>2. CASE StepFails(stepped)
    BY <2>2 DEF StepFails
  <2>3. ASSUME NEW ending \in [stepped -> Reasons \cup {NotYet}], NEW emits \in BOOLEAN,
               Commit(stepped, ending, emits)
        PROVE  ProgressTyped'
    BY <2>3 DEF Commit
  <2>4. QED
    BY <2>1, <2>2, <2>3
<1>3. CASE FoundFails \/ Teardown
  BY <1>3 DEF FoundFails, Teardown, batchVars
<1>4. QED
  BY <1>1, <1>2, <1>3, Movers, ActorFrame

(* Every step keeps the actor's position and locals typed, the budget not negative. *)
LEMMA ActorStaysTyped == IInv1 /\ [Next]_vars => ActorTyped'
<1> SUFFICES ASSUME IInv1, [Next]_vars PROVE ActorTyped'
  OBVIOUS
<1>0. ActorTyped
  BY DEF IInv1, Types
<1>1. QueueCapacity \in 0..QueueCapacity
  BY ConfigAssumption
<1> USE <1>0, <1>1 DEF ActorTyped, ActorPcs, localVars, stopVars
<1>2. CASE Caller
  BY <1>2, CallerFrame DEF ShutdownStop
<1>3. CASE DrainPop
  <2>1. budget - 1 \in 0..QueueCapacity
    BY <1>3, ConfigAssumption DEF DrainPop
  <2>2. QED
    BY <1>3, <2>1 DEF DrainPop
<1>4. CASE SweepRetire
  <2>1. CancelledFrom(cursor) \subseteq Nat \ {0}
    BY DEF CancelledFrom
  <2>2. QED
    BY <1>4, <2>1 DEF SweepRetire
<1>5. CASE Stepping
  BY <1>5, SteppingIsCommit DEF RuntimeStep, Commit, StepFails, GoTo
<1>6. CASE UNCHANGED vars
  BY <1>6 DEF vars
<1>7. CASE DrainDone \/ SweepDone \/ LoopTop \/ AdmitNext \/ AdmitNothing \/ LastDrain
           \/ ParkCheck \/ ParkSleep \/ ParkTimeout
  BY <1>7 DEF DrainDone, SweepDone, LoopTop, AdmitNext, AdmitNothing, LastDrain, ParkCheck,
     ParkSleep, ParkTimeout, Drain, Sweep, GoTo, quiet
<1>8. CASE FoundFails \/ Found \/ TickDecode \/ OfferNothing \/ OfferRejected \/ OfferAdmitted
           \/ PublishOne \/ PublishDone \/ FailOne \/ Teardown
  BY <1>8 DEF FoundFails, Found, TickDecode, OfferNothing, OfferRejected, OfferAdmitted,
     PublishOne, PublishDone, FailOne, Teardown, NextTick, Drain, Sweep, GoTo, quiet
<1>9. CASE ExitQueued \/ ExitCommand \/ ExitDone
  BY <1>9 DEF ExitQueued, ExitCommand, ExitDone, GoTo, quiet
<1>10. QED
  BY <1>2, <1>3, <1>4, <1>5, <1>6, <1>7, <1>8, <1>9, Movers
     DEF ActorStep, Actor, Batch, Stepping

(* Every step keeps the ledger on the rows while a batch runs, and both empty outside. *)
LEMMA BatchStays == IInv1 /\ [Next]_vars => BatchTyped' /\ Shape'
<1> SUFFICES ASSUME IInv1, [Next]_vars PROVE BatchTyped' /\ Shape'
  OBVIOUS
<1>0. BatchTyped /\ Shape /\ ActorTyped /\ LinesTyped
  BY DEF IInv1, Types
<1>1. NoRequest \notin Requests
  BY RequestsAssumption
<1> USE <1>0, <1>1 DEF BatchTyped, Shape, InBatch, ActorTyped, ActorPcs, batchVars, localVars
<1>2. CASE Caller
  BY <1>2, CallerFrame
<1>3. CASE UNCHANGED vars
  BY <1>3 DEF vars
<1>4. CASE Stepping
  <2>1. /\ InBatch
        /\ actorPc \in {"tick", "decode"}
    BY <1>4, SteppingIsCommit DEF RuntimeStep
  <2>2. PICK stepped \in SUBSET rows :
          \/ StepFails(stepped)
          \/ \E ending \in [stepped -> Reasons \cup {NotYet}], emits \in BOOLEAN :
               Commit(stepped, ending, emits)
    BY <1>4, SteppingIsCommit DEF RuntimeStep
  <2>3. CASE StepFails(stepped)
    BY <2>1, <2>3 DEF StepFails, GoTo
  <2>4. ASSUME NEW ending \in [stepped -> Reasons \cup {NotYet}], NEW emits \in BOOLEAN,
               Commit(stepped, ending, emits)
        PROVE  BatchTyped' /\ Shape'
    <3>1. \A r \in stepped : ending[r] # NotYet => ending[r] \in Reasons
      OBVIOUS
    <3>2. BatchTyped'
      BY <2>4, <3>1 DEF Commit
    <3>3. Shape'
      BY <2>1, <2>4 DEF Commit, GoTo
    <3>4. QED
      BY <3>2, <3>3
  <2>5. QED
    BY <2>2, <2>3, <2>4
<1>5. CASE DrainPop \/ DrainDone \/ SweepRetire \/ SweepDone
  BY <1>5 DEF DrainPop, DrainDone, SweepRetire, SweepDone, Sweep, GoTo
<1>6. CASE LoopTop \/ AdmitNothing \/ LastDrain \/ ParkCheck \/ ParkSleep \/ ParkTimeout
  BY <1>6 DEF LoopTop, AdmitNothing, LastDrain, ParkCheck, ParkSleep, ParkTimeout, Drain, GoTo
<1>7. CASE AdmitNext
  <2>1. Head(mQueued) \in Requests
    BY <1>7, HeadTailProperties DEF AdmitNext, LinesTyped
  <2>2. QED
    BY <1>7, <2>1 DEF AdmitNext, GoTo
<1>8. CASE FoundFails \/ Found
  BY <1>8 DEF FoundFails, Found, NextTick, Drain
<1>9. CASE OfferAdmitted
  <2>1. Head(mQueued) \in Requests
    BY <1>9, HeadTailProperties DEF OfferAdmitted, MayOffer, LinesTyped
  <2>2. QED
    BY <1>9, <2>1 DEF OfferAdmitted, NextTick, Drain
<1>10. CASE TickDecode \/ OfferNothing \/ OfferRejected
  BY <1>10 DEF TickDecode, OfferNothing, OfferRejected, Sweep, GoTo
<1>11. CASE PublishOne \/ PublishDone
  BY <1>11 DEF PublishOne, PublishDone, NextTick, Drain, GoTo
<1>12. CASE FailOne \/ Teardown
  BY <1>12 DEF FailOne, Teardown, Drain
<1>13. CASE ExitQueued \/ ExitCommand \/ ExitDone
  BY <1>13 DEF ExitQueued, ExitCommand, ExitDone, GoTo
<1>14. QED
  BY <1>2, <1>3, <1>4, <1>5, <1>6, <1>7, <1>8, <1>9, <1>10, <1>11, <1>12, <1>13, Movers
     DEF ActorStep, Actor, Batch, Stepping

(* The first layer is preserved by every step. *)
LEMMA FirstLayerSteps == IInv1 /\ [Next]_vars => IInv1'
BY CallersStayTyped, LinesStayTyped, AccountsStayTyped, ProgressStaysTyped, ActorStaysTyped,
   BatchStays DEF IInv1, Types

(* The actor's program counter, the ledger and the rows agree in every behaviour. *)
THEOREM FirstLayer == Spec => []IInv1
<1>1. QED
  BY InitTyped, FirstLayerSteps, PTL DEF Spec

-----------------------------------------------------------------------------
(* The wakeup invariant needs no help but the types.                       *)

(* No step leaves the actor asleep on work without a notify to come. *)
LEMMA WakeupSteps == IInv1 /\ NoLostWakeup /\ [Next]_vars => NoLostWakeup'
<1> SUFFICES ASSUME IInv1, NoLostWakeup, [Next]_vars PROVE NoLostWakeup'
  OBVIOUS
<1>0. CallersTyped /\ ActorTyped
  BY DEF IInv1, Types
<1> USE <1>0 DEF NoLostWakeup, CallersTyped, ActorTyped
<1>1. CASE UNCHANGED vars
  BY <1>1 DEF vars, gateVars, stopVars, callerVars
<1>2. ASSUME NEW r \in Requests, Submit(r) PROVE NoLostWakeup'
  BY <1>2 DEF Submit, SubmitReserve, SubmitBacklogFull, SubmitRegister, PostCheck, PostPush,
     SubmitRefuse, SubmitReturn, WakeActor, callerVars, gateVars, stopVars, actorState
<1>3. ASSUME NEW r \in Requests, HandleCancel(r) \/ CancelById(r) \/ CancelWake(r)
      PROVE  NoLostWakeup'
  BY <1>3 DEF HandleCancel, CancelById, CancelWake, WakeActor, callerVars, gateVars, stopVars,
     actorState
<1>4. ASSUME NEW mode \in Modes, ShutdownClose(mode) PROVE NoLostWakeup'
  BY <1>4 DEF ShutdownClose, actorState
<1>5. CASE Shutdown
  BY <1>5 DEF Shutdown, ShutdownStop, ShutdownPost, ShutdownWake, ShutdownJoin, WakeActor,
     gateVars, stopVars, actorState
<1>6. CASE ParkCheck \/ ParkSleep
  BY <1>6 DEF ParkCheck, ParkSleep, GoTo, Drain, quiet, gateVars, stopVars, callerVars
<1>7. CASE ActorStep /\ ~(ParkCheck \/ ParkSleep)
  <2>1. actorPc' \notin {"sleeping", "parked"}
    BY <1>7, SteppingIsCommit
       DEF ActorStep, Actor, Batch, DrainPop, DrainDone, SweepRetire, SweepDone, LoopTop, AdmitNext,
       AdmitNothing, LastDrain, ParkTimeout, FoundFails, Found, TickDecode, OfferNothing,
       OfferRejected, OfferAdmitted, PublishOne, PublishDone, FailOne, Teardown, ExitQueued,
       ExitCommand, ExitDone, Stepping, RuntimeStep, Commit, StepFails, NextTick, Drain, Sweep, GoTo
  <2>2. QED
    BY <2>1
<1>8. QED
  BY <1>1, <1>2, <1>3, <1>4, <1>5, <1>6, <1>7, Movers DEF Caller

(* The actor never sleeps on work: a notify is still to come whenever something waits *)
(* for a parked actor (parkUntilWoken, wakeActor).                                     *)
THEOREM NoWakeupIsLost == Spec => []NoLostWakeup
<1>1. Init => NoLostWakeup
  BY DEF Init, NoLostWakeup
<1>2. QED
  BY FirstLayer, <1>1, WakeupSteps, PTL DEF Spec

-----------------------------------------------------------------------------
(* Second layer: who holds a request.                                      *)

Held == (ToSet(commands) \ {kShutdown}) \cup ToSet(mQueued) \cup Founding \cup mResidents
          \cup Filed

(* No two holders share a request, and no holder has it twice. *)
Apart ==
  /\ ToSet(commands) \cap (ToSet(mQueued) \cup Founding \cup mResidents \cup Filed) = {}
  /\ ToSet(mQueued) \cap (Founding \cup mResidents \cup Filed) = {}
  /\ Founding \cap (mResidents \cup Filed) = {}
  /\ mResidents \cap Filed = {}
  /\ IsInjective(commands) /\ IsInjective(mQueued)
  /\ \A a, b \in results : a.req = b.req => a = b

(* Only requests are held. *)
LEMMA HeldTyped == IInv1 => Held \subseteq Requests
<1> SUFFICES ASSUME IInv1 PROVE Held \subseteq Requests
  OBVIOUS
<1>1. ToSet(commands) \subseteq Requests \cup {kShutdown} /\ ToSet(mQueued) \subseteq Requests
  BY ItemsInDomain DEF IInv1, Types, LinesTyped
<1>2. Founding \subseteq Requests
  BY DEF IInv1, Types, Shape, BatchTyped, Founding
<1>3. mResidents \subseteq Requests /\ Filed \subseteq Requests
  BY DEF IInv1, Types, BatchTyped, Filed
<1>4. QED
  BY <1>1, <1>2, <1>3 DEF Held

(* A step that terminates a request takes it from the one that held it. *)
LetsGo(r) == r \in Held /\ Held' = Held \ {r} /\ Apart'

(* Each of the actor's terminations is of a request exactly one place held. *)
LEMMA HolderLetsGo ==
  ASSUME IInv1, Apart, Terminating
  PROVE  \E r \in Requests, status \in Statuses : Terminate(r, status) /\ LetsGo(r)
<1>0. CallersTyped /\ LinesTyped /\ BatchTyped /\ ActorTyped /\ Shape
  BY DEF IInv1, Types
<1> USE <1>0 DEF Shape, InBatch, Statuses, LinesTyped, batchVars
<1>1. CASE SweepRetire
  <2>1. PICK k \in CancelledFrom(cursor) : /\ Terminate(mQueued[k], "kCancelled")
                                          /\ mQueued' = RemoveAt(mQueued, k)
    BY <1>1 DEF SweepRetire
  <2>2. k \in 1..Len(mQueued)
    BY <2>1 DEF CancelledFrom, ActorTyped
  <2> DEFINE r == mQueued[k]
  <2>3. /\ r \in Requests
        /\ ToSet(mQueued) = ToSet(mQueued') \cup {r}
        /\ IsInjective(mQueued) => IsInjective(mQueued') /\ r \notin ToSet(mQueued')
    BY <2>1, <2>2, RemoveFromLine
  <2>4. Founding = {} /\ Founding' = {}
    BY <1>1 DEF SweepRetire, Founding
  <2>5. UNCHANGED <<commands, mResidents, results, Filed>>
    BY <1>1 DEF SweepRetire, Filed
  <2>6. LetsGo(r)
    <3> HIDE DEF r
    <3>1. r # kShutdown
      BY <2>3, RequestsAssumption
    <3>2. QED
      BY <2>3, <2>4, <2>5, <3>1 DEF LetsGo, Held, Apart
  <2>7. QED
    BY <2>1, <2>3, <2>6
<1>2. CASE OfferRejected \/ ExitQueued
  <2> DEFINE r == Head(mQueued)
  <2>1. mQueued # <<>> /\ mQueued' = Tail(mQueued)
    BY <1>2 DEF OfferRejected, ExitQueued, MayOffer
  <2>2. /\ r \in Requests
        /\ ToSet(mQueued) = ToSet(mQueued') \cup {r}
        /\ IsInjective(mQueued) => IsInjective(mQueued') /\ r \notin ToSet(mQueued')
    BY <2>1, LeaveLine
  <2>3. Founding = {} /\ Founding' = {}
    BY <1>2 DEF OfferRejected, ExitQueued, GoTo, Founding
  <2>4. UNCHANGED <<commands, mResidents, results, Filed>>
    BY <1>2 DEF OfferRejected, ExitQueued, Filed
  <2>5. LetsGo(r)
    <3> HIDE DEF r
    <3>1. r # kShutdown
      BY <2>2, RequestsAssumption
    <3>2. QED
      BY <2>2, <2>3, <2>4, <3>1 DEF LetsGo, Held, Apart
  <2>6. QED
    BY <1>2, <2>2, <2>5 DEF OfferRejected, ExitQueued
<1>3. CASE ExitCommand /\ Head(commands) # kShutdown
  <2> DEFINE r == Head(commands)
  <2>1. commands # <<>> /\ commands' = Tail(commands)
    BY <1>3 DEF ExitCommand
  <2>2. /\ r \in Requests
        /\ ToSet(commands) = ToSet(commands') \cup {r}
        /\ IsInjective(commands) => IsInjective(commands') /\ r \notin ToSet(commands')
    BY <1>3, <2>1, LeaveLine
  <2>3. Founding = {} /\ Founding' = {}
    BY <1>3 DEF ExitCommand, Founding
  <2>4. UNCHANGED <<mQueued, mResidents, results, Filed>>
    BY <1>3 DEF ExitCommand, Filed
  <2>5. LetsGo(r)
    <3>1. r # kShutdown
      BY <1>3
    <3> HIDE DEF r
    <3>2. QED
      BY <2>2, <2>3, <2>4, <3>1 DEF LetsGo, Held, Apart
  <2>6. QED
    BY <1>3, <2>2, <2>5 DEF ExitCommand
<1>4. CASE FoundFails
  <2> DEFINE r == mResidentRecord
  <2>1. r \in Requests /\ r # kShutdown
    BY <1>4, RequestsAssumption DEF FoundFails, BatchTyped
  <2>2. Founding = {r} /\ Founding' = {}
    BY <1>4 DEF FoundFails, Drain, Founding
  <2>3. UNCHANGED <<commands, mQueued, mResidents, results, Filed>>
    BY <1>4 DEF FoundFails, Filed
  <2>4. LetsGo(r)
    BY <2>1, <2>2, <2>3 DEF LetsGo, Held, Apart
  <2>5. QED
    BY <1>4, <2>1, <2>4 DEF FoundFails
<1>5. CASE PublishOne
  <2>1. PICK result \in results : /\ Terminate(result.req, StatusOf(result))
                                 /\ results' = results \ {result}
    BY <1>5 DEF PublishOne
  <2> DEFINE r == result.req
  <2>2. r \in Requests /\ r # kShutdown
    BY RequestsAssumption DEF BatchTyped
  <2>3. r \in Filed /\ (Apart => Filed' = Filed \ {r})
    BY <2>1 DEF Filed, Apart
  <2>4. Founding = {} /\ Founding' = {}
    BY <1>5 DEF PublishOne, Founding
  <2>5. UNCHANGED <<commands, mQueued, mResidents>>
    BY <1>5 DEF PublishOne
  <2>6. \A a, b \in results' : a.req = b.req => a = b
    BY <2>1 DEF Apart
  <2>7. LetsGo(r)
    <3> HIDE DEF r
    <3>1. QED
      BY <2>2, <2>3, <2>4, <2>5, <2>6 DEF LetsGo, Held, Apart
  <2>8. StatusOf(result) \in Statuses
    BY DEF StatusOf
  <2>9. QED
    BY <2>1, <2>2, <2>7, <2>8
<1>6. CASE FailOne
  <2>1. PICK r \in mResidents :
          /\ Terminate(r, StatusOf([req |-> r, reason |-> "kError"]))
          /\ mResidents' = mResidents \ {r}
    BY <1>6 DEF FailOne
  <2>2. r \in Requests /\ r # kShutdown
    BY RequestsAssumption DEF BatchTyped
  <2>3. Founding = {} /\ Founding' = {}
    BY <1>6 DEF FailOne, Founding
  <2>4. UNCHANGED <<commands, mQueued, results, Filed>>
    BY <1>6 DEF FailOne, Filed
  <2>5. LetsGo(r)
    BY <2>1, <2>2, <2>3, <2>4 DEF LetsGo, Held, Apart
  <2>6. StatusOf([req |-> r, reason |-> "kError"]) \in Statuses
    BY DEF StatusOf
  <2>7. QED
    BY <2>1, <2>2, <2>5, <2>6
<1>7. QED
  BY <1>1, <1>2, <1>3, <1>4, <1>5, <1>6 DEF Terminating

(* Every other step of the actor hands requests on. *)
HandsOn == Held' = Held /\ Apart'

(* The rest of the actor's steps move a request from one place to the next. *)
LEMMA HolderHandsOn ==
  ASSUME IInv1, Apart, ActorStep, ~Terminating
  PROVE  HandsOn
<1>0. CallersTyped /\ LinesTyped /\ BatchTyped /\ ActorTyped /\ Shape
  BY DEF IInv1, Types
<1> USE <1>0 DEF Shape, InBatch, LinesTyped, batchVars
<1>1. CASE DrainPop
  <2> DEFINE c == Head(commands)
  <2>1. commands # <<>> /\ commands' = Tail(commands)
    BY <1>1 DEF DrainPop
  <2>2. /\ c \in Requests \cup {kShutdown}
        /\ ToSet(commands) = ToSet(commands') \cup {c}
        /\ IsInjective(commands) => IsInjective(commands') /\ c \notin ToSet(commands')
    BY <2>1, LeaveLine
  <2>3. Founding = {} /\ Founding' = {} /\ UNCHANGED <<mResidents, results, Filed>>
    BY <1>1 DEF DrainPop, Founding, Filed
  <2>4. CASE c = kShutdown
    <3>1. mQueued' = mQueued
      BY <1>1, <2>4 DEF DrainPop
    <3> HIDE DEF c
    <3>2. QED
      BY <2>2, <2>3, <2>4, <3>1 DEF HandsOn, Held, Apart
  <2>5. CASE c # kShutdown
    <3>1. mQueued' = Append(mQueued, c)
      BY <1>1, <2>5 DEF DrainPop
    <3>2. c \in Requests
      BY <2>2, <2>5
    <3>3. c \notin ToSet(mQueued)
      BY <2>2, <2>5 DEF Apart
    <3>4. /\ ToSet(mQueued') = ToSet(mQueued) \cup {c}
          /\ IsInjective(mQueued) => IsInjective(mQueued')
      BY <3>1, <3>2, <3>3, JoinLine
    <3> HIDE DEF c
    <3>5. QED
      BY <2>2, <2>3, <2>5, <3>4 DEF HandsOn, Held, Apart
  <2>6. QED
    BY <2>4, <2>5
<1>2. CASE AdmitNext
  <2> DEFINE r == Head(mQueued)
  <2>1. mQueued # <<>> /\ mQueued' = Tail(mQueued) /\ mResidentRecord' = r
    BY <1>2 DEF AdmitNext
  <2>2. /\ r \in Requests
        /\ ToSet(mQueued) = ToSet(mQueued') \cup {r}
        /\ IsInjective(mQueued) => IsInjective(mQueued') /\ r \notin ToSet(mQueued')
    BY <2>1, LeaveLine
  <2>3. Founding = {} /\ Founding' = {r}
    BY <1>2, <2>1 DEF AdmitNext, GoTo, Founding
  <2>4. UNCHANGED <<commands, mResidents, results, Filed>>
    BY <1>2 DEF AdmitNext, quiet, gateVars, Filed
  <2>5. r # kShutdown
    BY <2>2, RequestsAssumption
  <2> HIDE DEF r
  <2>6. QED
    BY <2>2, <2>3, <2>4, <2>5 DEF HandsOn, Held, Apart
<1>3. CASE Found
  <2>1. Founding = {mResidentRecord} /\ Founding' = {}
    BY <1>3 DEF Found, NextTick, Drain, Founding
  <2>2. mResidents = {} /\ mResidents' = {mResidentRecord}
    BY <1>3 DEF Found
  <2>3. UNCHANGED <<commands, mQueued, results, Filed>>
    BY <1>3 DEF Found, quiet, gateVars, Filed
  <2>4. QED
    BY <2>1, <2>2, <2>3 DEF HandsOn, Held, Apart
<1>4. CASE OfferAdmitted
  <2> DEFINE r == Head(mQueued)
  <2>1. mQueued # <<>> /\ mQueued' = Tail(mQueued) /\ mResidents' = mResidents \cup {r}
    BY <1>4 DEF OfferAdmitted, MayOffer
  <2>2. /\ r \in Requests
        /\ ToSet(mQueued) = ToSet(mQueued') \cup {r}
        /\ IsInjective(mQueued) => IsInjective(mQueued') /\ r \notin ToSet(mQueued')
    BY <2>1, LeaveLine
  <2>3. Founding = {} /\ Founding' = {}
    BY <1>4 DEF OfferAdmitted, NextTick, Drain, GoTo, Founding
  <2>4. UNCHANGED <<commands, results, Filed>>
    BY <1>4 DEF OfferAdmitted, quiet, gateVars, Filed
  <2>5. r # kShutdown
    BY <2>2, RequestsAssumption
  <2> HIDE DEF r
  <2>6. QED
    BY <2>1, <2>2, <2>3, <2>4, <2>5 DEF HandsOn, Held, Apart
<1>5. CASE Stepping
  <2>1. PICK stepped \in SUBSET rows :
          \/ StepFails(stepped)
          \/ \E ending \in [stepped -> Reasons \cup {NotYet}], emits \in BOOLEAN :
               Commit(stepped, ending, emits)
    BY <1>5, SteppingIsCommit DEF RuntimeStep
  <2>2. actorPc \in {"tick", "decode"} /\ mResidents = rows /\ results = {}
    BY <1>5, SteppingIsCommit DEF RuntimeStep
  <2>3. Founding = {} /\ Founding' = {} /\ Filed = {} /\ UNCHANGED <<commands, mQueued>>
    <3>1. Founding = {} /\ Filed = {}
      BY <2>2 DEF Founding, Filed
    <3>2. actorPc' # "found" /\ UNCHANGED <<commands, mQueued>>
      BY <2>1 DEF Commit, StepFails, GoTo, gateVars
    <3>3. QED
      BY <3>1, <3>2 DEF Founding
  <2>4. CASE StepFails(stepped)
    <3>1. UNCHANGED <<mResidents, results, Filed>>
      BY <2>4 DEF StepFails, Filed
    <3>2. QED
      BY <2>3, <3>1 DEF HandsOn, Held, Apart
  <2>5. ASSUME NEW ending \in [stepped -> Reasons \cup {NotYet}], NEW emits \in BOOLEAN,
               Commit(stepped, ending, emits)
        PROVE  HandsOn
    <3> DEFINE ended == {r \in stepped : ending[r] # NotYet}
    <3>1. /\ mResidents' = mResidents \ ended
          /\ results' = {[req |-> r, reason |-> ending[r]] : r \in ended}
      BY <2>5 DEF Commit
    <3>2. ended \subseteq mResidents
      BY <2>2
    <3> HIDE DEF ended
    <3>3. Filed' = ended
      <4>1. ASSUME NEW r \in ended
            PROVE  \E a \in results' : a.req = r
        <5> DEFINE result == [req |-> r, reason |-> ending[r]]
        <5>1. result \in results'
          BY <3>1
        <5>2. result.req = r
          OBVIOUS
        <5> HIDE DEF result
        <5>3. QED
          BY <5>1, <5>2
      <4>2. \A a \in results' : a.req \in ended
        BY <3>1
      <4>3. QED
        BY <4>1, <4>2 DEF Filed
    <3>4. \A a, b \in results' : a.req = b.req => a = b
      BY <3>1
    <3>5. QED
      BY <2>3, <3>1, <3>2, <3>3, <3>4 DEF HandsOn, Held, Apart
  <2>6. QED
    BY <2>1, <2>4, <2>5
<1>6. CASE ExitCommand /\ Head(commands) = kShutdown
  <2>1. commands # <<>> /\ commands' = Tail(commands)
    BY <1>6 DEF ExitCommand
  <2>2. /\ ToSet(commands) = ToSet(commands') \cup {kShutdown}
        /\ IsInjective(commands) => IsInjective(commands') /\ kShutdown \notin ToSet(commands')
    BY <1>6, <2>1, LeaveLine
  <2>3. Founding = {} /\ Founding' = {} /\ UNCHANGED <<mQueued, mResidents, results, Filed>>
    BY <1>6 DEF ExitCommand, Founding, Filed
  <2>4. QED
    BY <2>2, <2>3 DEF HandsOn, Held, Apart
<1>7. CASE \/ DrainDone \/ SweepDone \/ LoopTop \/ AdmitNothing \/ LastDrain \/ ParkCheck
           \/ ParkSleep \/ ParkTimeout \/ TickDecode \/ OfferNothing \/ PublishDone \/ Teardown
           \/ ExitDone
  <2>1. UNCHANGED <<commands, mQueued, mResidents, results, Filed>>
    BY <1>7 DEF DrainDone, SweepDone, LoopTop, AdmitNothing, LastDrain, ParkCheck, ParkSleep,
       ParkTimeout, TickDecode, OfferNothing, PublishDone, Teardown, ExitDone, quiet, gateVars,
       Filed
  <2>2. actorPc # "found" /\ actorPc' # "found"
    BY <1>7 DEF DrainDone, SweepDone, LoopTop, AdmitNothing, LastDrain, ParkCheck, ParkSleep,
       ParkTimeout, TickDecode, OfferNothing, PublishDone, Teardown, ExitDone, NextTick, Drain,
       Sweep, GoTo, ActorTyped
  <2>3. Founding = {} /\ Founding' = {}
    BY <2>2 DEF Founding
  <2>4. QED
    BY <2>1, <2>3 DEF HandsOn, Held, Apart
<1>8. QED
  BY <1>1, <1>2, <1>3, <1>4, <1>5, <1>6, <1>7
     DEF ActorStep, Actor, Batch, Stepping, Terminating

-----------------------------------------------------------------------------
(* Second layer: the accounts kept of those who are held.                  *)

Unanswered == {r \in Accepted : outcome[r] = NotYet}
Live == {r \in Requests : subPc[r] \in {"registered", "posting", "refusing"}} \cup Unanswered

(* Held = Unanswered makes terminate() balance: whoever it ends has a reservation, a   *)
(* record and no outcome.                                                              *)
Accounts ==
  /\ \A r \in Requests : outcome[r] # NotYet => r \in Accepted
  /\ Held = Unanswered
  /\ Apart
  /\ kShutdown \in ToSet(commands) => shutPc \in {"notifying", "joining", "done"}
  /\ mLiveRecords = Live
  /\ BacklogExact
  /\ CountersMatchOutcomes

(* Adding to and taking from a set of requests counts by one. *)
LEMMA OneMore ==
  ASSUME NEW S \in SUBSET Requests, NEW r \in Requests, r \notin S
  PROVE  Cardinality(S \cup {r}) = Cardinality(S) + 1 /\ Cardinality(S) \in Nat
<1>1. IsFiniteSet(S)
  BY RequestsAssumption, FS_Subset
<1>2. QED
  BY <1>1, FS_AddElement, FS_CardinalityType

(* Taking a member from a set of requests takes one from its count. *)
LEMMA OneLess ==
  ASSUME NEW S \in SUBSET Requests, NEW r \in S
  PROVE  Cardinality(S \ {r}) = Cardinality(S) - 1 /\ Cardinality(S) \in Nat
<1>1. IsFiniteSet(S)
  BY RequestsAssumption, FS_Subset
<1>2. QED
  BY <1>1, FS_RemoveElement, FS_CardinalityType

(* At first nobody is held, reserved or counted. *)
LEMMA InitAccounts == Init => Accounts
<1> SUFFICES ASSUME Init PROVE Accounts
  OBVIOUS
<1>1. ToSet(commands) = {} /\ ToSet(mQueued) = {} /\ IsInjective(commands) /\ IsInjective(mQueued)
  BY EmptyLine DEF Init
<1>2. Founding = {} /\ Filed = {} /\ mResidents = {} /\ results = {}
  BY DEF Init, Founding, Filed
<1>3. Accepted = {} /\ Unanswered = {} /\ Live = {} /\ Reserved = {}
  BY DEF Init, Accepted, Unanswered, Live, Reserved
<1>4. Held = {} /\ Apart
  BY <1>1, <1>2 DEF Held, Apart
<1>5. Cardinality({}) = 0
  BY FS_EmptySet
<1>6. BacklogExact
  BY <1>3, <1>5, ConfigAssumption DEF Init, BacklogExact
<1>7. CountersMatchOutcomes
  <2>1. ASSUME NEW s \in Statuses PROVE {r \in Requests : outcome[r] = s} = {}
    BY DEF Init, Statuses, NotYet
  <2>2. QED
    BY <1>5, <2>1 DEF Init, CountersMatchOutcomes
<1>8. QED
  BY <1>1, <1>3, <1>4, <1>6, <1>7 DEF Init, Accounts

(* A termination settles all accounts of the one request it ends. *)
LEMMA TerminationSettles ==
  ASSUME IInv1, Accounts, ActorStep, Terminating
  PROVE  Accounts'
<1>0. AccountsTyped /\ LinesTyped /\ UNCHANGED <<subPc, shutPc>>
  BY ActorFrame DEF IInv1, Types, callerVars
<1>1. PICK r \in Requests, status \in Statuses : Terminate(r, status) /\ LetsGo(r)
  BY HolderLetsGo DEF Accounts
<1>2. r \in Unanswered
  BY <1>1 DEF Accounts, LetsGo
<1>3. /\ outcome' = [outcome EXCEPT ![r] = status]
      /\ outcome[r] = NotYet /\ status # NotYet
      /\ r \in Accepted /\ Accepted' = Accepted
  BY <1>0, <1>1, <1>2 DEF Terminate, Unanswered, Accepted, Statuses, NotYet
<1>4. \A q \in Requests : outcome'[q] = IF q = r THEN status ELSE outcome[q]
  BY <1>0, <1>3 DEF AccountsTyped
<1>5. \A q \in Requests : outcome'[q] # NotYet => q \in Accepted'
  BY <1>3, <1>4 DEF Accounts
<1>6. Unanswered' = Unanswered \ {r}
  BY <1>3, <1>4 DEF Unanswered, Accepted
<1>7. kShutdown \in ToSet(commands') => shutPc' \in {"notifying", "joining", "done"}
  <2>1. commands' = commands \/ (commands # <<>> /\ commands' = Tail(commands))
    BY ActorFrame DEF DrainPop, ExitCommand
  <2>2. ToSet(commands') \subseteq ToSet(commands)
    BY <1>0, <2>1, LeaveLine DEF LinesTyped
  <2>3. QED
    BY <1>0, <2>2 DEF Accounts
<1>8. mLiveRecords' = Live'
  <2>1. subPc[r] \notin {"registered", "posting", "refusing"}
    BY <1>3 DEF Accepted
  <2>2. QED
    BY <1>0, <1>1, <1>6, <2>1 DEF Terminate, Live, Accounts
<1>9. BacklogExact'
  <2>1. r \in Reserved /\ Reserved' = Reserved \ {r}
    BY <1>0, <1>3, <1>4 DEF Reserved, Accepted
  <2>2. Cardinality(Reserved') = Cardinality(Reserved) - 1 /\ Cardinality(Reserved) \in Nat
    BY <2>1, OneLess DEF Reserved
  <2>3. QED
    BY <1>1, <2>2, ConfigAssumption DEF Terminate, Accounts, BacklogExact
<1>10. CountersMatchOutcomes'
  <2>1. ASSUME NEW s \in Statuses
        PROVE  mCounters'[s] = Cardinality({q \in Requests : outcome'[q] = s})
    <3> DEFINE before == {q \in Requests : outcome[q] = s}
               after == {q \in Requests : outcome'[q] = s}
    <3>0. mCounters[s] = Cardinality(before)
      BY DEF Accounts, CountersMatchOutcomes
    <3>1. CASE s = status
      <4>1. after = before \cup {r} /\ r \notin before
        BY <1>3, <1>4, <3>1
      <4>2. Cardinality(after) = Cardinality(before) + 1
        BY <4>1, OneMore
      <4>3. mCounters'[s] = mCounters[s] + 1
        BY <1>0, <1>1, <3>1 DEF Terminate, AccountsTyped
      <4>4. QED
        BY <3>0, <4>2, <4>3
    <3>2. CASE s # status
      <4>1. after = before
        BY <1>3, <1>4, <3>2 DEF Statuses, NotYet
      <4>2. mCounters'[s] = mCounters[s]
        BY <1>0, <1>1, <3>2 DEF Terminate, AccountsTyped
      <4>3. QED
        BY <3>0, <4>1, <4>2
    <3>3. QED
      BY <3>1, <3>2
  <2>2. QED
    BY <2>1 DEF CountersMatchOutcomes
<1>11. QED
  BY <1>1, <1>2, <1>5, <1>6, <1>7, <1>8, <1>9, <1>10 DEF Accounts, LetsGo

(* Any other step of the actor keeps the accounts as they are. *)
LEMMA HandingOnKeepsAccounts ==
  ASSUME IInv1, Accounts, ActorStep, ~Terminating
  PROVE  Accounts'
<1>0. UNCHANGED <<subPc, shutPc, mPendingCount, mLiveRecords, outcome, mCounters>>
  BY ActorFrame DEF callerVars
<1>1. Held' = Held /\ Apart'
  BY HolderHandsOn DEF Accounts, HandsOn
<1>2. Accepted' = Accepted /\ Unanswered' = Unanswered /\ Live' = Live /\ Reserved' = Reserved
  BY <1>0 DEF Accepted, Unanswered, Live, Reserved
<1>3. kShutdown \in ToSet(commands') => shutPc' \in {"notifying", "joining", "done"}
  <2>1. commands' = commands \/ (commands # <<>> /\ commands' = Tail(commands))
    BY ActorFrame DEF DrainPop, ExitCommand
  <2>2. ToSet(commands') \subseteq ToSet(commands)
    BY <2>1, LeaveLine DEF IInv1, Types, LinesTyped
  <2>3. QED
    BY <1>0, <2>2 DEF Accounts
<1>4. BacklogExact' /\ CountersMatchOutcomes'
  BY <1>0, <1>2 DEF Accounts, BacklogExact, CountersMatchOutcomes
<1>5. QED
  BY <1>0, <1>1, <1>2, <1>3, <1>4 DEF Accounts

(* What the callers leave to be held: nothing changes but what is pushed on the ring. *)
LEMMA CallersPushOnly ==
  ASSUME IInv1, Caller
  PROVE  /\ Founding' = Founding /\ Filed' = Filed
         /\ UNCHANGED <<mQueued, mResidents, results, outcome, mCounters>>
         /\ UNCHANGED commands => Held' = Held /\ (Apart => Apart')
<1>1. /\ UNCHANGED <<mQueued, mResidents, results, mResidentRecord, outcome, mCounters>>
      /\ actorPc' = actorPc \/ (actorPc = "parked" /\ actorPc' = "park")
  BY CallerFrame DEF outcomeVars, batchVars
<1>2. Founding' = Founding /\ Filed' = Filed
  BY <1>1 DEF Founding, Filed
<1>3. QED
  BY <1>1, <1>2 DEF Held, Apart

(* Each step of submit() keeps them: reserving and refusing move one reservation, a    *)
(* push makes one request accepted and held at once.                                   *)
LEMMA SubmitKeepsAccounts ==
  ASSUME IInv1, Accounts, NEW r \in Requests, Submit(r)
  PROVE  Accounts'
<1>0. CallersTyped /\ AccountsTyped /\ LinesTyped /\ ActorTyped
  BY DEF IInv1, Types
<1>1. /\ Founding' = Founding /\ Filed' = Filed
      /\ UNCHANGED <<mQueued, mResidents, results, outcome, mCounters>>
      /\ UNCHANGED commands => Held' = Held /\ Apart'
  BY CallersPushOnly DEF Caller, Accounts
<1>2. CountersMatchOutcomes'
  BY <1>1 DEF Accounts, CountersMatchOutcomes
<1>3. shutPc' = shutPc
  BY DEF Submit, SubmitReserve, SubmitBacklogFull, SubmitRegister, PostCheck, PostPush,
     SubmitRefuse, SubmitReturn, callerVars
<1>4. Cardinality(Reserved) \in Nat /\ mPendingCount = Cardinality(Reserved)
  BY RequestsAssumption, FS_Subset, FS_CardinalityType DEF Reserved, Accounts, BacklogExact
<1> USE DEF CallersTyped, SubPcs
<1>5. CASE UNCHANGED commands /\ subPc[r] # "posted" /\ subPc'[r] # "posted"
  <2>1. Held' = Held /\ Apart'
    BY <1>1, <1>5
  <2>2. Accepted' = Accepted
    BY <1>0, <1>5 DEF Accepted, Submit, SubmitReserve, SubmitBacklogFull, SubmitRegister, PostCheck,
       PostPush, SubmitRefuse, SubmitReturn
  <2>3. Unanswered' = Unanswered
    BY <1>1, <2>2 DEF Unanswered
  <2>4. kShutdown \in ToSet(commands') => shutPc' \in {"notifying", "joining", "done"}
    BY <1>3, <1>5 DEF Accounts
  <2>5. mLiveRecords' = Live'
    BY <1>0, <1>5, <2>3
       DEF Accounts, Live, Unanswered, Accepted, Submit, SubmitReserve, SubmitBacklogFull,
           SubmitRegister, PostCheck, PostPush, SubmitRefuse, SubmitReturn, gateVars
  <2>6. BacklogExact'
    <3>1. CASE SubmitReserve(r)
      <4>1. Reserved' = Reserved \cup {r} /\ r \notin Reserved
        BY <1>0, <1>1, <2>2, <3>1 DEF Reserved, SubmitReserve, Accepted
      <4>2. Cardinality(Reserved') = Cardinality(Reserved) + 1
        BY <4>1, OneMore DEF Reserved
      <4>3. QED
        BY <1>4, <3>1, <4>2, ConfigAssumption DEF SubmitReserve, BacklogExact
    <3>2. CASE SubmitRefuse(r)
      <4>1. Reserved' = Reserved \ {r} /\ r \in Reserved
        BY <1>0, <1>1, <2>2, <3>2 DEF Reserved, SubmitRefuse, Accepted
      <4>2. Cardinality(Reserved') = Cardinality(Reserved) - 1
        BY <4>1, OneLess DEF Reserved
      <4>3. QED
        BY <1>4, <3>2, <4>2, ConfigAssumption DEF SubmitRefuse, Accounts, BacklogExact
    <3>3. CASE ~SubmitReserve(r) /\ ~SubmitRefuse(r)
      <4>1. Reserved' = Reserved /\ mPendingCount' = mPendingCount
        BY <1>0, <1>1, <1>5, <2>2, <3>3
           DEF Reserved, Submit, SubmitBacklogFull, SubmitRegister, PostCheck, PostPush,
               SubmitReturn, gateVars
      <4>2. QED
        BY <4>1 DEF Accounts, BacklogExact
    <3>4. QED
      BY <3>1, <3>2, <3>3
  <2>7. QED
    BY <1>1, <1>2, <2>1, <2>2, <2>3, <2>4, <2>5, <2>6 DEF Accounts
<1>6. CASE subPc[r] = "posted"
  <2>1. subPc'[r] = "returned" /\ \A q \in Requests \ {r} : subPc'[q] = subPc[q]
    BY <1>0, <1>6 DEF Submit, SubmitReserve, SubmitBacklogFull, SubmitRegister, PostCheck,
       PostPush, SubmitRefuse, SubmitReturn
  <2>2. UNCHANGED <<commands, mPendingCount, mLiveRecords>>
    BY <1>6 DEF Submit, SubmitReserve, SubmitBacklogFull, SubmitRegister, PostCheck, PostPush,
       SubmitRefuse, SubmitReturn, gateVars
  <2>3. Accepted' = Accepted
    BY <1>6, <2>1 DEF Accepted
  <2>4. Unanswered' = Unanswered /\ Live' = Live /\ Reserved' = Reserved
    BY <1>1, <1>6, <2>1, <2>3 DEF Unanswered, Live, Reserved
  <2>5. QED
    BY <1>1, <1>2, <1>3, <2>2, <2>3, <2>4 DEF Accounts, BacklogExact
<1>7. CASE subPc[r] # "posted" /\ (subPc'[r] = "posted" \/ commands' # commands)
  <2>1. PostPush(r) /\ Len(commands) < QueueCapacity
    BY <1>0, <1>7 DEF Submit, SubmitReserve, SubmitBacklogFull, SubmitRegister, PostCheck,
       PostPush, SubmitRefuse, SubmitReturn, gateVars
  <2>2. /\ subPc[r] = "posting" /\ subPc' = [subPc EXCEPT ![r] = "posted"]
        /\ commands' = Append(commands, r)
        /\ UNCHANGED <<mPendingCount, mLiveRecords>>
    BY <2>1 DEF PostPush
  <2>3. r \notin Accepted /\ Accepted' = Accepted \cup {r}
    BY <1>0, <2>2 DEF Accepted
  <2>4. outcome[r] = NotYet
    BY <2>3 DEF Accounts
  <2>5. Unanswered' = Unanswered \cup {r} /\ r \notin Unanswered
    BY <1>1, <2>3, <2>4 DEF Unanswered
  <2>6. r \notin Held /\ r # kShutdown
    BY <2>5, RequestsAssumption DEF Accounts
  <2>7. /\ ToSet(commands') = ToSet(commands) \cup {r}
        /\ IsInjective(commands) => IsInjective(commands')
    <3>1. r \in Requests \cup {kShutdown} /\ r \notin ToSet(commands)
      BY <2>6 DEF Held
    <3>2. QED
      BY <1>0, <2>2, <3>1, JoinLine DEF LinesTyped
  <2>8. Held' = Held \cup {r} /\ Apart'
    BY <1>1, <2>6, <2>7 DEF Held, Apart, Accounts
  <2>9. kShutdown \in ToSet(commands') => shutPc' \in {"notifying", "joining", "done"}
    BY <1>3, <2>6, <2>7 DEF Accounts
  <2>10. Live' = Live /\ Reserved' = Reserved
    BY <1>0, <1>1, <2>2, <2>3, <2>4, <2>5 DEF Live, Reserved, Accepted
  <2>11. \A q \in Requests : outcome'[q] # NotYet => q \in Accepted'
    BY <1>1, <2>3 DEF Accounts
  <2>12. QED
    BY <1>2, <2>2, <2>5, <2>8, <2>9, <2>10, <2>11 DEF Accounts, BacklogExact
<1>8. QED
  BY <1>5, <1>6, <1>7

(* Cancelling and shutting down touch no account; shutdown's command is held by nobody. *)
LEMMA OtherCallersKeepAccounts ==
  ASSUME IInv1, Accounts, Caller, \A r \in Requests : ~Submit(r)
  PROVE  Accounts'
<1>0. LinesTyped
  BY DEF IInv1, Types
<1>1. /\ Founding' = Founding /\ Filed' = Filed
      /\ UNCHANGED <<mQueued, mResidents, results, outcome, mCounters>>
      /\ UNCHANGED commands => Held' = Held /\ Apart'
  BY CallersPushOnly DEF Accounts
<1>2. UNCHANGED <<subPc, mPendingCount, mLiveRecords>>
  BY CallerFrame
<1>3. Accepted' = Accepted /\ Unanswered' = Unanswered /\ Live' = Live /\ Reserved' = Reserved
  BY <1>1, <1>2 DEF Accepted, Unanswered, Live, Reserved
<1>4. BacklogExact' /\ CountersMatchOutcomes'
  BY <1>1, <1>2, <1>3 DEF Accounts, BacklogExact, CountersMatchOutcomes
<1>5. Held' = Held /\ Apart' /\ (kShutdown \in ToSet(commands') => shutPc' \in {"notifying", "joining", "done"})
  <2>1. CASE UNCHANGED commands
    <3>1. shutPc \in {"notifying", "joining", "done"} => shutPc' \in {"notifying", "joining", "done"}
      BY DEF Caller, HandleCancel, CancelById, CancelWake, ShutdownClose, Shutdown, ShutdownStop,
         ShutdownPost, ShutdownWake, ShutdownJoin
    <3>2. QED
      BY <1>1, <2>1, <3>1 DEF Accounts
  <2>2. CASE ShutdownPost /\ ~UNCHANGED commands
    <3>1. /\ shutPc = "stopped" /\ shutPc' = "notifying"
          /\ commands' = Append(commands, kShutdown)
      BY <2>2 DEF ShutdownPost
    <3>2. kShutdown \notin ToSet(commands)
      BY <3>1 DEF Accounts
    <3>3. /\ ToSet(commands') = ToSet(commands) \cup {kShutdown}
          /\ IsInjective(commands) => IsInjective(commands')
      <4>1. kShutdown \in Requests \cup {kShutdown}
        OBVIOUS
      <4>2. QED
        BY <1>0, <3>1, <3>2, <4>1, JoinLine DEF LinesTyped
    <3>4. kShutdown \notin Held
      BY HeldTyped, RequestsAssumption
    <3>5. kShutdown \notin ToSet(mQueued) \cup Founding \cup mResidents \cup Filed
      BY <3>4 DEF Held
    <3>6. QED
      BY <1>1, <3>1, <3>3, <3>5 DEF Held, Apart, Accounts
  <2>3. QED
    BY <2>1, <2>2, CallerFrame DEF Submit
<1>6. QED
  BY <1>1, <1>2, <1>3, <1>4, <1>5 DEF Accounts

(* The accounts are preserved by every step. *)
LEMMA AccountsSteps == IInv1 /\ Accounts /\ [Next]_vars => Accounts'
<1> SUFFICES ASSUME IInv1, Accounts, [Next]_vars PROVE Accounts'
  OBVIOUS
<1>1. CASE UNCHANGED vars
  BY <1>1
     DEF vars, callerVars, gateVars, outcomeVars, batchVars, Accounts, Held, Apart, Founding, Filed,
         Accepted, Unanswered, Live, Reserved, BacklogExact, CountersMatchOutcomes
<1>2. QED
  BY <1>1, Movers, TerminationSettles, HandingOnKeepsAccounts, SubmitKeepsAccounts,
     OtherCallersKeepAccounts

(* In every behaviour the accounts agree with who is held. *)
THEOREM SecondLayer == Spec => []Accounts
<1>1. QED
  BY FirstLayer, InitAccounts, AccountsSteps, PTL DEF Spec

(* mPendingCount is exactly the reservations still held, and within the backlog limit *)
(* (submit, BacklogReservation, terminate).                                            *)
THEOREM ReservationsBalance == Spec => []BacklogExact
<1>1. Accounts => BacklogExact
  BY DEF Accounts
<1>2. QED
  BY <1>1, SecondLayer, PTL

(* The metrics count each terminated request once, under the status its caller sees *)
(* (terminate).                                                                      *)
THEOREM CountersBalance == Spec => []CountersMatchOutcomes
<1>1. Accounts => CountersMatchOutcomes
  BY DEF Accounts
<1>2. QED
  BY <1>1, SecondLayer, PTL

(* cancel(id) finds a request as long as it has no outcome, and never after *)
(* (registerRecord, forgetRecord, terminate).                                *)
THEOREM RegistryIsExact == Spec => []LiveUntilTerminal
<1>1. Accounts => LiveUntilTerminal
  BY DEF Accounts, LiveUntilTerminal, Live, Unanswered, Accepted
<1>2. QED
  BY <1>1, SecondLayer, PTL

(* No request is ever run twice or dropped between the ring, the queue, the founding, *)
(* the ledger and the published results.                                               *)
THEOREM RequestsAreHeldOnce == Spec => []HeldOnce
<1>1. IInv1 /\ Accounts => HeldOnce
  <2> SUFFICES ASSUME IInv1, Accounts PROVE HeldOnce
    OBVIOUS
  <2>1. /\ DOMAIN Holders = 1..5
        /\ Holders[1] = ToSet(commands) \ {kShutdown} /\ Holders[2] = ToSet(mQueued)
        /\ Holders[3] = Founding /\ Holders[4] = mResidents /\ Holders[5] = Filed
    BY DEF Holders
  <2>2. \A i \in 1..5 : i = 1 \/ i = 2 \/ i = 3 \/ i = 4 \/ i = 5
    OBVIOUS
  <2>3. \A r : r \in Held <=> \E i \in DOMAIN Holders : r \in Holders[i]
    BY <2>1, <2>2 DEF Held
  <2>4. \A r \in Requests : r \in Accepted /\ outcome[r] = NotYet <=> r \in Held
    BY DEF Accounts, Unanswered
  <2>5. ASSUME NEW i \in 1..5, NEW j \in 1..5, i # j
        PROVE  Holders[i] \cap Holders[j] = {}
    BY <2>1, <2>2, <2>5 DEF Accounts, Apart
  <2>6. QED
    BY <2>1, <2>3, <2>4, <2>5 DEF HeldOnce, Accounts, Apart
<1>2. QED
  BY <1>1, FirstLayer, SecondLayer, PTL

(* Every path a request takes to its end settles the reservation, the counters, the    *)
(* registry and its place together (submit, terminate).                                *)
THEOREM AccountsAlwaysBalance == Spec => []AccountsBalance
BY ReservationsBalance, CountersBalance, RegistryIsExact, RequestsAreHeldOnce, PTL
   DEF AccountsBalance

(* The state stays within its types; that the pending count never drops below zero *)
(* takes the accounts.                                                              *)
THEOREM TypeCorrect == Spec => []TypeOK
<1>1. IInv1 /\ Accounts => TypeOK
  <2> SUFFICES ASSUME IInv1, Accounts PROVE TypeOK
    OBVIOUS
  <2>1. mPendingCount \in Nat
    BY RequestsAssumption, FS_Subset, FS_CardinalityType DEF Accounts, BacklogExact, Reserved
  <2>2. QED
    BY <2>1 DEF TypeOK, IInv1, Types, CallersTyped, LinesTyped, AccountsTyped, ActorTyped,
       BatchTyped, ProgressTyped
<1>2. QED
  BY <1>1, FirstLayer, SecondLayer, PTL

-----------------------------------------------------------------------------
(* The batch.                                                              *)

(* headMayJoin() compares with the founder alone: that suffices because every row does, *)
(* and a guided request is always the founder, alone.                                   *)
BatchOfFounder ==
  /\ Cardinality(rows) <= MaxBatchSize
  /\ \A r \in rows : /\ Kind[r] = Kind[mResidentRecord]
                     /\ r \in Guided \/ mResidentRecord \in Guided => r = mResidentRecord

(* Rows that leave do no harm to those that stay. *)
LEMMA FewerRows ==
  ASSUME IInv1, BatchOfFounder, rows' \subseteq rows, UNCHANGED mResidentRecord
  PROVE  BatchOfFounder'
<1>1. IsFiniteSet(rows)
  BY RequestsAssumption, FS_Subset DEF IInv1, Types, BatchTyped
<1>2. Cardinality(rows') <= Cardinality(rows) /\ Cardinality(rows) \in Nat
      /\ Cardinality(rows') \in Nat
  BY <1>1, FS_Subset, FS_CardinalityType
<1>3. QED
  BY <1>2, ConfigAssumption DEF BatchOfFounder

(* Whoever joins is compared with the founder, as all rows were. *)
LEMMA BatchSteps == IInv1 /\ BatchOfFounder /\ [Next]_vars => BatchOfFounder'
<1> SUFFICES ASSUME IInv1, BatchOfFounder, [Next]_vars PROVE BatchOfFounder'
  OBVIOUS
<1>0. BatchTyped /\ LinesTyped /\ ActorTyped /\ Shape
  BY DEF IInv1, Types
<1>1. CASE UNCHANGED <<rows, mResidentRecord>>
  BY <1>1, FewerRows
<1>2. ASSUME rows' = {} PROVE BatchOfFounder'
  BY <1>2, FS_EmptySet, ConfigAssumption DEF BatchOfFounder
<1>3. CASE AdmitNext \/ FoundFails
  <2>1. rows = {} /\ rows' = rows
    BY <1>0, <1>3 DEF AdmitNext, FoundFails, Shape, InBatch
  <2>2. QED
    BY <1>2, <2>1
<1>4. CASE Found
  <2>1. rows' = {mResidentRecord} /\ UNCHANGED mResidentRecord
    BY <1>4 DEF Found
  <2>2. Cardinality(rows') = 1
    BY <2>1, FS_Singleton
  <2>3. QED
    BY <2>1, <2>2, ConfigAssumption DEF BatchOfFounder
<1>5. CASE OfferAdmitted
  <2> DEFINE r == Head(mQueued)
  <2>1. /\ Cardinality(rows) < MaxBatchSize
        /\ Kind[r] = Kind[mResidentRecord] /\ r \notin Guided /\ mResidentRecord \notin Guided
        /\ rows' = rows \cup {r} /\ UNCHANGED mResidentRecord
    BY <1>5 DEF OfferAdmitted, MayOffer, MayJoin, Compatible
  <2>2. IsFiniteSet(rows)
    BY <1>0, RequestsAssumption, FS_Subset DEF BatchTyped
  <2>3. /\ Cardinality(rows') \in {Cardinality(rows), Cardinality(rows) + 1}
        /\ Cardinality(rows) \in Nat
    BY <2>1, <2>2, FS_AddElement, FS_CardinalityType
  <2>4. Cardinality(rows') <= MaxBatchSize
    BY <2>1, <2>3, ConfigAssumption
  <2>5. QED
    BY <2>1, <2>4 DEF BatchOfFounder
<1>6. CASE Stepping
  <2>1. rows' \subseteq rows /\ UNCHANGED mResidentRecord
    BY <1>6, SteppingIsCommit DEF RuntimeStep, Commit, StepFails
  <2>2. QED
    BY <2>1, FewerRows
<1>7. CASE Teardown
  BY <1>2, <1>7 DEF Teardown
<1>8. QED
  BY <1>1, <1>3, <1>4, <1>5, <1>6, <1>7, Movers, ActorFrame, CallerFrame DEF vars, batchVars

(* Every row is the founder's equal, and there are never too many. *)
LEMMA BatchAlways == Spec => []BatchOfFounder
<1>1. Init => BatchOfFounder
  BY FS_EmptySet, ConfigAssumption DEF Init, BatchOfFounder
<1>2. QED
  BY <1>1, FirstLayer, BatchSteps, PTL DEF Spec

(* The ledger names exactly the rows of a running batch, never more than the batch size, *)
(* and both are empty between batches (ResidentBatchCoordinator, RuntimeStepper).         *)
THEOREM LedgerIsTheBatch == Spec => []LedgerMatchesBatch
<1>1. IInv1 /\ BatchOfFounder => LedgerMatchesBatch
  BY DEF IInv1, Shape, InBatch, BatchOfFounder, LedgerMatchesBatch
<1>2. QED
  BY <1>1, FirstLayer, BatchAlways, PTL

(* Sequences that share a step are compatible and unguided, although a joiner was       *)
(* compared only with a founder that may have left since (headMayJoin).                 *)
THEOREM BatchesAreCompatible == Spec => []BatchIsCompatible
<1>1. BatchOfFounder => BatchIsCompatible
  BY DEF BatchOfFounder, BatchIsCompatible
<1>2. QED
  BY <1>1, BatchAlways, PTL

-----------------------------------------------------------------------------
(* Third layer: how far a shutdown has come.                               *)

NoRequestInRing == ToSet(commands) \cap Requests = {}

(* The gate closes before the stop is set, nobody is left inside it, and the actor acts *)
(* on a stop only after it was set.                                                     *)
ShutdownOrder ==
  /\ mAccepting <=> shutPc = "running"
  /\ ~mAccepting => \A r \in Requests : subPc[r] # "posting"
  /\ mStopRequested => shutPc \notin {"running", "closed"}
  /\ stopping => mStopRequested
  /\ actorPc = "last" \/ (actorPc \in {"drain", "sweep"} /\ ret = "last") => stopping
  /\ actorPc \in {"exit", "exited"} => mStopRequested

(* The last drain takes every request off the ring: at most a full ring is waiting and  *)
(* nobody pushes any more.  So a draining actor leaves with nothing queued, and a       *)
(* cancelling one after it has answered what was.                                       *)
LastLook ==
  /\ Len(commands) <= QueueCapacity
  /\ actorPc = "drain" /\ ret = "last" =>
       \A i \in 1..Len(commands) : commands[i] \in Requests => i <= budget
  /\ actorPc = "last" \/ (actorPc = "sweep" /\ ret = "last") => NoRequestInRing
  /\ actorPc = "exited" \/ (actorPc = "exit" /\ mShutdownMode = "kDrain") =>
       NoRequestInRing /\ mQueued = <<>>

ShutdownInv == ShutdownOrder /\ LastLook

(* Before the first step nobody shuts the engine down. *)
LEMMA InitShutdown == Init => ShutdownInv
<1> SUFFICES ASSUME Init PROVE ShutdownOrder /\ LastLook
  BY DEF ShutdownInv
<1>1. ShutdownOrder
  BY DEF Init, ShutdownOrder
<1>2. Len(commands) = 0
  BY EmptySeq, LenProperties DEF Init
<1>3. LastLook
  BY <1>2, ConfigAssumption DEF Init, LastLook
<1>4. QED
  BY <1>1, <1>3

(* Every step keeps the order of a shutdown. *)
LEMMA OrderSteps == IInv1 /\ Accounts /\ ShutdownOrder /\ [Next]_vars => ShutdownOrder'
<1> SUFFICES ASSUME IInv1, Accounts, ShutdownOrder, [Next]_vars PROVE ShutdownOrder'
  OBVIOUS
<1>0. CallersTyped /\ ActorTyped /\ LinesTyped
  BY DEF IInv1, Types
<1> USE <1>0 DEF ShutdownOrder, CallersTyped, ActorTyped, localVars, callerVars, stopVars, gateVars
<1>1. CASE UNCHANGED vars
  BY <1>1 DEF vars
<1>2. ASSUME NEW r \in Requests, Submit(r) PROVE ShutdownOrder'
  <2>1. /\ UNCHANGED <<shutPc, mAccepting, mStopRequested, stopping, ret>>
        /\ actorPc' = actorPc \/ (actorPc = "parked" /\ actorPc' = "park")
    BY <1>2, CallerFrame
       DEF Caller, Submit, SubmitReserve, SubmitBacklogFull, SubmitRegister, PostCheck, PostPush,
           SubmitRefuse, SubmitReturn
  <2>2. \A q \in Requests : subPc'[q] = "posting" => subPc[q] = "posting" \/ mAccepting
    BY <1>2 DEF Submit, SubmitReserve, SubmitBacklogFull, SubmitRegister, PostCheck, PostPush,
       SubmitRefuse, SubmitReturn
  <2>3. QED
    BY <2>1, <2>2
<1>3. ASSUME NEW r \in Requests, HandleCancel(r) \/ CancelById(r) \/ CancelWake(r)
      PROVE  ShutdownOrder'
  BY <1>3 DEF HandleCancel, CancelById, CancelWake, WakeActor, actorState
<1>4. ASSUME NEW mode \in Modes, ShutdownClose(mode) PROVE ShutdownOrder'
  BY <1>4 DEF ShutdownClose, AdmissionMutexFree, actorState
<1>5. CASE Shutdown
  BY <1>5 DEF Shutdown, ShutdownStop, ShutdownPost, ShutdownWake, ShutdownJoin, WakeActor, actorState
<1>6. CASE DrainPop
  <2>1. Head(commands) \in ToSet(commands)
    BY <1>6, LeaveLine DEF DrainPop, LinesTyped
  <2>2. Head(commands) = kShutdown => shutPc \notin {"running", "closed"}
    BY <2>1 DEF Accounts
  <2>3. QED
    BY <1>6, <2>2 DEF DrainPop
<1>7. CASE ActorStep /\ ~DrainPop
  <2>1. UNCHANGED <<subPc, shutPc, mAccepting, mStopRequested>>
    BY <1>7, ActorFrame
  <2>2. /\ stopping' => mStopRequested
        /\ actorPc' = "last" \/ (actorPc' \in {"drain", "sweep"} /\ ret' = "last") => stopping'
        /\ actorPc' \in {"exit", "exited"} => mStopRequested
    <3>1. CASE Stepping
      BY <3>1, SteppingIsCommit DEF RuntimeStep, Commit, StepFails, GoTo
    <3>2. CASE DrainDone \/ SweepRetire \/ SweepDone \/ LoopTop \/ AdmitNext \/ AdmitNothing
               \/ LastDrain
      BY <3>2 DEF DrainDone, SweepRetire, SweepDone, LoopTop, AdmitNext, AdmitNothing, LastDrain,
         Drain, Sweep, GoTo, CancelShutdown
    <3>3. CASE ParkCheck \/ ParkSleep \/ ParkTimeout \/ ExitQueued \/ ExitCommand \/ ExitDone
      BY <3>3 DEF ParkCheck, ParkSleep, ParkTimeout, ExitQueued, ExitCommand, ExitDone, Drain, GoTo
    <3>4. CASE FoundFails \/ Found \/ TickDecode \/ OfferNothing \/ OfferRejected \/ OfferAdmitted
               \/ PublishOne \/ PublishDone \/ FailOne \/ Teardown
      BY <3>4 DEF FoundFails, Found, TickDecode, OfferNothing, OfferRejected, OfferAdmitted,
         PublishOne, PublishDone, FailOne, Teardown, NextTick, Drain, Sweep, GoTo
    <3>5. QED
      BY <1>7, <3>1, <3>2, <3>3, <3>4 DEF ActorStep, Actor, Batch, Stepping
  <2>3. QED
    BY <2>1, <2>2
<1>8. QED
  BY <1>1, <1>2, <1>3, <1>4, <1>5, <1>6, <1>7, Movers DEF Caller

(* A submit pushes only before a shutdown, when nothing is said of the ring but its size. *)
LEMMA PushBeforeShutdown ==
  ASSUME IInv1, ShutdownOrder, LastLook, NEW r \in Requests, PostPush(r)
  PROVE  LastLook'
<1>0. CallersTyped /\ ActorTyped /\ LinesTyped
  BY DEF IInv1, Types
<1>1. ~mStopRequested /\ ~stopping
  BY DEF ShutdownOrder, PostPush
<1>2. UNCHANGED <<actorPc, ret, stopping, mStopRequested>>
  BY DEF PostPush, actorState, localVars, stopVars
<1>3. /\ actorPc' \notin {"last", "exit", "exited"}
      /\ ~(actorPc' \in {"drain", "sweep"} /\ ret' = "last")
  BY <1>1, <1>2 DEF ShutdownOrder
<1>4. Len(commands') <= QueueCapacity
  <2>1. CASE Len(commands) < QueueCapacity
    <3>1. Len(commands') = Len(commands) + 1
      BY <1>0, <2>1, AppendProperties DEF PostPush, LinesTyped
    <3>2. QED
      BY <1>0, <2>1, <3>1, ConfigAssumption, LenProperties DEF LinesTyped
  <2>2. CASE ~(Len(commands) < QueueCapacity)
    BY <2>2 DEF PostPush, LastLook
  <2>3. QED
    BY <2>1, <2>2
<1>5. QED
  BY <1>3, <1>4 DEF LastLook

(* Shutdown's own command is no request, wherever it lands. *)
LEMMA CommandIsNoRequest ==
  ASSUME IInv1, LastLook, ShutdownPost
  PROVE  LastLook'
<1>0. LinesTyped
  BY DEF IInv1, Types
<1>1. UNCHANGED <<actorPc, ret, budget, mQueued, mShutdownMode>>
  BY DEF ShutdownPost, actorState, localVars, stopVars
<1>2. CASE Len(commands) < QueueCapacity
  <2>1. commands' = Append(commands, kShutdown) /\ kShutdown \notin Requests
    BY <1>2, RequestsAssumption DEF ShutdownPost
  <2>2. /\ Len(commands') = Len(commands) + 1
        /\ \A i \in 1..Len(commands) : commands'[i] = commands[i]
        /\ commands'[Len(commands) + 1] = kShutdown
        /\ Len(commands) \in Nat
    BY <1>0, <2>1, AppendProperties, LenProperties DEF LinesTyped
  <2>3. DOMAIN commands' = 1..Len(commands') /\ DOMAIN commands = 1..Len(commands)
    <3>1. kShutdown \in Requests \cup {kShutdown}
      OBVIOUS
    <3>2. commands' \in Seq(Requests \cup {kShutdown})
      BY <1>0, <2>1, <3>1, AppendProperties DEF LinesTyped
    <3>3. QED
      BY <1>0, <3>2, LenProperties DEF LinesTyped
  <2>4. \A i \in 1..Len(commands') :
          commands'[i] \in Requests => i \in 1..Len(commands) /\ commands[i] \in Requests
    BY <2>1, <2>2
  <2>5. NoRequestInRing => NoRequestInRing'
    BY <2>3, <2>4 DEF NoRequestInRing, ToSet
  <2>6. Len(commands') <= QueueCapacity
    BY <1>2, <2>2, ConfigAssumption
  <2>7. QED
    BY <1>1, <2>4, <2>5, <2>6 DEF LastLook
<1>3. CASE ~(Len(commands) < QueueCapacity)
  BY <1>1, <1>3 DEF ShutdownPost, LastLook, NoRequestInRing
<1>4. QED
  BY <1>2, <1>3

(* Every step keeps the last drain complete, and the exit final. *)
LEMMA LookSteps == IInv1 /\ ShutdownOrder /\ LastLook /\ [Next]_vars => LastLook'
<1> SUFFICES ASSUME IInv1, ShutdownOrder, LastLook, [Next]_vars PROVE LastLook'
  OBVIOUS
<1>0. CallersTyped /\ ActorTyped /\ LinesTyped
  BY DEF IInv1, Types
<1>1. Len(commands) \in Nat /\ DOMAIN commands = 1..Len(commands)
  BY <1>0, LenProperties DEF LinesTyped
<1>2. ASSUME commands # <<>>, commands' = Tail(commands)
      PROVE  /\ Len(commands') = Len(commands) - 1 /\ Len(commands') <= QueueCapacity
             /\ \A i \in 1..Len(commands') : commands'[i] = commands[i + 1]
             /\ NoRequestInRing => NoRequestInRing'
  <2>1. /\ Len(commands') = Len(commands) - 1
        /\ \A i \in 1..Len(commands') : commands'[i] = commands[i + 1]
    BY <1>0, <1>2, HeadTailProperties DEF LinesTyped
  <2>2. ToSet(commands') \subseteq ToSet(commands)
    BY <1>0, <1>2, LeaveLine DEF LinesTyped
  <2>3. QED
    BY <1>1, <2>1, <2>2, ConfigAssumption DEF NoRequestInRing, LastLook
<1>3. CASE UNCHANGED vars
  BY <1>3 DEF vars, gateVars, localVars, stopVars, LastLook, NoRequestInRing
<1>4. CASE Caller
  <2>1. CASE UNCHANGED <<commands, mShutdownMode>>
    BY <1>4, <2>1, CallerFrame DEF localVars, LastLook, NoRequestInRing
  <2>2. ASSUME NEW mode \in Modes, ShutdownClose(mode) PROVE LastLook'
    <3>1. actorPc \notin {"exit", "exited"}
      BY <2>2 DEF ShutdownClose, ShutdownOrder
    <3>2. QED
      BY <2>2, <3>1 DEF ShutdownClose, actorState, localVars, LastLook, NoRequestInRing
  <2>3. QED
    BY <1>4, <2>1, <2>2, CallerFrame, PushBeforeShutdown, CommandIsNoRequest
<1>5. CASE DrainPop
  <2>1. /\ commands # <<>> /\ commands' = Tail(commands) /\ budget' = budget - 1
        /\ actorPc = "drain" /\ UNCHANGED <<actorPc, ret>>
    BY <1>5 DEF DrainPop
  <2>2. ASSUME ret = "last", NEW i \in 1..Len(commands'), commands'[i] \in Requests
        PROVE  i <= budget'
    <3>1. i + 1 \in 1..Len(commands) /\ commands[i + 1] \in Requests
      BY <1>1, <1>2, <2>1, <2>2
    <3>2. i + 1 <= budget
      BY <2>1, <2>2, <3>1 DEF LastLook
    <3>3. QED
      BY <1>0, <2>1, <3>2, ConfigAssumption DEF ActorTyped
  <2>3. QED
    BY <1>2, <2>1, <2>2 DEF LastLook
<1>6. CASE DrainDone
  <2>1. ASSUME ret = "last" PROVE NoRequestInRing
    <3>1. CASE commands = <<>>
      BY <3>1, EmptyLine DEF NoRequestInRing
    <3>2. CASE budget = 0
      <4>1. \A i \in 1..Len(commands) : ~(i <= 0)
        OBVIOUS
      <4>2. QED
        BY <1>1, <1>6, <2>1, <3>2, <4>1 DEF DrainDone, LastLook, NoRequestInRing, ToSet
    <3>3. QED
      BY <1>6, <3>1, <3>2 DEF DrainDone
  <2>2. QED
    BY <1>6, <2>1 DEF DrainDone, Sweep, gateVars, LastLook, NoRequestInRing
<1>7. CASE AdmitNothing
  <2>1. \A i \in 1..Len(commands) : i <= QueueCapacity
    BY <1>1, ConfigAssumption DEF LastLook
  <2>2. /\ actorPc' = "drain" => budget' = QueueCapacity
        /\ actorPc' \in {"drain", "park"}
        /\ UNCHANGED commands
    BY <1>7 DEF AdmitNothing, Drain, GoTo, quiet, gateVars
  <2>3. QED
    BY <2>1, <2>2 DEF LastLook
<1>8. CASE SweepRetire \/ SweepDone \/ LoopTop \/ LastDrain
  BY <1>0, <1>8
     DEF SweepRetire, SweepDone, LoopTop, LastDrain, Drain, GoTo, CancelShutdown, quiet, gateVars,
         stopVars, localVars, LastLook, NoRequestInRing, ActorTyped
<1>9. CASE ExitQueued
  BY <1>9 DEF ExitQueued, stopVars, localVars, LastLook
<1>10. CASE ExitCommand
  <2>1. /\ commands # <<>> /\ commands' = Tail(commands)
        /\ actorPc = "exit" /\ UNCHANGED <<actorPc, mQueued, mShutdownMode>>
    BY <1>10 DEF ExitCommand, stopVars
  <2>2. QED
    BY <1>2, <2>1 DEF LastLook
<1>11. CASE ExitDone
  BY <1>11, EmptyLine DEF ExitDone, GoTo, quiet, gateVars, LastLook, NoRequestInRing
<1>12. CASE \/ Stepping \/ AdmitNext \/ ParkCheck \/ ParkSleep \/ ParkTimeout
            \/ FoundFails \/ Found \/ TickDecode \/ OfferNothing \/ OfferRejected \/ OfferAdmitted
            \/ PublishOne \/ PublishDone \/ FailOne \/ Teardown
  <2>1. UNCHANGED commands
    BY <1>12, ActorFrame DEF ActorStep, Actor, Batch, Stepping, DrainPop, ExitCommand,
       AdmitNext, ParkCheck, ParkSleep, ParkTimeout, FoundFails, Found, TickDecode, OfferNothing,
       OfferRejected, OfferAdmitted, PublishOne, PublishDone, FailOne, Teardown, Decode,
       PrefillFounder, PrefillJoiner, GoTo
  <2>2. actorPc' \notin {"last", "exit", "exited"} /\ ~(actorPc' \in {"drain", "sweep"} /\ ret' = "last")
    <3>1. CASE Stepping
      BY <3>1, SteppingIsCommit DEF RuntimeStep, Commit, StepFails, GoTo
    <3>2. CASE ~Stepping
      BY <1>12, <3>2
         DEF AdmitNext, ParkCheck, ParkSleep, ParkTimeout, FoundFails, Found, TickDecode,
             OfferNothing, OfferRejected, OfferAdmitted, PublishOne, PublishDone, FailOne, Teardown,
             NextTick, Drain, Sweep, GoTo
    <3>3. QED
      BY <3>1, <3>2
  <2>3. QED
    BY <2>1, <2>2 DEF LastLook
<1>13. QED
  BY <1>3, <1>4, <1>5, <1>6, <1>7, <1>8, <1>9, <1>10, <1>11, <1>12, Movers
     DEF ActorStep, Actor, Batch, Stepping

(* In every behaviour a shutdown proceeds in its order. *)
THEOREM ThirdLayer == Spec => []ShutdownInv
<1>1. IInv1 /\ Accounts /\ ShutdownInv /\ [Next]_vars => ShutdownInv'
  BY OrderSteps, LookSteps DEF ShutdownInv
<1>2. QED
  BY <1>1, InitShutdown, FirstLayer, SecondLayer, PTL DEF Spec

(* Once the actor has exited every accepted request is answered, none can be accepted *)
(* any more and none is left in the ring (actorLoop, shutdown, postSubmit).            *)
THEOREM NobodyIsStranded == Spec => []ExitStrandsNobody
<1>1. IInv1 /\ Accounts /\ ShutdownInv => ExitStrandsNobody
  <2> SUFFICES ASSUME IInv1, Accounts, ShutdownInv, actorPc = "exited"
               PROVE  /\ \A r \in Requests : /\ r \in Accepted => outcome[r] # NotYet
                                             /\ subPc[r] # "posting"
                      /\ NoRequestInRing
    BY DEF ExitStrandsNobody, NoRequestInRing
  <2>1. NoRequestInRing /\ mQueued = <<>>
    BY DEF ShutdownInv, LastLook
  <2>2. mResidents = {} /\ results = {} /\ Founding = {}
    BY DEF IInv1, Shape, InBatch, Founding
  <2>3. ToSet(commands) \ {kShutdown} = {} /\ ToSet(mQueued) = {} /\ Filed = {}
    BY <2>1, <2>2, ItemsInDomain, EmptyLine
       DEF NoRequestInRing, Filed, IInv1, Types, LinesTyped
  <2>4. Unanswered = {}
    BY <2>2, <2>3 DEF Accounts, Held
  <2>5. ~mAccepting
    BY DEF ShutdownInv, ShutdownOrder
  <2>6. QED
    BY <2>1, <2>4, <2>5 DEF Unanswered, ShutdownInv, ShutdownOrder
<1>2. QED
  BY <1>1, FirstLayer, SecondLayer, ThirdLayer, PTL

-----------------------------------------------------------------------------
(* Fourth layer: why a request was cancelled.                              *)

(* An ending is reported as cancelled only where the flag was polled. *)
Polled == \A result \in results : result.reason = "kCancelled" => result.req \in cancelled

(* Until a cancelling shutdown the flag of a request with no outcome is its caller's *)
(* doing, and so is a cancelled outcome.                                              *)
Blame == /\ shutPc = "running" => mShutdownMode = "kDrain"
         /\ mShutdownMode = "kDrain" =>
              \A r \in Requests :
                /\ r \in cancelled => canPc[r] # "idle" \/ outcome[r] # NotYet
                /\ outcome[r] = "kCancelled" => canPc[r] # "idle"

(* The flag is never taken back. *)
LEMMA CancelIsSticky == IInv1 /\ [Next]_vars => cancelled \subseteq cancelled'
<1> SUFFICES ASSUME IInv1, [Next]_vars PROVE cancelled \subseteq cancelled'
  OBVIOUS
<1>1. ASSUME NEW r \in Requests, HandleCancel(r) \/ CancelById(r)
      PROVE  cancelled \subseteq cancelled'
  BY <1>1 DEF HandleCancel, CancelById
<1>2. CASE Terminating
  BY <1>2, TerminatingTerminates DEF Terminate
<1>3. CASE SweepDone
  BY <1>3 DEF SweepDone
<1>4. QED
  BY <1>1, <1>2, <1>3, Movers, CallerFrame, ActorFrame DEF vars, streamVars

(* Every step reports as cancelled only sequences whose flag it polled. *)
LEMMA PolledSteps == IInv1 /\ Polled /\ [Next]_vars => Polled'
<1> SUFFICES ASSUME IInv1, Polled, [Next]_vars PROVE Polled'
  OBVIOUS
<1>0. cancelled \subseteq cancelled' /\ results \subseteq [req : Requests, reason : Reasons]
  BY CancelIsSticky DEF IInv1, Types, BatchTyped
<1>1. CASE results' \subseteq results
  BY <1>0, <1>1 DEF Polled
<1>2. CASE Stepping
  <2>1. PICK stepped \in SUBSET rows :
          \/ StepFails(stepped)
          \/ \E ending \in [stepped -> Reasons \cup {NotYet}], emits \in BOOLEAN :
               /\ Commit(stepped, ending, emits)
               /\ \A r \in stepped : ending[r] = "kCancelled" => r \in cancelled
    BY <1>2, SteppingIsCommit DEF RuntimeStep
  <2>2. CASE StepFails(stepped)
    BY <1>1, <2>2 DEF StepFails
  <2>3. ASSUME NEW ending \in [stepped -> Reasons \cup {NotYet}], NEW emits \in BOOLEAN,
               Commit(stepped, ending, emits),
               \A r \in stepped : ending[r] = "kCancelled" => r \in cancelled
        PROVE  Polled'
    <3>1. results' = {[req |-> r, reason |-> ending[r]] : r \in {q \in stepped : ending[q] # NotYet}}
      BY <2>3 DEF Commit
    <3>2. QED
      BY <1>0, <2>3, <3>1 DEF Polled
  <2>4. QED
    BY <2>1, <2>2, <2>3
<1>3. CASE PublishOne
  BY <1>1, <1>3 DEF PublishOne
<1>4. QED
  BY <1>1, <1>2, <1>3, Movers, CallerFrame, ActorFrame DEF vars, batchVars

(* terminate() writes an outcome once. *)
LEMMA OutcomeIsWrittenOnce ==
  ASSUME IInv1, Accounts, [Next]_vars, NEW q \in Requests, outcome[q] # NotYet
  PROVE  outcome'[q] = outcome[q]
<1>1. CASE ActorStep /\ Terminating
  <2>1. PICK r \in Requests, status \in Statuses : Terminate(r, status) /\ LetsGo(r)
    BY <1>1, HolderLetsGo DEF Accounts
  <2>2. r # q
    BY <2>1 DEF LetsGo, Accounts, Unanswered
  <2>3. QED
    BY <2>1, <2>2 DEF Terminate
<1>2. CASE ~(ActorStep /\ Terminating)
  BY <1>2, Movers, CallerFrame, ActorFrame DEF vars, outcomeVars
<1>3. QED
  BY <1>1, <1>2

(* A natural outcome is given only to a request whose flag is down, and "cancelled" only *)
(* to one whose flag is up or, at the exit, by a shutdown that cancels.                   *)
Earned(q, status) ==
  /\ status = "kCompleted" => q \notin cancelled
  /\ status = "kCancelled" => q \in cancelled \/ mShutdownMode = "kCancel"

(* Every termination gives a status that the request has earned. *)
LEMMA StatusIsEarned ==
  ASSUME IInv1, ShutdownInv, Polled, Terminating, NEW q \in Requests, outcome'[q] # outcome[q]
  PROVE  Earned(q, outcome'[q])
<1>0. CallersTyped /\ LinesTyped /\ AccountsTyped /\ ActorTyped /\ BatchTyped
  BY DEF IInv1, Types
<1>1. ASSUME NEW r, NEW status, Terminate(r, status)
      PROVE  r = q /\ outcome'[q] = status
  BY <1>0, <1>1 DEF Terminate, AccountsTyped
<1>2. CASE SweepRetire
  <2>1. PICK k \in CancelledFrom(cursor) : Terminate(mQueued[k], "kCancelled")
    BY <1>2 DEF SweepRetire
  <2>2. mQueued[k] \in cancelled
    BY DEF CancelledFrom
  <2>3. QED
    BY <1>1, <2>1, <2>2 DEF Earned
<1>3. CASE FoundFails
  BY <1>1, <1>3 DEF FoundFails, Earned
<1>4. CASE OfferRejected
  BY <1>1, <1>4 DEF OfferRejected, Earned
<1>5. CASE PublishOne
  BY <1>1, <1>5 DEF PublishOne, StatusOf, Earned, Polled
<1>6. CASE FailOne
  BY <1>1, <1>6 DEF FailOne, StatusOf, Earned
<1>7. CASE ExitQueued
  BY <1>0, <1>1, <1>7 DEF ExitQueued, Earned, ShutdownInv, LastLook, CallersTyped
<1>8. CASE ExitCommand /\ Head(commands) # kShutdown
  <2>1. Head(commands) \in ToSet(commands) /\ Head(commands) \in Requests
    BY <1>0, <1>8, LeaveLine DEF ExitCommand, LinesTyped
  <2>2. mShutdownMode = "kCancel"
    BY <1>0, <1>8, <2>1 DEF ExitCommand, ShutdownInv, LastLook, NoRequestInRing, CallersTyped
  <2>3. QED
    BY <1>1, <1>8, <2>2 DEF ExitCommand, Earned
<1>9. QED
  BY <1>2, <1>3, <1>4, <1>5, <1>6, <1>7, <1>8 DEF Terminating

(* Every step that raises a flag or cancels a request has the caller, or a shutdown, to blame. *)
LEMMA BlameSteps ==
  IInv1 /\ Accounts /\ ShutdownInv /\ Polled /\ Blame /\ [Next]_vars => Blame'
<1> SUFFICES ASSUME IInv1, Accounts, ShutdownInv, Polled, Blame, [Next]_vars PROVE Blame'
  OBVIOUS
<1>0. CallersTyped /\ AccountsTyped
  BY DEF IInv1, Types
<1> USE <1>0 DEF Blame, CallersTyped
<1>1. CASE UNCHANGED vars
  BY <1>1 DEF vars, callerVars, stopVars, streamVars, outcomeVars
<1>2. ASSUME NEW r \in Requests, Submit(r) \/ HandleCancel(r) \/ CancelById(r) \/ CancelWake(r)
      PROVE  Blame'
  <2>1. UNCHANGED <<shutPc, mShutdownMode, outcome>>
    BY <1>2 DEF Submit, SubmitReserve, SubmitBacklogFull, SubmitRegister, PostCheck, PostPush,
       SubmitRefuse, SubmitReturn, HandleCancel, CancelById, CancelWake, callerVars, stopVars,
       outcomeVars
  <2>2. \A q \in Requests : /\ canPc[q] # "idle" => canPc'[q] # "idle"
                            /\ q \in cancelled' => q \in cancelled \/ canPc'[q] # "idle"
    BY <1>2 DEF Submit, SubmitReserve, SubmitBacklogFull, SubmitRegister, PostCheck, PostPush,
       SubmitRefuse, SubmitReturn, HandleCancel, CancelById, CancelWake, callerVars, streamVars
  <2>3. QED
    BY <2>1, <2>2
<1>3. ASSUME NEW mode \in Modes, ShutdownClose(mode) PROVE Blame'
  BY <1>3 DEF ShutdownClose, streamVars, outcomeVars
<1>4. CASE Shutdown
  BY <1>4 DEF Shutdown, ShutdownStop, ShutdownPost, ShutdownWake, ShutdownJoin, stopVars,
     streamVars, outcomeVars
<1>5. CASE ActorStep
  <2>1. UNCHANGED <<canPc, shutPc, mShutdownMode>>
    BY <1>5, ActorFrame DEF callerVars
  <2>2. CASE Terminating
    <3>1. PICK r \in Requests, status \in Statuses : Terminate(r, status)
      BY <2>2, TerminatingTerminates
    <3>2. cancelled' \subseteq cancelled \cup {r} /\ outcome'[r] # NotYet
      BY <3>1 DEF Terminate, AccountsTyped, Statuses, NotYet
    <3>3. ASSUME mShutdownMode = "kDrain", NEW q \in Requests
          PROVE  /\ q \in cancelled' => canPc[q] # "idle" \/ outcome'[q] # NotYet
                 /\ outcome'[q] = "kCancelled" => canPc[q] # "idle"
      <4>1. CASE outcome'[q] = outcome[q]
        BY <3>2, <3>3, <4>1
      <4>2. CASE outcome'[q] # outcome[q]
        <5>1. outcome[q] = NotYet
          BY <4>2, OutcomeIsWrittenOnce
        <5>2. Earned(q, outcome'[q])
          BY <2>2, <4>2, StatusIsEarned
        <5>3. q = r
          BY <3>1, <4>2 DEF Terminate, AccountsTyped
        <5>4. QED
          BY <3>2, <3>3, <5>1, <5>2, <5>3 DEF Earned
      <4>3. QED
        BY <4>1, <4>2
    <3>4. QED
      BY <2>1, <3>3
  <2>3. CASE ~Terminating
    <3>1. outcome' = outcome
      BY <1>5, <2>3, ActorFrame
    <3>2. mShutdownMode = "kDrain" => cancelled' = cancelled
      BY <1>5, <2>3, ActorFrame DEF SweepDone, CancelShutdown
    <3>3. QED
      BY <2>1, <3>1, <3>2
  <2>4. QED
    BY <2>2, <2>3
<1>6. QED
  BY <1>1, <1>2, <1>3, <1>4, <1>5, Movers DEF Caller

(* In every behaviour a cancellation has its cause. *)
THEOREM FourthLayer == Spec => [](Polled /\ Blame)
<1>1. Init => Polled /\ Blame
  BY DEF Init, Polled, Blame, NotYet
<1>2. IInv1 /\ Accounts /\ ShutdownInv /\ (Polled /\ Blame) /\ [Next]_vars => (Polled /\ Blame)'
  BY PolledSteps, BlameSteps
<1>3. QED
  BY <1>1, <1>2, FirstLayer, SecondLayer, ThirdLayer, PTL DEF Spec

(* A draining shutdown, and an engine that is not shut down, cancel no request but on *)
(* its caller's word (shutdown, drainCommandQueue, actorLoop).                         *)
THEOREM DrainingCancelsNobody == Spec => []DrainCancelsNobody
<1>1. Blame => DrainCancelsNobody
  BY DEF Blame, DrainCancelsNobody
<1>2. QED
  BY <1>1, FourthLayer, PTL

(* An outcome is written once, and a natural one only for a request nobody cancelled *)
(* before (terminate, publishOutcomes).                                               *)
THEOREM OutcomesNeverChange == Spec => OutcomesAreFinal
<1> DEFINE Final == \A r \in Requests :
             /\ outcome[r] # NotYet => outcome'[r] = outcome[r]
             /\ outcome'[r] = "kCompleted" /\ outcome[r] = NotYet => r \notin cancelled
<1>1. IInv1 /\ Accounts /\ ShutdownInv /\ Polled /\ [Next]_vars => [Final]_vars
  <2> SUFFICES ASSUME IInv1, Accounts, ShutdownInv, Polled, [Next]_vars PROVE Final
    OBVIOUS
  <2>1. ASSUME NEW r \in Requests, outcome'[r] = "kCompleted", outcome[r] = NotYet
        PROVE  r \notin cancelled
    <3>1. outcome'[r] # outcome[r]
      BY <2>1 DEF NotYet
    <3>2. Terminating
      BY <3>1, Movers, CallerFrame, ActorFrame DEF vars, outcomeVars
    <3>3. QED
      BY <2>1, <3>1, <3>2, StatusIsEarned DEF Earned
  <2>2. QED
    BY <2>1, OutcomeIsWrittenOnce
<1>2. QED
  BY <1>1, FirstLayer, SecondLayer, ThirdLayer, FourthLayer, PTL DEF Spec, OutcomesAreFinal
-----------------------------------------------------------------------------
(* Fifth layer: the queue, the ring and the served stand in the order of   *)
(* acceptance, each in front of the next.                                  *)

(* Accepted one after the other; the shutdown command takes any place. *)
Before(a, b) == \E k, l \in DOMAIN accepted : k < l /\ accepted[k] = a /\ accepted[l] = b
Items == Requests \cup {kShutdown}
Order == {pair \in Items \X Items : \/ kShutdown \in {pair[1], pair[2]}
                                    \/ Before(pair[1], pair[2])}

InFront(s, t) == \A x \in ToSet(s), y \in ToSet(t) : <<x, y>> \in Order

Ordered ==
  /\ InOrder(Order, served) /\ InOrder(Order, mQueued) /\ InOrder(Order, commands)
  /\ InFront(served, mQueued) /\ InFront(served, commands) /\ InFront(mQueued, commands)

(* Nobody is in a line who was not accepted. *)
Known == /\ ToSet(served) \subseteq ToSet(accepted)
         /\ ToSet(mQueued) \subseteq ToSet(accepted)
         /\ ToSet(commands) \subseteq ToSet(accepted) \cup {kShutdown}

(* All lines start empty. *)
LEMMA InitOrdered == Init => Ordered /\ Known
BY EmptyLine, EmptyInOrder DEF Init, Ordered, Known, InFront

(* The history of acceptances only grows, and with it the order. *)
LEMMA OrderGrows ==
  ASSUME IInv1, [Next]_vars
  PROVE  Order \subseteq Order' /\ ToSet(accepted) \subseteq ToSet(accepted')
<1>1. CASE UNCHANGED accepted
  BY <1>1 DEF Order, Before
<1>2. ASSUME NEW r \in Requests, PostPush(r)
      PROVE  Order \subseteq Order' /\ ToSet(accepted) \subseteq ToSet(accepted')
  <2>1. CASE UNCHANGED accepted
    BY <1>1, <2>1
  <2>2. CASE accepted' = Append(accepted, r)
    <3>1. /\ DOMAIN accepted = 1..Len(accepted) /\ Len(accepted) \in Nat
          /\ DOMAIN accepted' = 1..(Len(accepted) + 1)
          /\ \A i \in 1..Len(accepted) : accepted'[i] = accepted[i]
      BY <2>2, AppendProperties, LenProperties DEF IInv1, Types, LinesTyped
    <3>2. \A i \in 1..Len(accepted) : i \in 1..(Len(accepted) + 1)
      BY <3>1
    <3>3. \A a, b : Before(a, b) => Before(a, b)'
      BY <3>1, <3>2 DEF Before
    <3>4. ToSet(accepted) \subseteq ToSet(accepted')
      BY <3>1, <3>2 DEF ToSet
    <3> QED
      BY <3>3, <3>4 DEF Order
  <2> QED
    BY <1>2, <2>1, <2>2 DEF PostPush
<1> QED
  BY <1>1, <1>2, Movers, CallerFrame, ActorFrame DEF vars, historyVars

(* Whoever is accepted comes after all who were. *)
LEMMA NewcomerIsLast ==
  ASSUME IInv1, NEW r \in Requests, accepted' = Append(accepted, r), NEW x \in ToSet(accepted)
  PROVE  <<x, r>> \in Order'
<1>1. /\ DOMAIN accepted = 1..Len(accepted) /\ Len(accepted) \in Nat
      /\ DOMAIN accepted' = 1..(Len(accepted) + 1)
      /\ \A i \in 1..Len(accepted) : accepted'[i] = accepted[i]
      /\ accepted'[Len(accepted) + 1] = r
      /\ x \in Requests
  BY AppendProperties, LenProperties, ItemsInDomain DEF IInv1, Types, LinesTyped
<1>2. PICK k \in 1..Len(accepted) : accepted[k] = x
  BY <1>1 DEF ToSet
<1>3. k \in 1..(Len(accepted) + 1) /\ Len(accepted) + 1 \in 1..(Len(accepted) + 1)
      /\ k < Len(accepted) + 1 /\ accepted'[k] = x
  BY <1>1, <1>2
<1>4. Before(x, r)'
  BY <1>1, <1>3 DEF Before
<1> QED
  BY <1>1, <1>4 DEF Order, Items

(* A step that moves nobody between the lines. *)
LEMMA LinesAtRest ==
  ASSUME IInv1, Ordered, Known, [Next]_vars, UNCHANGED <<served, mQueued, commands>>
  PROVE  Ordered' /\ Known'
<1>1. Order \subseteq Order' /\ ToSet(accepted) \subseteq ToSet(accepted')
  BY OrderGrows
<1>2. /\ InOrder(Order', served) /\ InOrder(Order', mQueued) /\ InOrder(Order', commands)
  BY <1>1, MoreInOrder DEF Ordered
<1> QED
  BY <1>1, <1>2 DEF Ordered, Known, InFront

(* Both shutdown and submit() join the ring at its end. *)
LEMMA PushInOrder ==
  ASSUME IInv1, Ordered, Known, [Next]_vars, NEW e \in Items,
         commands' = Append(commands, e), UNCHANGED <<served, mQueued>>,
         e = kShutdown \/ (e \in Requests /\ accepted' = Append(accepted, e))
  PROVE  Ordered' /\ Known'
<1>0. LinesTyped /\ commands \in Seq(Items) /\ accepted' \in Seq(Requests)
  BY LinesStayTyped DEF IInv1, Types, LinesTyped, Items
<1>1. Order \subseteq Order' /\ ToSet(accepted) \subseteq ToSet(accepted')
  BY OrderGrows
<1>2. ToSet(commands') = ToSet(commands) \cup {e}
  BY <1>0, JoinLine
<1>3. \A x \in ToSet(served) \cup ToSet(mQueued) \cup ToSet(commands) :
        x \in Items /\ (x \in ToSet(accepted) \/ x = kShutdown)
  BY <1>0, ItemsInDomain DEF Known, LinesTyped, Items
<1>4. \A x \in ToSet(served) \cup ToSet(mQueued) \cup ToSet(commands) : <<x, e>> \in Order'
  <2>1. CASE e = kShutdown
    BY <1>3, <2>1 DEF Order, Items
  <2>2. CASE e \in Requests /\ accepted' = Append(accepted, e)
    <3>1. \A x \in ToSet(accepted) : <<x, e>> \in Order'
      BY <2>2, NewcomerIsLast
    <3>2. <<kShutdown, e>> \in Order'
      BY DEF Order, Items
    <3> QED
      BY <1>3, <3>1, <3>2
  <2> QED
    BY <2>1, <2>2
<1>5. InOrder(Order', served) /\ InOrder(Order', mQueued) /\ InOrder(Order', commands)
  BY <1>1, MoreInOrder DEF Ordered
<1>6. InOrder(Order', commands')
  BY <1>0, <1>4, <1>5, JoinInOrder
<1>7. InFront(served, mQueued)' /\ InFront(served, commands)' /\ InFront(mQueued, commands)'
  BY <1>1, <1>2, <1>4 DEF Ordered, InFront
<1>8. e \in ToSet(accepted') \cup {kShutdown}
  <2>1. e \in Requests => ToSet(Append(accepted, e)) = ToSet(accepted) \cup {e}
    BY <1>0, JoinLine DEF LinesTyped
  <2> QED
    BY <2>1
<1> QED
  BY <1>1, <1>2, <1>5, <1>6, <1>7, <1>8 DEF Ordered, Known

(* The head of the queue is served, rejected or retired; the order is kept. *)
LEMMA HeadLeavesInOrder ==
  ASSUME IInv1, Ordered, Known, [Next]_vars, mQueued # <<>>, mQueued' = Tail(mQueued),
         UNCHANGED commands, UNCHANGED served \/ served' = Append(served, Head(mQueued))
  PROVE  Ordered' /\ Known'
<1>0. LinesTyped
  BY DEF IInv1, Types
<1>1. Order \subseteq Order' /\ ToSet(accepted) \subseteq ToSet(accepted')
  BY OrderGrows
<1>2. /\ Head(mQueued) \in Requests
      /\ ToSet(mQueued) = ToSet(Tail(mQueued)) \cup {Head(mQueued)}
  BY <1>0, LeaveLine DEF LinesTyped
<1>3. /\ InOrder(Order, Tail(mQueued))
      /\ \A x \in ToSet(Tail(mQueued)) : <<Head(mQueued), x>> \in Order
  BY <1>0, LeaveInOrder DEF LinesTyped, Ordered
<1>4. \/ ToSet(served') = ToSet(served)
      \/ ToSet(served') = ToSet(served) \cup {Head(mQueued)}
  <2>1. ToSet(Append(served, Head(mQueued))) = ToSet(served) \cup {Head(mQueued)}
    BY <1>0, <1>2, JoinLine DEF LinesTyped
  <2> QED
    BY <2>1
<1>5. InOrder(Order, served')
  <2>1. \A x \in ToSet(served) : <<x, Head(mQueued)>> \in Order
    BY <1>2 DEF Ordered, InFront
  <2> QED
    BY <1>0, <1>2, <2>1, JoinInOrder DEF LinesTyped, Ordered
<1>6. InOrder(Order', served') /\ InOrder(Order', mQueued') /\ InOrder(Order', commands')
  BY <1>1, <1>3, <1>5, MoreInOrder DEF Ordered
<1>7. InFront(served, mQueued)' /\ InFront(served, commands)' /\ InFront(mQueued, commands)'
  BY <1>1, <1>2, <1>3, <1>4 DEF Ordered, InFront
<1> QED
  BY <1>1, <1>2, <1>4, <1>6, <1>7 DEF Ordered, Known

(* A command leaves the ring, for the queue if it is a request that somebody will run. *)
LEMMA CommandLeavesInOrder ==
  ASSUME IInv1, Ordered, Known, [Next]_vars, commands # <<>>, commands' = Tail(commands),
         UNCHANGED served,
         \/ UNCHANGED mQueued
         \/ Head(commands) # kShutdown /\ mQueued' = Append(mQueued, Head(commands))
  PROVE  Ordered' /\ Known'
<1>0. LinesTyped /\ commands \in Seq(Items)
  BY DEF IInv1, Types, LinesTyped, Items
<1>1. Order \subseteq Order' /\ ToSet(accepted) \subseteq ToSet(accepted')
  BY OrderGrows
<1>2. /\ Head(commands) \in Items
      /\ ToSet(commands) = ToSet(Tail(commands)) \cup {Head(commands)}
  BY <1>0, LeaveLine
<1>3. /\ InOrder(Order, Tail(commands))
      /\ \A x \in ToSet(Tail(commands)) : <<Head(commands), x>> \in Order
  BY <1>0, LeaveInOrder DEF Ordered
<1>4. \/ ToSet(mQueued') = ToSet(mQueued)
      \/ /\ ToSet(mQueued') = ToSet(mQueued) \cup {Head(commands)}
         /\ Head(commands) # kShutdown
  <2>1. Head(commands) # kShutdown =>
          ToSet(Append(mQueued, Head(commands))) = ToSet(mQueued) \cup {Head(commands)}
    BY <1>0, <1>2, JoinLine DEF LinesTyped, Items
  <2> QED
    BY <2>1
<1>5. InOrder(Order, mQueued')
  <2>1. \A x \in ToSet(mQueued) : <<x, Head(commands)>> \in Order
    BY <1>2 DEF Ordered, InFront
  <2> QED
    BY <1>0, <1>2, <2>1, JoinInOrder DEF LinesTyped, Ordered, Items
<1>6. InOrder(Order', served') /\ InOrder(Order', mQueued') /\ InOrder(Order', commands')
  BY <1>1, <1>3, <1>5, MoreInOrder DEF Ordered
<1>7. InFront(served, mQueued)' /\ InFront(served, commands)' /\ InFront(mQueued, commands)'
  BY <1>1, <1>2, <1>3, <1>4 DEF Ordered, InFront
<1> QED
  BY <1>1, <1>2, <1>4, <1>6, <1>7 DEF Ordered, Known

(* A cancelled request is taken out of the middle of the queue. *)
LEMMA SweepInOrder ==
  ASSUME IInv1, Ordered, Known, [Next]_vars, SweepRetire
  PROVE  Ordered' /\ Known'
<1>0. LinesTyped /\ ActorTyped
  BY DEF IInv1, Types
<1>1. Order \subseteq Order' /\ ToSet(accepted) \subseteq ToSet(accepted')
  BY OrderGrows
<1>2. PICK j \in CancelledFrom(cursor) : mQueued' = RemoveAt(mQueued, j)
  BY DEF SweepRetire
<1>3. j \in 1..Len(mQueued) /\ UNCHANGED <<served, commands>>
  BY <1>0, <1>2 DEF CancelledFrom, ActorTyped, SweepRetire, historyVars
<1>4. ToSet(mQueued') \subseteq ToSet(mQueued) /\ InOrder(Order, mQueued')
  BY <1>0, <1>2, <1>3, RemoveFromLine, RemoveInOrder DEF LinesTyped, Ordered
<1>5. InOrder(Order', served') /\ InOrder(Order', mQueued') /\ InOrder(Order', commands')
  BY <1>1, <1>3, <1>4, MoreInOrder DEF Ordered
<1> QED
  BY <1>1, <1>3, <1>4, <1>5 DEF Ordered, Known, InFront

(* Every step keeps the three lines in order. *)
LEMMA ServiceSteps == IInv1 /\ Ordered /\ Known /\ [Next]_vars => Ordered' /\ Known'
<1> SUFFICES ASSUME IInv1, Ordered, Known, [Next]_vars PROVE Ordered' /\ Known'
  OBVIOUS
<1>1. CASE UNCHANGED <<served, mQueued, commands>>
  BY <1>1, LinesAtRest
<1>2. ASSUME NEW r \in Requests, PostPush(r), commands' # commands PROVE Ordered' /\ Known'
  BY <1>2, PushInOrder DEF PostPush, actorState, batchVars, Items
<1>3. ASSUME ShutdownPost, commands' # commands PROVE Ordered' /\ Known'
  BY <1>3, PushInOrder DEF ShutdownPost, actorState, historyVars, Items
<1>4. CASE AdmitNext \/ OfferRejected \/ OfferAdmitted \/ ExitQueued
  <2>1. /\ mQueued # <<>> /\ mQueued' = Tail(mQueued) /\ UNCHANGED commands
        /\ UNCHANGED served \/ served' = Append(served, Head(mQueued))
    BY <1>4 DEF AdmitNext, OfferRejected, OfferAdmitted, ExitQueued, MayOffer, quiet, gateVars,
       historyVars
  <2> QED
    BY <2>1, HeadLeavesInOrder
<1>5. CASE DrainPop \/ ExitCommand
  <2>1. /\ commands # <<>> /\ commands' = Tail(commands) /\ UNCHANGED served
        /\ \/ UNCHANGED mQueued
           \/ Head(commands) # kShutdown /\ mQueued' = Append(mQueued, Head(commands))
    BY <1>5 DEF DrainPop, ExitCommand, historyVars
  <2> QED
    BY <2>1, CommandLeavesInOrder
<1>6. CASE SweepRetire
  BY <1>6, SweepInOrder
<1>7. CASE Caller
  BY <1>1, <1>2, <1>3, <1>7, CallerFrame
<1>8. CASE ActorStep
  BY <1>1, <1>4, <1>5, <1>6, <1>8, ActorFrame
<1> QED
  BY <1>1, <1>7, <1>8, Movers DEF vars, gateVars, historyVars

(* The served, the queue and the ring stand in the order of acceptance in every *)
(* reachable state.                                                             *)
THEOREM FifthLayer == Spec => [](Ordered /\ Known)
<1>1. Init => Ordered /\ Known
  BY InitOrdered
<1>2. IInv1 /\ Ordered /\ Known /\ [Next]_vars => Ordered' /\ Known'
  BY ServiceSteps
<1> QED
  BY <1>1, <1>2, FirstLayer, PTL DEF Spec

(* Requests start in the order the ring accepted them, although some are retired from  *)
(* the middle of the queue, rejected at its head, or join a batch that already runs    *)
(* (drainCommandQueue, retireCancelledQueued, admitNextRequest, offerHead).            *)
THEOREM FirstComeFirstServed == Spec => []ServedInOrder
<1>1. IInv1 /\ Ordered => ServedInOrder
  <2> SUFFICES ASSUME IInv1, Ordered, NEW i \in DOMAIN served, NEW j \in DOMAIN served, i < j
               PROVE  Before(served[i], served[j])
    BY DEF ServedInOrder, Before
  <2>1. served[i] \in Requests /\ served[j] \in Requests
    BY ElementOfSeq, LenProperties DEF IInv1, Types, LinesTyped
  <2>2. <<served[i], served[j]>> \in Order
    BY DEF Ordered, InOrder
  <2> QED
    BY <2>1, <2>2, RequestsAssumption DEF Order
<1> QED
  BY <1>1, FirstLayer, FifthLayer, PTL
=============================================================================
