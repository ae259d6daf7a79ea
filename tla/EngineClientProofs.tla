-------------------------- MODULE EngineClientProofs --------------------------
(***************************************************************************)
(* Theorems about EngineClient, for any clients, routes and limits.  First *)
(* the gate: who is parked, who owns the slot and whose lease is held, by  *)
(* the kinds of step that touch them; then the counters; then what the     *)
(* native threads do for whom, and the runtime they use.                   *)
(***************************************************************************)
EXTENDS EngineClient, Integers, FiniteSetTheorems, SequenceTheorems, TLAPS

-----------------------------------------------------------------------------
(* Lines: what joining one, leaving its head and being taken out of its middle do to   *)
(* the set of those who wait in it, and that nobody waits twice.                       *)

(* Nobody waits in an empty line. *)
LEMMA EmptyLine ==
  /\ ToSet(<<>>) = {}
  /\ IsInjective(<<>>)
BY DEF ToSet, IsInjective

(* Appending adds one item, and a newcomer keeps the line free of repetitions. *)
LEMMA JoinLine ==
  ASSUME NEW S, NEW s \in Seq(S), NEW e \in S
  PROVE  /\ Append(s, e) \in Seq(S)
         /\ ToSet(Append(s, e)) = ToSet(s) \cup {e}
         /\ IsInjective(s) /\ e \notin ToSet(s) => IsInjective(Append(s, e))
<1>1. /\ Append(s, e) \in Seq(S)
      /\ Len(Append(s, e)) = Len(s) + 1
      /\ \A i \in 1..Len(s) : Append(s, e)[i] = s[i]
      /\ Append(s, e)[Len(s) + 1] = e
  BY AppendProperties
<1>2. /\ DOMAIN s = 1..Len(s)
      /\ DOMAIN Append(s, e) = 1..(Len(s) + 1)
      /\ Len(s) \in Nat
  BY <1>1, LenProperties
<1>3. ToSet(Append(s, e)) = ToSet(s) \cup {e}
  <2>1. \A i \in 1..(Len(s) + 1) : i \in 1..Len(s) \/ i = Len(s) + 1
    BY <1>2
  <2>2. \A i \in 1..Len(s) : i \in 1..(Len(s) + 1)
    BY <1>2
  <2>3. Len(s) + 1 \in 1..(Len(s) + 1)
    BY <1>2
  <2>4. QED
    BY <1>1, <1>2, <2>1, <2>2, <2>3 DEF ToSet
<1>4. IsInjective(s) /\ e \notin ToSet(s) => IsInjective(Append(s, e))
  BY <1>1, <1>2 DEF ToSet, IsInjective
<1>5. QED
  BY <1>1, <1>3, <1>4

(* The tail holds all but the head; in a line without repetitions the head is gone. *)
LEMMA LeaveLine ==
  ASSUME NEW S, NEW s \in Seq(S), s # <<>>
  PROVE  /\ Head(s) \in S
         /\ Tail(s) \in Seq(S)
         /\ ToSet(s) = ToSet(Tail(s)) \cup {Head(s)}
         /\ IsInjective(s) => IsInjective(Tail(s)) /\ Head(s) \notin ToSet(Tail(s))
<1>1. /\ Head(s) \in S
      /\ Tail(s) \in Seq(S)
      /\ Len(Tail(s)) = Len(s) - 1
      /\ \A i \in 1..Len(Tail(s)) : Tail(s)[i] = s[i + 1]
  BY HeadTailProperties
<1>2. /\ DOMAIN s = 1..Len(s)
      /\ DOMAIN Tail(s) = 1..(Len(s) - 1)
      /\ Len(s) \in Nat \ {0}
      /\ Head(s) = s[1]
  BY <1>1, LenProperties, EmptySeq
<1>3. ToSet(s) = ToSet(Tail(s)) \cup {Head(s)}
  <2>1. ASSUME NEW i \in 1..Len(s) PROVE s[i] \in ToSet(Tail(s)) \cup {Head(s)}
    <3>1. CASE i = 1
      BY <1>2, <3>1
    <3>2. CASE i # 1
      <4>1. i - 1 \in 1..(Len(s) - 1) /\ s[i] = Tail(s)[i - 1]
        BY <1>1, <1>2, <3>2
      <4>2. QED
        BY <1>2, <4>1 DEF ToSet
    <3>3. QED
      BY <3>1, <3>2
  <2>2. ASSUME NEW i \in 1..(Len(s) - 1) PROVE Tail(s)[i] \in ToSet(s)
    <3>1. i + 1 \in 1..Len(s) /\ Tail(s)[i] = s[i + 1]
      BY <1>1, <1>2
    <3>2. QED
      BY <1>2, <3>1 DEF ToSet
  <2>3. Head(s) \in ToSet(s)
    <3>1. 1 \in 1..Len(s)
      BY <1>2
    <3>2. QED
      BY <1>2, <3>1 DEF ToSet
  <2>4. QED
    BY <1>2, <2>1, <2>2, <2>3 DEF ToSet
<1>4. IsInjective(s) => IsInjective(Tail(s)) /\ Head(s) \notin ToSet(Tail(s))
  BY <1>1, <1>2 DEF ToSet, IsInjective
<1>5. QED
  BY <1>1, <1>3, <1>4

(* Taking out the item at a position closes the gap behind it. *)
LEMMA TakeFromLine ==
  ASSUME NEW S, NEW s \in Seq(S), NEW j \in 1..Len(s)
  PROVE  /\ RemoveAt(s, j) \in Seq(S)
         /\ Len(RemoveAt(s, j)) = Len(s) - 1
         /\ \A i \in 1..(Len(s) - 1) : RemoveAt(s, j)[i] = IF i < j THEN s[i] ELSE s[i + 1]
<1> DEFINE t == RemoveAt(s, j)
<1>0. /\ Len(s) \in Nat
      /\ DOMAIN s = 1..Len(s)
      /\ s[j] \in S
  BY LenProperties, ElementOfSeq
<1>1. /\ SubSeq(s, 1, j - 1) \in Seq(S)
      /\ Len(SubSeq(s, 1, j - 1)) = j - 1
      /\ \A i \in 1..(j - 1) : SubSeq(s, 1, j - 1)[i] = s[i]
  <2>1. \A i \in 1..(j - 1) : s[i] \in S
    BY <1>0, ElementOfSeq
  <2>2. QED
    BY <1>0, <2>1, SubSeqProperties
<1>2. /\ SubSeq(s, j + 1, Len(s)) \in Seq(S)
      /\ Len(SubSeq(s, j + 1, Len(s))) = Len(s) - j
      /\ \A i \in 1..(Len(s) - j) : SubSeq(s, j + 1, Len(s))[i] = s[j + i]
  <2>1. \A i \in (j + 1)..Len(s) : s[i] \in S
    BY <1>0, ElementOfSeq
  <2>2. j + 1 \in Int /\ Len(s) \in Int
    BY <1>0
  <2>3. /\ SubSeq(s, j + 1, Len(s)) \in Seq(S)
        /\ Len(SubSeq(s, j + 1, Len(s))) =
             IF j + 1 <= Len(s) THEN Len(s) - (j + 1) + 1 ELSE 0
        /\ \A i \in 1..(Len(s) - (j + 1) + 1) :
             SubSeq(s, j + 1, Len(s))[i] = s[(j + 1) + i - 1]
    BY <2>1, <2>2, SubSeqProperties
  <2>4. Len(SubSeq(s, j + 1, Len(s))) = Len(s) - j
    <3>1. CASE j + 1 <= Len(s)
      BY <1>0, <2>3, <3>1
    <3>2. CASE ~(j + 1 <= Len(s))
      <4>0. j \in Int /\ Len(s) \in Int /\ j <= Len(s)
        BY <1>0
      <4>1. j = Len(s)
        BY <4>0, <3>2
      <4>2. QED
        BY <1>0, <2>3, <3>2, <4>1
    <3>3. QED
      BY <3>1, <3>2
  <2>5. ASSUME NEW i \in 1..(Len(s) - j)
        PROVE  SubSeq(s, j + 1, Len(s))[i] = s[j + i]
    <3>1. i \in 1..(Len(s) - (j + 1) + 1) /\ (j + 1) + i - 1 = j + i
      BY <1>0
    <3>2. QED
      BY <2>3, <3>1
  <2>6. QED
    BY <2>3, <2>4, <2>5
<1>3. /\ t \in Seq(S)
      /\ Len(t) = Len(s) - 1
      /\ \A i \in 1..(Len(s) - 1) : t[i] = IF i < j THEN s[i] ELSE s[i + 1]
  <2> DEFINE u == SubSeq(s, 1, j - 1)
             v == SubSeq(s, j + 1, Len(s))
  <2>1. /\ u \o v \in Seq(S)
        /\ Len(u \o v) = Len(u) + Len(v)
        /\ \A i \in 1..(Len(u) + Len(v)) :
             (u \o v)[i] = IF i <= Len(u) THEN u[i] ELSE v[i - Len(u)]
    BY <1>1, <1>2, ConcatProperties
  <2>2. Len(u) = j - 1 /\ Len(v) = Len(s) - j /\ Len(u) + Len(v) = Len(s) - 1
    <3>1. Len(u) = j - 1 /\ Len(v) = Len(s) - j
      BY <1>1, <1>2
    <3> HIDE DEF u, v
    <3>2. QED
      BY <1>0, <3>1
  <2>3. t = u \o v
    BY DEF RemoveAt
  <2>4. ASSUME NEW i \in 1..(Len(s) - 1)
        PROVE  t[i] = IF i < j THEN s[i] ELSE s[i + 1]
    <3> HIDE DEF t, u, v
    <3>1. CASE i < j
      <4>1. i \in 1..(j - 1) /\ i <= Len(u)
        BY <1>0, <2>2, <3>1
      <4>2. u[i] = s[i]
        BY <1>1, <4>1 DEF u
      <4>3. QED
        BY <2>1, <2>2, <2>3, <3>1, <4>1, <4>2
    <3>2. CASE ~(i < j)
      <4>1. i - (j - 1) \in 1..(Len(s) - j) /\ ~(i <= Len(u)) /\ j + (i - (j - 1)) = i + 1
        BY <1>0, <2>2, <3>2
      <4>2. v[i - (j - 1)] = s[i + 1]
        BY <1>2, <4>1 DEF v
      <4>3. QED
        BY <2>1, <2>2, <2>3, <3>2, <4>1, <4>2
    <3>3. QED
      BY <3>1, <3>2
  <2>5. QED
    BY <2>1, <2>2, <2>3, <2>4
<1> QED
  BY <1>3 DEF t

(* It takes out that item and keeps the others. *)
LEMMA RemoveFromLine ==
  ASSUME NEW S, NEW s \in Seq(S), NEW j \in 1..Len(s)
  PROVE  /\ s[j] \in S
         /\ RemoveAt(s, j) \in Seq(S)
         /\ ToSet(s) = ToSet(RemoveAt(s, j)) \cup {s[j]}
         /\ IsInjective(s) => IsInjective(RemoveAt(s, j)) /\ s[j] \notin ToSet(RemoveAt(s, j))
<1> DEFINE t == RemoveAt(s, j)
<1>0. /\ Len(s) \in Nat
      /\ DOMAIN s = 1..Len(s)
      /\ s[j] \in S
  BY LenProperties, ElementOfSeq
<1>3. /\ t \in Seq(S)
      /\ Len(t) = Len(s) - 1
      /\ \A i \in 1..(Len(s) - 1) : t[i] = IF i < j THEN s[i] ELSE s[i + 1]
  BY TakeFromLine
<1> HIDE DEF t
<1>4. DOMAIN t = 1..(Len(s) - 1)
  BY <1>3, LenProperties
<1>5. ToSet(s) = ToSet(t) \cup {s[j]}
  <2>1. ASSUME NEW i \in 1..Len(s) PROVE s[i] \in ToSet(t) \cup {s[j]}
    <3>1. CASE i < j
      <4>1. i \in 1..(Len(s) - 1) /\ t[i] = s[i]
        BY <1>0, <1>3, <3>1
      <4>2. QED
        BY <1>4, <4>1 DEF ToSet
    <3>2. CASE i > j
      <4>1. i - 1 \in 1..(Len(s) - 1) /\ ~(i - 1 < j) /\ (i - 1) + 1 = i
        BY <1>0, <3>2
      <4>2. t[i - 1] = s[i]
        BY <1>3, <4>1
      <4>3. QED
        BY <1>4, <4>1, <4>2 DEF ToSet
    <3>3. QED
      BY <1>0, <3>1, <3>2
  <2>2. ASSUME NEW i \in 1..(Len(s) - 1) PROVE t[i] \in ToSet(s)
    <3>1. i \in 1..Len(s) /\ i + 1 \in 1..Len(s)
      BY <1>0
    <3>2. QED
      BY <1>0, <1>3, <3>1 DEF ToSet
  <2>3. s[j] \in ToSet(s)
    BY <1>0 DEF ToSet
  <2>4. QED
    BY <1>0, <1>4, <2>1, <2>2, <2>3 DEF ToSet
<1>6. IsInjective(s) => IsInjective(t) /\ s[j] \notin ToSet(t)
  <2> SUFFICES ASSUME IsInjective(s) PROVE IsInjective(t) /\ s[j] \notin ToSet(t)
    OBVIOUS
  <2> DEFINE from(i) == IF i < j THEN i ELSE i + 1
  <2>1. ASSUME NEW i \in 1..(Len(s) - 1)
        PROVE  from(i) \in 1..Len(s) /\ from(i) # j /\ t[i] = s[from(i)]
    BY <1>0, <1>3
  <2>2. ASSUME NEW a \in 1..(Len(s) - 1), NEW b \in 1..(Len(s) - 1), from(a) = from(b)
        PROVE  a = b
    BY <1>0, <2>2
  <2> HIDE DEF from
  <2>3. ASSUME NEW a \in 1..(Len(s) - 1), NEW b \in 1..(Len(s) - 1), t[a] = t[b]
        PROVE  a = b
    <3>1. s[from(a)] = s[from(b)] /\ from(a) \in DOMAIN s /\ from(b) \in DOMAIN s
      BY <1>0, <2>1, <2>3
    <3>2. QED
      BY <2>2, <3>1 DEF IsInjective
  <2>4. ASSUME NEW a \in 1..(Len(s) - 1) PROVE t[a] # s[j]
    <3>1. from(a) \in DOMAIN s /\ j \in DOMAIN s /\ t[a] = s[from(a)] /\ from(a) # j
      BY <1>0, <2>1
    <3>2. QED
      BY <3>1 DEF IsInjective
  <2>5. DOMAIN t = 1..(Len(s) - 1)
    BY <1>4
  <2>6. IsInjective(t)
    BY <2>3, <2>5 DEF IsInjective
  <2>7. QED
    BY <2>4, <2>5, <2>6 DEF ToSet
<1>7. QED
  BY <1>0, <1>3, <1>5, <1>6 DEF t

-----------------------------------------------------------------------------
Pcs == {"idle", "queued", "granted", "preparing", "running", "sending", "next", "joining",
        "finally", "finallyEarly", "finalizing", "ending", "abandoned", "llm", "done"}
Owning == {"preparing", "running", "sending", "next", "joining", "finally", "finallyEarly",
           "finalizing"}
Gone == {"joining", "finallyEarly", "finalizing", "abandoned"}

(* The gate and the leases. *)
GateTyped == /\ ifb \in BOOLEAN
             /\ slot \in {0, 1}
             /\ waiters \in Seq(Tasks)
             /\ pc \in [Tasks -> Pcs]
             /\ lease \in [Clients -> {"none", "held", "released"}]
             /\ closing \in BOOLEAN
             /\ drained \in BOOLEAN

Places ==
  /\ pc[Closer] \in {"idle", "queued", "granted", "llm", "done"}
  /\ closing <=> pc[Closer] # "idle"
  /\ drained <=> pc[Closer] \in {"llm", "done"}
  /\ ifb => \A t \in Tasks : pc[t] # "granted"
  /\ \A c \in Clients : /\ pc[c] # "llm"
                        /\ pc[c] \in {"idle", "queued", "granted"} => lease[c] = "none"
                        /\ pc[c] \in {"done", "ending"} => lease[c] # "held"
                        /\ pc[c] \in Owning => lease[c] = "held"
                        /\ ifb => pc[c] # "queued"

Line == /\ IsInjective(waiters)
        /\ ifb => waiters = <<>>
        /\ ~ifb => ToSet(waiters) = {t \in Tasks : pc[t] = "queued"}
        /\ slot = 1 => waiters = <<>>

OneOwner == ~ifb => /\ slot = 1 <=> Owners = {}
                    /\ \A s, t \in Owners : s = t

GateInv == GateTyped /\ Places /\ Line /\ OneOwner

(* What a step of t may do to the others: the head of the line is granted the slot. *)
Elsewhere(t) ==
  \A u \in Tasks : u # t => pc'[u] = pc[u] \/ (pc[u] = "queued" /\ pc'[u] = "granted")

frame == <<ifb, closing, drained>>

(* The gate opens with nobody in it. *)
LEMMA InitGate == Init => GateInv
<1> SUFFICES ASSUME Init PROVE GateInv
  OBVIOUS
<1>1. GateTyped
  BY EmptySeq, LimitsAssumption DEF Init, GateTyped, Tasks, Pcs
<1>2. Places
  BY DEF Init, Places, Tasks, Owning
<1>3. Line
  BY EmptyLine DEF Init, Line
<1>4. OneOwner
  BY DEF Init, OneOwner, Owners, Held, Tasks
<1>5. QED
  BY <1>1, <1>2, <1>3, <1>4 DEF GateInv

(* Handing the slot over frees it or grants it to the head of the line. *)
LEMMA HandingOver ==
  ASSUME GateInv, ~ifb, NEW t \in Tasks, NEW next \in Pcs, pc[t] # "queued", HandOver(t, next)
  PROVE  /\ slot' \in {0, 1} /\ waiters' \in Seq(Tasks) /\ IsInjective(waiters')
         /\ pc' \in [Tasks -> Pcs]
         /\ pc'[t] = next
         /\ slot' = 1 => waiters' = <<>>
         /\ \/ /\ waiters = <<>> /\ waiters' = <<>> /\ slot' = 1
               /\ \A u \in Tasks : u # t => pc'[u] = pc[u]
            \/ \E h \in Tasks : /\ h # t /\ pc[h] = "queued" /\ pc'[h] = "granted"
                               /\ slot' = slot /\ slot = 0
                               /\ ToSet(waiters') = ToSet(waiters) \ {h}
                               /\ \A u \in Tasks : u # t /\ u # h => pc'[u] = pc[u]
<1>0. GateTyped /\ Line
  BY DEF GateInv
<1>1. CASE waiters = <<>>
  BY <1>0, <1>1, EmptyLine DEF HandOver, GateTyped
<1>2. CASE waiters # <<>>
  <2> DEFINE h == Head(waiters)
  <2>1. /\ h \in Tasks /\ Tail(waiters) \in Seq(Tasks)
        /\ ToSet(waiters) = ToSet(Tail(waiters)) \cup {h}
        /\ IsInjective(Tail(waiters)) /\ h \notin ToSet(Tail(waiters))
    BY <1>0, <1>2, LeaveLine DEF Line, GateTyped
  <2>2. pc[h] = "queued" /\ h # t
    BY <1>0, <2>1 DEF Line
  <2>3. waiters' = Tail(waiters) /\ pc' = [pc EXCEPT ![t] = next, ![h] = "granted"] /\ slot' = slot
    BY <1>2 DEF HandOver
  <2>4. slot = 0
    BY <1>0, <1>2 DEF Line, GateTyped
  <2>5. /\ pc' \in [Tasks -> Pcs] /\ pc'[t] = next /\ pc'[h] = "granted"
        /\ \A u \in Tasks : u # t /\ u # h => pc'[u] = pc[u]
    BY <1>0, <2>1, <2>2, <2>3 DEF GateTyped, Pcs
  <2>6. ToSet(waiters') = ToSet(waiters) \ {h}
    BY <2>1, <2>3
  <2> HIDE DEF h
  <2>7. QED
    BY <2>1, <2>2, <2>3, <2>4, <2>5, <2>6
<1>3. QED
  BY <1>1, <1>2

(* A task that goes on without touching the gate. *)
LEMMA Moving ==
  ASSUME GateInv, NEW c \in Clients, NEW next \in Pcs,
         pc[c] \notin {"queued", "granted"}, next \notin {"idle", "queued", "granted", "llm"},
         next \in Owning => lease[c] = "held",
         next \in {"done", "ending"} => lease[c] # "held",
         pc' = [pc EXCEPT ![c] = next], UNCHANGED <<slot, waiters, lease, frame>>
  PROVE  GateInv' /\ Elsewhere(c) /\ pc'[c] = next
<1>0. GateTyped /\ Places /\ Line /\ OneOwner
  BY DEF GateInv
<1>1. /\ c \in Tasks /\ c # Closer /\ pc' \in [Tasks -> Pcs] /\ pc'[c] = next
      /\ \A u \in Tasks : u # c => pc'[u] = pc[u]
  BY <1>0, ClientsAssumption DEF GateTyped, Tasks
<1>2. GateTyped'
  BY <1>0, <1>1 DEF GateTyped, frame
<1>3. Places'
  BY <1>0, <1>1 DEF Places, Owning, frame, Tasks
<1>4. {t \in Tasks : pc'[t] = "queued"} = {t \in Tasks : pc[t] = "queued"}
  BY <1>1
<1>5. Line'
  BY <1>0, <1>4 DEF Line, frame
<1>6. Owners' = Owners
  BY <1>1 DEF Owners, Held, frame
<1>7. OneOwner'
  BY <1>0, <1>6 DEF OneOwner, frame
<1>8. QED
  BY <1>1, <1>2, <1>3, <1>5, <1>7 DEF GateInv, Elsewhere

(* A lease released, or found released already. *)
LEMMA Releasing ==
  ASSUME GateInv, NEW c \in Clients, NEW next \in {"done", "ending", "abandoned"},
         pc[c] \in Owning \cup {"ending"}, Release(c, next), UNCHANGED frame
  PROVE  /\ GateInv' /\ Elsewhere(c) /\ pc'[c] = next
         /\ waiting' = waiting
         /\ \/ /\ lease[c] = "held" /\ lease' = [lease EXCEPT ![c] = "released"]
               /\ active' = IF ifb THEN active - 1 ELSE 0
            \/ lease[c] # "held" /\ lease' = lease /\ active' = active
<1>0. /\ GateTyped /\ Places /\ Line /\ OneOwner
      /\ c \in Tasks /\ c # Closer /\ next \in Pcs /\ next \notin Owning
      /\ pc[c] \notin {"queued", "granted", "idle", "llm"}
  BY ClientsAssumption DEF GateInv, Tasks, Pcs, Owning
<1>1. CASE lease[c] # "held"
  <2>1. /\ pc' = [pc EXCEPT ![c] = next]
        /\ UNCHANGED <<slot, waiters, active, waiting, lease, frame>>
    BY <1>1 DEF Release
  <2>2. GateInv' /\ Elsewhere(c) /\ pc'[c] = next
    BY <1>0, <1>1, <2>1, Moving
  <2>3. QED
    BY <1>1, <2>1, <2>2
<1>2. CASE lease[c] = "held" /\ ifb
  <2>1. /\ lease' = [lease EXCEPT ![c] = "released"] /\ active' = active - 1
        /\ pc' = [pc EXCEPT ![c] = next] /\ UNCHANGED <<slot, waiters, waiting, frame>>
    BY <1>2 DEF Release
  <2>2. /\ pc' \in [Tasks -> Pcs] /\ pc'[c] = next
        /\ \A u \in Tasks : u # c => pc'[u] = pc[u]
        /\ lease' \in [Clients -> {"none", "held", "released"}] /\ lease'[c] = "released"
        /\ \A d \in Clients : d # c => lease'[d] = lease[d]
    BY <1>0, <2>1 DEF GateTyped
  <2>3. GateTyped'
    BY <1>0, <2>1, <2>2 DEF GateTyped, frame
  <2>4. Places'
    BY <1>0, <2>1, <2>2 DEF Places, Owning, frame, Tasks
  <2>5. Line' /\ OneOwner'
    BY <1>0, <1>2, <2>1 DEF Line, OneOwner, frame
  <2>6. QED
    BY <1>2, <2>1, <2>2, <2>3, <2>4, <2>5 DEF GateInv, Elsewhere
<1>3. CASE lease[c] = "held" /\ ~ifb
  <2>1. /\ lease' = [lease EXCEPT ![c] = "released"] /\ active' = 0
        /\ HandOver(c, next) /\ UNCHANGED <<waiting, frame>>
    BY <1>3 DEF Release
  <2>2. /\ lease' \in [Clients -> {"none", "held", "released"}] /\ lease'[c] = "released"
        /\ \A d \in Clients : d # c => lease'[d] = lease[d]
    BY <1>0, <2>1 DEF GateTyped
  <2>3. c \in Owners
    BY <1>3 DEF Owners, Held
  <2>4. \A t \in Owners : t = c
    BY <1>0, <1>3, <2>3 DEF OneOwner
  <2>5. /\ slot' \in {0, 1} /\ waiters' \in Seq(Tasks) /\ IsInjective(waiters')
        /\ pc' \in [Tasks -> Pcs]
        /\ pc'[c] = next
        /\ slot' = 1 => waiters' = <<>>
        /\ \/ /\ waiters = <<>> /\ waiters' = <<>> /\ slot' = 1
              /\ \A u \in Tasks : u # c => pc'[u] = pc[u]
           \/ \E h \in Tasks : /\ h # c /\ pc[h] = "queued" /\ pc'[h] = "granted"
                              /\ slot' = slot /\ slot = 0
                              /\ ToSet(waiters') = ToSet(waiters) \ {h}
                              /\ \A u \in Tasks : u # c /\ u # h => pc'[u] = pc[u]
    BY <1>0, <1>3, <2>1, HandingOver
  <2>6. GateTyped'
    BY <1>0, <2>2, <2>5, <2>1 DEF GateTyped, frame
  <2>7. CASE /\ waiters = <<>> /\ waiters' = <<>> /\ slot' = 1
             /\ \A u \in Tasks : u # c => pc'[u] = pc[u]
    <3>1. Places'
      BY <1>0, <1>3, <2>1, <2>2, <2>5, <2>7 DEF Places, Owning, frame, Tasks
    <3>2. {t \in Tasks : pc'[t] = "queued"} = {t \in Tasks : pc[t] = "queued"}
      BY <1>0, <2>5, <2>7
    <3>3. Line'
      BY <1>0, <1>3, <2>1, <2>5, <2>7, <3>2 DEF Line, frame
    <3>4. Owners' = {}
      BY <1>0, <2>1, <2>2, <2>4, <2>5, <2>7 DEF Owners, Held, frame, Tasks
    <3>5. QED
      BY <2>1, <2>2, <2>5, <2>6, <2>7, <1>3, <3>1, <3>3, <3>4 DEF GateInv, OneOwner, Elsewhere
  <2>8. CASE \E h \in Tasks : /\ h # c /\ pc[h] = "queued" /\ pc'[h] = "granted"
                            /\ slot' = slot /\ slot = 0
                            /\ ToSet(waiters') = ToSet(waiters) \ {h}
                            /\ \A u \in Tasks : u # c /\ u # h => pc'[u] = pc[u]
    <3> PICK h \in Tasks : /\ h # c /\ pc[h] = "queued" /\ pc'[h] = "granted"
                          /\ slot' = slot /\ slot = 0
                          /\ ToSet(waiters') = ToSet(waiters) \ {h}
                          /\ \A u \in Tasks : u # c /\ u # h => pc'[u] = pc[u]
      BY <2>8
    <3>1. Places'
      BY <1>0, <1>3, <2>1, <2>2, <2>5 DEF Places, Owning, frame, Tasks
    <3>2. {t \in Tasks : pc'[t] = "queued"} = {t \in Tasks : pc[t] = "queued"} \ {h}
      BY <1>0, <2>5
    <3>3. Line'
      BY <1>0, <1>3, <2>1, <2>5, <3>2 DEF Line, frame
    <3>4. Owners' = {h}
      BY <1>0, <2>1, <2>2, <2>4, <2>5 DEF Owners, Held, Places, frame, Tasks
    <3>5. QED
      BY <2>1, <2>2, <2>5, <2>6, <1>3, <3>1, <3>3, <3>4 DEF GateInv, OneOwner, Elsewhere
  <2>9. QED
    BY <2>5, <2>7, <2>8
<1>4. QED
  BY <1>1, <1>2, <1>3

(* A slot that was granted is passed on unused. *)
LEMMA Passing ==
  ASSUME GateInv, NEW c \in Clients, pc[c] = "granted", HandOver(c, "done"),
         UNCHANGED <<lease, frame>>
  PROVE  GateInv' /\ Elsewhere(c) /\ pc'[c] = "done"
<1>0. /\ GateTyped /\ Places /\ Line /\ OneOwner /\ ~ifb
      /\ c \in Tasks /\ c # Closer /\ lease[c] = "none" /\ "done" \in Pcs
  BY ClientsAssumption DEF GateInv, Tasks, Places, Pcs
<1>1. c \in Owners
  BY <1>0 DEF Owners
<1>2. \A t \in Owners : t = c
  BY <1>0, <1>1 DEF OneOwner
<1>3. /\ slot' \in {0, 1} /\ waiters' \in Seq(Tasks) /\ IsInjective(waiters')
      /\ pc' \in [Tasks -> Pcs]
      /\ pc'[c] = "done"
      /\ slot' = 1 => waiters' = <<>>
      /\ \/ /\ waiters = <<>> /\ waiters' = <<>> /\ slot' = 1
            /\ \A u \in Tasks : u # c => pc'[u] = pc[u]
         \/ \E h \in Tasks : /\ h # c /\ pc[h] = "queued" /\ pc'[h] = "granted"
                            /\ slot' = slot /\ slot = 0
                            /\ ToSet(waiters') = ToSet(waiters) \ {h}
                            /\ \A u \in Tasks : u # c /\ u # h => pc'[u] = pc[u]
  BY <1>0, HandingOver
<1>4. GateTyped'
  BY <1>0, <1>3 DEF GateTyped, frame
<1>5. CASE /\ waiters = <<>> /\ waiters' = <<>> /\ slot' = 1
           /\ \A u \in Tasks : u # c => pc'[u] = pc[u]
  <2>1. Places'
    BY <1>0, <1>3, <1>5 DEF Places, Owning, frame, Tasks
  <2>2. {t \in Tasks : pc'[t] = "queued"} = {t \in Tasks : pc[t] = "queued"}
    BY <1>3, <1>5
  <2>3. Line'
    BY <1>0, <1>3, <1>5, <2>2 DEF Line, frame
  <2>4. Owners' = {}
    BY <1>0, <1>2, <1>3, <1>5 DEF Owners, Held, frame, Tasks
  <2>5. QED
    BY <1>0, <1>3, <1>4, <1>5, <2>1, <2>3, <2>4 DEF GateInv, OneOwner, Elsewhere, frame
<1>6. CASE \E h \in Tasks : /\ h # c /\ pc[h] = "queued" /\ pc'[h] = "granted"
                          /\ slot' = slot /\ slot = 0
                          /\ ToSet(waiters') = ToSet(waiters) \ {h}
                          /\ \A u \in Tasks : u # c /\ u # h => pc'[u] = pc[u]
  <2> PICK h \in Tasks : /\ h # c /\ pc[h] = "queued" /\ pc'[h] = "granted"
                        /\ slot' = slot /\ slot = 0
                        /\ ToSet(waiters') = ToSet(waiters) \ {h}
                        /\ \A u \in Tasks : u # c /\ u # h => pc'[u] = pc[u]
    BY <1>6
  <2>1. Places'
    BY <1>0, <1>3 DEF Places, Owning, frame, Tasks
  <2>2. {t \in Tasks : pc'[t] = "queued"} = {t \in Tasks : pc[t] = "queued"} \ {h}
    BY <1>0, <1>3
  <2>3. Line'
    BY <1>0, <1>3, <2>2 DEF Line, frame
  <2>4. Owners' = {h}
    BY <1>0, <1>2, <1>3 DEF Owners, Held, Places, frame, Tasks
  <2>5. QED
    BY <1>0, <1>3, <1>4, <2>1, <2>3, <2>4 DEF GateInv, OneOwner, Elsewhere, frame
<1>7. QED
  BY <1>3, <1>5, <1>6

(* A reservation that parks, or takes the slot on its way. *)
LEMMA Parking ==
  ASSUME GateInv, ~ifb, NEW t \in Tasks, pc[t] = "idle", Acquire(t), UNCHANGED <<ifb, lease, drained>>,
         closing' = (closing \/ t = Closer), t # Closer => lease[t] = "none"
  PROVE  GateInv' /\ Elsewhere(t) /\ pc'[t] \in {"queued", "granted"}
<1>0. GateTyped /\ Places /\ Line /\ OneOwner
  BY DEF GateInv
<1>1. CASE slot = 1 /\ waiters = <<>>
  <2>1. slot' = 0 /\ pc' = [pc EXCEPT ![t] = "granted"] /\ waiters' = waiters
    BY <1>1 DEF Acquire
  <2>2. /\ pc' \in [Tasks -> Pcs] /\ pc'[t] = "granted"
        /\ \A u \in Tasks : u # t => pc'[u] = pc[u]
    BY <1>0, <2>1 DEF GateTyped, Pcs
  <2>3. GateTyped'
    BY <1>0, <2>1, <2>2 DEF GateTyped
  <2>4. Places'
    BY <1>0, <2>1, <2>2, ClientsAssumption DEF Places, Owning, Tasks
  <2>5. {u \in Tasks : pc'[u] = "queued"} = {u \in Tasks : pc[u] = "queued"}
    BY <2>2
  <2>6. Line'
    BY <1>0, <2>1, <2>5 DEF Line
  <2>7. Owners' = {t}
    BY <1>0, <1>1, <2>2 DEF OneOwner, Owners, Held
  <2>8. QED
    BY <2>1, <2>2, <2>3, <2>4, <2>6, <2>7 DEF GateInv, OneOwner, Elsewhere
<1>2. CASE ~(slot = 1 /\ waiters = <<>>)
  <2>1. slot' = slot /\ pc' = [pc EXCEPT ![t] = "queued"] /\ waiters' = Append(waiters, t)
    BY <1>2 DEF Acquire
  <2>2. /\ pc' \in [Tasks -> Pcs] /\ pc'[t] = "queued"
        /\ \A u \in Tasks : u # t => pc'[u] = pc[u]
    BY <1>0, <2>1 DEF GateTyped, Pcs
  <2>3. /\ waiters' \in Seq(Tasks)
        /\ ToSet(waiters') = ToSet(waiters) \cup {t}
        /\ IsInjective(waiters')
    <3>1. t \notin ToSet(waiters) /\ IsInjective(waiters) /\ waiters \in Seq(Tasks)
      BY <1>0 DEF Line, GateTyped
    <3>2. QED
      BY <2>1, <3>1, JoinLine
  <2>4. GateTyped'
    BY <1>0, <2>1, <2>2, <2>3 DEF GateTyped
  <2>5. Places'
    BY <1>0, <2>1, <2>2, ClientsAssumption DEF Places, Owning, Tasks
  <2>6. {u \in Tasks : pc'[u] = "queued"} = {u \in Tasks : pc[u] = "queued"} \cup {t}
    BY <2>2
  <2>7. slot = 0
    BY <1>0, <1>2 DEF Line, GateTyped
  <2>8. Line'
    BY <1>0, <2>1, <2>3, <2>6, <2>7 DEF Line
  <2>9. Owners' = Owners
    BY <1>0, <2>2 DEF Owners, Held
  <2>10. QED
    BY <1>0, <2>1, <2>2, <2>4, <2>5, <2>8, <2>9 DEF GateInv, OneOwner, Elsewhere
<1>3. QED
  BY <1>1, <1>2

(* A request that leaves the line, or passes a slot it was just granted on. *)
LEMMA Leaving ==
  ASSUME GateInv, NEW c \in Clients, pc[c] \in {"queued", "granted"}, Leave(c)
  PROVE  GateInv' /\ Elsewhere(c) /\ pc'[c] = "done"
<1>0. /\ GateTyped /\ Places /\ Line /\ OneOwner /\ ~ifb
      /\ c \in Tasks /\ c # Closer /\ lease[c] = "none" /\ "done" \in Pcs
      /\ UNCHANGED <<lease, frame>>
  BY ClientsAssumption DEF GateInv, Tasks, Places, Leave, frame, Pcs
<1>1. CASE pc[c] = "queued"
  <2>1. PICK i \in DOMAIN waiters : waiters[i] = c /\ waiters' = RemoveAt(waiters, i)
    BY <1>1 DEF Leave
  <2>2. pc' = [pc EXCEPT ![c] = "done"] /\ slot' = slot
    BY <1>1 DEF Leave
  <2>3. /\ waiters' \in Seq(Tasks)
        /\ ToSet(waiters) = ToSet(waiters') \cup {c}
        /\ IsInjective(waiters') /\ c \notin ToSet(waiters')
    <3>1. i \in 1..Len(waiters) /\ waiters \in Seq(Tasks) /\ IsInjective(waiters)
      BY <1>0, LenProperties DEF Line, GateTyped
    <3>2. QED
      BY <2>1, <3>1, RemoveFromLine
  <2>4. /\ pc' \in [Tasks -> Pcs] /\ pc'[c] = "done"
        /\ \A u \in Tasks : u # c => pc'[u] = pc[u]
    BY <1>0, <2>2 DEF GateTyped
  <2>5. GateTyped'
    BY <1>0, <2>2, <2>3, <2>4 DEF GateTyped, frame
  <2>6. Places'
    BY <1>0, <2>2, <2>4 DEF Places, Owning, frame, Tasks
  <2>7. {u \in Tasks : pc'[u] = "queued"} = {u \in Tasks : pc[u] = "queued"} \ {c}
    BY <1>1, <2>4
  <2>8. waiters # <<>>
    BY <1>0, <1>1, EmptyLine DEF Line
  <2>9. Line'
    BY <1>0, <2>2, <2>3, <2>7, <2>8 DEF Line, frame
  <2>10. Owners' = Owners
    BY <1>0, <1>1, <2>4 DEF Owners, Held, frame
  <2>11. QED
    BY <1>0, <2>2, <2>4, <2>5, <2>6, <2>9, <2>10 DEF GateInv, OneOwner, Elsewhere, frame
<1>2. CASE pc[c] = "granted"
  <2>1. HandOver(c, "done")
    BY <1>2 DEF Leave
  <2>2. QED
    BY <1>0, <1>2, <2>1, Passing
<1>3. QED
  BY <1>1, <1>2

(* A lease taken, from the slot that was granted or from the engine's gate. *)
LEMMA Taking ==
  ASSUME GateInv, NEW c \in Clients, NEW next \in {"preparing", "next"},
         ~ifb => pc[c] = "granted", ifb => pc[c] = "idle", ~closing,
         pc' = [pc EXCEPT ![c] = next], lease' = [lease EXCEPT ![c] = "held"],
         UNCHANGED <<slot, waiters, frame>>
  PROVE  GateInv' /\ Elsewhere(c) /\ pc'[c] = next
<1>0. /\ GateTyped /\ Places /\ Line /\ OneOwner
      /\ c \in Tasks /\ c # Closer /\ next \in Pcs /\ next \in Owning
  BY ClientsAssumption DEF GateInv, Tasks, Pcs, Owning
<1>1. /\ pc' \in [Tasks -> Pcs] /\ pc'[c] = next
      /\ \A u \in Tasks : u # c => pc'[u] = pc[u]
      /\ lease' \in [Clients -> {"none", "held", "released"}] /\ lease'[c] = "held"
      /\ \A d \in Clients : d # c => lease'[d] = lease[d]
  BY <1>0 DEF GateTyped
<1>2. GateTyped'
  BY <1>0, <1>1 DEF GateTyped, frame
<1>3. Places'
  BY <1>0, <1>1 DEF Places, Owning, frame, Tasks
<1>4. {u \in Tasks : pc'[u] = "queued"} = {u \in Tasks : pc[u] = "queued"}
  BY <1>0, <1>1 DEF GateTyped
<1>5. Line'
  BY <1>0, <1>1, <1>4 DEF Line, frame
<1>6. ~ifb => Owners = {c} /\ Owners' = {c}
  <2> SUFFICES ASSUME ~ifb PROVE Owners = {c} /\ Owners' = {c}
    OBVIOUS
  <2>1. Owners = {c}
    BY <1>0 DEF OneOwner, Owners
  <2>2. QED
    BY <1>0, <1>1, <2>1 DEF Owners, Held, frame, Tasks
<1>7. OneOwner'
  BY <1>0, <1>6 DEF OneOwner, frame
<1>8. QED
  BY <1>1, <1>2, <1>3, <1>5, <1>7 DEF GateInv, Elsewhere

(* The shutdown takes its place in the line, and the slot when it drained. *)
LEMMA Closing == GateInv /\ Close => GateInv' /\ Elsewhere(Closer)
<1> SUFFICES ASSUME GateInv, Close PROVE GateInv' /\ Elsewhere(Closer)
  OBVIOUS
<1>0. /\ GateTyped /\ Places /\ Line /\ OneOwner /\ Closer \in Tasks
      /\ pc[Closer] = "idle" /\ closing' = TRUE /\ UNCHANGED <<ifb, lease, drained>>
  BY DEF GateInv, Close, Tasks
<1>1. CASE ~ifb
  <2>1. Acquire(Closer) /\ closing' = (closing \/ Closer = Closer)
    BY <1>0, <1>1 DEF Close
  <2>2. QED
    BY <1>0, <1>1, <2>1, Parking
<1>2. CASE ifb
  <2>1. pc' = [pc EXCEPT ![Closer] = "queued"] /\ UNCHANGED <<slot, waiters>>
    BY <1>2 DEF Close
  <2>2. /\ pc' \in [Tasks -> Pcs] /\ pc'[Closer] = "queued"
        /\ \A u \in Tasks : u # Closer => pc'[u] = pc[u]
    BY <1>0, <2>1 DEF GateTyped, Pcs
  <2>3. GateTyped'
    BY <1>0, <2>1, <2>2 DEF GateTyped
  <2>4. Places'
    BY <1>0, <2>2, ClientsAssumption DEF Places, Owning, Tasks
  <2>5. Line' /\ OneOwner'
    BY <1>0, <1>2, <2>1 DEF Line, OneOwner
  <2>6. QED
    BY <2>2, <2>3, <2>4, <2>5 DEF GateInv, Elsewhere
<1>3. QED
  BY <1>1, <1>2

(* The drain of shutdown touches no lease. *)
LEMMA Draining == GateInv /\ Drained => GateInv' /\ Elsewhere(Closer)
<1> SUFFICES ASSUME GateInv, Drained PROVE GateInv' /\ Elsewhere(Closer)
  OBVIOUS
<1>0. /\ GateTyped /\ Places /\ Line /\ OneOwner /\ Closer \in Tasks
      /\ drained' = TRUE /\ pc' = [pc EXCEPT ![Closer] = "llm"]
      /\ UNCHANGED <<ifb, slot, waiters, lease, closing>>
      /\ pc[Closer] = "granted" \/ (ifb /\ pc[Closer] = "queued")
  BY DEF GateInv, Drained, Tasks
<1>1. /\ pc' \in [Tasks -> Pcs] /\ pc'[Closer] = "llm"
      /\ \A u \in Tasks : u # Closer => pc'[u] = pc[u]
  BY <1>0 DEF GateTyped, Pcs
<1>2. GateTyped'
  BY <1>0, <1>1 DEF GateTyped
<1>3. Places'
  BY <1>0, <1>1, ClientsAssumption DEF Places, Owning, Tasks
<1>4. Line'
  <2>1. ~ifb => {u \in Tasks : pc'[u] = "queued"} = {u \in Tasks : pc[u] = "queued"}
    BY <1>0, <1>1
  <2>2. QED
    BY <1>0, <2>1 DEF Line
<1>5. ~ifb => Owners' = Owners
  BY <1>0, <1>1 DEF Owners, Held, Places
<1>6. QED
  BY <1>0, <1>1, <1>2, <1>3, <1>4, <1>5 DEF GateInv, OneOwner, Elsewhere

(* Nor does the release of the runtime. *)
LEMMA Destroying == GateInv /\ LlmRelease => GateInv' /\ Elsewhere(Closer)
<1> SUFFICES ASSUME GateInv, LlmRelease PROVE GateInv' /\ Elsewhere(Closer)
  OBVIOUS
<1>0. /\ GateTyped /\ Places /\ Line /\ OneOwner /\ Closer \in Tasks
      /\ pc[Closer] = "llm" /\ pc' = [pc EXCEPT ![Closer] = "done"]
      /\ UNCHANGED <<ifb, slot, waiters, lease, closing, drained>>
  BY DEF GateInv, LlmRelease, Tasks
<1>1. /\ pc' \in [Tasks -> Pcs] /\ pc'[Closer] = "done"
      /\ \A u \in Tasks : u # Closer => pc'[u] = pc[u]
  BY <1>0 DEF GateTyped, Pcs
<1>2. GateTyped'
  BY <1>0, <1>1 DEF GateTyped
<1>3. Places'
  BY <1>0, <1>1, ClientsAssumption DEF Places, Owning, Tasks
<1>4. {u \in Tasks : pc'[u] = "queued"} = {u \in Tasks : pc[u] = "queued"}
  BY <1>0, <1>1
<1>5. Owners' = Owners
  BY <1>0, <1>1 DEF Owners, Held
<1>6. QED
  BY <1>0, <1>1, <1>2, <1>3, <1>4, <1>5 DEF GateInv, Line, OneOwner, Elsewhere

-----------------------------------------------------------------------------
(* The counters: they are the leases held and the tasks parked.            *)

Books == /\ active = Cardinality(Held)
         /\ waiting = Cardinality(Parked)
         /\ active + waiting <= IF ifb THEN GateLimit ELSE MaxQueued + 1

(* The limits are natural numbers. *)
LEMMA Limits == GateLimit \in Nat /\ MaxQueued \in Nat
<1>1. MaxQueued \in Nat /\ BatchSize \in Nat
  BY LimitsAssumption
<1>2. QED
  BY <1>1 DEF GateLimit

(* One client more or less counts for one. *)
LEMMA Counting ==
  ASSUME NEW S \in SUBSET Clients, NEW c \in Clients
  PROVE  /\ Cardinality(S) \in Nat
         /\ c \in S => Cardinality(S \ {c}) = Cardinality(S) - 1 /\ Cardinality(S) >= 1
         /\ c \notin S => Cardinality(S \cup {c}) = Cardinality(S) + 1
<1>1. IsFiniteSet(S)
  BY ClientsAssumption, FS_Subset
<1>2. IsFiniteSet(S \ {c})
  BY <1>1, FS_RemoveElement
<1>3. Cardinality(S) \in Nat /\ Cardinality(S \ {c}) \in Nat
  BY <1>1, <1>2, FS_CardinalityType
<1>4. c \in S => Cardinality(S \ {c}) = Cardinality(S) - 1
  BY <1>1, FS_RemoveElement
<1>5. c \notin S => Cardinality(S \cup {c}) = Cardinality(S) + 1
  BY <1>1, FS_AddElement
<1>6. QED
  BY <1>3, <1>4, <1>5

(* The counters start at zero, with nobody counted. *)
LEMMA InitBooks == Init => Books
<1> SUFFICES ASSUME Init PROVE Books
  OBVIOUS
<1>1. Held = {} /\ Parked = {}
  BY DEF Init, Held, Parked, Tasks
<1>2. Cardinality({}) = 0
  BY FS_EmptySet
<1>3. QED
  BY <1>1, <1>2, Limits DEF Init, Books

(* Being granted the slot is still being parked. *)
LEMMA ParkedAfter ==
  ASSUME GateInv, NEW c \in Clients, Elsewhere(c)
  PROVE  /\ pc'[c] \in {"queued", "granted"} => Parked' = Parked \cup {c}
         /\ pc'[c] \notin {"queued", "granted"} => Parked' = Parked \ {c}
<1>1. \A d \in Clients : d # c => (d \in Parked' <=> d \in Parked)
  BY DEF Elsewhere, Parked, Tasks
<1>2. c \in Parked' <=> pc'[c] \in {"queued", "granted"}
  BY DEF Parked
<1>3. Parked \subseteq Clients /\ Parked' \subseteq Clients
  BY DEF Parked
<1>4. QED
  BY <1>1, <1>2, <1>3

(* A step of the shutdown parks nobody and frees nobody. *)
LEMMA ParkedAfterClosing == ASSUME Elsewhere(Closer) PROVE Parked' = Parked
BY ClientsAssumption DEF Elsewhere, Parked, Tasks

(* A step that touches neither counters nor whom they count. *)
LEMMA SameBooks ==
  ASSUME Books, Held' = Held, Parked' = Parked, UNCHANGED <<active, waiting, ifb>>
  PROVE  Books'
BY DEF Books

(* A client outside the line moves on without a lease changing hands. *)
LEMMA MovingBooks ==
  ASSUME GateInv, Books, NEW c \in Clients, Elsewhere(c), pc[c] \notin {"queued", "granted"},
         pc'[c] \notin {"queued", "granted"}, UNCHANGED <<lease, active, waiting, ifb>>
  PROVE  Books'
<1>1. c \notin Parked /\ Parked' = Parked \ {c}
  BY ParkedAfter DEF Parked
<1>2. Held' = Held
  BY DEF Held
<1>3. QED
  BY <1>1, <1>2, SameBooks

(* A client that joins the line is counted as waiting. *)
LEMMA ParkingBooks ==
  ASSUME GateInv, Books, NEW c \in Clients, Elsewhere(c), ~ifb, pc[c] = "idle",
         pc'[c] \in {"queued", "granted"}, active + waiting < MaxQueued + 1,
         waiting' = waiting + 1, UNCHANGED <<lease, active, ifb>>
  PROVE  Books'
<1>1. c \notin Parked /\ Parked' = Parked \cup {c} /\ Parked \in SUBSET Clients
  BY ParkedAfter DEF Parked
<1>2. Held' = Held /\ Held \in SUBSET Clients
  BY DEF Held
<1>3. Cardinality(Parked') = Cardinality(Parked) + 1
  BY <1>1, Counting
<1>4. Cardinality(Held) \in Nat /\ Cardinality(Parked) \in Nat
  BY <1>1, <1>2, Counting
<1>5. QED
  BY <1>2, <1>3, <1>4, Limits DEF Books

(* One that leaves the line is not any more. *)
LEMMA LeavingBooks ==
  ASSUME GateInv, Books, NEW c \in Clients, Elsewhere(c), pc[c] \in {"queued", "granted"},
         pc'[c] = "done", waiting' = waiting - 1, UNCHANGED <<lease, active, ifb>>
  PROVE  Books'
<1>1. c \in Parked /\ Parked' = Parked \ {c} /\ Parked \in SUBSET Clients
  BY ParkedAfter DEF Parked
<1>2. Held' = Held /\ Held \in SUBSET Clients
  BY DEF Held
<1>3. Cardinality(Parked') = Cardinality(Parked) - 1
  BY <1>1, Counting
<1>4. Cardinality(Held) \in Nat /\ Cardinality(Parked) \in Nat
  BY <1>1, <1>2, Counting
<1>5. QED
  BY <1>2, <1>3, <1>4, Limits DEF Books

(* One that is granted the slot is counted as active instead. *)
LEMMA GrantedBooks ==
  ASSUME GateInv, Books, NEW c \in Clients, Elsewhere(c), ~ifb, pc[c] = "granted",
         pc'[c] \notin {"queued", "granted"}, waiting' = waiting - 1, active' = 1,
         lease' = [lease EXCEPT ![c] = "held"], UNCHANGED ifb
  PROVE  Books'
<1>1. c \in Parked /\ Parked' = Parked \ {c} /\ Parked \in SUBSET Clients
  BY ParkedAfter DEF Parked
<1>2. Held = {}
  <2>1. c \in Owners
    BY DEF Owners, Tasks
  <2>2. c \notin Held
    BY DEF GateInv, Places, Held
  <2>3. QED
    BY <2>1, <2>2 DEF GateInv, OneOwner, Owners, Held
<1>3. Held' = Held \cup {c} /\ Held \in SUBSET Clients /\ c \notin Held
  BY <1>2 DEF Held, GateInv, GateTyped
<1>4. Cardinality(Held) = 0 /\ Cardinality(Held') = 1
  BY <1>2, <1>3, Counting, FS_EmptySet
<1>5. Cardinality(Parked') = Cardinality(Parked) - 1 /\ Cardinality(Parked) \in Nat
  BY <1>1, Counting
<1>6. QED
  BY <1>4, <1>5, Limits DEF Books

(* The in-flight gate admits a client without a wait. *)
LEMMA AdmittedBooks ==
  ASSUME GateInv, Books, NEW c \in Clients, Elsewhere(c), ifb, pc[c] = "idle",
         pc'[c] \notin {"queued", "granted"}, active < GateLimit, active' = active + 1,
         lease' = [lease EXCEPT ![c] = "held"], UNCHANGED <<waiting, ifb>>
  PROVE  Books'
<1>1. Parked = {} /\ Parked' = {}
  BY ParkedAfter DEF Parked, GateInv, Places, Tasks
<1>2. Held' = Held \cup {c} /\ Held \in SUBSET Clients /\ c \notin Held
  BY DEF Held, GateInv, GateTyped, Places
<1>3. Cardinality(Held') = Cardinality(Held) + 1 /\ Cardinality(Held) \in Nat
  BY <1>2, Counting
<1>4. Cardinality({}) = 0
  BY FS_EmptySet
<1>5. QED
  BY <1>1, <1>3, <1>4, Limits DEF Books

(* A release gives back what the lease took, and a second release nothing. *)
LEMMA ReleasingBooks ==
  ASSUME GateInv, Books, NEW c \in Clients, Elsewhere(c), UNCHANGED <<waiting, ifb>>,
         pc[c] \notin {"queued", "granted"}, pc'[c] \notin {"queued", "granted"},
         \/ /\ lease[c] = "held" /\ lease' = [lease EXCEPT ![c] = "released"]
            /\ active' = IF ifb THEN active - 1 ELSE 0
         \/ lease[c] # "held" /\ lease' = lease /\ active' = active
  PROVE  Books'
<1>1. Parked' = Parked /\ Parked \in SUBSET Clients
  BY ParkedAfter DEF Parked
<1>2. CASE lease[c] # "held"
  BY <1>1, <1>2, MovingBooks
<1>3. CASE lease[c] = "held"
  <2>1. Held' = Held \ {c} /\ Held \in SUBSET Clients /\ c \in Held
    BY <1>3 DEF Held, GateInv, GateTyped
  <2>2. /\ Cardinality(Held') = Cardinality(Held) - 1
        /\ Cardinality(Held) \in Nat /\ Cardinality(Held) >= 1 /\ Cardinality(Parked) \in Nat
    BY <1>1, <2>1, Counting
  <2>3. ~ifb => Held' = {}
    <3>1. ~ifb => \A d \in Held : d = c
      BY <2>1 DEF GateInv, OneOwner, Owners
    <3>2. QED
      BY <2>1, <3>1
  <2>4. active' = Cardinality(Held')
    BY <1>3, <2>2, <2>3, FS_EmptySet DEF Books
  <2>5. QED
    BY <1>1, <1>3, <2>2, <2>4, Limits DEF Books
<1>4. QED
  BY <1>2, <1>3

-----------------------------------------------------------------------------
(* The threads: whom they work for, who asked them to stop, and the runtime they use.  *)

ThreadTyped ==
  /\ route \in [Clients -> Routes]
  /\ cancels \in [Clients -> 0..MaxCancels]
  /\ work \in [Clients -> {"none", "prepare", "starting", "submitted", "inside", "over"}]
  /\ published \subseteq Clients
  /\ asked \subseteq Clients
  /\ stopped \subseteq Clients
  /\ toClose \subseteq Clients
  /\ llmClosed \in BOOLEAN
  /\ runtimeOpen \in BOOLEAN

(* Nothing works for a request outside its response; a request that was left is about  *)
(* to be told to stop; what was asked of a handle reaches the engine.                  *)
Served(c) ==
  /\ pc[c] \in {"idle", "queued", "granted", "finally", "ending", "done"} => work[c] = "none"
  /\ pc[c] = "preparing" => work[c] = "prepare"
  /\ pc[c] \in Gone /\ work[c] \in {"starting", "submitted", "inside"} => c \in asked \cup toClose
  /\ c \in asked /\ (ifb => c \in published) /\ (ifb \/ route[c] # "generate") => c \in stopped
  /\ work[c] = "inside" /\ ifb => c \in published

(* How often the task of a request was cancelled when it is where it is. *)
Cancelled(c) ==
  /\ pc[c] = "joining" => cancels[c] >= 1
  /\ pc[c] = "finallyEarly" => cancels[c] >= 2
  /\ pc[c] = "abandoned" => \/ cancels[c] >= 2
                            \/ work[c] = "none"
                            \/ cancels[c] >= 1 /\ route[c] = "stream"

RuntimeInv == /\ ~runtimeOpen => llmClosed /\ Inside = {}
              /\ llmClosed => drained
              /\ drained => Held = {}

WorkInv == \A c \in Clients : Served(c) /\ Cancelled(c)

IInv == GateInv /\ Books /\ ThreadTyped /\ WorkInv /\ RuntimeInv

(* A step for c leaves the threads of the others alone. *)
Untouched(d) == /\ work'[d] = work[d] /\ cancels'[d] = cancels[d]
                /\ (d \in asked') <=> (d \in asked)
                /\ (d \in stopped') <=> (d \in stopped)
                /\ (d \in published') <=> (d \in published)
                /\ (d \in toClose') <=> (d \in toClose)

OnlyFor(c) == /\ UNCHANGED <<ifb, route, closing, drained, llmVars>>
              /\ \A d \in Clients : d # c => Untouched(d)

GateKept(c) == GateInv' /\ Books' /\ Elsewhere(c) /\ Held' \subseteq Held

(* A step of one client that touches nothing of another keeps what is said of it. *)
LEMMA Others ==
  ASSUME WorkInv, NEW c \in Clients, Elsewhere(c), OnlyFor(c), Served(c)', Cancelled(c)'
  PROVE  WorkInv'
<1> SUFFICES ASSUME NEW d \in Clients, d # c PROVE Served(d)' /\ Cancelled(d)'
  BY DEF WorkInv
<1>1. Untouched(d) /\ UNCHANGED <<ifb, route>>
  BY DEF OnlyFor
<1>2. pc'[d] = pc[d] \/ (pc[d] = "queued" /\ pc'[d] = "granted")
  BY DEF Elsewhere, Tasks
<1>3. Served(d) /\ Cancelled(d)
  BY DEF WorkInv
<1>4. Served(d)'
  BY <1>1, <1>2, <1>3 DEF Served, Gone, Untouched
<1>5. Cancelled(d)'
  BY <1>1, <1>2, <1>3 DEF Cancelled, Untouched
<1>6. QED
  BY <1>4, <1>5

(* A step for c that enters no native call and takes no lease. *)
LEMMA Finishing ==
  ASSUME IInv, NEW c \in Clients, GateKept(c), ThreadTyped', OnlyFor(c), Served(c)', Cancelled(c)',
         work'[c] \in {"submitted", "inside"} => work[c] \in {"submitted", "inside"}
  PROVE  IInv'
<1>1. GateInv' /\ Books' /\ Elsewhere(c) /\ WorkInv /\ RuntimeInv /\ Held' \subseteq Held
  BY DEF IInv, GateKept
<1>2. WorkInv'
  BY <1>1, Others
<1>3. Inside' \subseteq Inside
  BY DEF Inside, OnlyFor, Untouched
<1>4. UNCHANGED <<llmClosed, runtimeOpen, drained>>
  BY DEF OnlyFor, llmVars
<1>5. RuntimeInv'
  BY <1>1, <1>3, <1>4 DEF RuntimeInv
<1>6. QED
  BY <1>1, <1>2, <1>5 DEF IInv

(* The gate's part of a step, by what it does to the lease. *)
LEMMA Staying ==
  ASSUME GateInv, Books, NEW c \in Clients, UNCHANGED <<gateVars, frame>>
  PROVE  GateKept(c) /\ pc' = pc
<1>1. /\ UNCHANGED <<slot, waiters, active, waiting, pc, lease>> /\ UNCHANGED <<ifb, closing, drained>>
  BY DEF gateVars, frame
<1>2. Held' = Held /\ Parked' = Parked /\ Owners' = Owners
  BY <1>1 DEF Held, Parked, Owners
<1>3. GateInv'
  BY <1>1, <1>2 DEF GateInv, GateTyped, Places, Line, OneOwner
<1>4. QED
  BY <1>1, <1>2, <1>3 DEF GateKept, Books, Elsewhere

(* Moving on keeps the gate. *)
LEMMA MovingOn ==
  ASSUME GateInv, Books, NEW c \in Clients, NEW next \in Pcs,
         pc[c] \notin {"queued", "granted"}, next \notin {"idle", "queued", "granted", "llm"},
         next \in Owning => lease[c] = "held",
         next \in {"done", "ending"} => lease[c] # "held",
         pc' = [pc EXCEPT ![c] = next],
         UNCHANGED <<slot, waiters, lease, active, waiting, frame>>
  PROVE  GateKept(c) /\ pc'[c] = next
<1>1. GateInv' /\ Elsewhere(c) /\ pc'[c] = next
  BY Moving
<1>2. UNCHANGED <<lease, active, waiting, ifb>>
  BY DEF frame
<1>3. Books'
  BY <1>1, <1>2, MovingBooks
<1>4. Held' = Held
  BY <1>2 DEF Held
<1>5. QED
  BY <1>1, <1>3, <1>4 DEF GateKept

(* Releasing the lease keeps the gate. *)
LEMMA LettingGo ==
  ASSUME GateInv, Books, NEW c \in Clients, NEW next \in {"done", "ending", "abandoned"},
         pc[c] \in Owning \cup {"ending"}, Release(c, next), UNCHANGED frame
  PROVE  GateKept(c) /\ pc'[c] = next
<1>1. /\ GateInv' /\ Elsewhere(c) /\ pc'[c] = next
      /\ waiting' = waiting
      /\ \/ /\ lease[c] = "held" /\ lease' = [lease EXCEPT ![c] = "released"]
            /\ active' = IF ifb THEN active - 1 ELSE 0
         \/ lease[c] # "held" /\ lease' = lease /\ active' = active
  BY Releasing
<1>2. /\ UNCHANGED <<waiting, ifb>> /\ pc[c] \notin {"queued", "granted"}
      /\ pc'[c] \notin {"queued", "granted"}
  BY <1>1 DEF frame, Owning
<1>3. Books'
  BY <1>1, <1>2, ReleasingBooks
<1>4. Held' \subseteq Held
  BY <1>1 DEF Held, GateInv, GateTyped
<1>5. QED
  BY <1>1, <1>3, <1>4 DEF GateKept

(* Leaving the line keeps the gate. *)
LEMMA LeavingTheLine ==
  ASSUME GateInv, Books, NEW c \in Clients, pc[c] \in {"queued", "granted"}, Leave(c)
  PROVE  GateKept(c) /\ pc'[c] = "done"
<1>1. GateInv' /\ Elsewhere(c) /\ pc'[c] = "done"
  BY Leaving
<1>2. waiting' = waiting - 1 /\ UNCHANGED <<lease, active, ifb>>
  BY DEF Leave
<1>3. Books'
  BY <1>1, <1>2, LeavingBooks
<1>4. Held' = Held
  BY <1>2 DEF Held
<1>5. QED
  BY <1>1, <1>3, <1>4 DEF GateKept

(* The invariant holds at the start. *)
LEMMA InitAll == Init => IInv
<1> SUFFICES ASSUME Init PROVE IInv
  OBVIOUS
<1>1. GateInv /\ Books
  BY InitGate, InitBooks
<1>2. ThreadTyped
  <2>1. 0 \in 0..MaxCancels /\ RouteMixes \subseteq [Clients -> Routes]
    BY LimitsAssumption
  <2>2. route \in [Clients -> Routes]
    BY <2>1 DEF Init
  <2>3. cancels \in [Clients -> 0..MaxCancels]
    BY <2>1 DEF Init
  <2>4. QED
    BY <2>2, <2>3 DEF Init, ThreadTyped
<1>3. WorkInv
  BY DEF Init, WorkInv, Served, Cancelled, Gone, Tasks
<1>4. RuntimeInv
  BY DEF Init, RuntimeInv
<1>5. QED
  BY <1>1, <1>2, <1>3, <1>4 DEF IInv

(* A cancellation counts for its client only. *)
LEMMA CancelCount ==
  ASSUME ThreadTyped, NEW c \in Clients, cancels[c] < MaxCancels,
         cancels' = [cancels EXCEPT ![c] = @ + 1]
  PROVE  /\ cancels' \in [Clients -> 0..MaxCancels]
         /\ cancels[c] \in Nat /\ cancels'[c] = cancels[c] + 1
         /\ \A d \in Clients : d # c => cancels'[d] = cancels[d]
<1>1. MaxCancels \in Nat /\ cancels \in [Clients -> 0..MaxCancels]
  BY LimitsAssumption DEF ThreadTyped
<1>2. cancels[c] + 1 \in 0..MaxCancels
  BY <1>1
<1>3. QED
  BY <1>1, <1>2

(* reserve() and its timeouts. *)
LEMMA RefuseStep ==
  ASSUME IInv, NEW c \in Clients, Refuse(c)
  PROVE  IInv'
<1>0. GateInv /\ Books /\ ThreadTyped /\ Served(c) /\ Cancelled(c)
  BY DEF IInv, WorkInv
<1>1. GateKept(c) /\ pc[c] \in {"idle"} /\ pc'[c] = "done"
  <2>1. /\ pc[c] \in {"idle"} /\ pc' = [pc EXCEPT ![c] = "done"]
        /\ UNCHANGED <<slot, waiters, lease, active, waiting, frame>>
    BY DEF Refuse, frame
  <2>2. lease[c] # "held"
    BY <1>0, <2>1 DEF GateInv, Places
  <2>3. QED
    BY <1>0, <2>1, <2>2, MovingOn DEF Pcs, Owning
<1>2. ThreadTyped'
  BY <1>0 DEF Refuse, threadVars, llmVars, ThreadTyped
<1>3. OnlyFor(c)
  BY <1>0 DEF Refuse, threadVars, llmVars, OnlyFor, Untouched, ThreadTyped
<1>4. Served(c)' /\ Cancelled(c)'
  BY <1>0, <1>1 DEF Refuse, threadVars, llmVars, Served, Cancelled, Gone, ThreadTyped, Untouched
<1>5. work'[c] \in {"submitted", "inside"} => work[c] \in {"submitted", "inside"}
  BY <1>0 DEF Refuse, threadVars, llmVars, ThreadTyped
<1>6. QED
  BY <1>1, <1>2, <1>3, <1>4, <1>5, Finishing

(* The invariant survives the step Park. *)
LEMMA ParkStep ==
  ASSUME IInv, NEW c \in Clients, Park(c)
  PROVE  IInv'
<1>0. GateInv /\ Books /\ ThreadTyped /\ Served(c) /\ Cancelled(c)
  BY DEF IInv, WorkInv
<1>1. GateKept(c) /\ pc[c] = "idle" /\ pc'[c] \in {"queued", "granted"}
  <2>1. /\ ~ifb /\ pc[c] = "idle" /\ Acquire(c) /\ UNCHANGED <<ifb, lease, drained, active>>
        /\ closing' = closing /\ c \in Tasks /\ c # Closer
        /\ active + waiting < MaxQueued + 1 /\ waiting' = waiting + 1
    BY ClientsAssumption DEF Park, Tasks
  <2>2. lease[c] = "none" /\ closing' = (closing \/ c = Closer)
    BY <1>0, <2>1 DEF GateInv, Places, GateTyped
  <2>3. GateInv' /\ Elsewhere(c) /\ pc'[c] \in {"queued", "granted"}
    BY <1>0, <2>1, <2>2, Parking
  <2>4. Books'
    BY <1>0, <2>1, <2>3, ParkingBooks
  <2>5. QED
    BY <2>1, <2>3, <2>4 DEF GateKept, Held
<1>2. ThreadTyped'
  BY <1>0 DEF Park, threadVars, llmVars, ThreadTyped
<1>3. OnlyFor(c)
  BY <1>0 DEF Park, threadVars, llmVars, OnlyFor, Untouched, ThreadTyped
<1>4. Served(c)' /\ Cancelled(c)'
  BY <1>0, <1>1 DEF Park, threadVars, llmVars, Served, Cancelled, Gone, ThreadTyped, Untouched
<1>5. work'[c] \in {"submitted", "inside"} => work[c] \in {"submitted", "inside"}
  BY <1>0 DEF Park, threadVars, llmVars, ThreadTyped
<1>6. QED
  BY <1>1, <1>2, <1>3, <1>4, <1>5, Finishing

(* The invariant survives the step Timeout. *)
LEMMA TimeoutStep ==
  ASSUME IInv, NEW c \in Clients, Timeout(c)
  PROVE  IInv'
<1>0. GateInv /\ Books /\ ThreadTyped /\ Served(c) /\ Cancelled(c)
  BY DEF IInv, WorkInv
<1>1. GateKept(c) /\ pc[c] \in {"queued", "granted"} /\ pc'[c] = "done"
  BY <1>0, LeavingTheLine DEF Timeout
<1>2. ThreadTyped'
  BY <1>0 DEF Timeout, threadVars, llmVars, Leave, ThreadTyped
<1>3. OnlyFor(c)
  BY <1>0 DEF Timeout, threadVars, llmVars, Leave, OnlyFor, Untouched, ThreadTyped
<1>4. Served(c)' /\ Cancelled(c)'
  BY <1>0, <1>1
     DEF Timeout, threadVars, llmVars, Leave, Served, Cancelled, Gone, ThreadTyped, Untouched
<1>5. work'[c] \in {"submitted", "inside"} => work[c] \in {"submitted", "inside"}
  BY <1>0 DEF Timeout, threadVars, llmVars, Leave, ThreadTyped
<1>6. QED
  BY <1>1, <1>2, <1>3, <1>4, <1>5, Finishing

(* A lease is taken only while the gate is open. *)
LEMMA Entering ==
  ASSUME IInv, NEW c \in Clients, GateInv', Books', Elsewhere(c), ThreadTyped', OnlyFor(c),
         Served(c)', Cancelled(c)', ~closing, work'[c] \notin {"submitted", "inside"}
  PROVE  IInv'
<1>1. WorkInv /\ RuntimeInv /\ ~drained
  BY DEF IInv, GateInv, Places
<1>2. WorkInv'
  BY <1>1, Others
<1>3. Inside' \subseteq Inside /\ UNCHANGED <<llmClosed, runtimeOpen, drained>>
  BY DEF Inside, OnlyFor, Untouched, llmVars
<1>4. RuntimeInv'
  BY <1>1, <1>3 DEF RuntimeInv
<1>5. QED
  BY <1>2, <1>4 DEF IInv

(* The invariant survives the step Admit. *)
LEMMA AdmitStep == ASSUME IInv, NEW c \in Clients, Admit(c) PROVE IInv'
<1>0. GateInv /\ Books /\ ThreadTyped /\ Served(c) /\ Cancelled(c)
  BY DEF IInv, WorkInv
<1>1. GateInv' /\ Elsewhere(c) /\ pc'[c] \in {"preparing", "next"}
  <2>1. /\ pc[c] = "idle" /\ ifb /\ ~closing /\ pc' = [pc EXCEPT ![c] = BeginPc(c)]
        /\ lease' = [lease EXCEPT ![c] = "held"] /\ UNCHANGED <<slot, waiters, frame>>
        /\ BeginPc(c) \in {"preparing", "next"}
    BY DEF Admit, frame, BeginPc
  <2>2. QED
    BY <1>0, <2>1, Taking
<1>2. Books'
  <2>1. /\ pc[c] = "idle" /\ ifb /\ active < GateLimit /\ active' = active + 1
        /\ lease' = [lease EXCEPT ![c] = "held"] /\ UNCHANGED <<waiting, ifb>>
    BY DEF Admit
  <2>2. QED
    BY <1>0, <1>1, <2>1, AdmittedBooks
<1>3. work'[c] \in {"prepare", "starting"} /\ (pc'[c] = "preparing" => work'[c] = "prepare")
      /\ work' = [work EXCEPT ![c] = BeginWork(c)]
      /\ pc[c] = "idle" /\ ~closing
      /\ UNCHANGED <<cancels, published, asked, stopped, toClose, route, ifb, closing, drained, llmVars>>
  BY <1>0 DEF Admit, BeginWork, BeginPc, ThreadTyped, GateInv, GateTyped, Tasks
<1>4. ThreadTyped'
  BY <1>0, <1>3 DEF ThreadTyped, BeginWork, llmVars
<1>5. OnlyFor(c)
  BY <1>0, <1>3 DEF OnlyFor, Untouched, ThreadTyped
<1>6. Served(c)' /\ Cancelled(c)'
  BY <1>0, <1>1, <1>3 DEF Served, Cancelled, Gone
<1>7. QED
  BY <1>1, <1>2, <1>3, <1>4, <1>5, <1>6, Entering

(* The invariant survives the step Resume. *)
LEMMA ResumeStep == ASSUME IInv, NEW c \in Clients, Resume(c) PROVE IInv'
<1>0. /\ GateInv /\ Books /\ ThreadTyped /\ Served(c) /\ Cancelled(c)
      /\ pc[c] = "granted" /\ ~ifb /\ waiting' = waiting - 1 /\ UNCHANGED frame
  BY DEF IInv, WorkInv, Resume, GateInv, Places, Tasks, frame
<1>1. CASE closing
  <2>1. HandOver(c, "done") /\ UNCHANGED <<active, lease, work>>
    BY <1>1 DEF Resume
  <2>2. GateInv' /\ Elsewhere(c) /\ pc'[c] = "done"
    BY <1>0, <2>1, Passing
  <2>3. Books'
    BY <1>0, <2>1, <2>2, LeavingBooks DEF frame
  <2>4. GateKept(c)
    BY <2>1, <2>2, <2>3 DEF GateKept, Held
  <2>5. ThreadTyped' /\ OnlyFor(c)
    BY <1>0, <2>1 DEF Resume, ThreadTyped, OnlyFor, Untouched, llmVars
  <2>6. Served(c)' /\ Cancelled(c)'
    BY <1>0, <2>1, <2>2 DEF Resume, Served, Cancelled, Gone
  <2>7. QED
    BY <2>1, <2>4, <2>5, <2>6, Finishing
<1>2. CASE ~closing
  <2>1. /\ active' = 1 /\ pc' = [pc EXCEPT ![c] = BeginPc(c)]
        /\ lease' = [lease EXCEPT ![c] = "held"] /\ UNCHANGED <<slot, waiters>>
        /\ work' = [work EXCEPT ![c] = BeginWork(c)] /\ BeginPc(c) \in {"preparing", "next"}
    BY <1>2 DEF Resume, BeginPc
  <2>2. GateInv' /\ Elsewhere(c) /\ pc'[c] \in {"preparing", "next"}
    BY <1>0, <1>2, <2>1, Taking
  <2>3. Books'
    BY <1>0, <2>1, <2>2, GrantedBooks DEF frame
  <2>4. work'[c] \in {"prepare", "starting"} /\ (pc'[c] = "preparing" => work'[c] = "prepare")
        /\ UNCHANGED <<cancels, published, asked, stopped, toClose, route, ifb, closing, drained, llmVars>>
    BY <1>0, <2>1 DEF Resume, BeginWork, BeginPc, ThreadTyped, GateInv, GateTyped, Tasks
  <2>5. ThreadTyped'
    BY <1>0, <2>1, <2>4 DEF ThreadTyped, BeginWork, llmVars
  <2>6. OnlyFor(c)
    BY <1>0, <2>1, <2>4 DEF OnlyFor, Untouched, ThreadTyped
  <2>7. Served(c)' /\ Cancelled(c)'
    BY <1>0, <2>2, <2>4 DEF Served, Cancelled, Gone
  <2>8. QED
    BY <1>2, <2>2, <2>3, <2>4, <2>5, <2>6, <2>7, Entering
<1>3. QED
  BY <1>1, <1>2

(* The native threads. *)
LEMMA PreparedStep ==
  ASSUME IInv, NEW c \in Clients, Prepared(c)
  PROVE  IInv'
<1>0. GateInv /\ Books /\ ThreadTyped /\ Served(c) /\ Cancelled(c)
  BY DEF IInv, WorkInv
<1>1. /\ GateKept(c) /\ work[c] = "prepare"
      /\ \/ pc'[c] = "running" /\ work'[c] = "starting"
         \/ work'[c] = "none" /\ (pc'[c] \in {"sending", "done"} \/ (pc'[c] = "abandoned" /\ pc[c] = "abandoned"))
  <2>0. UNCHANGED frame /\ work[c] = "prepare"
    BY DEF Prepared, frame
  <2>1. ASSUME NEW next \in {"running", "sending"}, pc[c] = "preparing",
               pc' = [pc EXCEPT ![c] = next], UNCHANGED <<slot, waiters, active, waiting, lease>>
        PROVE  GateKept(c) /\ pc'[c] = next
    <3>1. lease[c] = "held" /\ next \in Pcs
      BY <1>0, <2>1 DEF GateInv, Places, Owning, Pcs
    <3>2. QED
      BY <1>0, <2>0, <2>1, <3>1, MovingOn
  <2>2. CASE /\ pc[c] = "preparing" /\ pc' = [pc EXCEPT ![c] = "running"]
             /\ work' = [work EXCEPT ![c] = "starting"]
             /\ UNCHANGED <<slot, waiters, active, waiting, lease>>
    BY <1>0, <2>0, <2>1, <2>2 DEF ThreadTyped
  <2>3. CASE /\ pc[c] = "preparing" /\ pc' = [pc EXCEPT ![c] = "sending"]
             /\ work' = [work EXCEPT ![c] = "none"]
             /\ UNCHANGED <<slot, waiters, active, waiting, lease>>
    BY <1>0, <2>0, <2>1, <2>3 DEF ThreadTyped
  <2>4. CASE /\ pc[c] \in {"preparing", "joining"} /\ Release(c, "done")
             /\ work' = [work EXCEPT ![c] = "none"]
    <3>1. GateKept(c) /\ pc'[c] = "done"
      BY <1>0, <2>0, <2>4, LettingGo DEF Owning
    <3>2. QED
      BY <1>0, <2>0, <2>4, <3>1 DEF ThreadTyped
  <2>5. CASE pc[c] = "abandoned" /\ UNCHANGED gateVars /\ work' = [work EXCEPT ![c] = "none"]
    BY <1>0, <2>0, <2>5, Staying DEF ThreadTyped
  <2>6. QED
    BY <2>2, <2>3, <2>4, <2>5 DEF Prepared
<1>2. ThreadTyped'
  BY <1>0 DEF Prepared, threadVars, llmVars, ThreadTyped
<1>3. OnlyFor(c)
  BY <1>0 DEF Prepared, threadVars, llmVars, OnlyFor, Untouched, ThreadTyped
<1>4. Served(c)' /\ Cancelled(c)'
  <2>1. UNCHANGED <<cancels, published, asked, stopped, toClose, route, ifb>>
    BY DEF Prepared
  <2>2. QED
    BY <1>0, <1>1, <2>1 DEF Served, Cancelled, Gone
<1>5. work'[c] \in {"submitted", "inside"} => work[c] \in {"submitted", "inside"}
  BY <1>0 DEF Prepared, threadVars, llmVars, ThreadTyped
<1>6. QED
  BY <1>1, <1>2, <1>3, <1>4, <1>5, Finishing

(* The invariant survives the step Publish. *)
LEMMA PublishStep ==
  ASSUME IInv, NEW c \in Clients, Publish(c)
  PROVE  IInv'
<1>0. GateInv /\ Books /\ ThreadTyped /\ Served(c) /\ Cancelled(c)
  BY DEF IInv, WorkInv
<1>1. GateKept(c) /\ pc' = pc
  BY <1>0, Staying DEF Publish, gateVars, frame
<1>2. ThreadTyped'
  BY <1>0 DEF Publish, threadVars, llmVars, ThreadTyped
<1>3. OnlyFor(c)
  BY <1>0 DEF Publish, threadVars, llmVars, OnlyFor, Untouched, ThreadTyped
<1>4. Served(c)' /\ Cancelled(c)'
  BY <1>0, <1>1 DEF Publish, threadVars, llmVars, Served, Cancelled, Gone, ThreadTyped, Untouched
<1>5. work'[c] \in {"submitted", "inside"} => work[c] \in {"submitted", "inside"}
  BY <1>0 DEF Publish, threadVars, llmVars, ThreadTyped
<1>6. QED
  BY <1>1, <1>2, <1>3, <1>4, <1>5, Finishing

(* The invariant survives the step WorkOver. *)
LEMMA WorkOverStep ==
  ASSUME IInv, NEW c \in Clients, WorkOver(c)
  PROVE  IInv'
<1>0. GateInv /\ Books /\ ThreadTyped /\ Served(c) /\ Cancelled(c)
  BY DEF IInv, WorkInv
<1>1. GateKept(c) /\ pc' = pc
  BY <1>0, Staying DEF WorkOver, gateVars, frame
<1>2. ThreadTyped'
  BY <1>0 DEF WorkOver, threadVars, llmVars, ThreadTyped
<1>3. OnlyFor(c)
  BY <1>0 DEF WorkOver, threadVars, llmVars, OnlyFor, Untouched, ThreadTyped
<1>4. Served(c)' /\ Cancelled(c)'
  BY <1>0, <1>1 DEF WorkOver, threadVars, llmVars, Served, Cancelled, Gone, ThreadTyped, Untouched
<1>5. work'[c] \in {"submitted", "inside"} => work[c] \in {"submitted", "inside"}
  BY <1>0 DEF WorkOver, threadVars, llmVars, ThreadTyped
<1>6. QED
  BY <1>1, <1>2, <1>3, <1>4, <1>5, Finishing

(* The invariant survives the step Collect. *)
LEMMA CollectStep ==
  ASSUME IInv, NEW c \in Clients, Collect(c)
  PROVE  IInv'
<1>0. GateInv /\ Books /\ ThreadTyped /\ Served(c) /\ Cancelled(c)
  BY DEF IInv, WorkInv
<1>1. /\ GateKept(c) /\ pc'[c] # "preparing"
      /\ pc'[c] \in {"done", "finally"} \/ pc'[c] = pc[c]
  <2>0. UNCHANGED frame
    BY DEF Collect, frame
  <2>1. CASE pc[c] \in {"running", "joining"} /\ Release(c, "done")
    BY <1>0, <2>0, <2>1, LettingGo DEF Owning
  <2>2. CASE /\ pc[c] \in {"next", "joining"} /\ pc' = [pc EXCEPT ![c] = "finally"]
             /\ UNCHANGED <<slot, waiters, active, waiting, lease>>
    <3>1. lease[c] = "held" /\ "finally" \in Pcs
      BY <1>0, <2>2 DEF GateInv, Places, Owning, Pcs
    <3>2. QED
      BY <1>0, <2>0, <2>2, <3>1, MovingOn
  <2>3. CASE pc[c] \in {"abandoned", "finalizing"} /\ UNCHANGED gateVars
    BY <1>0, <2>0, <2>3, Staying
  <2>4. QED
    BY <2>1, <2>2, <2>3 DEF Collect
<1>2. ThreadTyped'
  BY <1>0 DEF Collect, threadVars, llmVars, ThreadTyped
<1>3. OnlyFor(c)
  BY <1>0 DEF Collect, threadVars, llmVars, OnlyFor, Untouched, ThreadTyped
<1>4. Served(c)' /\ Cancelled(c)'
  <2>1. work'[c] = "none" /\ UNCHANGED <<cancels, published, asked, stopped, toClose, route, ifb>>
    BY <1>0 DEF Collect, ThreadTyped
  <2>2. CASE pc[c] = "joining" \/ pc'[c] # "joining"
    BY <1>0, <1>1, <2>1, <2>2 DEF Served, Cancelled, Gone
  <2>3. QED
    BY <1>1, <2>2
<1>5. work'[c] \in {"submitted", "inside"} => work[c] \in {"submitted", "inside"}
  BY <1>0 DEF Collect, threadVars, llmVars, ThreadTyped
<1>6. QED
  BY <1>1, <1>2, <1>3, <1>4, <1>5, Finishing

(* A streamed response. *)
LEMMA ItemStep ==
  ASSUME IInv, NEW c \in Clients, Item(c)
  PROVE  IInv'
<1>0. GateInv /\ Books /\ ThreadTyped /\ Served(c) /\ Cancelled(c)
  BY DEF IInv, WorkInv
<1>1. GateKept(c) /\ pc[c] \in {"next"} /\ pc'[c] = "sending"
  <2>1. /\ pc[c] \in {"next"} /\ pc' = [pc EXCEPT ![c] = "sending"]
        /\ UNCHANGED <<slot, waiters, lease, active, waiting, frame>>
    BY DEF Item, frame
  <2>2. lease[c] = "held"
    BY <1>0, <2>1 DEF GateInv, Places, Owning
  <2>3. QED
    BY <1>0, <2>1, <2>2, MovingOn DEF Pcs, Owning
<1>2. ThreadTyped'
  BY <1>0 DEF Item, threadVars, llmVars, ThreadTyped
<1>3. OnlyFor(c)
  BY <1>0 DEF Item, threadVars, llmVars, OnlyFor, Untouched, ThreadTyped
<1>4. Served(c)' /\ Cancelled(c)'
  BY <1>0, <1>1 DEF Item, threadVars, llmVars, Served, Cancelled, Gone, ThreadTyped, Untouched
<1>5. work'[c] \in {"submitted", "inside"} => work[c] \in {"submitted", "inside"}
  BY <1>0 DEF Item, threadVars, llmVars, ThreadTyped
<1>6. QED
  BY <1>1, <1>2, <1>3, <1>4, <1>5, Finishing

(* The invariant survives the step Sent. *)
LEMMA SentStep ==
  ASSUME IInv, NEW c \in Clients, Sent(c)
  PROVE  IInv'
<1>0. GateInv /\ Books /\ ThreadTyped /\ Served(c) /\ Cancelled(c)
  BY DEF IInv, WorkInv
<1>1. GateKept(c) /\ pc[c] \in {"sending"} /\ pc'[c] = "next"
  <2>1. /\ pc[c] \in {"sending"} /\ pc' = [pc EXCEPT ![c] = "next"]
        /\ UNCHANGED <<slot, waiters, lease, active, waiting, frame>>
    BY DEF Sent, frame
  <2>2. lease[c] = "held"
    BY <1>0, <2>1 DEF GateInv, Places, Owning
  <2>3. QED
    BY <1>0, <2>1, <2>2, MovingOn DEF Pcs, Owning
<1>2. ThreadTyped'
  BY <1>0 DEF Sent, threadVars, llmVars, ThreadTyped
<1>3. OnlyFor(c)
  BY <1>0 DEF Sent, threadVars, llmVars, OnlyFor, Untouched, ThreadTyped
<1>4. Served(c)' /\ Cancelled(c)'
  BY <1>0, <1>1 DEF Sent, threadVars, llmVars, Served, Cancelled, Gone, ThreadTyped, Untouched
<1>5. work'[c] \in {"submitted", "inside"} => work[c] \in {"submitted", "inside"}
  BY <1>0 DEF Sent, threadVars, llmVars, ThreadTyped
<1>6. QED
  BY <1>1, <1>2, <1>3, <1>4, <1>5, Finishing

(* The invariant survives the step CloseStream. *)
LEMMA CloseStreamStep ==
  ASSUME IInv, NEW c \in Clients, CloseStream(c)
  PROVE  IInv'
<1>0. GateInv /\ Books /\ ThreadTyped /\ Served(c) /\ Cancelled(c)
  BY DEF IInv, WorkInv
<1>1. GateKept(c) /\ pc' = pc
  BY <1>0, Staying DEF CloseStream, gateVars, frame
<1>2. ThreadTyped'
  BY <1>0 DEF CloseStream, threadVars, llmVars, Stop, ThreadTyped
<1>3. OnlyFor(c)
  BY <1>0 DEF CloseStream, threadVars, llmVars, Stop, OnlyFor, Untouched, ThreadTyped
<1>4. Served(c)' /\ Cancelled(c)'
  BY <1>0, <1>1
     DEF CloseStream, threadVars, llmVars, Stop, Served, Cancelled, Gone, ThreadTyped, Untouched
<1>5. work'[c] \in {"submitted", "inside"} => work[c] \in {"submitted", "inside"}
  BY <1>0 DEF CloseStream, threadVars, llmVars, Stop, ThreadTyped
<1>6. QED
  BY <1>1, <1>2, <1>3, <1>4, <1>5, Finishing

(* The invariant survives the step EndResponse. *)
LEMMA EndResponseStep ==
  ASSUME IInv, NEW c \in Clients, EndResponse(c)
  PROVE  IInv'
<1>0. GateInv /\ Books /\ ThreadTyped /\ Served(c) /\ Cancelled(c)
  BY DEF IInv, WorkInv
<1>1. GateKept(c) /\ pc[c] = "ending" /\ pc'[c] = "done"
  <2>1. pc[c] = "ending" /\ Release(c, "done") /\ UNCHANGED frame
    BY DEF EndResponse, frame
  <2>2. QED
    BY <1>0, <2>1, LettingGo
<1>2. ThreadTyped'
  BY <1>0 DEF EndResponse, threadVars, llmVars, ThreadTyped
<1>3. OnlyFor(c)
  BY <1>0 DEF EndResponse, threadVars, llmVars, OnlyFor, Untouched, ThreadTyped
<1>4. Served(c)' /\ Cancelled(c)'
  BY <1>0, <1>1
     DEF EndResponse, threadVars, llmVars, Served, Cancelled, Gone, ThreadTyped, Untouched
<1>5. work'[c] \in {"submitted", "inside"} => work[c] \in {"submitted", "inside"}
  BY <1>0 DEF EndResponse, threadVars, llmVars, ThreadTyped
<1>6. QED
  BY <1>1, <1>2, <1>3, <1>4, <1>5, Finishing

(* A thread enters the runtime only while it is open. *)
LEMMA StartStep == ASSUME IInv, NEW c \in Clients, Start(c) PROVE IInv'
<1>0. GateInv /\ Books /\ ThreadTyped /\ WorkInv /\ RuntimeInv /\ Served(c) /\ Cancelled(c)
  BY DEF IInv, WorkInv
<1>1. GateKept(c) /\ pc' = pc
  BY <1>0, Staying DEF Start, gateVars, frame
<1>2. /\ work[c] = "starting"
      /\ UNCHANGED <<ifb, closing, drained, route, cancels, published, asked, stopped, toClose, llmVars>>
      /\ \/ work' = [work EXCEPT ![c] = "over"]
         \/ ~llmClosed /\ ~ifb /\ work' = [work EXCEPT ![c] = "inside"]
         \/ ~llmClosed /\ ifb /\ work' = [work EXCEPT ![c] = "submitted"]
  BY DEF Start
<1>3. ThreadTyped'
  BY <1>0, <1>2 DEF ThreadTyped, llmVars
<1>4. OnlyFor(c)
  BY <1>0, <1>2 DEF OnlyFor, Untouched, ThreadTyped
<1>5. Served(c)'
  BY <1>0, <1>1, <1>2 DEF Served, Gone, ThreadTyped
<1>6. Cancelled(c)'
  BY <1>0, <1>1, <1>2 DEF Cancelled, ThreadTyped
<1>7. CASE work'[c] \in {"submitted", "inside"}
  <2>1. ~llmClosed
    BY <1>0, <1>2, <1>7 DEF ThreadTyped
  <2>2. RuntimeInv'
    BY <1>0, <1>1, <1>2, <2>1 DEF RuntimeInv, llmVars, GateKept
  <2>3. WorkInv'
    BY <1>0, <1>1, <1>4, <1>5, <1>6, Others DEF GateKept
  <2>4. QED
    BY <1>1, <1>3, <2>2, <2>3 DEF IInv, GateKept
<1>8. CASE work'[c] \notin {"submitted", "inside"}
  BY <1>1, <1>3, <1>4, <1>5, <1>6, <1>8, Finishing
<1>9. QED
  BY <1>7, <1>8

(* The finally block, and the cancellations by the await they interrupt. *)
LEMMA UnwoundStep ==
  ASSUME IInv, NEW c \in Clients, Unwound(c)
  PROVE  IInv'
<1>0. GateInv /\ Books /\ ThreadTyped /\ Served(c) /\ Cancelled(c)
  BY DEF IInv, WorkInv
<1>1. /\ GateKept(c) /\ pc[c] \in {"finally", "finalizing", "finallyEarly"}
      /\ pc'[c] = "abandoned" \/ (pc'[c] \in {"ending", "done"} /\ work[c] = "none")
      /\ pc'[c] = "abandoned" <=> pc[c] = "finallyEarly"
  <2>0. UNCHANGED frame
    BY DEF Unwound, frame
  <2>1. CASE pc[c] = "finallyEarly"
    <3>1. Release(c, "abandoned")
      BY <2>1 DEF Unwound
    <3>2. GateKept(c) /\ pc'[c] = "abandoned"
      BY <1>0, <2>0, <2>1, <3>1, LettingGo DEF Owning
    <3>3. QED
      BY <2>1, <3>2
  <2>2. CASE pc[c] # "finallyEarly"
    <3>1. PICK next \in {"ending", "done"} :
             pc[c] \in {"finally", "finalizing"} /\ work[c] = "none" /\ Release(c, next)
      BY <2>2 DEF Unwound
    <3>2. GateKept(c) /\ pc'[c] = next
      BY <1>0, <2>0, <3>1, LettingGo DEF Owning
    <3>3. QED
      BY <2>2, <3>1, <3>2
  <2>3. QED
    BY <2>1, <2>2
<1>2. ThreadTyped'
  BY <1>0 DEF Unwound, threadVars, llmVars, Stop, ThreadTyped
<1>3. OnlyFor(c)
  BY <1>0 DEF Unwound, threadVars, llmVars, Stop, OnlyFor, Untouched, ThreadTyped
<1>4. Served(c)' /\ Cancelled(c)'
  BY <1>0, <1>1
     DEF Unwound, threadVars, llmVars, Stop, Served, Cancelled, Gone, ThreadTyped, Untouched
<1>5. work'[c] \in {"submitted", "inside"} => work[c] \in {"submitted", "inside"}
  BY <1>0 DEF Unwound, threadVars, llmVars, Stop, ThreadTyped
<1>6. QED
  BY <1>1, <1>2, <1>3, <1>4, <1>5, Finishing

(* The invariant survives the step CancelQueued. *)
LEMMA CancelQueuedStep ==
  ASSUME IInv, NEW c \in Clients, CancelQueued(c),
         cancels[c] < MaxCancels, cancels' = [cancels EXCEPT ![c] = @ + 1]
  PROVE  IInv'
<1>0. GateInv /\ Books /\ ThreadTyped /\ Served(c) /\ Cancelled(c)
  BY DEF IInv, WorkInv
<1>1. GateKept(c) /\ pc[c] \in {"queued", "granted"} /\ pc'[c] = "done"
  BY <1>0, LeavingTheLine DEF CancelQueued
<1>2. ThreadTyped'
  BY <1>0, CancelCount DEF CancelQueued, threadVars, llmVars, cancelRest, Leave, ThreadTyped
<1>3. OnlyFor(c)
  BY <1>0, CancelCount
     DEF CancelQueued, threadVars, llmVars, cancelRest, Leave, OnlyFor, Untouched, ThreadTyped
<1>4. Served(c)' /\ Cancelled(c)'
  BY <1>0, <1>1
     DEF CancelQueued, threadVars, llmVars, cancelRest, Leave, Served, Cancelled, Gone, ThreadTyped, Untouched
<1>5. work'[c] \in {"submitted", "inside"} => work[c] \in {"submitted", "inside"}
  BY <1>0 DEF CancelQueued, threadVars, llmVars, cancelRest, Leave, ThreadTyped
<1>6. QED
  BY <1>1, <1>2, <1>3, <1>4, <1>5, Finishing

(* The invariant survives the step CancelPreparing. *)
LEMMA CancelPreparingStep ==
  ASSUME IInv, NEW c \in Clients, CancelPreparing(c),
         cancels[c] < MaxCancels, cancels' = [cancels EXCEPT ![c] = @ + 1]
  PROVE  IInv'
<1>0. GateInv /\ Books /\ ThreadTyped /\ Served(c) /\ Cancelled(c)
  BY DEF IInv, WorkInv
<1>1. GateKept(c) /\ pc[c] \in {"preparing"} /\ pc'[c] = "joining"
  <2>1. /\ pc[c] \in {"preparing"} /\ pc' = [pc EXCEPT ![c] = "joining"]
        /\ UNCHANGED <<slot, waiters, lease, active, waiting, frame>>
    BY DEF CancelPreparing, frame, cancelRest
  <2>2. lease[c] = "held"
    BY <1>0, <2>1 DEF GateInv, Places, Owning
  <2>3. QED
    BY <1>0, <2>1, <2>2, MovingOn DEF Pcs, Owning
<1>2. ThreadTyped'
  BY <1>0, CancelCount DEF CancelPreparing, threadVars, llmVars, cancelRest, ThreadTyped
<1>3. OnlyFor(c)
  BY <1>0, CancelCount
     DEF CancelPreparing, threadVars, llmVars, cancelRest, OnlyFor, Untouched, ThreadTyped
<1>4. Served(c)' /\ Cancelled(c)'
  <2>1. cancels[c] \in Nat /\ cancels'[c] = cancels[c] + 1
    BY <1>0, CancelCount
  <2>2. work[c] \notin {"starting", "submitted", "inside"}
    BY <1>0, <1>1 DEF Served
  <2>3. QED
    BY <1>0, <1>1, <2>1, <2>2 DEF CancelPreparing, cancelRest, Served, Cancelled, Gone
<1>5. work'[c] \in {"submitted", "inside"} => work[c] \in {"submitted", "inside"}
  BY <1>0 DEF CancelPreparing, threadVars, llmVars, cancelRest, ThreadTyped
<1>6. QED
  BY <1>1, <1>2, <1>3, <1>4, <1>5, Finishing

(* The invariant survives the step CancelRunning. *)
LEMMA CancelRunningStep ==
  ASSUME IInv, NEW c \in Clients, CancelRunning(c),
         cancels[c] < MaxCancels, cancels' = [cancels EXCEPT ![c] = @ + 1]
  PROVE  IInv'
<1>0. GateInv /\ Books /\ ThreadTyped /\ Served(c) /\ Cancelled(c)
  BY DEF IInv, WorkInv
<1>1. GateKept(c) /\ pc[c] \in {"running"} /\ pc'[c] = "joining"
  <2>1. /\ pc[c] \in {"running"} /\ pc' = [pc EXCEPT ![c] = "joining"]
        /\ UNCHANGED <<slot, waiters, lease, active, waiting, frame>>
    BY DEF CancelRunning, frame, cancelRest
  <2>2. lease[c] = "held"
    BY <1>0, <2>1 DEF GateInv, Places, Owning
  <2>3. QED
    BY <1>0, <2>1, <2>2, MovingOn DEF Pcs, Owning
<1>2. ThreadTyped'
  BY <1>0, CancelCount DEF CancelRunning, threadVars, llmVars, cancelRest, Stop, ThreadTyped
<1>3. OnlyFor(c)
  BY <1>0, CancelCount
     DEF CancelRunning, threadVars, llmVars, cancelRest, Stop, OnlyFor, Untouched, ThreadTyped
<1>4. Served(c)' /\ Cancelled(c)'
  <2>1. cancels[c] \in Nat /\ cancels'[c] = cancels[c] + 1
    BY <1>0, CancelCount
  <2>2. Served(c)'
    BY <1>0, <1>1 DEF CancelRunning, cancelRest, Served, Gone, Stop
  <2>3. Cancelled(c)'
    BY <1>0, <1>1, <2>1 DEF CancelRunning, cancelRest, Served, Cancelled, Stop
  <2>4. QED
    BY <2>2, <2>3
<1>5. work'[c] \in {"submitted", "inside"} => work[c] \in {"submitted", "inside"}
  BY <1>0 DEF CancelRunning, threadVars, llmVars, cancelRest, Stop, ThreadTyped
<1>6. QED
  BY <1>1, <1>2, <1>3, <1>4, <1>5, Finishing

(* The invariant survives the step CancelNext. *)
LEMMA CancelNextStep ==
  ASSUME IInv, NEW c \in Clients, CancelNext(c),
         cancels[c] < MaxCancels, cancels' = [cancels EXCEPT ![c] = @ + 1]
  PROVE  IInv'
<1>0. GateInv /\ Books /\ ThreadTyped /\ Served(c) /\ Cancelled(c)
  BY DEF IInv, WorkInv
<1>1. GateKept(c) /\ pc[c] \in {"next"} /\ pc'[c] = "joining"
  <2>1. /\ pc[c] \in {"next"} /\ pc' = [pc EXCEPT ![c] = "joining"]
        /\ UNCHANGED <<slot, waiters, lease, active, waiting, frame>>
    BY DEF CancelNext, frame, cancelRest
  <2>2. lease[c] = "held"
    BY <1>0, <2>1 DEF GateInv, Places, Owning
  <2>3. QED
    BY <1>0, <2>1, <2>2, MovingOn DEF Pcs, Owning
<1>2. ThreadTyped'
  BY <1>0, CancelCount DEF CancelNext, threadVars, llmVars, cancelRest, ThreadTyped
<1>3. OnlyFor(c)
  BY <1>0, CancelCount
     DEF CancelNext, threadVars, llmVars, cancelRest, OnlyFor, Untouched, ThreadTyped
<1>4. Served(c)' /\ Cancelled(c)'
  <2>1. cancels[c] \in Nat /\ cancels'[c] = cancels[c] + 1
    BY <1>0, CancelCount
  <2>2. Served(c)'
    BY <1>0, <1>1 DEF CancelNext, cancelRest, Served, Gone
  <2>3. Cancelled(c)'
    BY <1>0, <1>1, <2>1 DEF CancelNext, cancelRest, Served, Cancelled
  <2>4. QED
    BY <2>2, <2>3
<1>5. work'[c] \in {"submitted", "inside"} => work[c] \in {"submitted", "inside"}
  BY <1>0 DEF CancelNext, threadVars, llmVars, cancelRest, ThreadTyped
<1>6. QED
  BY <1>1, <1>2, <1>3, <1>4, <1>5, Finishing

(* The invariant survives the step CancelSending. *)
LEMMA CancelSendingStep ==
  ASSUME IInv, NEW c \in Clients, CancelSending(c),
         cancels[c] < MaxCancels, cancels' = [cancels EXCEPT ![c] = @ + 1]
  PROVE  IInv'
<1>0. GateInv /\ Books /\ ThreadTyped /\ Served(c) /\ Cancelled(c)
  BY DEF IInv, WorkInv
<1>1. /\ GateKept(c) /\ pc[c] \in {"sending"}
      /\ \/ pc'[c] = "abandoned" /\ (route[c] = "stream")
         \/ pc'[c] = "finalizing" /\ ~(route[c] = "stream")
  <2>0. UNCHANGED frame /\ pc[c] \in {"sending"} /\ pc[c] \in Owning
    BY DEF CancelSending, frame, cancelRest, Owning
  <2>1. CASE route[c] = "stream"
    <3>1. Release(c, "abandoned")
      BY <2>1 DEF CancelSending
    <3>2. GateKept(c) /\ pc'[c] = "abandoned"
      BY <1>0, <2>0, <3>1, LettingGo
    <3>3. QED
      BY <2>0, <2>1, <3>2
  <2>2. CASE ~(route[c] = "stream")
    <3>1. pc' = [pc EXCEPT ![c] = "finalizing"] /\ UNCHANGED <<slot, waiters, active, waiting, lease>>
      BY <2>2 DEF CancelSending
    <3>2. lease[c] = "held" /\ "finalizing" \in Pcs
      BY <1>0, <2>0 DEF GateInv, Places, Pcs
    <3>3. pc[c] \notin {"queued", "granted"}
      BY <2>0
    <3>4. GateKept(c) /\ pc'[c] = "finalizing"
      BY <1>0, <2>0, <3>1, <3>2, <3>3, MovingOn
    <3>5. QED
      BY <2>0, <2>2, <3>4
  <2>3. QED
    BY <2>1, <2>2
<1>2. ThreadTyped'
  BY <1>0, CancelCount DEF CancelSending, threadVars, llmVars, cancelRest, ThreadTyped
<1>3. OnlyFor(c)
  BY <1>0, CancelCount
     DEF CancelSending, threadVars, llmVars, cancelRest, OnlyFor, Untouched, ThreadTyped
<1>4. Served(c)' /\ Cancelled(c)'
  <2>1. cancels[c] \in Nat /\ cancels'[c] = cancels[c] + 1
    BY <1>0, CancelCount
  <2>2. Served(c)'
    BY <1>0, <1>1 DEF CancelSending, cancelRest, Served, Gone
  <2>3. Cancelled(c)'
    BY <1>0, <1>1, <2>1 DEF CancelSending, cancelRest, Served, Cancelled
  <2>4. QED
    BY <2>2, <2>3
<1>5. work'[c] \in {"submitted", "inside"} => work[c] \in {"submitted", "inside"}
  BY <1>0 DEF CancelSending, threadVars, llmVars, cancelRest, ThreadTyped
<1>6. QED
  BY <1>1, <1>2, <1>3, <1>4, <1>5, Finishing

(* The invariant survives the step CancelJoining. *)
LEMMA CancelJoiningStep ==
  ASSUME IInv, NEW c \in Clients, CancelJoining(c),
         cancels[c] < MaxCancels, cancels' = [cancels EXCEPT ![c] = @ + 1]
  PROVE  IInv'
<1>0. GateInv /\ Books /\ ThreadTyped /\ Served(c) /\ Cancelled(c)
  BY DEF IInv, WorkInv
<1>1. /\ GateKept(c) /\ pc[c] \in {"joining"}
      /\ \/ pc'[c] = "abandoned" /\ (work[c] = "prepare" \/ route[c] = "generate")
         \/ pc'[c] = "finallyEarly" /\ ~(work[c] = "prepare" \/ route[c] = "generate")
  <2>0. UNCHANGED frame /\ pc[c] \in {"joining"} /\ pc[c] \in Owning
    BY DEF CancelJoining, frame, cancelRest, Owning
  <2>1. CASE work[c] = "prepare" \/ route[c] = "generate"
    <3>1. Release(c, "abandoned")
      BY <2>1 DEF CancelJoining
    <3>2. GateKept(c) /\ pc'[c] = "abandoned"
      BY <1>0, <2>0, <3>1, LettingGo
    <3>3. QED
      BY <2>0, <2>1, <3>2
  <2>2. CASE ~(work[c] = "prepare" \/ route[c] = "generate")
    <3>1. pc' = [pc EXCEPT ![c] = "finallyEarly"] /\ UNCHANGED <<slot, waiters, active, waiting, lease>>
      BY <2>2 DEF CancelJoining
    <3>2. lease[c] = "held" /\ "finallyEarly" \in Pcs
      BY <1>0, <2>0 DEF GateInv, Places, Pcs
    <3>3. pc[c] \notin {"queued", "granted"}
      BY <2>0
    <3>4. GateKept(c) /\ pc'[c] = "finallyEarly"
      BY <1>0, <2>0, <3>1, <3>2, <3>3, MovingOn
    <3>5. QED
      BY <2>0, <2>2, <3>4
  <2>3. QED
    BY <2>1, <2>2
<1>2. ThreadTyped'
  BY <1>0, CancelCount DEF CancelJoining, threadVars, llmVars, cancelRest, ThreadTyped
<1>3. OnlyFor(c)
  BY <1>0, CancelCount
     DEF CancelJoining, threadVars, llmVars, cancelRest, OnlyFor, Untouched, ThreadTyped
<1>4. Served(c)' /\ Cancelled(c)'
  <2>1. cancels[c] \in Nat /\ cancels'[c] = cancels[c] + 1
    BY <1>0, CancelCount
  <2>2. UNCHANGED <<ifb, route, work, published, asked, stopped, toClose>>
    BY DEF CancelJoining, cancelRest
  <2>3. pc'[c] \in {"abandoned", "finallyEarly"} /\ pc[c] = "joining"
    BY <1>1
  <2>4. Served(c)'
    BY <1>0, <2>2, <2>3 DEF Served, Gone
  <2>5. Cancelled(c)'
    BY <1>0, <2>1, <2>2, <2>3 DEF Cancelled
  <2>6. QED
    BY <2>4, <2>5
<1>5. work'[c] \in {"submitted", "inside"} => work[c] \in {"submitted", "inside"}
  BY <1>0 DEF CancelJoining, threadVars, llmVars, cancelRest, ThreadTyped
<1>6. QED
  BY <1>1, <1>2, <1>3, <1>4, <1>5, Finishing

(* The invariant survives the step CancelFinally. *)
LEMMA CancelFinallyStep ==
  ASSUME IInv, NEW c \in Clients, CancelFinally(c),
         cancels[c] < MaxCancels, cancels' = [cancels EXCEPT ![c] = @ + 1]
  PROVE  IInv'
<1>0. GateInv /\ Books /\ ThreadTyped /\ Served(c) /\ Cancelled(c)
  BY DEF IInv, WorkInv
<1>1. /\ GateKept(c) /\ pc[c] \in {"finally", "finallyEarly"} /\ pc'[c] = "abandoned"
  <2>0. UNCHANGED frame /\ pc[c] \in {"finally", "finallyEarly"} /\ pc[c] \in Owning
    BY DEF CancelFinally, frame, cancelRest, Owning
  <2>1. CASE route[c] = "stream"
    <3>1. Release(c, "abandoned")
      BY <2>1 DEF CancelFinally
    <3>2. QED
      BY <1>0, <2>0, <3>1, LettingGo
  <2>2. CASE route[c] # "stream"
    <3>1. pc' = [pc EXCEPT ![c] = "abandoned"] /\ UNCHANGED <<slot, waiters, active, waiting, lease>>
      BY <2>2 DEF CancelFinally
    <3>2. "abandoned" \in Pcs /\ "abandoned" \notin Owning /\ pc[c] \notin {"queued", "granted"}
      BY <2>0 DEF Pcs, Owning
    <3>3. QED
      BY <1>0, <2>0, <3>1, <3>2, MovingOn
  <2>3. QED
    BY <2>1, <2>2
<1>2. ThreadTyped'
  BY <1>0, CancelCount DEF CancelFinally, threadVars, llmVars, cancelRest, ThreadTyped
<1>3. OnlyFor(c)
  BY <1>0, CancelCount
     DEF CancelFinally, threadVars, llmVars, cancelRest, OnlyFor, Untouched, ThreadTyped
<1>4. Served(c)' /\ Cancelled(c)'
  <2>1. cancels[c] \in Nat /\ cancels'[c] = cancels[c] + 1
    BY <1>0, CancelCount
  <2>2. Served(c)'
    BY <1>0, <1>1 DEF CancelFinally, cancelRest, Served, Gone
  <2>3. Cancelled(c)'
    BY <1>0, <1>1, <2>1 DEF CancelFinally, cancelRest, Served, Cancelled
  <2>4. QED
    BY <2>2, <2>3
<1>5. work'[c] \in {"submitted", "inside"} => work[c] \in {"submitted", "inside"}
  BY <1>0 DEF CancelFinally, threadVars, llmVars, cancelRest, ThreadTyped
<1>6. QED
  BY <1>1, <1>2, <1>3, <1>4, <1>5, Finishing

(* The invariant survives the step Cancel. *)
LEMMA CancelStep == ASSUME IInv, NEW c \in Clients, Cancel(c) PROVE IInv'
<1>1. cancels[c] < MaxCancels /\ cancels' = [cancels EXCEPT ![c] = @ + 1]
  BY DEF Cancel
<1>2. CASE CancelQueued(c)
  BY <1>1, <1>2, CancelQueuedStep
<1>3. CASE CancelPreparing(c)
  BY <1>1, <1>3, CancelPreparingStep
<1>4. CASE CancelRunning(c)
  BY <1>1, <1>4, CancelRunningStep
<1>5. CASE CancelNext(c)
  BY <1>1, <1>5, CancelNextStep
<1>6. CASE CancelSending(c)
  BY <1>1, <1>6, CancelSendingStep
<1>7. CASE CancelJoining(c)
  BY <1>1, <1>7, CancelJoiningStep
<1>8. CASE CancelFinally(c)
  BY <1>1, <1>8, CancelFinallyStep
<1>9. QED
  BY <1>2, <1>3, <1>4, <1>5, <1>6, <1>7, <1>8 DEF Cancel

(* The shutdown. *)
LEMMA WorkAside ==
  ASSUME WorkInv, ThreadTyped, Elsewhere(Closer), UNCHANGED <<ifb, route, cancels, threadVars>>
  PROVE  WorkInv'
<1>1. \A d \in Clients : pc'[d] = pc[d] \/ (pc[d] = "queued" /\ pc'[d] = "granted")
  BY ClientsAssumption DEF Elsewhere, Tasks
<1>2. UNCHANGED <<work, published, asked, stopped, toClose>>
  BY DEF threadVars
<1>3. SUFFICES ASSUME NEW d \in Clients PROVE Served(d)' /\ Cancelled(d)'
  BY DEF WorkInv
<1>4. Served(d) /\ Cancelled(d)
  BY DEF WorkInv
<1>5. QED
  BY <1>1, <1>2, <1>4 DEF Served, Cancelled, Gone

(* The closing thread keeps the books. *)
LEMMA BooksAside ==
  ASSUME Books, Elsewhere(Closer), UNCHANGED <<lease, active, waiting, ifb>>
  PROVE  Books' /\ Held' = Held
<1>1. Held' = Held /\ Parked' = Parked
  BY ParkedAfterClosing DEF Held
<1>2. QED
  BY <1>1, SameBooks

(* The invariant survives the step Close. *)
LEMMA CloseStep == ASSUME IInv, Close PROVE IInv'
<1>0. GateInv /\ Books /\ ThreadTyped /\ WorkInv /\ RuntimeInv
  BY DEF IInv
<1>1. GateInv' /\ Elsewhere(Closer)
  BY <1>0, Closing
<1>2. UNCHANGED <<lease, active, waiting, ifb>> /\ UNCHANGED <<ifb, route, cancels, threadVars>>
      /\ UNCHANGED <<drained, llmVars>>
  BY DEF Close
<1>3. Books' /\ Held' = Held
  BY <1>0, <1>1, <1>2, BooksAside
<1>4. ThreadTyped' /\ Inside' = Inside
  BY <1>0, <1>2 DEF ThreadTyped, threadVars, llmVars, Inside
<1>5. WorkInv'
  BY <1>0, <1>1, <1>2, WorkAside
<1>6. RuntimeInv'
  BY <1>0, <1>2, <1>3, <1>4 DEF RuntimeInv, llmVars
<1>7. QED
  BY <1>1, <1>3, <1>4, <1>5, <1>6 DEF IInv

(* Once the drain has seen the gate empty, no lease is out. *)
LEMMA NobodyHolds == ASSUME GateInv, Books, Drained PROVE Held = {}
<1>1. CASE pc[Closer] = "granted"
  <2>1. ~ifb /\ Closer \in Owners /\ Closer \in Tasks
    BY <1>1 DEF GateInv, Places, Owners, Tasks
  <2>2. \A t \in Owners : t = Closer
    BY <2>1 DEF GateInv, OneOwner
  <2>3. QED
    BY <2>2, ClientsAssumption DEF Owners, Held
<1>2. CASE ifb /\ active = 0
  <2>1. Cardinality(Held) = 0 /\ Held \subseteq Clients
    BY <1>2 DEF Books, Held
  <2>2. IsFiniteSet(Held)
    BY <2>1, ClientsAssumption, FS_Subset
  <2>3. QED
    BY <2>1, <2>2, FS_EmptySet
<1>3. QED
  BY <1>1, <1>2 DEF Drained

(* The invariant survives the step Drained. *)
LEMMA DrainedStep == ASSUME IInv, Drained PROVE IInv'
<1>0. GateInv /\ Books /\ ThreadTyped /\ WorkInv /\ RuntimeInv /\ Held = {}
  BY NobodyHolds DEF IInv
<1>1. GateInv' /\ Elsewhere(Closer)
  BY <1>0, Draining
<1>2. UNCHANGED <<lease, active, waiting, ifb>> /\ UNCHANGED <<ifb, route, cancels, threadVars>>
      /\ UNCHANGED llmVars /\ drained' = TRUE
  BY DEF Drained
<1>3. Books' /\ Held' = Held
  BY <1>0, <1>1, <1>2, BooksAside
<1>4. ThreadTyped' /\ Inside' = Inside
  BY <1>0, <1>2 DEF ThreadTyped, threadVars, llmVars, Inside
<1>5. WorkInv'
  BY <1>0, <1>1, <1>2, WorkAside
<1>6. RuntimeInv'
  BY <1>0, <1>2, <1>3, <1>4 DEF RuntimeInv, llmVars
<1>7. QED
  BY <1>1, <1>3, <1>4, <1>5, <1>6 DEF IInv

(* The invariant survives the step LlmClose. *)
LEMMA LlmCloseStep == ASSUME IInv, LlmClose PROVE IInv'
<1>0. GateInv /\ Books /\ ThreadTyped /\ WorkInv /\ RuntimeInv
  BY DEF IInv
<1>1. /\ UNCHANGED <<gateVars, frame>> /\ UNCHANGED <<lease, active, waiting, ifb>>
      /\ UNCHANGED <<ifb, route, cancels, threadVars>>
      /\ pc[Closer] = "llm" /\ llmClosed' = TRUE /\ runtimeOpen' = runtimeOpen
  BY DEF LlmClose, gateVars, frame
<1>2. GateInv' /\ Books' /\ Elsewhere(Closer) /\ Held' = Held /\ drained' = drained
  <2>1. UNCHANGED <<slot, waiters, active, waiting, pc, lease>> /\ UNCHANGED <<ifb, closing, drained>>
    BY <1>1 DEF gateVars, frame
  <2>2. Held' = Held /\ Parked' = Parked /\ Owners' = Owners
    BY <2>1 DEF Held, Parked, Owners
  <2>3. GateInv'
    BY <1>0, <2>1, <2>2 DEF GateInv, GateTyped, Places, Line, OneOwner
  <2>4. QED
    BY <1>0, <2>1, <2>2, <2>3 DEF Books, Elsewhere
<1>3. drained
  BY <1>0, <1>1 DEF GateInv, Places
<1>4. ThreadTyped' /\ Inside' = Inside
  BY <1>0, <1>1 DEF ThreadTyped, threadVars, Inside
<1>5. WorkInv'
  BY <1>0, <1>1, <1>2, WorkAside
<1>6. RuntimeInv'
  BY <1>0, <1>1, <1>2, <1>3, <1>4 DEF RuntimeInv
<1>7. QED
  BY <1>2, <1>4, <1>5, <1>6 DEF IInv

(* The invariant survives the step LlmRelease. *)
LEMMA LlmReleaseStep == ASSUME IInv, LlmRelease PROVE IInv'
<1>0. GateInv /\ Books /\ ThreadTyped /\ WorkInv /\ RuntimeInv
  BY DEF IInv
<1>1. GateInv' /\ Elsewhere(Closer)
  BY <1>0, Destroying
<1>2. /\ UNCHANGED <<lease, active, waiting, ifb>> /\ UNCHANGED <<ifb, route, cancels, threadVars>>
      /\ UNCHANGED <<drained, llmClosed>> /\ llmClosed /\ Inside = {} /\ runtimeOpen' = FALSE
  BY DEF LlmRelease
<1>3. Books' /\ Held' = Held
  BY <1>0, <1>1, <1>2, BooksAside
<1>4. ThreadTyped' /\ Inside' = Inside
  BY <1>0, <1>2 DEF ThreadTyped, threadVars, Inside
<1>5. WorkInv'
  BY <1>0, <1>1, <1>2, WorkAside
<1>6. RuntimeInv'
  BY <1>0, <1>2, <1>3, <1>4 DEF RuntimeInv
<1>7. QED
  BY <1>1, <1>3, <1>4, <1>5, <1>6 DEF IInv

-----------------------------------------------------------------------------
(* Every step keeps the invariant. *)
LEMMA StutterStep == ASSUME IInv, UNCHANGED vars PROVE IInv'
<1>1. /\ UNCHANGED <<ifb, slot, waiters, active, waiting, pc, lease, closing, drained, route, cancels>>
      /\ UNCHANGED <<work, published, asked, stopped, toClose, llmClosed, runtimeOpen>>
  BY DEF vars, gateVars, threadVars, llmVars
<1>2. Held' = Held /\ Parked' = Parked /\ Owners' = Owners /\ Inside' = Inside
  BY <1>1 DEF Held, Parked, Owners, Inside
<1>3. GateInv' /\ Books'
  BY <1>1, <1>2 DEF IInv, GateInv, GateTyped, Places, Line, OneOwner, Books
<1>4. ThreadTyped' /\ RuntimeInv'
  BY <1>1, <1>2 DEF IInv, ThreadTyped, RuntimeInv
<1>5. WorkInv'
  BY <1>1 DEF IInv, WorkInv, Served, Cancelled, Gone
<1>6. QED
  BY <1>3, <1>4, <1>5 DEF IInv

(* Every step keeps the invariant. *)
LEMMA Step == IInv /\ [Next]_vars => IInv'
<1> SUFFICES ASSUME IInv, [Next]_vars PROVE IInv'
  OBVIOUS
<1>1. ASSUME NEW c \in Clients, Refuse(c) \/ Park(c) \/ Admit(c) \/ Timeout(c) PROVE IInv'
  BY <1>1, RefuseStep, ParkStep, AdmitStep, TimeoutStep
<1>2. ASSUME NEW c \in Clients, Thread(c) PROVE IInv'
  BY <1>2, PreparedStep, StartStep, PublishStep, WorkOverStep, CollectStep DEF Thread
<1>3. ASSUME NEW c \in Clients, Task(c) PROVE IInv'
  BY <1>3, ResumeStep, SentStep, CloseStreamStep, UnwoundStep, EndResponseStep DEF Task
<1>4. ASSUME NEW c \in Clients, Item(c) \/ Cancel(c) PROVE IInv'
  BY <1>4, ItemStep, CancelStep
<1>5. CASE Close \/ Shutdown
  BY <1>5, CloseStep, DrainedStep, LlmCloseStep, LlmReleaseStep DEF Shutdown
<1>6. CASE UNCHANGED vars
  BY <1>6, StutterStep
<1>7. QED
  BY <1>1, <1>2, <1>3, <1>4, <1>5, <1>6 DEF Next

(* Gate, books and work agree in every reachable state of the server. *)
THEOREM Invariance == Spec => []IInv
<1>1. Init => IInv
  BY InitAll
<1>2. IInv /\ [Next]_vars => IInv'
  BY Step
<1>3. QED
  BY <1>1, <1>2, PTL DEF Spec

-----------------------------------------------------------------------------
(* Every variable keeps to its type, the gate's counters included (reserve, release). *)
THEOREM TypeCorrect == Spec => []TypeOK
<1>1. IInv => TypeOK
  <2> SUFFICES ASSUME IInv PROVE TypeOK
    OBVIOUS
  <2>1. GateTyped /\ ThreadTyped /\ Books
    BY DEF IInv, GateInv
  <2>2. Held \subseteq Clients /\ Parked \subseteq Clients /\ IsFiniteSet(Clients)
    BY ClientsAssumption DEF Held, Parked
  <2>3. IsFiniteSet(Held) /\ IsFiniteSet(Parked)
    BY <2>2, FS_Subset
  <2>4. active \in Nat /\ waiting \in Nat
    BY <2>1, <2>3, FS_CardinalityType DEF Books
  <2>5. QED
    BY <2>1, <2>4 DEF TypeOK, GateTyped, ThreadTyped, Pcs
<1>2. QED
  BY <1>1, Invariance, PTL

(* The semaphore's one permit is free or has one owner, whatever timeouts, disconnects and *)
(* the shutdown do to the tasks that wait for it (_AdmissionController.reserve, release).  *)
THEOREM OneOwnerAlways == Spec => []SlotHasOneOwner
<1>1. IInv => SlotHasOneOwner
  <2> SUFFICES ASSUME IInv, ~ifb PROVE \/ slot = 1 /\ Owners = {}
                                       \/ slot = 0 /\ \E t \in Tasks : Owners = {t}
    BY DEF SlotHasOneOwner
  <2>1. slot \in {0, 1} /\ (slot = 1 <=> Owners = {}) /\ \A s, t \in Owners : s = t
    BY DEF IInv, GateInv, GateTyped, OneOwner
  <2>2. Owners \subseteq Tasks
    BY DEF Owners, Held, Tasks
  <2>3. CASE slot = 1
    BY <2>1, <2>3
  <2>4. CASE slot = 0
    <3>1. PICK t \in Owners : TRUE
      BY <2>1, <2>4
    <3>2. Owners = {t} /\ t \in Tasks
      BY <2>1, <2>2, <3>1
    <3>3. QED
      BY <2>4, <3>2
  <2>5. QED
    BY <2>1, <2>3, <2>4
<1>2. QED
  BY <1>1, Invariance, PTL

(* The gate's counters are exact and within max_queued_requests, and its line holds every *)
(* parked task once (_AdmissionController, _IFBAdmissionGate).                            *)
THEOREM GateAlwaysExact == Spec => []GateIsExact
<1>1. IInv => GateIsExact
  BY DEF IInv, GateInv, Line, Books, GateIsExact
<1>2. QED
  BY <1>1, Invariance, PTL

(* A native thread works under its request's lease, but for a response left between two *)
(* items or a task cancelled twice (_run_sync, _iterate_sync).                           *)
THEOREM WorkIsCovered == Spec => []LeaseCoversWork
<1>1. IInv => LeaseCoversWork
  <2> SUFFICES ASSUME IInv, NEW c \in Clients, work[c] \notin {"none", "over"}, lease[c] # "held"
               PROVE  \/ cancels[c] >= 2
                      \/ cancels[c] = 1 /\ route[c] = "stream" /\ pc[c] = "abandoned"
    BY DEF LeaseCoversWork
  <2>1. /\ GateTyped /\ Places /\ ThreadTyped /\ Served(c) /\ Cancelled(c) /\ c \in Tasks
    BY DEF IInv, GateInv, WorkInv, Tasks
  <2>2. pc[c] \in Pcs /\ pc[c] \notin Owning /\ pc[c] # "llm"
    BY <2>1 DEF GateTyped, Places
  <2>3. pc[c] = "abandoned"
    BY <2>1, <2>2 DEF Served, Pcs, Owning
  <2>4. cancels[c] >= 2 \/ (cancels[c] >= 1 /\ route[c] = "stream")
    BY <2>1, <2>3 DEF Cancelled
  <2>5. cancels[c] \in Nat
    BY <2>1, LimitsAssumption DEF ThreadTyped
  <2>6. QED
    BY <2>3, <2>4, <2>5
<1>2. QED
  BY <1>1, Invariance, PTL

(* LLM.close() destroys the runtime after the last native call, and nobody enters it again. *)
THEOREM RuntimeOutlives == Spec => []RuntimeOutlivesWork
<1>1. IInv => RuntimeOutlivesWork
  BY DEF IInv, RuntimeInv, RuntimeOutlivesWork
<1>2. QED
  BY <1>1, Invariance, PTL

(* The request of a client that left is told to stop, whichever of the handle and the     *)
(* disconnect comes first (_HandleLatch).                                                  *)
THEOREM DisconnectAlwaysStops == Spec => []DisconnectStopsWork
<1>1. IInv => DisconnectStopsWork
  <2> SUFFICES ASSUME IInv, NEW c \in Clients, pc[c] \in Gone, work[c] = "inside",
                      ifb \/ route[c] # "generate"
               PROVE  c \in stopped \cup toClose
    BY DEF DisconnectStopsWork, Gone
  <2>1. Served(c)
    BY DEF IInv, WorkInv
  <2>2. QED
    BY <2>1 DEF Served
<1>2. QED
  BY <1>1, Invariance, PTL
=============================================================================
