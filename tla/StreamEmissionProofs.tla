------------------------- MODULE StreamEmissionProofs -------------------------
(***************************************************************************)
(* Theorems about StreamEmission, for any vocabulary, any stop strings and *)
(* any history.  The invariants of the stream come in layers, each proved  *)
(* with the help of those before it: types; the tokens that have been sent;*)
(* how the stream ends; and the text, which rests on what decoding and     *)
(* matching a text in parts have to do with doing it in one.               *)
(***************************************************************************)
EXTENDS StreamEmission, SequencesExt, FiniteSetTheorems, SequenceTheorems, WellFoundedInduction,
        TLAPS

-----------------------------------------------------------------------------
(* Induction, and what the concatenation of a line's items is.               *)

(* A nonempty set of naturals has a least element. *)
LEMMA LeastNat ==
  ASSUME NEW T, T \subseteq Nat, T # {}
  PROVE  \E m \in T : \A k \in T : m <= k
<1> DEFINE R == OpToRel(<, Nat)
<1>1. IsWellFoundedOn(R, Nat)
  BY NatLessThanWellFounded
<1>2. \A x, y \in Nat : x < y => <<x, y>> \in R
  BY DEF OpToRel
<1> HIDE DEF R
<1>3. PICK m \in T : \A k \in T : ~(<<k, m>> \in R)
  BY <1>1, WFMin
<1>4. ASSUME NEW k \in T PROVE m <= k
  <2>1. m \in Nat /\ k \in Nat
    OBVIOUS
  <2>2. ~(k < m)
    BY <1>2, <1>3, <2>1
  <2> QED
    BY <2>1, <2>2
<1> QED
  BY <1>4

(* Induction, for the predicate that a set stands for. *)
LEMMA SetInduction ==
  ASSUME NEW T, 0 \in T, \A n \in Nat : n \in T => n + 1 \in T
  PROVE  \A n \in Nat : n \in T
<1> SUFFICES ASSUME NEW n \in Nat, n \notin T PROVE FALSE
  OBVIOUS
<1>1. Nat \ T # {} /\ Nat \ T \subseteq Nat
  OBVIOUS
<1>2. PICK m \in Nat \ T : \A k \in Nat \ T : m <= k
  BY <1>1, LeastNat
<1>3. m # 0 /\ m - 1 \in Nat /\ ~(m <= m - 1)
  BY <1>2
<1>4. m - 1 \in T
  BY <1>2, <1>3
<1>5. (m - 1) + 1 = m
  BY <1>2
<1> QED
  BY <1>2, <1>3, <1>4, <1>5

(* What FlattenSeq is made of: its partial concatenations up to the n-th. *)
Glue(s, n, f) == f = [i \in 1..n |-> IF i = 1 THEN s[i] ELSE f[i - 1] \o s[i]]

(* The partial concatenations follow one from the other, exist, and are the same for *)
(* lines that agree.                                                                  *)
LEMMA GlueValues ==
  ASSUME NEW s, NEW n \in Nat, NEW f, Glue(s, n, f), NEW i \in 1..n
  PROVE  f[i] = IF i = 1 THEN s[i] ELSE f[i - 1] \o s[i]
<1> DEFINE g == [k \in 1..n |-> IF k = 1 THEN s[k] ELSE f[k - 1] \o s[k]]
<1>1. f = g
  BY DEF Glue
<1>2. g[i] = IF i = 1 THEN s[i] ELSE f[i - 1] \o s[i]
  OBVIOUS
<1> HIDE DEF g
<1> QED
  BY <1>1, <1>2

(* A sequence of sequences can be joined up to any of them. *)
LEMMA GlueExists ==
  ASSUME NEW s
  PROVE  \A n \in Nat : \E f : Glue(s, n, f)
<1> DEFINE T == {n \in Nat : \E f : Glue(s, n, f)}
<1>1. 0 \in T
  <2>1. Glue(s, 0, [i \in 1..0 |-> s[i]])
    BY DEF Glue
  <2> QED
    BY <2>1
<1>2. ASSUME NEW n \in Nat, n \in T PROVE n + 1 \in T
  <2>1. PICK f : Glue(s, n, f)
    BY <1>2
  <2> DEFINE g == [i \in 1..(n + 1) |-> IF i = 1 THEN s[i] ELSE f[i - 1] \o s[i]]
  <2>2. ASSUME NEW i \in 1..n PROVE g[i] = f[i]
    <3>1. i \in 1..(n + 1)
      OBVIOUS
    <3>2. g[i] = IF i = 1 THEN s[i] ELSE f[i - 1] \o s[i]
      BY <3>1
    <3> HIDE DEF g
    <3> QED
      BY <2>1, <3>2, GlueValues
  <2>3. \A i \in 1..(n + 1) : i # 1 => i - 1 \in 1..n
    OBVIOUS
  <2>4. g = [i \in 1..(n + 1) |-> IF i = 1 THEN s[i] ELSE g[i - 1] \o s[i]]
    <3> DEFINE h == [i \in 1..(n + 1) |-> IF i = 1 THEN s[i] ELSE g[i - 1] \o s[i]]
    <3>1. ASSUME NEW i \in 1..(n + 1) PROVE g[i] = h[i]
      <4>1. g[i] = IF i = 1 THEN s[i] ELSE f[i - 1] \o s[i]
        OBVIOUS
      <4>2. h[i] = IF i = 1 THEN s[i] ELSE g[i - 1] \o s[i]
        OBVIOUS
      <4> HIDE DEF g, h
      <4> QED
        BY <2>2, <2>3, <4>1, <4>2
    <3> QED
      BY <3>1
  <2>5. Glue(s, n + 1, g)
    <3> HIDE DEF g
    <3> QED
      BY <2>4 DEF Glue
  <2> QED
    BY <2>5
<1> HIDE DEF T
<1>3. \A n \in Nat : n \in T
  BY <1>1, <1>2, SetInduction
<1> QED
  BY <1>3 DEF T

Agree(s, t, n) == \A i \in 1..n : s[i] = t[i]

(* Joining the same ones gives the same. *)
LEMMA GlueUnique ==
  ASSUME NEW s, NEW t, NEW n \in Nat, NEW m \in Nat, NEW f, NEW g,
         Glue(s, n, f), Glue(t, m, g), n <= m, Agree(s, t, n)
  PROVE  Agree(f, g, n)
<1> DEFINE T == {i \in Nat : i \in 1..n => f[i] = g[i]}
<1>1. 0 \in T
  OBVIOUS
<1>2. ASSUME NEW i \in Nat, i \in T PROVE i + 1 \in T
  <2>1. CASE i + 1 \in 1..n
    <3>0. i + 1 \in 1..m /\ (i + 1) - 1 = i /\ s[i + 1] = t[i + 1]
      BY <2>1 DEF Agree
    <3>1. /\ f[i + 1] = IF i + 1 = 1 THEN s[i + 1] ELSE f[(i + 1) - 1] \o s[i + 1]
          /\ g[i + 1] = IF i + 1 = 1 THEN t[i + 1] ELSE g[(i + 1) - 1] \o t[i + 1]
      BY <2>1, <3>0, GlueValues
    <3>2. CASE i = 0
      BY <3>0, <3>1, <3>2
    <3>3. CASE i # 0
      <4>1. f[i] = g[i]
        BY <1>2, <2>1, <3>3
      <4> QED
        BY <3>0, <3>1, <3>3, <4>1
    <3> QED
      BY <3>2, <3>3
  <2> QED
    BY <2>1
<1> HIDE DEF T
<1>3. \A i \in Nat : i \in T
  BY <1>1, <1>2, SetInduction
<1> QED
  BY <1>3 DEF T, Agree

(* FlattenSeq is the last of them. *)
LEMMA FlattenIsGlue ==
  ASSUME NEW s, Len(s) \in Nat \ {0}
  PROVE  \E f : Glue(s, Len(s), f) /\ FlattenSeq(s) = f[Len(s)]
<1> DEFINE f == CHOOSE g : Glue(s, Len(s), g)
<1>1. Glue(s, Len(s), f)
  BY GlueExists
<1>2. FlattenSeq(s) = f[Len(s)]
  BY DEF FlattenSeq, Glue
<1> QED
  BY <1>1, <1>2

(* Nothing glued is nothing. *)
LEMMA FlattenEmpty == FlattenSeq(<<>>) = <<>>
  BY DEF FlattenSeq

(* One more piece is glued behind the others. *)
LEMMA FlattenAppend ==
  ASSUME NEW S, NEW s \in Seq(Seq(S)), NEW e \in Seq(S)
  PROVE  FlattenSeq(Append(s, e)) = FlattenSeq(s) \o e
<1> DEFINE t == Append(s, e)
           n == Len(s)
<1>1. /\ n \in Nat /\ Len(t) = n + 1 /\ t[n + 1] = e
      /\ \A i \in 1..n : t[i] = s[i]
  BY AppendProperties, LenProperties
<1> HIDE DEF t
<1>2. PICK g : Glue(t, n + 1, g) /\ FlattenSeq(t) = g[n + 1]
  BY <1>1, FlattenIsGlue
<1>3. g[n + 1] = IF n + 1 = 1 THEN t[n + 1] ELSE g[(n + 1) - 1] \o t[n + 1]
  BY <1>1, <1>2, GlueValues
<1>4. CASE n = 0
  <2>1. s = <<>>
    BY <1>4, EmptySeq
  <2>2. FlattenSeq(t) = e
    BY <1>1, <1>2, <1>3, <1>4
  <2>3. <<>> \o e = e
    BY ConcatEmptySeq
  <2>4. FlattenSeq(s) = <<>>
    BY <2>1, FlattenEmpty
  <2>5. FlattenSeq(t) = FlattenSeq(s) \o e
    BY <2>2, <2>3, <2>4
  <2> QED
    BY <2>5 DEF t
<1>5. CASE n # 0
  <2>1. PICK f : Glue(s, n, f) /\ FlattenSeq(s) = f[n]
    BY <1>1, <1>5, FlattenIsGlue
  <2>2. f[n] = g[n]
    <3> HIDE DEF n
    <3>1. n \in Nat /\ n + 1 \in Nat /\ n <= n + 1 /\ n \in 1..n
      BY <1>1, <1>5
    <3>2. Agree(s, t, n)
      BY <1>1 DEF Agree
    <3>3. Glue(s, n, f) /\ Glue(t, n + 1, g)
      BY <1>2, <2>1 DEF n
    <3>4. Agree(f, g, n)
      BY <3>1, <3>2, <3>3, GlueUnique
    <3> QED
      BY <3>1, <3>4 DEF Agree
  <2>3. (n + 1) - 1 = n /\ n + 1 # 1
    BY <1>1, <1>5
  <2> QED
    BY <1>1, <1>2, <1>3, <2>1, <2>2, <2>3 DEF t
<1> QED
  BY <1>4, <1>5

(* A line of one. *)
LEMMA Single ==
  ASSUME NEW S, NEW e \in S
  PROVE  <<e>> \in Seq(S) /\ Len(<<e>>) = 1 /\ <<e>>[1] = e
<1>1. <<e>> = [i \in 1..1 |-> e]
  OBVIOUS
<1>2. <<e>> \in [1..1 -> S]
  BY <1>1
<1> QED
  BY <1>2, SeqDef

(* Induction over sequences, in the same form. *)
LEMMA SequenceInduction ==
  ASSUME NEW S, NEW T, <<>> \in T,
         \A s \in Seq(S), e \in S : s \in T => Append(s, e) \in T
  PROVE  \A s \in Seq(S) : s \in T
<1> DEFINE N == {n \in Nat : \A s \in Seq(S) : Len(s) = n => s \in T}
<1>1. 0 \in N
  <2>1. \A s \in Seq(S) : Len(s) = 0 => s = <<>>
    BY EmptySeq
  <2> QED
    BY <2>1
<1>2. ASSUME NEW n \in Nat, n \in N PROVE n + 1 \in N
  <2>1. ASSUME NEW s \in Seq(S), Len(s) = n + 1 PROVE s \in T
    <3>1. s # <<>>
      BY <2>1, EmptySeq
    <3>2. PICK t \in Seq(S), e \in S : s = Append(t, e)
      BY <3>1, SequenceEmptyOrAppend
    <3>3. Len(s) = Len(t) + 1 /\ Len(t) \in Nat
      BY <3>2, AppendProperties, LenProperties
    <3>4. Len(t) = n
      BY <2>1, <3>3
    <3>5. t \in T
      BY <1>2, <3>4
    <3> QED
      BY <3>2, <3>5
  <2> QED
    BY <2>1
<1> HIDE DEF N
<1>3. \A n \in Nat : n \in N
  BY <1>1, <1>2, SetInduction
<1>4. ASSUME NEW s \in Seq(S) PROVE s \in T
  BY <1>3, LenProperties DEF N
<1> QED
  BY <1>4

(* The pieces of a line of sequences over S make a sequence over S. *)
LEMMA FlattenType ==
  ASSUME NEW S
  PROVE  \A s \in Seq(Seq(S)) : FlattenSeq(s) \in Seq(S)
<1> DEFINE T == {s \in Seq(Seq(S)) : FlattenSeq(s) \in Seq(S)}
<1>1. <<>> \in T
  BY FlattenEmpty, EmptySeq
<1>2. ASSUME NEW s \in Seq(Seq(S)), NEW e \in Seq(S), s \in T PROVE Append(s, e) \in T
  <2>1. Append(s, e) \in Seq(Seq(S))
    BY AppendProperties
  <2>2. FlattenSeq(Append(s, e)) = FlattenSeq(s) \o e
    BY FlattenAppend
  <2>3. FlattenSeq(s) \o e \in Seq(S)
    BY <1>2, ConcatProperties
  <2> QED
    BY <2>1, <2>2, <2>3
<1> HIDE DEF T
<1>3. \A s \in Seq(Seq(S)) : s \in T
  BY <1>1, <1>2, SequenceInduction
<1> QED
  BY <1>3 DEF T

(* A line that goes on behind another is glued behind it. *)
LEMMA FlattenConcat ==
  ASSUME NEW S, NEW s \in Seq(Seq(S))
  PROVE  \A t \in Seq(Seq(S)) : FlattenSeq(s \o t) = FlattenSeq(s) \o FlattenSeq(t)
<1>a. \A x, y, z \in Seq(Seq(S)) : (x \o y) \o z = x \o (y \o z)
  BY ConcatAssociative, SMTT(30)
<1>b. \A x, y, z \in Seq(S) : (x \o y) \o z = x \o (y \o z)
  BY ConcatAssociative, SMTT(30)
<1> DEFINE T == {t \in Seq(Seq(S)) : FlattenSeq(s \o t) = FlattenSeq(s) \o FlattenSeq(t)}
<1>0. FlattenSeq(s) \in Seq(S)
  BY FlattenType
<1>1. <<>> \in T
  <2>1. s \o <<>> = s /\ FlattenSeq(s) \o <<>> = FlattenSeq(s)
    BY <1>0, ConcatEmptySeq
  <2>2. <<>> \in Seq(Seq(S))
    BY EmptySeq
  <2> QED
    BY <2>1, <2>2, FlattenEmpty
<1>2. ASSUME NEW t \in Seq(Seq(S)), NEW e \in Seq(S), t \in T PROVE Append(t, e) \in T
  <2>1. Append(t, e) \in Seq(Seq(S)) /\ s \o t \in Seq(Seq(S)) /\ FlattenSeq(t) \in Seq(S)
    BY AppendProperties, ConcatProperties, FlattenType
  <2>2. s \o Append(t, e) = Append(s \o t, e)
    <3>1. <<e>> \in Seq(Seq(S))
      BY Single
    <3>2. /\ Append(t, e) = t \o <<e>>
          /\ Append(s \o t, e) = (s \o t) \o <<e>>
      BY <2>1, AppendIsConcat
    <3>3. (s \o t) \o <<e>> = s \o (t \o <<e>>)
      BY <1>a, <3>1
    <3> QED
      BY <3>2, <3>3
  <2>3. FlattenSeq(Append(s \o t, e)) = FlattenSeq(s \o t) \o e
    BY <2>1, FlattenAppend
  <2>4. FlattenSeq(Append(t, e)) = FlattenSeq(t) \o e
    BY FlattenAppend
  <2>5. (FlattenSeq(s) \o FlattenSeq(t)) \o e = FlattenSeq(s) \o (FlattenSeq(t) \o e)
    BY <1>0, <1>b, <2>1
  <2>6. FlattenSeq(s \o t) = FlattenSeq(s) \o FlattenSeq(t)
    BY <1>2
  <2> HIDE DEF T
  <2>7. FlattenSeq(s \o Append(t, e)) = FlattenSeq(s) \o FlattenSeq(Append(t, e))
    BY <2>2, <2>3, <2>4, <2>5, <2>6
  <2> QED
    BY <2>1, <2>7 DEF T
<1> HIDE DEF T
<1>3. \A t \in Seq(Seq(S)) : t \in T
  BY <1>1, <1>2, SequenceInduction
<1> QED
  BY <1>3 DEF T

(* A line is a prefix of what is put together from it. *)
LEMMA ConcatIsPrefix ==
  ASSUME NEW S, NEW s \in Seq(S), NEW t \in Seq(S)
  PROVE  IsPrefix(s, s \o t)
<1> DEFINE u == s \o t
           p == SubSeq(u, 1, Len(s))
<1>1. /\ u \in Seq(S) /\ Len(u) = Len(s) + Len(t) /\ Len(s) \in Nat /\ Len(t) \in Nat
      /\ \A i \in 1..(Len(s) + Len(t)) : u[i] = IF i <= Len(s) THEN s[i] ELSE t[i - Len(s)]
  BY ConcatProperties, LenProperties
<1> HIDE DEF u
<1>2. \A i \in 1..Len(s) : u[i] \in S /\ u[i] = s[i]
  <2>1. \A i \in 1..Len(s) : i \in 1..(Len(s) + Len(t)) /\ i <= Len(s)
    BY <1>1
  <2>2. \A i \in 1..Len(s) : s[i] \in S
    BY ElementOfSeq
  <2> QED
    BY <1>1, <2>1, <2>2
<1>3. p \in Seq(S) /\ Len(p) = Len(s) /\ \A i \in 1..Len(s) : p[i] = u[i]
  BY <1>1, <1>2, SubSeqProperties
<1> HIDE DEF p
<1>4. p = s
  BY <1>2, <1>3, SeqEqual
<1>5. SubSeq(s, 1, Len(s)) = s
  BY SubSeqFull
<1> QED
  BY <1>1, <1>4, <1>5 DEF IsPrefix, u, p

(* The part of a line behind position a, up to position b. *)
LEMMA PartType ==
  ASSUME NEW S, NEW s \in Seq(S), NEW a \in Nat, NEW b \in Nat, b <= Len(s)
  PROVE  SubSeq(s, a + 1, b) \in Seq(S)
<1>1. Len(s) \in Nat /\ \A k \in 1..Len(s) : s[k] \in S
  BY LenProperties, ElementOfSeq
<1>2. \A k \in (a + 1)..b : s[k] \in S
  BY <1>1
<1>3. a + 1 \in Int /\ b \in Int
  OBVIOUS
<1> QED
  BY <1>2, <1>3, SubSeqProperties

(* A part of a sequence, its length and what stands in it. *)
LEMMA PartValues ==
  ASSUME NEW S, NEW s \in Seq(S), NEW a \in Nat, NEW b \in Nat, a <= b, b <= Len(s)
  PROVE  /\ SubSeq(s, a + 1, b) \in Seq(S)
         /\ Len(SubSeq(s, a + 1, b)) = b - a
         /\ \A k \in 1..(b - a) : SubSeq(s, a + 1, b)[k] = s[a + k]
<1> DEFINE p == SubSeq(s, a + 1, b)
<1>1. p \in Seq(S) /\ Len(s) \in Nat
  BY PartType, LenProperties
<1>2. \A k \in (a + 1)..b : s[k] \in S
  BY <1>1, ElementOfSeq
<1>3. /\ Len(p) = IF a + 1 <= b THEN b - (a + 1) + 1 ELSE 0
      /\ \A k \in 1..(b - (a + 1) + 1) : p[k] = s[a + 1 + k - 1]
  BY <1>2, SubSeqProperties
<1> HIDE DEF p
<1>4. Len(p) = b - a
  BY <1>3
<1>5. b - (a + 1) + 1 = b - a /\ \A k \in 1..(b - a) : a + 1 + k - 1 = a + k
  OBVIOUS
<1>6. \A k \in 1..(b - a) : p[k] = s[a + k]
  BY <1>3, <1>5
<1> QED
  BY <1>1, <1>4, <1>6 DEF p

(* A part that ends before it begins is empty. *)
LEMMA EmptyPart ==
  ASSUME NEW s, NEW b \in Nat
  PROVE  SubSeq(s, b + 1, b) = <<>>
  BY SubSeqEmpty

(* A part is made of its two parts. *)
LEMMA PartsJoin ==
  ASSUME NEW S, NEW s \in Seq(S), NEW a \in Nat, NEW b \in Nat, NEW c \in Nat,
         a <= b, b <= c, c <= Len(s)
  PROVE  SubSeq(s, a + 1, c) = SubSeq(s, a + 1, b) \o SubSeq(s, b + 1, c)
<1>1. Len(s) \in Nat
  BY LenProperties
<1>2. a + 1 \in 1..(Len(s) + 1) /\ b \in ((a + 1) - 1)..Len(s) /\ c \in b..Len(s)
  BY <1>1
<1> QED
  BY <1>2, ConcatAdjacentSubSeq

(* A part of a sequence stays what it is when more comes behind. *)
LEMMA PartStays ==
  ASSUME NEW S, NEW s \in Seq(S), NEW t \in Seq(S), NEW a \in Nat, NEW b \in Nat,
         a <= b, b <= Len(s)
  PROVE  SubSeq(s \o t, a + 1, b) = SubSeq(s, a + 1, b)
<1> DEFINE u == s \o t
           p == SubSeq(s, a + 1, b)
           q == SubSeq(u, a + 1, b)
<1>1. /\ u \in Seq(S) /\ Len(u) = Len(s) + Len(t) /\ Len(s) \in Nat /\ Len(t) \in Nat
      /\ \A i \in 1..(Len(s) + Len(t)) : u[i] = IF i <= Len(s) THEN s[i] ELSE t[i - Len(s)]
  BY ConcatProperties, LenProperties
<1> HIDE DEF u
<1>2. b <= Len(u)
  BY <1>1
<1>3. p \in Seq(S) /\ Len(p) = b - a /\ \A k \in 1..(b - a) : p[k] = s[a + k]
  BY PartValues
<1>4. q \in Seq(S) /\ Len(q) = b - a /\ \A k \in 1..(b - a) : q[k] = u[a + k]
  BY <1>1, <1>2, PartValues
<1> HIDE DEF p, q
<1>5. \A k \in 1..(b - a) : a + k \in 1..(Len(s) + Len(t)) /\ a + k <= Len(s)
  BY <1>1
<1>6. \A k \in 1..(b - a) : q[k] = p[k]
  BY <1>1, <1>3, <1>4, <1>5
<1>7. q = p
  BY <1>3, <1>4, <1>6, SeqEqual
<1> QED
  BY <1>7 DEF p, q, u

(* A line that agrees with another and has one more item is that one joined. *)
LEMMA JoinedIs ==
  ASSUME NEW S, NEW s \in Seq(S), NEW t \in Seq(S), Len(t) = Len(s) + 1,
         \A i \in 1..Len(s) : t[i] = s[i]
  PROVE  t = Append(s, t[Len(t)])
<1> DEFINE e == t[Len(t)]
           u == Append(s, e)
<1>1. Len(s) \in Nat /\ e \in S
  <2>1. Len(s) \in Nat /\ Len(t) \in 1..Len(t)
    BY LenProperties
  <2> QED
    BY <2>1, ElementOfSeq
<1> HIDE DEF e
<1>2. /\ u \in Seq(S) /\ Len(u) = Len(s) + 1 /\ u[Len(s) + 1] = e
      /\ \A i \in 1..Len(s) : u[i] = s[i]
  BY <1>1, AppendProperties
<1> HIDE DEF u
<1>3. ASSUME NEW i \in 1..Len(t) PROVE t[i] = u[i]
  <2>1. CASE i = Len(t)
    BY <1>2, <2>1 DEF e
  <2>2. CASE i # Len(t)
    <3>1. i \in 1..Len(s)
      BY <1>1, <2>2
    <3> QED
      BY <1>2, <3>1
  <2> QED
    BY <2>1, <2>2
<1>4. t = u
  BY <1>2, <1>3, SeqEqual
<1> QED
  BY <1>4 DEF u, e

-----------------------------------------------------------------------------
(* Bytes and text.                                                         *)

(* The operators taken from SequencesExt under a name are those the lemmas speak of. *)
LEMMA SameFlatten == \A s : Seqs!FlattenSeq(s) = FlattenSeq(s)
  BY DEF FlattenSeq, Seqs!FlattenSeq

LEMMA SamePrefix == \A s, t : Seqs!IsPrefix(s, t) = IsPrefix(s, t)
  BY DEF IsPrefix, Seqs!IsPrefix

(* The pieces of a line of tokens. *)
Pieces(ids) == [i \in DOMAIN ids |-> Piece[ids[i]]]

(* One piece of text for each token. *)
LEMMA PiecesType ==
  ASSUME NEW ids \in Seq(Vocab)
  PROVE  /\ Pieces(ids) \in Seq(Seq(Byte))
         /\ Len(Pieces(ids)) = Len(ids)
         /\ \A i \in 1..Len(ids) : Pieces(ids)[i] = Piece[ids[i]]
<1>1. /\ DOMAIN ids = 1..Len(ids) /\ Len(ids) \in Nat
      /\ \A i \in 1..Len(ids) : ids[i] \in Vocab
  BY LenProperties, ElementOfSeq
<1>2. Pieces(ids) \in [1..Len(ids) -> Seq(Byte)]
  BY <1>1, EmissionAssumption DEF Pieces
<1>3. Pieces(ids) = [i \in 1..Len(ids) |-> Piece[ids[i]]]
  BY <1>1 DEF Pieces
<1>4. Len(Pieces(ids)) = Len(ids)
  BY <1>1, <1>3
<1> QED
  BY <1>1, <1>2, <1>3, <1>4, SeqDef

(* The pieces of two lines of tokens, one behind the other. *)
LEMMA PiecesConcat ==
  ASSUME NEW s \in Seq(Vocab), NEW t \in Seq(Vocab)
  PROVE  Pieces(s \o t) = Pieces(s) \o Pieces(t)
<1> DEFINE u == s \o t
<1>1. /\ u \in Seq(Vocab) /\ Len(u) = Len(s) + Len(t)
      /\ DOMAIN u = 1..Len(u) /\ DOMAIN s = 1..Len(s) /\ DOMAIN t = 1..Len(t)
      /\ Len(s) \in Nat /\ Len(t) \in Nat
      /\ \A i \in 1..(Len(s) + Len(t)) : u[i] = IF i <= Len(s) THEN s[i] ELSE t[i - Len(s)]
  BY ConcatProperties, LenProperties
<1> DEFINE p == Pieces(s)
           q == Pieces(t)
           v == Pieces(u)
<1>2. /\ p \in Seq(Seq(Byte)) /\ q \in Seq(Seq(Byte)) /\ v \in Seq(Seq(Byte))
      /\ Len(p) = Len(s) /\ Len(q) = Len(t) /\ Len(v) = Len(u)
      /\ \A i \in 1..Len(s) : p[i] = Piece[s[i]]
      /\ \A i \in 1..Len(t) : q[i] = Piece[t[i]]
      /\ \A i \in 1..Len(u) : v[i] = Piece[u[i]]
  BY <1>1, PiecesType
<1> HIDE DEF u, p, q, v
<1>3. /\ p \o q \in Seq(Seq(Byte))
      /\ Len(p \o q) = Len(p) + Len(q)
      /\ \A i \in 1..(Len(p) + Len(q)) : (p \o q)[i] = IF i <= Len(p) THEN p[i] ELSE q[i - Len(p)]
  <2>1. p \in Seq(Seq(Byte)) /\ q \in Seq(Seq(Byte))
    BY <1>2
  <2> QED
    BY <2>1, ConcatProperties
<1>4. ASSUME NEW i \in 1..Len(v) PROVE v[i] = (p \o q)[i]
  <2>0. /\ v[i] = Piece[u[i]]
        /\ u[i] = IF i <= Len(s) THEN s[i] ELSE t[i - Len(s)]
        /\ (p \o q)[i] = IF i <= Len(s) THEN p[i] ELSE q[i - Len(s)]
    BY <1>1, <1>2, <1>3
  <2>1. CASE i <= Len(s)
    <3>1. i \in 1..Len(s)
      BY <1>1, <2>1
    <3> QED
      BY <1>2, <2>0, <2>1, <3>1
  <2>2. CASE ~(i <= Len(s))
    <3>1. i - Len(s) \in 1..Len(t)
      BY <1>1, <1>2, <2>2
    <3> QED
      BY <1>2, <2>0, <2>2, <3>1
  <2> QED
    BY <2>1, <2>2
<1>5. Len(v) = Len(p \o q)
  BY <1>1, <1>2, <1>3
<1>6. v = p \o q
  BY <1>2, <1>3, <1>4, <1>5, SeqEqual
<1> QED
  BY <1>6 DEF u, v, p, q

(* The bytes of a line of tokens are those of its pieces, joined. *)
LEMMA RawIs == \A ids : Raw(ids) = FlattenSeq(Pieces(ids))
  BY SameFlatten DEF Raw, Pieces

(* They are bytes. *)
LEMMA RawType ==
  ASSUME NEW ids \in Seq(Vocab)
  PROVE  Raw(ids) \in Seq(Byte)
  BY RawIs, PiecesType, FlattenType

(* Detokenizing a line in two parts gives the same bytes as in one. *)
LEMMA RawConcat ==
  ASSUME NEW s \in Seq(Vocab), NEW t \in Seq(Vocab)
  PROVE  Raw(s \o t) = Raw(s) \o Raw(t)
<1>1. Pieces(s) \in Seq(Seq(Byte)) /\ Pieces(t) \in Seq(Seq(Byte))
  BY PiecesType
<1>2. FlattenSeq(Pieces(s) \o Pieces(t)) = FlattenSeq(Pieces(s)) \o FlattenSeq(Pieces(t))
  BY <1>1, FlattenConcat
<1> QED
  BY <1>2, RawIs, PiecesConcat

(* No token, no byte. *)
LEMMA RawEmpty == Raw(<<>>) = <<>>
<1>1. Pieces(<<>>) = <<>>
  BY DEF Pieces
<1> QED
  BY <1>1, RawIs, FlattenEmpty

(* sanitizeUtf8Streaming() is a function of the bytes that were held and the new ones. *)
Clean(bytes) == Sanitized(<<>>, bytes)

(* What a slot held back is looked at in front of the new bytes. *)
LEMMA SanitizedIsClean ==
  ASSUME NEW held \in Seq(Byte), NEW new \in Seq(Byte)
  PROVE  Sanitized(held, new) = Clean(held \o new)
<1>1. held \o new \in Seq(Byte)
  BY ConcatProperties
<1>2. <<>> \o (held \o new) = held \o new
  BY <1>1, ConcatEmptySeq
<1> DEFINE b == held \o new
<1>3. <<>> \o b = b
  BY <1>2
<1> HIDE DEF b
<1>4. Sanitized(held, new) = Sanitized(<<>>, b)
  BY <1>3 DEF Sanitized, b
<1> QED
  BY <1>4 DEF b, Clean

(* Bytes held back at the end, and what is shown of a byte in its context. *)
Incomplete(bytes) == IF Opens(bytes, Len(bytes)) THEN 1 ELSE 0
Shown(bytes, i) == IF IsBroken(bytes, i) THEN "?" ELSE bytes[i]

(* Sanitizing keeps the length, but for a lead byte at the end, which it holds back. *)
LEMMA CleanIs ==
  ASSUME NEW bytes \in Seq(Byte)
  PROVE  /\ Len(bytes) \in Nat
         /\ Incomplete(bytes) \in {0, 1} /\ Incomplete(bytes) <= Len(bytes)
         /\ Clean(bytes).out \in Seq(Byte)
         /\ Len(Clean(bytes).out) = Len(bytes) - Incomplete(bytes)
         /\ \A i \in 1..(Len(bytes) - Incomplete(bytes)) : Clean(bytes).out[i] = Shown(bytes, i)
         /\ Clean(bytes).held = IF Incomplete(bytes) = 1 THEN <<"L">> ELSE <<>>
<1> DEFINE n == Len(bytes) - Incomplete(bytes)
           out == [i \in 1..n |-> Shown(bytes, i)]
<1>1. Len(bytes) \in Nat /\ DOMAIN bytes = 1..Len(bytes) /\ \A i \in 1..Len(bytes) : bytes[i] \in Byte
  BY LenProperties, ElementOfSeq
<1>2. Incomplete(bytes) \in {0, 1} /\ Incomplete(bytes) <= Len(bytes)
  BY <1>1 DEF Incomplete, Opens
<1>3. n \in Nat /\ n <= Len(bytes)
  BY <1>1, <1>2
<1>4. /\ Clean(bytes).out = out
      /\ Clean(bytes).held = SubSeq(bytes, n + 1, Len(bytes))
  <2>1. <<>> \o bytes = bytes
    BY ConcatEmptySeq
  <2> QED
    BY <2>1 DEF Clean, Sanitized, Incomplete, Shown
<1>5. out \in Seq(Byte) /\ Len(out) = n /\ \A i \in 1..n : out[i] = Shown(bytes, i)
  <2> HIDE DEF n
  <2>1. \A i \in 1..n : Shown(bytes, i) \in Byte
    <3>1. "?" \in Byte
      BY EmissionAssumption
    <3>2. \A i \in 1..n : bytes[i] \in Byte
      BY <1>1, <1>3
    <3> QED
      BY <3>1, <3>2 DEF Shown
  <2>2. out \in [1..n -> Byte]
    BY <2>1
  <2>3. out \in Seq(Byte)
    BY <1>3, <2>2, SeqDef
  <2> QED
    BY <1>3, <2>3
<1>6. SubSeq(bytes, n + 1, Len(bytes)) = IF Incomplete(bytes) = 1 THEN <<"L">> ELSE <<>>
  <2>1. CASE Incomplete(bytes) = 1
    <3>1. Len(bytes) \in 1..Len(bytes) /\ bytes[Len(bytes)] = "L" /\ n + 1 = Len(bytes)
      BY <1>1, <2>1 DEF Incomplete, Opens
    <3>2. SubSeq(bytes, Len(bytes), Len(bytes)) =
            <<bytes[Len(bytes)]>> \o SubSeq(bytes, Len(bytes) + 1, Len(bytes))
      BY <1>1, <3>1, SubSeqRecursiveFirst
    <3>3. SubSeq(bytes, Len(bytes) + 1, Len(bytes)) = <<>>
      BY <1>1, SubSeqEmpty
    <3>4. <<"L">> \o <<>> = <<"L">>
      OBVIOUS
    <3> QED
      BY <2>1, <3>1, <3>2, <3>3, <3>4
  <2>2. CASE Incomplete(bytes) # 1
    <3>1. n = Len(bytes)
      BY <1>1, <1>2, <2>2
    <3>2. SubSeq(bytes, Len(bytes) + 1, Len(bytes)) = <<>>
      BY <1>1, SubSeqEmpty
    <3> QED
      BY <2>2, <3>1, <3>2
  <2> QED
    BY <2>1, <2>2
<1> QED
  BY <1>1, <1>2, <1>4, <1>5, <1>6

(* Cleaning in parts, with what was held back in front of what comes, is cleaning in one *)
(* go.                                                                                   *)
LEMMA CleanConcat ==
  ASSUME NEW x \in Seq(Byte), NEW y \in Seq(Byte)
  PROVE  /\ Clean(x \o y).out = Clean(x).out \o Clean(Clean(x).held \o y).out
         /\ Clean(x \o y).held = Clean(Clean(x).held \o y).held
         /\ Clean(x).held \in Seq(Byte)
<1> DEFINE h == Clean(x).held
           xy == x \o y
           hy == h \o y
           d == Incomplete(x)
           m == Len(x) - d
<1>1. /\ Len(x) \in Nat /\ d \in {0, 1} /\ d <= Len(x)
      /\ h = IF d = 1 THEN <<"L">> ELSE <<>>
      /\ Clean(x).out \in Seq(Byte) /\ Len(Clean(x).out) = m
      /\ \A i \in 1..m : Clean(x).out[i] = Shown(x, i)
  BY CleanIs
<1>2. h \in Seq(Byte) /\ Len(h) = d /\ (d = 1 => h[1] = "L")
  <2>1. "L" \in Byte
    BY EmissionAssumption
  <2>2. <<"L">> \in Seq(Byte) /\ Len(<<"L">>) = 1 /\ <<"L">>[1] = "L"
    BY <2>1, Single
  <2>3. <<>> \in Seq(Byte) /\ Len(<<>>) = 0
    BY EmptySeq
  <2>4. CASE d = 1
    BY <1>1, <2>2, <2>4
  <2>5. CASE d = 0
    BY <1>1, <2>3, <2>5
  <2> QED
    BY <1>1, <2>4, <2>5
<1>3. /\ xy \in Seq(Byte) /\ Len(xy) = Len(x) + Len(y) /\ Len(y) \in Nat
      /\ \A i \in 1..(Len(x) + Len(y)) : xy[i] = IF i <= Len(x) THEN x[i] ELSE y[i - Len(x)]
  BY ConcatProperties, LenProperties
<1>4. /\ hy \in Seq(Byte) /\ Len(hy) = d + Len(y)
      /\ \A i \in 1..(d + Len(y)) : hy[i] = IF i <= d THEN h[i] ELSE y[i - d]
  <2> HIDE DEF h, d
  <2>1. h \in Seq(Byte)
    BY <1>2
  <2>2. /\ hy \in Seq(Byte) /\ Len(hy) = Len(h) + Len(y)
        /\ \A i \in 1..(Len(h) + Len(y)) : hy[i] = IF i <= Len(h) THEN h[i] ELSE y[i - Len(h)]
    BY <2>1, ConcatProperties
  <2> QED
    BY <1>2, <2>2
<1>5. DOMAIN x = 1..Len(x) /\ DOMAIN xy = 1..(Len(x) + Len(y)) /\ DOMAIN hy = 1..(d + Len(y))
  BY <1>3, <1>4, LenProperties
<1>6. (d = 1 <=> Len(x) \in 1..Len(x) /\ x[Len(x)] = "L") /\ (d = 0 <=> d # 1)
  <2>1. d = 1 <=> Opens(x, Len(x))
    BY DEF Incomplete
  <2>2. Opens(x, Len(x)) <=> Len(x) \in 1..Len(x) /\ x[Len(x)] = "L"
    BY <1>5 DEF Opens
  <2> HIDE DEF d
  <2> QED
    BY <1>1, <2>1, <2>2
<1> HIDE DEF h, xy, hy, d
(* Behind the complete part of x the two see the same bytes. *)
<1>7. ASSUME NEW j \in 1..(d + Len(y)) PROVE m + j \in 1..(Len(x) + Len(y)) /\ xy[m + j] = hy[j]
  <2>1. m + j \in 1..(Len(x) + Len(y))
    BY <1>1, <1>3
  <2>2. CASE j <= d
    <3>1. d = 1 /\ j = 1 /\ m + j = Len(x) /\ Len(x) \in 1..Len(x)
      BY <1>1, <2>2
    <3> QED
      BY <1>2, <1>3, <1>4, <1>6, <2>1, <3>1
  <2>3. CASE ~(j <= d)
    <3>1. ~(m + j <= Len(x)) /\ (m + j) - Len(x) = j - d
      BY <1>1, <2>3
    <3> QED
      BY <1>3, <1>4, <2>1, <2>3, <3>1
  <2> QED
    BY <2>1, <2>2, <2>3
(* A byte of the complete part of x is as broken with what follows as without. *)
<1>8. ASSUME NEW i \in 1..m PROVE Shown(xy, i) = Shown(x, i)
  <2>1. i \in 1..Len(x) /\ i \in 1..(Len(x) + Len(y)) /\ xy[i] = x[i]
    BY <1>1, <1>3
  <2>2. CASE x[i] = "L"
    <3>1. i + 1 \in 1..Len(x) /\ i + 1 \in 1..(Len(x) + Len(y)) /\ xy[i + 1] = x[i + 1]
      <4>1. i # Len(x)
        BY <1>1, <1>6, <2>1, <2>2
      <4> QED
        BY <1>1, <1>3, <2>1, <4>1
    <3> QED
      BY <1>5, <2>1, <2>2, <3>1 DEF Shown, IsBroken, Opens, Continues
  <2>3. CASE x[i] = "T"
    <3>1. ASSUME i - 1 \in 1..Len(x) PROVE i - 1 \in 1..(Len(x) + Len(y)) /\ xy[i - 1] = x[i - 1]
      <4>1. i - 1 \in 1..(Len(x) + Len(y)) /\ i - 1 <= Len(x)
        BY <1>1, <1>3, <3>1
      <4> QED
        BY <1>3, <4>1
    <3>2. i - 1 \in 1..(Len(x) + Len(y)) => i - 1 \in 1..Len(x)
      BY <1>1, <2>1
    <3> QED
      BY <1>5, <2>1, <2>3, <3>1, <3>2 DEF Shown, IsBroken, Opens, Continues
  <2>4. CASE x[i] # "L" /\ x[i] # "T"
    BY <1>5, <2>1, <2>4 DEF Shown, IsBroken, Opens, Continues
  <2> QED
    BY <2>2, <2>3, <2>4
(* And so is one behind it, whether x is there or only what it holds back. *)
<1>9. ASSUME NEW j \in 1..(d + Len(y)) PROVE Shown(xy, m + j) = Shown(hy, j)
  <2>1. m + j \in 1..(Len(x) + Len(y)) /\ xy[m + j] = hy[j]
    BY <1>7
  <2>2. CASE hy[j] = "L"
    <3>1. j + 1 \in 1..(d + Len(y)) <=> (m + j) + 1 \in 1..(Len(x) + Len(y))
      BY <1>1, <1>3
    <3>2. j + 1 \in 1..(d + Len(y)) => xy[(m + j) + 1] = hy[j + 1]
      <4>1. m + (j + 1) = (m + j) + 1
        BY <1>1
      <4> QED
        BY <1>7, <4>1
    <3> QED
      BY <1>5, <2>1, <2>2, <3>1, <3>2 DEF Shown, IsBroken, Opens, Continues
  <2>3. CASE hy[j] = "T" /\ j # 1
    <3>1. j - 1 \in 1..(d + Len(y)) /\ m + (j - 1) = (m + j) - 1
      BY <1>1, <1>3, <2>3
    <3>2. (m + j) - 1 \in 1..(Len(x) + Len(y)) /\ xy[(m + j) - 1] = hy[j - 1]
      BY <1>7, <3>1
    <3> QED
      BY <1>5, <2>1, <2>3, <3>1, <3>2 DEF Shown, IsBroken, Opens, Continues
  <2>4. CASE hy[j] = "T" /\ j = 1
    <3>1. d = 0
      BY <1>1, <1>2, <1>4, <2>4
    <3>2. m = Len(x) /\ (m + j) - 1 = Len(x)
      BY <1>1, <2>4, <3>1
    <3>3. ~(Len(x) \in 1..Len(x) /\ x[Len(x)] = "L")
      BY <1>6, <3>1
    <3>4. Len(x) \in 1..(Len(x) + Len(y)) => Len(x) \in 1..Len(x) /\ xy[Len(x)] = x[Len(x)]
      BY <1>1, <1>3
    <3>5. ~Opens(xy, (m + j) - 1)
      BY <1>5, <3>2, <3>3, <3>4 DEF Opens
    <3>6. ~Opens(hy, j - 1)
      BY <1>5, <2>4 DEF Opens
    <3> QED
      BY <1>5, <2>1, <2>4, <3>5, <3>6 DEF Shown, IsBroken, Continues
  <2>5. CASE hy[j] # "L" /\ hy[j] # "T"
    BY <1>5, <2>1, <2>5 DEF Shown, IsBroken, Opens, Continues
  <2> QED
    BY <2>2, <2>3, <2>4, <2>5
<1>10. Incomplete(xy) = Incomplete(hy)
  <2>1. CASE d + Len(y) = 0
    <3>1. Len(xy) = Len(x) /\ d = 0 /\ ~(Len(hy) \in 1..(d + Len(y)))
      BY <1>1, <1>3, <1>4, <2>1
    <3>2. Len(x) \in 1..Len(x) => xy[Len(x)] = x[Len(x)]
      BY <1>1, <1>3
    <3>3. ~Opens(xy, Len(xy)) /\ ~Opens(hy, Len(hy))
      BY <1>1, <1>3, <1>5, <1>6, <3>1, <3>2 DEF Opens
    <3> QED
      BY <3>3 DEF Incomplete
  <2>2. CASE d + Len(y) # 0
    <3>1. d + Len(y) \in 1..(d + Len(y)) /\ m + (d + Len(y)) = Len(xy)
      BY <1>1, <1>3, <2>2
    <3>2. Len(xy) \in 1..(Len(x) + Len(y)) /\ xy[Len(xy)] = hy[Len(hy)] /\ Len(hy) \in 1..(d + Len(y))
      BY <1>4, <1>7, <3>1
    <3> QED
      BY <1>5, <3>2 DEF Incomplete, Opens
  <2> QED
    BY <2>1, <2>2
<1> DEFINE o == Clean(x).out
           r == Clean(hy).out
           w == Clean(xy).out
           k == Incomplete(hy)
<1>11. /\ w \in Seq(Byte) /\ Len(w) = Len(xy) - k
       /\ \A i \in 1..Len(w) : w[i] = Shown(xy, i)
       /\ Clean(xy).held = IF k = 1 THEN <<"L">> ELSE <<>>
  <2>1. xy \in Seq(Byte)
    BY <1>3
  <2> QED
    BY <1>10, <2>1, CleanIs
<1>12. /\ r \in Seq(Byte) /\ Len(r) = Len(hy) - k
       /\ \A i \in 1..Len(r) : r[i] = Shown(hy, i)
       /\ Clean(hy).held = IF k = 1 THEN <<"L">> ELSE <<>>
       /\ k \in {0, 1} /\ k <= Len(hy)
  <2>1. hy \in Seq(Byte)
    BY <1>4
  <2> QED
    BY <2>1, CleanIs
<1>13. /\ o \in Seq(Byte) /\ r \in Seq(Byte) /\ w \in Seq(Byte)
       /\ Len(o) = m /\ Len(r) = d + Len(y) - k /\ Len(w) = Len(x) + Len(y) - k
       /\ k \in {0, 1} /\ k <= d + Len(y)
       /\ \A i \in 1..m : o[i] = Shown(x, i)
       /\ \A i \in 1..Len(r) : r[i] = Shown(hy, i)
       /\ \A i \in 1..Len(w) : w[i] = Shown(xy, i)
  <2> HIDE DEF r, w, k
  <2> QED
    BY <1>1, <1>3, <1>4, <1>11, <1>12
<1> HIDE DEF o, r, w, k
<1>14. /\ o \o r \in Seq(Byte) /\ Len(o \o r) = Len(o) + Len(r)
       /\ \A i \in 1..(Len(o) + Len(r)) : (o \o r)[i] = IF i <= Len(o) THEN o[i] ELSE r[i - Len(o)]
  <2>1. o \in Seq(Byte) /\ r \in Seq(Byte)
    BY <1>13
  <2> QED
    BY <2>1, ConcatProperties
<1> DEFINE lx == Len(x)
           ly == Len(y)
<1>0. /\ lx \in Nat /\ ly \in Nat /\ d \in {0, 1} /\ d <= lx /\ k \in {0, 1} /\ k <= d + ly
      /\ Len(o) = lx - d /\ Len(r) = d + ly - k /\ Len(w) = lx + ly - k
  BY <1>1, <1>3, <1>13
<1>15. Len(o) + Len(r) = Len(w)
  <2> HIDE DEF lx, ly
  <2> QED
    BY <1>0
<1>16. ASSUME NEW i \in 1..Len(w) PROVE w[i] = (o \o r)[i]
  <2>1. CASE i <= m
    <3>1. i \in 1..m
      BY <1>1, <2>1
    <3> QED
      BY <1>8, <1>13, <1>14, <1>15, <2>1, <3>1
  <2>2. CASE ~(i <= m)
    <3> DEFINE j == i - m
    <3>1. j \in 1..Len(r) /\ j \in 1..(d + Len(y)) /\ m + j = i
      <4>1. i \in 1..Len(w) /\ ~(i <= lx - d) /\ j = i - (lx - d)
        BY <2>2
      <4>2. j \in 1..Len(r) /\ j \in 1..(d + ly) /\ (lx - d) + j = i
        <5> HIDE DEF lx, ly, j
        <5> QED
          BY <1>0, <4>1
      <4> QED
        BY <4>2
    <3> HIDE DEF j
    <3>2. w[i] = Shown(xy, i) /\ Shown(xy, i) = Shown(hy, j) /\ r[j] = Shown(hy, j)
      BY <1>9, <1>13, <3>1
    <3>3. (o \o r)[i] = r[i - Len(o)] /\ i - Len(o) = j
      BY <1>13, <1>14, <1>15, <2>2, <3>1 DEF j
    <3> QED
      BY <3>2, <3>3
  <2> QED
    BY <2>1, <2>2
<1>17. w = o \o r
  BY <1>13, <1>14, <1>15, <1>16, SeqEqual
<1>18. Clean(xy).held = Clean(hy).held
  BY <1>11, <1>12
<1> QED
  BY <1>2, <1>17, <1>18 DEF h, hy, xy, o, r, w

-----------------------------------------------------------------------------
(* Stop strings.                                                           *)

(* The lowest of a set of naturals, and the higher of two numbers. *)
LEMMA LowestIs ==
  ASSUME NEW S, S \subseteq Nat, S # {}
  PROVE  Lowest(S) \in S /\ \A y \in S : Lowest(S) <= y
<1>1. \E x \in S : \A y \in S : x <= y
  BY LeastNat
<1> QED
  BY <1>1 DEF Lowest

(* The bound that the matcher flushes up to never falls below the start of its buffer. *)
LEMMA HigherIs ==
  ASSUME NEW n \in Int
  PROVE  Highest({0, n}) = IF n <= 0 THEN 0 ELSE n
<1> DEFINE h == IF n <= 0 THEN 0 ELSE n
<1>1. h \in {0, n} /\ \A y \in {0, n} : y <= h
  OBVIOUS
<1>2. Highest({0, n}) \in {0, n} /\ \A y \in {0, n} : y <= Highest({0, n})
  BY <1>1 DEF Highest
<1> QED
  BY <1>2

(* No stop string is longer than the longest.  There is one since they are finitely many. *)
LEMMA LongestStop ==
  /\ maxStopLen \in Nat
  /\ \A stop \in Stops : Len(stop) \in 1..maxStopLen
<1> DEFINE L == {0} \cup {Len(stop) : stop \in Stops}
           N == Cardinality(Stops)
<1>1. \A stop \in Stops : Len(stop) \in Nat /\ Len(stop) > 0
  BY EmissionAssumption, LenProperties
<1>2. PICK f : f \in Bijection(1..N, Stops)
  BY EmissionAssumption, FS_CardinalityType DEF ExistsBijection
<1>3. N \in Nat /\ \A stop \in Stops : \E i \in 1..N : f[i] = stop
  <2>1. f \in Surjection(1..N, Stops)
    BY <1>2 DEF Bijection
  <2>2. \A stop \in Stops : \E i \in 1..N : f[i] = stop
    BY <2>1 DEF Surjection
  <2> QED
    BY <2>2, EmissionAssumption, FS_CardinalityType
<1>4. \A i \in 1..N : f[i] \in Stops
  BY <1>2 DEF Bijection, Injection
<1> HIDE DEF N
<1> DEFINE Bounds(n, bound) == \A i \in 1..N : i <= n => Len(f[i]) <= bound
           T == {n \in Nat : \E bound \in Nat : Bounds(n, bound)}
<1>5. 0 \in T
  <2>1. \A i \in 1..N : ~(i <= 0)
    BY <1>3
  <2> QED
    BY <2>1
<1>6. ASSUME NEW n \in Nat, n \in T PROVE n + 1 \in T
  <2>1. PICK bound \in Nat : \A i \in 1..N : i <= n => Len(f[i]) <= bound
    BY <1>6
  <2>2. CASE n + 1 \in 1..N
    <3> DEFINE more == bound + Len(f[n + 1])
    <3>1. Len(f[n + 1]) \in Nat
      BY <1>1, <1>4, <2>2
    <3>2. more \in Nat /\ bound <= more /\ Len(f[n + 1]) <= more
      BY <3>1
    <3> HIDE DEF more
    <3>3. ASSUME NEW i \in 1..N, i <= n + 1 PROVE Len(f[i]) <= more
      <4>1. CASE i <= n
        <5>1. Len(f[i]) \in Nat /\ Len(f[i]) <= bound
          BY <1>1, <1>4, <2>1, <4>1
        <5> QED
          BY <3>2, <5>1
      <4>2. CASE ~(i <= n)
        <5>1. i = n + 1
          BY <3>3, <4>2, <1>3
        <5> QED
          BY <3>2, <5>1
      <4> QED
        BY <4>1, <4>2
    <3> QED
      BY <3>2, <3>3
  <2>3. CASE n + 1 \notin 1..N
    <3>1. \A i \in 1..N : i <= n + 1 => i <= n
      BY <2>3, <1>3
    <3>2. Bounds(n + 1, bound)
      BY <2>1, <3>1
    <3> HIDE DEF Bounds
    <3> QED
      BY <3>2
  <2> QED
    BY <2>2, <2>3
<1> HIDE DEF T
<1>7. \A n \in Nat : n \in T
  BY <1>5, <1>6, SetInduction
<1>8. PICK bound \in Nat : \A i \in 1..N : Len(f[i]) <= bound
  <2>1. N \in T
    BY <1>3, <1>7
  <2>2. \A i \in 1..N : i <= N
    BY <1>3
  <2> QED
    BY <2>1, <2>2 DEF T
<1> DEFINE U == {u \in Nat : \A l \in L : l <= u}
<1>9. bound \in U
  BY <1>1, <1>3, <1>8
<1>10. PICK m \in U : \A u \in U : m <= u
  <2>1. U \subseteq Nat /\ U # {}
    BY <1>9
  <2> HIDE DEF U
  <2> QED
    BY <2>1, LeastNat
<1>11. L \subseteq Nat /\ 0 \in L
  BY <1>1
<1>12. m \in L
  <2> SUFFICES ASSUME m \notin L PROVE FALSE
    OBVIOUS
  <2>1. m # 0 /\ m \in Nat /\ m - 1 \in Nat
    BY <1>10, <1>11
  <2>2. \A l \in L : l <= m - 1
    BY <1>10, <1>11, <2>1
  <2>3. m - 1 \in U
    BY <2>1, <2>2
  <2> QED
    BY <1>10, <2>1, <2>3
<1>13. \A l \in L : l <= m
  BY <1>10
<1>14. maxStopLen \in L /\ \A l \in L : l <= maxStopLen
  BY <1>12, <1>13 DEF maxStopLen, Highest
<1> QED
  BY <1>1, <1>11, <1>14

(* A stop string stands in a text from position i on. *)
Occurs(stop, text, i) ==
  /\ i + Len(stop) <= Len(text) + 1
  /\ \A k \in 1..Len(stop) : text[i + k - 1] = stop[k]

(* A stop string stands at a place when its bytes stand there one by one. *)
LEMMA OccursIs ==
  ASSUME NEW text \in Seq(Byte), NEW i \in 1..Len(text), NEW stop \in Seq(Byte)
  PROVE  IsPrefix(stop, SubSeq(text, i, Len(text))) <=> Occurs(stop, text, i)
<1> DEFINE rest == SubSeq(text, i, Len(text))
           n == Len(text) - i + 1
<1>1. Len(text) \in Nat /\ Len(stop) \in Nat /\ n \in Nat
  BY LenProperties
<1>2. /\ rest \in Seq(Byte) /\ Len(rest) = n
      /\ \A k \in 1..n : rest[k] = text[i + k - 1]
  <2>1. \A k \in i..Len(text) : text[k] \in Byte
    BY ElementOfSeq
  <2> QED
    BY <1>1, <2>1, SubSeqProperties
<1>3. Len(stop) <= n <=> i + Len(stop) <= Len(text) + 1
  BY <1>1
<1> HIDE DEF rest, n
<1>4. ASSUME Len(stop) <= n
      PROVE  SubSeq(stop, 1, Len(stop)) = SubSeq(rest, 1, Len(stop)) <=>
             \A k \in 1..Len(stop) : text[i + k - 1] = stop[k]
  <2> DEFINE p == SubSeq(rest, 1, Len(stop))
  <2>1. SubSeq(stop, 1, Len(stop)) = stop
    BY SubSeqFull
  <2>2. \A k \in 1..Len(stop) : k \in 1..n
    BY <1>1, <1>4
  <2>3. /\ p \in Seq(Byte) /\ Len(p) = Len(stop)
        /\ \A k \in 1..Len(stop) : p[k] = rest[k]
    <3>1. \A k \in 1..Len(stop) : rest[k] \in Byte
      BY <1>2, <2>2, ElementOfSeq
    <3> QED
      BY <1>1, <3>1, SubSeqProperties
  <2> HIDE DEF p
  <2>4. \A k \in 1..Len(stop) : p[k] = text[i + k - 1]
    BY <1>2, <2>2, <2>3
  <2>5. stop = p <=> \A k \in 1..Len(stop) : stop[k] = p[k]
    BY <2>3, SeqEqual
  <2> QED
    BY <2>1, <2>4, <2>5 DEF p
<1> QED
  BY <1>2, <1>3, <1>4 DEF IsPrefix, Occurs, rest

(* The places at which some stop string stands. *)
LEMMA FoundIs ==
  ASSUME NEW text \in Seq(Byte)
  PROVE  FoundAt(text) = {i \in 1..Len(text) : \E stop \in Stops : Occurs(stop, text, i)}
<1>1. DOMAIN text = 1..Len(text)
  BY LenProperties
<1>2. \A stop \in Stops : stop \in Seq(Byte)
  BY EmissionAssumption
<1>3. \A i \in 1..Len(text) : \A stop \in Stops :
         Seqs!IsPrefix(stop, SubSeq(text, i, Len(text))) <=> Occurs(stop, text, i)
  BY <1>2, OccursIs, SamePrefix
<1> QED
  BY <1>1, <1>3 DEF FoundAt

(* What stands in a text still stands there when something is put behind it. *)
LEMMA FoundStays ==
  ASSUME NEW s \in Seq(Byte), NEW t \in Seq(Byte)
  PROVE  FoundAt(s) \subseteq FoundAt(s \o t)
<1> DEFINE u == s \o t
<1>1. /\ u \in Seq(Byte) /\ Len(u) = Len(s) + Len(t) /\ Len(s) \in Nat /\ Len(t) \in Nat
      /\ \A i \in 1..(Len(s) + Len(t)) : u[i] = IF i <= Len(s) THEN s[i] ELSE t[i - Len(s)]
  BY ConcatProperties, LenProperties
<1> HIDE DEF u
<1>2. ASSUME NEW i \in 1..Len(s), NEW stop \in Stops, Occurs(stop, s, i)
      PROVE  i \in 1..Len(u) /\ Occurs(stop, u, i)
  <2>1. Len(stop) \in Nat
    BY EmissionAssumption, LenProperties
  <2>2. i + Len(stop) <= Len(s) + 1 /\ \A k \in 1..Len(stop) : s[i + k - 1] = stop[k]
    BY <1>2 DEF Occurs
  <2>3. i \in 1..Len(u) /\ i + Len(stop) <= Len(u) + 1
    BY <1>1, <2>1, <2>2
  <2>4. ASSUME NEW k \in 1..Len(stop) PROVE u[i + k - 1] = stop[k]
    <3>1. i + k - 1 \in 1..(Len(s) + Len(t)) /\ i + k - 1 <= Len(s)
      BY <1>1, <2>1, <2>2
    <3>2. u[i + k - 1] = s[i + k - 1]
      BY <1>1, <3>1
    <3> QED
      BY <2>2, <3>2
  <2> QED
    BY <2>3, <2>4 DEF Occurs
<1>3. FoundAt(s) \subseteq FoundAt(u)
  BY <1>1, <1>2, FoundIs
<1> QED
  BY <1>3 DEF u

(* When the text so far has no stop string and its last bytes, too few for one, have been *)
(* kept, a stop string in what grows from it stands in the kept bytes and the new ones.   *)
Behind(e, S) == {Len(e) + i : i \in S}

(* Lines of bytes are joined in any grouping. *)
LEMMA BytesAssociate ==
  \A x, y, z \in Seq(Byte) : (x \o y) \o z = x \o (y \o z)
BY ConcatAssociative, SMTT(30)

(* No stop string in what was looked at, and enough of it kept: whatever the new text *)
(* completes is found at the same place in what is kept, with the new text behind it. *)
LEMMA FoundInKept ==
  ASSUME NEW e \in Seq(Byte), NEW b \in Seq(Byte), NEW d \in Seq(Byte),
         FoundAt(e \o b) = {}, e = <<>> \/ maxStopLen <= Len(b) + 1
  PROVE  FoundAt((e \o b) \o d) = Behind(e, FoundAt(b \o d))
<1> DEFINE eb == e \o b
           bd == b \o d
           w == e \o bd
<1>0. /\ eb \in Seq(Byte) /\ bd \in Seq(Byte) /\ w \in Seq(Byte) /\ eb \o d = w
      /\ Len(eb) = Len(e) + Len(b) /\ Len(bd) = Len(b) + Len(d) /\ Len(w) = Len(e) + Len(bd)
  <2>1. \A x, y \in Seq(Byte) : x \o y \in Seq(Byte) /\ Len(x \o y) = Len(x) + Len(y)
    BY ConcatProperties
  <2>2. eb \o d = w
    BY BytesAssociate
  <2>3. eb \in Seq(Byte) /\ bd \in Seq(Byte) /\ Len(eb) = Len(e) + Len(b) /\ Len(bd) = Len(b) + Len(d)
    BY <2>1
  <2>4. w \in Seq(Byte) /\ Len(w) = Len(e) + Len(bd)
    <3> HIDE DEF bd
    <3> QED
      BY <2>1, <2>3
  <2> QED
    BY <2>2, <2>3, <2>4
<1>1. Len(e) \in Nat /\ Len(b) \in Nat /\ Len(d) \in Nat /\ (e = <<>> => Len(e) = 0)
  BY LenProperties, EmptySeq
<1>2. \A i \in 1..(Len(e) + Len(bd)) : w[i] = IF i <= Len(e) THEN e[i] ELSE bd[i - Len(e)]
  <2> HIDE DEF bd
  <2> QED
    BY <1>0, ConcatProperties
<1>3. \A i \in 1..Len(eb) : w[i] = eb[i]
  <2>1. \A i \in 1..(Len(eb) + Len(d)) : (eb \o d)[i] = IF i <= Len(eb) THEN eb[i] ELSE d[i - Len(eb)]
    <3> HIDE DEF eb
    <3> QED
      BY <1>0, ConcatProperties
  <2> HIDE DEF eb, w
  <2>2. \A i \in 1..Len(eb) : i \in 1..(Len(eb) + Len(d)) /\ i <= Len(eb)
    BY <1>0, <1>1
  <2> QED
    BY <1>0, <2>1, <2>2
<1> HIDE DEF eb, bd, w
(* A stop string that began before the kept bytes would have ended in them. *)
<1>4. ASSUME NEW i \in 1..Len(w), NEW stop \in Stops, Occurs(stop, w, i) PROVE i > Len(e)
  <2> SUFFICES ASSUME i <= Len(e) PROVE FALSE
    BY <1>1
  <2>1. Len(stop) \in Nat /\ Len(stop) <= maxStopLen /\ maxStopLen \in Nat
    BY LongestStop
  <2>2. maxStopLen <= Len(b) + 1
    BY <1>1
  <2>3. i \in 1..Len(eb) /\ i + Len(stop) <= Len(eb) + 1
    BY <1>0, <1>1, <2>1, <2>2
  <2>4. ASSUME NEW k \in 1..Len(stop) PROVE eb[i + k - 1] = stop[k]
    <3>1. i + k - 1 \in 1..Len(eb)
      BY <1>0, <1>1, <2>1, <2>3
    <3>2. w[i + k - 1] = stop[k]
      BY <1>4 DEF Occurs
    <3> QED
      BY <1>3, <3>1, <3>2
  <2>5. Occurs(stop, eb, i)
    BY <2>3, <2>4 DEF Occurs
  <2>6. i \in FoundAt(eb)
    BY <1>0, <2>3, <2>5, FoundIs
  <2> QED
    BY <2>6 DEF eb
<1>5. ASSUME NEW j \in 1..Len(bd), NEW stop \in Stops
      PROVE  /\ Len(e) + j \in 1..Len(w)
             /\ Occurs(stop, bd, j) <=> Occurs(stop, w, Len(e) + j)
  <2>1. Len(stop) \in Nat
    BY LongestStop
  <2>2. Len(e) + j \in 1..Len(w)
    BY <1>0, <1>1
  <2>3. j + Len(stop) <= Len(bd) + 1 <=> Len(e) + j + Len(stop) <= Len(w) + 1
    <3>1. /\ Len(stop) \in Nat /\ Len(e) \in Nat /\ Len(bd) \in Nat /\ j \in Nat
          /\ Len(w) = Len(e) + Len(bd)
      BY <1>0, <1>1, <2>1
    <3> QED
      BY <3>1
  <2>4. ASSUME NEW k \in 1..Len(stop), j + Len(stop) <= Len(bd) + 1
        PROVE  w[Len(e) + j + k - 1] = bd[j + k - 1]
    <3>1. /\ Len(e) + j + k - 1 \in 1..(Len(e) + Len(bd)) /\ ~(Len(e) + j + k - 1 <= Len(e))
          /\ (Len(e) + j + k - 1) - Len(e) = j + k - 1
      <4>1. Len(e) \in Nat /\ Len(bd) \in Nat
        BY <1>0, <1>1
      <4>2. j + k - 1 \in 1..Len(bd)
        BY <2>1, <2>4, <4>1
      <4> QED
        BY <4>1, <4>2
    <3> QED
      BY <1>2, <3>1
  <2> QED
    BY <2>2, <2>3, <2>4 DEF Occurs
<1>6. ASSUME NEW i \in FoundAt(w) PROVE i \in Behind(e, FoundAt(bd))
  <2>1. PICK stop \in Stops : i \in 1..Len(w) /\ Occurs(stop, w, i)
    BY <1>0, FoundIs
  <2>2. i > Len(e)
    BY <1>4, <2>1
  <2> DEFINE j == i - Len(e)
  <2>3. j \in 1..Len(bd) /\ i = Len(e) + j
    BY <1>0, <1>1, <2>1, <2>2
  <2> HIDE DEF j
  <2>4. j \in FoundAt(bd)
    BY <1>0, <1>5, <2>1, <2>3, FoundIs
  <2> QED
    BY <2>3, <2>4 DEF Behind
<1>7. ASSUME NEW j \in FoundAt(bd) PROVE Len(e) + j \in FoundAt(w)
  <2>1. PICK stop \in Stops : j \in 1..Len(bd) /\ Occurs(stop, bd, j)
    BY <1>0, FoundIs
  <2> QED
    BY <1>0, <1>5, <2>1, FoundIs
<1>8. FoundAt(w) = Behind(e, FoundAt(bd))
  BY <1>6, <1>7 DEF Behind
<1> QED
  BY <1>0, <1>8 DEF w, bd, eb

(* Nothing stands in front of the lowest position. *)
LEMMA FoundBefore ==
  ASSUME NEW text \in Seq(Byte), FoundAt(text) # {}
  PROVE  /\ Lowest(FoundAt(text)) \in FoundAt(text)
         /\ Lowest(FoundAt(text)) \in 1..Len(text)
         /\ SubSeq(text, 1, Lowest(FoundAt(text)) - 1) \in Seq(Byte)
         /\ FoundAt(SubSeq(text, 1, Lowest(FoundAt(text)) - 1)) = {}
         /\ \E rest \in Seq(Byte) : text = SubSeq(text, 1, Lowest(FoundAt(text)) - 1) \o rest
<1> DEFINE m == Lowest(FoundAt(text))
           s == SubSeq(text, 1, m - 1)
           t == SubSeq(text, m, Len(text))
<1>1. Len(text) \in Nat /\ FoundAt(text) \subseteq 1..Len(text)
  BY FoundIs, LenProperties
<1>2. m \in FoundAt(text) /\ (\A i \in FoundAt(text) : m <= i) /\ m \in 1..Len(text)
  <2>1. FoundAt(text) \subseteq Nat
    BY <1>1
  <2> QED
    BY <1>1, <2>1, LowestIs
<1> HIDE DEF m
<1>3. s \in Seq(Byte) /\ Len(s) = m - 1 /\ t \in Seq(Byte)
  <2>1. \A k \in 1..Len(text) : text[k] \in Byte
    BY ElementOfSeq
  <2>2. (\A k \in 1..(m - 1) : text[k] \in Byte) /\ (\A k \in m..Len(text) : text[k] \in Byte)
    BY <1>1, <1>2, <2>1
  <2>3. Len(s) = IF 1 <= m - 1 THEN (m - 1) - 1 + 1 ELSE 0
    BY <1>2, <2>2, SubSeqProperties
  <2>4. s \in Seq(Byte) /\ t \in Seq(Byte)
    BY <1>1, <1>2, <2>2, SubSeqProperties
  <2> HIDE DEF s
  <2> QED
    BY <1>2, <2>3, <2>4
<1>4. text = s \o t
  <2>1. 1 \in 1..(Len(text) + 1) /\ m - 1 \in (1 - 1)..Len(text) /\ Len(text) \in (m - 1)..Len(text)
    BY <1>1, <1>2
  <2>2. SubSeq(text, 1, m - 1) \o SubSeq(text, (m - 1) + 1, Len(text)) = SubSeq(text, 1, Len(text))
    BY <2>1, ConcatAdjacentSubSeq
  <2>3. SubSeq(text, 1, Len(text)) = text /\ (m - 1) + 1 = m
    BY <1>2, SubSeqFull
  <2> QED
    BY <2>2, <2>3
<1> HIDE DEF s, t
<1>5. FoundAt(s) = {}
  <2>1. FoundAt(s) \subseteq FoundAt(text) /\ FoundAt(s) \subseteq 1..(m - 1)
    BY <1>3, <1>4, FoundStays, FoundIs
  <2> QED
    BY <1>2, <2>1
<1> QED
  BY <1>2, <1>3, <1>4, <1>5 DEF s, m

(* What applyStopStringMatch() does to its buffer. *)
LEMMA StopMatchIs ==
  ASSUME NEW buffer \in Seq(Byte), NEW isFinal \in BOOLEAN
  PROVE  LET o == StopMatch(buffer, isFinal) IN
         /\ o.matched \in BOOLEAN /\ o.emitted \in Seq(Byte) /\ o.kept \in Seq(Byte)
         /\ o.matched <=> FoundAt(buffer) # {}
         /\ o.matched => o.emitted = SubSeq(buffer, 1, Lowest(FoundAt(buffer)) - 1) /\ o.kept = <<>>
         /\ ~o.matched => /\ o.emitted \o o.kept = buffer
                          /\ isFinal \/ Stops = {} => o.kept = <<>>
                          /\ isFinal \/ Stops = {} \/ o.emitted = <<>> \/ maxStopLen <= Len(o.kept) + 1
<1> DEFINE o == StopMatch(buffer, isFinal)
           holdBack == IF isFinal \/ Stops = {} THEN 0 ELSE maxStopLen - 1
           safeLen == Highest({0, Len(buffer) - holdBack})
<1>1. CASE FoundAt(buffer) # {}
  <2>1. o = [emitted |-> SubSeq(buffer, 1, Lowest(FoundAt(buffer)) - 1), kept |-> <<>>, matched |-> TRUE]
    BY <1>1 DEF StopMatch
  <2>2. SubSeq(buffer, 1, Lowest(FoundAt(buffer)) - 1) \in Seq(Byte) /\ <<>> \in Seq(Byte)
    BY <1>1, FoundBefore, EmptySeq
  <2> QED
    BY <1>1, <2>1, <2>2
<1>2. CASE FoundAt(buffer) = {}
  <2>1. o = [emitted |-> SubSeq(buffer, 1, safeLen),
             kept |-> SubSeq(buffer, safeLen + 1, Len(buffer)), matched |-> FALSE]
    BY <1>2 DEF StopMatch
  <2>2. Len(buffer) \in Nat /\ maxStopLen \in Nat /\ (Stops # {} => maxStopLen >= 1)
    BY LenProperties, LongestStop
  <2>3. holdBack \in Nat
    BY <2>2
  <2>4. safeLen = IF Len(buffer) - holdBack <= 0 THEN 0 ELSE Len(buffer) - holdBack
    <3> HIDE DEF holdBack
    <3> QED
      BY <2>2, <2>3, HigherIs
  <2>5. safeLen \in 0..Len(buffer)
    <3> HIDE DEF holdBack, safeLen
    <3> QED
      BY <2>2, <2>3, <2>4
  <2>6. /\ isFinal \/ Stops = {} => safeLen = Len(buffer)
        /\ ~(isFinal \/ Stops = {}) => safeLen = 0 \/ Len(buffer) - safeLen = maxStopLen - 1
    <3> HIDE DEF safeLen
    <3> QED
      BY <2>2, <2>4
  <2> DEFINE p == SubSeq(buffer, 1, safeLen)
             q == SubSeq(buffer, safeLen + 1, Len(buffer))
  <2> HIDE DEF holdBack, safeLen
  <2>7. p \o q = buffer
    <3>1. 1 \in 1..(Len(buffer) + 1) /\ safeLen \in (1 - 1)..Len(buffer)
          /\ Len(buffer) \in safeLen..Len(buffer)
      BY <2>2, <2>5
    <3>2. p \o q = SubSeq(buffer, 1, Len(buffer))
      BY <3>1, ConcatAdjacentSubSeq
    <3> QED
      BY <3>2, SubSeqFull
  <2>8. /\ p \in Seq(Byte) /\ q \in Seq(Byte) /\ Len(q) = Len(buffer) - safeLen
        /\ safeLen = 0 => p = <<>>
        /\ safeLen = Len(buffer) => q = <<>>
    <3>1. \A k \in 1..Len(buffer) : buffer[k] \in Byte
      BY ElementOfSeq
    <3>2. (\A k \in 1..safeLen : buffer[k] \in Byte) /\ (\A k \in (safeLen + 1)..Len(buffer) : buffer[k] \in Byte)
      BY <2>2, <2>5, <3>1
    <3>3. p \in Seq(Byte)
      BY <2>5, <3>2, SubSeqProperties
    <3>4. q \in Seq(Byte) /\ Len(q) = IF safeLen + 1 <= Len(buffer) THEN Len(buffer) - (safeLen + 1) + 1 ELSE 0
      BY <2>2, <2>5, <3>2, SubSeqProperties
    <3>5. Len(q) = Len(buffer) - safeLen
      <4> HIDE DEF q
      <4> QED
        BY <2>2, <2>5, <3>4
    <3>6. safeLen = 0 => p = <<>>
      BY SubSeqEmpty
    <3>7. safeLen = Len(buffer) => q = <<>>
      <4> HIDE DEF q
      <4> QED
        BY <2>2, <3>4, <3>5, EmptySeq
    <3> QED
      BY <3>3, <3>4, <3>5, <3>6, <3>7
  <2>9. o.emitted = p /\ o.kept = q /\ o.matched = FALSE
    <3> HIDE DEF o
    <3> QED
      BY <2>1
  <2> HIDE DEF o, p, q
  <2>10. isFinal \/ Stops = {} \/ p = <<>> \/ maxStopLen <= Len(q) + 1
    BY <2>2, <2>6, <2>8
  <2> QED
    BY <1>2, <2>6, <2>7, <2>8, <2>9, <2>10 DEF o
<1> QED
  BY <1>1, <1>2

(* Matching the kept bytes and the new ones is matching the whole text: either neither  *)
(* has a stop string, and enough is kept again, or what has been emitted is the text     *)
(* before the earliest one.                                                              *)
Keeps(e, b) == Stops = {} \/ e = <<>> \/ maxStopLen <= Len(b) + 1

(* The matcher, fed the text in parts, behaves as one that looks at the whole of it: it  *)
(* matches when a stop string stands in it, and then has emitted what is in front of the *)
(* first; otherwise it goes on with all of it either emitted or kept, and enough kept.   *)
LEMMA MatchGrows ==
  ASSUME NEW e \in Seq(Byte), NEW b \in Seq(Byte), NEW d \in Seq(Byte),
         Stops # {}, FoundAt(e \o b) = {}, Keeps(e, b)
  PROVE  LET o == StopMatch(b \o d, FALSE)
             w == (e \o b) \o d
         IN  /\ o.matched <=> FoundAt(w) # {}
             /\ ~o.matched => w = (e \o o.emitted) \o o.kept /\ Keeps(e \o o.emitted, o.kept)
             /\ o.matched => e \o o.emitted = SubSeq(w, 1, Lowest(FoundAt(w)) - 1)
<1> DEFINE bd == b \o d
           o == StopMatch(bd, FALSE)
           w == (e \o b) \o d
<1>0. /\ bd \in Seq(Byte) /\ w \in Seq(Byte) /\ w = e \o bd /\ Len(bd) = Len(b) + Len(d)
      /\ Len(w) = Len(e) + Len(bd)
      /\ Len(e) \in Nat /\ Len(b) \in Nat /\ Len(d) \in Nat
  BY ConcatProperties, ConcatAssociative, LenProperties
<1>1. FoundAt(w) = Behind(e, FoundAt(bd))
  BY FoundInKept DEF Keeps
<1>2. /\ o.matched \in BOOLEAN /\ o.emitted \in Seq(Byte) /\ o.kept \in Seq(Byte)
      /\ o.matched <=> FoundAt(bd) # {}
      /\ o.matched => o.emitted = SubSeq(bd, 1, Lowest(FoundAt(bd)) - 1)
      /\ ~o.matched => /\ o.emitted \o o.kept = bd
                       /\ o.emitted = <<>> \/ maxStopLen <= Len(o.kept) + 1
  <2> HIDE DEF bd
  <2> QED
    BY <1>0, StopMatchIs
<1> DEFINE em == o.emitted
           kept == o.kept
<1> HIDE DEF bd, w, o, em, kept
<1>3. o.matched <=> FoundAt(w) # {}
  BY <1>1, <1>2 DEF Behind
<1>4. CASE ~o.matched
  <2>1. em \in Seq(Byte) /\ kept \in Seq(Byte) /\ em \o kept = bd
    BY <1>2, <1>4 DEF em, kept
  <2>2. w = (e \o em) \o kept
    <3>0. em \in Seq(Byte) /\ kept \in Seq(Byte)
      BY <2>1
    <3>1. (e \o em) \o kept = e \o (em \o kept)
      BY <3>0, BytesAssociate, ZenonT(30)
    <3>2. w = e \o bd
      BY <1>0
    <3>3. em \o kept = bd
      BY <2>1
    <3> HIDE DEF Keeps
    <3> QED
      BY <3>1, <3>2, <3>3
  <2>3. Keeps(e \o em, kept)
    <3>1. CASE em = <<>>
      <4>1. bd = kept /\ e \o em = e
        BY <2>1, <3>1, ConcatEmptySeq
      <4> QED
        BY <1>0, <4>1, LongestStop DEF Keeps
    <3>2. CASE em # <<>>
      BY <1>2, <1>4, <3>2 DEF Keeps, em, kept
    <3> QED
      BY <3>1, <3>2
  <2> QED
    BY <1>3, <1>4, <2>2, <2>3 DEF em, kept, o, w, bd
<1>5. CASE o.matched
  <2> DEFINE F == FoundAt(bd)
             m == Lowest(F)
             p == SubSeq(bd, 1, m - 1)
  <2>1. F \subseteq 1..Len(bd) /\ F # {} /\ FoundAt(w) = Behind(e, F)
    BY <1>0, <1>1, <1>2, <1>5, FoundIs
  <2> HIDE DEF F
  <2>2. m \in F /\ (\A i \in F : m <= i) /\ m \in 1..Len(bd)
    <3>1. F \subseteq Nat
      BY <2>1
    <3> QED
      BY <2>1, <3>1, LowestIs
  <2>3. Lowest(FoundAt(w)) = Len(e) + m
    <3>1. Behind(e, F) \subseteq Nat /\ Behind(e, F) # {}
      <4>1. \A i \in F : i \in Nat /\ Len(e) + i \in Nat
        BY <1>0, <2>1
      <4>2. Behind(e, F) \subseteq Nat
        BY <4>1 DEF Behind
      <4>3. Behind(e, F) # {}
        BY <2>1 DEF Behind
      <4> QED
        BY <4>2, <4>3
    <3>2. Lowest(Behind(e, F)) \in Behind(e, F) /\ \A y \in Behind(e, F) : Lowest(Behind(e, F)) <= y
      BY <3>1, LowestIs
    <3>3. PICK i \in F : Lowest(Behind(e, F)) = Len(e) + i
      BY <3>2 DEF Behind
    <3>4. Len(e) + m \in Behind(e, F)
      BY <2>2 DEF Behind
    <3>5. Len(e) + i <= Len(e) + m /\ m <= i /\ i \in Nat /\ m \in Nat
      BY <2>1, <2>2, <3>2, <3>3, <3>4
    <3>6. i = m
      BY <1>0, <3>5
    <3> QED
      BY <2>1, <3>3, <3>6
  <2> HIDE DEF m
  <2>4. /\ p \in Seq(Byte) /\ Len(p) = m - 1
        /\ \A k \in 1..(m - 1) : p[k] = bd[k]
    <3>1. \A k \in 1..(m - 1) : k \in 1..Len(bd)
      BY <1>0, <2>2
    <3>2. \A k \in 1..(m - 1) : bd[k] \in Byte
      BY <1>0, <3>1, ElementOfSeq
    <3>3. Len(p) = IF 1 <= m - 1 THEN (m - 1) - 1 + 1 ELSE 0
      BY <2>2, <3>2, SubSeqProperties
    <3>4. p \in Seq(Byte) /\ \A k \in 1..((m - 1) - 1 + 1) : p[k] = bd[1 + k - 1]
      BY <2>2, <3>2, SubSeqProperties
    <3> HIDE DEF p
    <3>5. Len(p) = m - 1
      BY <2>2, <3>3
    <3>6. (m - 1) - 1 + 1 = m - 1 /\ \A k \in 1..(m - 1) : 1 + k - 1 = k
      BY <2>2
    <3> QED
      BY <3>4, <3>5, <3>6
  <2> DEFINE s == SubSeq(w, 1, (Len(e) + m) - 1)
  <2>5. /\ s \in Seq(Byte) /\ Len(s) = Len(e) + (m - 1)
        /\ \A k \in 1..(Len(e) + (m - 1)) : s[k] = w[k] /\ k \in 1..Len(w)
    <3> DEFINE n == (Len(e) + m) - 1
    <3>1. n \in Nat /\ n <= Len(w) /\ n = Len(e) + (m - 1)
      BY <1>0, <2>2
    <3> HIDE DEF n
    <3>2. \A k \in 1..n : k \in 1..Len(w)
      BY <1>0, <3>1
    <3>3. \A k \in 1..n : w[k] \in Byte
      BY <1>0, <3>2, ElementOfSeq
    <3>4. /\ SubSeq(w, 1, n) \in Seq(Byte)
          /\ Len(SubSeq(w, 1, n)) = IF 1 <= n THEN n - 1 + 1 ELSE 0
          /\ \A k \in 1..(n - 1 + 1) : SubSeq(w, 1, n)[k] = w[1 + k - 1]
      BY <3>1, <3>3, SubSeqProperties
    <3>5. /\ Len(SubSeq(w, 1, n)) = n
          /\ \A k \in 1..n : SubSeq(w, 1, n)[k] = w[k]
      BY <3>1, <3>4
    <3> QED
      BY <3>1, <3>2, <3>4, <3>5 DEF n
  <2>6. /\ e \o p \in Seq(Byte) /\ Len(e \o p) = Len(e) + (m - 1)
        /\ \A k \in 1..(Len(e) + (m - 1)) : (e \o p)[k] = IF k <= Len(e) THEN e[k] ELSE p[k - Len(e)]
    <3> HIDE DEF p
    <3>1. p \in Seq(Byte)
      BY <2>4
    <3>2. /\ e \o p \in Seq(Byte) /\ Len(e \o p) = Len(e) + Len(p)
          /\ \A k \in 1..(Len(e) + Len(p)) : (e \o p)[k] = IF k <= Len(e) THEN e[k] ELSE p[k - Len(e)]
      BY <3>1, ConcatProperties
    <3> QED
      BY <2>4, <3>2
  <2>7. \A k \in 1..Len(w) : w[k] = IF k <= Len(e) THEN e[k] ELSE bd[k - Len(e)]
    BY <1>0, ConcatProperties
  <2> HIDE DEF p, s
  <2>8. ASSUME NEW k \in 1..(Len(e) + (m - 1)) PROVE s[k] = (e \o p)[k]
    <3>1. s[k] = w[k] /\ k \in 1..Len(w)
      BY <2>5
    <3>2. CASE k <= Len(e)
      BY <2>6, <2>7, <3>1, <3>2
    <3>3. CASE ~(k <= Len(e))
      <4>1. k - Len(e) \in 1..(m - 1)
        BY <1>0, <2>2, <3>3
      <4> QED
        BY <2>4, <2>6, <2>7, <3>1, <3>3, <4>1
    <3> QED
      BY <3>2, <3>3
  <2>9. s = e \o p
    BY <2>5, <2>6, <2>8, SeqEqual
  <2>10. em = p
    BY <1>2, <1>5 DEF em, p, m, F
  <2> QED
    BY <1>3, <1>5, <2>3, <2>9, <2>10 DEF em, o, w, bd, s
<1> QED
  BY <1>4, <1>5


-----------------------------------------------------------------------------
(* Types.  The counts point into the history, in this order.               *)
Chunk == [ids : Seq(Vocab), text : Seq(Byte), finished : BOOLEAN, reason : Reasons \cup {Live}]

Types ==
  /\ TypeOK
  /\ sentTokenCount \in Nat /\ lastEmittedTokenCount \in Nat
  /\ Len(Prompt) <= Len(tokenIds)

(* Tokens.  What has been sent is what has been looked at, up to a count; a cancelled  *)
(* sequence, or one whose interval is one, has been looked at to the end when it ends. *)
SentInOrder ==
  /\ ~hasChannel => pushed = <<>> /\ mReason = Live
  /\ hasChannel => /\ Len(Prompt) <= lastEmittedTokenCount
                   /\ \/ Ids = SubSeq(tokenIds, Len(Prompt) + 1, lastEmittedTokenCount)
                      \/ pc = "done" /\ mReason = "kError" /\ Ids = Generated

NothingLeftToSend ==
  /\ hasChannel /\ pc \in {"finish", "emit"} /\ (mStreamInterval = 1 \/ terminalReason = "kCancelled")
       => sentTokenCount = Len(tokenIds)
  /\ mReason = "kCancelled" \/ (mReason \in Natural /\ mStreamInterval = 1)
       => lastEmittedTokenCount = Len(tokenIds)
  /\ pc \in {"prefill", "seat"} => terminalReason = Live
  /\ mReason # Live => Finished \/ pc = "done"

Tokens == SentInOrder /\ NothingLeftToSend

(* Ends, in a batch that evicts a row as soon as it has ended.  Only the step that     *)
(* ends a row is still ahead of its last chunk, and only the eviction is behind it.    *)
Ends ==
  /\ pc \in {"prefill", "seat", "poll", "decode", "text", "finish"} => terminalReason \notin Natural
  /\ pc = "finish" /\ stopMatchedThisIter => terminalReason = Live
  /\ mReason # Live => pc \in {"evict", "finalize", "done"}
  /\ mReason = Live => \A i \in DOMAIN pushed : ~pushed[i].finished
  /\ pc = "evict" /\ hasChannel /\ Finished => mReason # Live
  /\ pc = "evict" /\ mReason # Live => Finished
  /\ OneTerminalChunk

(* Text.  While no stop string has been found the text that was looked at is what has  *)
(* been emitted and what is kept for the matcher; none stands in it, and enough of it  *)
(* is kept to find one that is still to be completed.                                  *)
Looked(start) == Clean(Raw(SubSeq(tokenIds, start + 1, sentTokenCount)))

Reads(start, emitted) ==
  /\ emitted \in Seq(Byte)
  /\ Looked(start).out = emitted \o stopMatchBuffer
  /\ Looked(start).held = pendingBytes
  /\ FoundAt(emitted \o stopMatchBuffer) = {}
  /\ Keeps(emitted, stopMatchBuffer)
  /\ hasChannel => emitted = Text \o pendingEmitText

(* Where the detokenization of a slot began. *)
Starts == {start \in {0, Len(Prompt)} : start <= sentTokenCount /\ (hasChannel => start = Len(Prompt))}

Reading == \/ pc \in {"prefill", "seat", "poll", "decode", "text"}
           \/ pc = "finish" /\ ~stopMatchedThisIter /\ ~Finished
           \/ pc = "emit" /\ terminalReason \in {Live, "kEndId", "kLength"}
           \/ pc = "evict" /\ ~Finished

ReadsOn ==
  /\ Reading => \E start \in Starts : \E emitted : Reads(start, emitted)
  /\ hasChannel /\ pc \in {"prefill", "seat", "poll", "decode", "text", "evict"} => pendingEmitText = <<>>
  /\ Stops = {} => stopMatchBuffer = <<>>

(* Once one has been found, the text in front of it is on its way or has been sent. *)
CutAt(text) == SubSeq(text, 1, Lowest(FoundAt(text)) - 1)

Matched == \/ pc = "finish" /\ stopMatchedThisIter
           \/ pc = "emit" /\ terminalReason = "kStopWords"

StopsHere ==
  /\ hasChannel /\ Matched =>
       LET text == Looked(Len(Prompt)).out IN
       FoundAt(text) # {} /\ Text \o pendingEmitText = CutAt(text)
  /\ mReason = "kStopWords" =>
       LET text == Looked(Len(Prompt)).out IN
       FoundAt(text) # {} /\ Text = CutAt(text)
  /\ mReason \in {"kEndId", "kLength"} =>
       /\ Text = Looked(Len(Prompt)).out /\ FoundAt(Text) = {}
       /\ Looked(Len(Prompt)).held = pendingBytes

(* What a stream that did not fail has sent. *)
SentText ==
  hasChannel /\ mReason \notin {"kCancelled", "kError"} =>
    /\ FoundAt(Text) = {}
    /\ \E rest \in Seq(Byte) : Clean(Raw(Generated)).out = Text \o rest

(* A row of a stream with interval one is cancelled with all of its text looked at, but *)
(* for its first token's; what is flushed then is no text.                              *)
CancelledEarly ==
  /\ pc \in {"prefill", "seat"} => currentGenerateLength = 0
  /\ hasChannel /\ mStreamInterval = 1 /\ currentGenerateLength > 1 =>
       /\ \/ pc = "poll" /\ terminalReason # "kError"
          \/ pc \in {"decode", "text"} /\ terminalReason = "kCancelled"
          \/ pc = "evict" /\ ~Finished
          => sentTokenCount = Len(tokenIds)
       /\ pc \in {"finish", "emit"} /\ terminalReason = "kCancelled" => FoundAt(Text \o pendingEmitText) = {}
       /\ mReason = "kCancelled" => FoundAt(Text) = {}

Reader == ReadsOn /\ StopsHere /\ SentText /\ CancelledEarly

StopsAreCharacters == \A stop \in Stops : \A k \in 1..Len(stop) : stop[k] # "?"

-----------------------------------------------------------------------------
(* What has been sent: the texts and the tokens of all chunks.             *)
Texts(chunks) == [i \in DOMAIN chunks |-> chunks[i].text]
IdsOf(chunks) == [i \in DOMAIN chunks |-> chunks[i].ids]

(* One text and one line of ids for each chunk. *)
LEMMA ChunkFields ==
  ASSUME NEW chunks \in Seq(Chunk)
  PROVE  /\ Texts(chunks) \in Seq(Seq(Byte)) /\ IdsOf(chunks) \in Seq(Seq(Vocab))
         /\ Len(Texts(chunks)) = Len(chunks) /\ Len(IdsOf(chunks)) = Len(chunks)
         /\ \A i \in 1..Len(chunks) : Texts(chunks)[i] = chunks[i].text
         /\ \A i \in 1..Len(chunks) : IdsOf(chunks)[i] = chunks[i].ids
<1>1. Len(chunks) \in Nat /\ DOMAIN chunks = 1..Len(chunks)
  BY LenProperties
<1>2. \A i \in 1..Len(chunks) : chunks[i].text \in Seq(Byte) /\ chunks[i].ids \in Seq(Vocab)
  <2>1. \A i \in 1..Len(chunks) : chunks[i] \in Chunk
    BY ElementOfSeq
  <2> QED
    BY <2>1 DEF Chunk
<1>3. Texts(chunks) = [i \in 1..Len(chunks) |-> chunks[i].text]
  BY <1>1 DEF Texts
<1>4. IdsOf(chunks) = [i \in 1..Len(chunks) |-> chunks[i].ids]
  BY <1>1 DEF IdsOf
<1>5. Texts(chunks) \in [1..Len(chunks) -> Seq(Byte)]
  BY <1>2, <1>3
<1>6. IdsOf(chunks) \in [1..Len(chunks) -> Seq(Vocab)]
  BY <1>2, <1>4
<1>7. Texts(chunks) \in Seq(Seq(Byte)) /\ IdsOf(chunks) \in Seq(Seq(Vocab))
  <2> DEFINE n == Len(chunks)
  <2>1. n \in Nat /\ Texts(chunks) \in [1..n -> Seq(Byte)] /\ IdsOf(chunks) \in [1..n -> Seq(Vocab)]
    BY <1>1, <1>5, <1>6
  <2> HIDE DEF n
  <2>2. Texts(chunks) \in Seq(Seq(Byte))
    BY <2>1, SeqDef
  <2>3. IdsOf(chunks) \in Seq(Seq(Vocab))
    BY <2>1, SeqDef
  <2> QED
    BY <2>2, <2>3
<1>8. Len(Texts(chunks)) = Len(chunks)
  BY <1>1, <1>3
<1>9. Len(IdsOf(chunks)) = Len(chunks)
  BY <1>1, <1>4
<1> QED
  BY <1>3, <1>4, <1>7, <1>8, <1>9

(* A chunk is pushed behind the others. *)
LEMMA ChunkJoins ==
  ASSUME NEW chunks \in Seq(Chunk), NEW chunk \in Chunk
  PROVE  /\ Texts(Append(chunks, chunk)) = Append(Texts(chunks), chunk.text)
         /\ IdsOf(Append(chunks, chunk)) = Append(IdsOf(chunks), chunk.ids)
<1> DEFINE more == Append(chunks, chunk)
           n == Len(chunks)
<1>1. /\ more \in Seq(Chunk) /\ Len(more) = n + 1 /\ n \in Nat
      /\ \A i \in 1..n : more[i] = chunks[i]
      /\ more[n + 1] = chunk
  BY AppendProperties, LenProperties
<1> HIDE DEF more, n
<1>2. chunk.text \in Seq(Byte) /\ chunk.ids \in Seq(Vocab)
  BY DEF Chunk
<1>3. /\ Texts(chunks) \in Seq(Seq(Byte)) /\ IdsOf(chunks) \in Seq(Seq(Vocab))
      /\ Len(Texts(chunks)) = n /\ Len(IdsOf(chunks)) = n
      /\ \A i \in 1..n : Texts(chunks)[i] = chunks[i].text
      /\ \A i \in 1..n : IdsOf(chunks)[i] = chunks[i].ids
  BY ChunkFields DEF n
<1>4. /\ Texts(more) \in Seq(Seq(Byte)) /\ IdsOf(more) \in Seq(Seq(Vocab))
      /\ Len(Texts(more)) = n + 1 /\ Len(IdsOf(more)) = n + 1
      /\ \A i \in 1..(n + 1) : Texts(more)[i] = more[i].text
      /\ \A i \in 1..(n + 1) : IdsOf(more)[i] = more[i].ids
  <2>1. more \in Seq(Chunk)
    BY <1>1
  <2>2. /\ Texts(more) \in Seq(Seq(Byte)) /\ IdsOf(more) \in Seq(Seq(Vocab))
        /\ Len(Texts(more)) = Len(more) /\ Len(IdsOf(more)) = Len(more)
        /\ \A i \in 1..Len(more) : Texts(more)[i] = more[i].text
        /\ \A i \in 1..Len(more) : IdsOf(more)[i] = more[i].ids
    BY <2>1, ChunkFields
  <2> QED
    BY <1>1, <2>2
<1>5. Texts(more) = Append(Texts(chunks), chunk.text)
  <2> DEFINE p == Texts(chunks)
             r == Texts(more)
  <2>1. /\ p \in Seq(Seq(Byte)) /\ r \in Seq(Seq(Byte))
        /\ Len(p) = n /\ Len(r) = n + 1
        /\ \A i \in 1..n : p[i] = chunks[i].text
        /\ \A i \in 1..(n + 1) : r[i] = more[i].text
    BY <1>3, <1>4
  <2> HIDE DEF p, r
  <2>2. r[n + 1] = chunk.text /\ Len(r) = Len(p) + 1
    BY <1>1, <2>1
  <2>3. ASSUME NEW i \in 1..Len(p) PROVE r[i] = p[i]
    <3>1. i \in 1..n /\ i \in 1..(n + 1)
      BY <1>1, <2>1
    <3>2. r[i] = more[i].text /\ p[i] = chunks[i].text /\ more[i] = chunks[i]
      BY <1>1, <2>1, <3>1
    <3> QED
      BY <3>2
  <2>4. r = Append(p, r[Len(r)])
    BY <2>1, <2>2, <2>3, JoinedIs
  <2> QED
    BY <2>1, <2>2, <2>4 DEF p, r
<1>6. IdsOf(more) = Append(IdsOf(chunks), chunk.ids)
  <2> DEFINE p == IdsOf(chunks)
             r == IdsOf(more)
  <2>1. /\ p \in Seq(Seq(Vocab)) /\ r \in Seq(Seq(Vocab))
        /\ Len(p) = n /\ Len(r) = n + 1
        /\ \A i \in 1..n : p[i] = chunks[i].ids
        /\ \A i \in 1..(n + 1) : r[i] = more[i].ids
    BY <1>3, <1>4
  <2> HIDE DEF p, r
  <2>2. r[n + 1] = chunk.ids /\ Len(r) = Len(p) + 1
    BY <1>1, <2>1
  <2>3. ASSUME NEW i \in 1..Len(p) PROVE r[i] = p[i]
    <3>1. i \in 1..n /\ i \in 1..(n + 1)
      BY <1>1, <2>1
    <3>2. r[i] = more[i].ids /\ p[i] = chunks[i].ids /\ more[i] = chunks[i]
      BY <1>1, <2>1, <3>1
    <3> QED
      BY <3>2
  <2>4. r = Append(p, r[Len(r)])
    BY <2>1, <2>2, <2>3, JoinedIs
  <2> QED
    BY <2>1, <2>2, <2>4 DEF p, r
<1> QED
  BY <1>5, <1>6 DEF more

(* Text and Ids, as the lemmas on joined sequences speak of them. *)
LEMMA TextIs ==
  /\ Text = FlattenSeq(Texts(pushed))
  /\ Ids = FlattenSeq(IdsOf(pushed))
  BY SameFlatten DEF Text, Ids, Texts, IdsOf

(* What has been sent is bytes and tokens. *)
LEMMA SentType ==
  ASSUME pushed \in Seq(Chunk)
  PROVE  Text \in Seq(Byte) /\ Ids \in Seq(Vocab)
  BY TextIs, ChunkFields, FlattenType

(* An empty stream has no text and no ids. *)
LEMMA NothingSent ==
  ASSUME pushed = <<>>
  PROVE  Text = <<>> /\ Ids = <<>>
<1>1. Texts(<<>>) = <<>> /\ IdsOf(<<>>) = <<>>
  BY DEF Texts, IdsOf
<1> QED
  BY <1>1, TextIs, FlattenEmpty

(* Another chunk. *)
LEMMA ChunkSent ==
  ASSUME pushed \in Seq(Chunk), NEW chunk \in Chunk, pushed' = Append(pushed, chunk)
  PROVE  Text' = Text \o chunk.text /\ Ids' = Ids \o chunk.ids
<1>1. /\ Texts(pushed) \in Seq(Seq(Byte)) /\ IdsOf(pushed) \in Seq(Seq(Vocab))
      /\ chunk.text \in Seq(Byte) /\ chunk.ids \in Seq(Vocab)
  BY ChunkFields DEF Chunk
<1>2. /\ FlattenSeq(Append(Texts(pushed), chunk.text)) = FlattenSeq(Texts(pushed)) \o chunk.text
      /\ FlattenSeq(Append(IdsOf(pushed), chunk.ids)) = FlattenSeq(IdsOf(pushed)) \o chunk.ids
  BY <1>1, FlattenAppend
<1>3. /\ Text' = FlattenSeq(Texts(pushed'))
      /\ Ids' = FlattenSeq(IdsOf(pushed'))
  BY SameFlatten DEF Text, Ids, Texts, IdsOf
<1>4. /\ Texts(Append(pushed, chunk)) = Append(Texts(pushed), chunk.text)
      /\ IdsOf(Append(pushed, chunk)) = Append(IdsOf(pushed), chunk.ids)
  BY ChunkJoins
<1> QED
  BY <1>2, <1>3, <1>4, TextIs

(* A step that pushes no chunk adds neither. *)
LEMMA NothingMoreSent ==
  ASSUME pushed' = pushed
  PROVE  Text' = Text /\ Ids' = Ids
  BY DEF Text, Ids

-----------------------------------------------------------------------------
(* Types.                                                                  *)

(* At most a lead byte is held back, and flushing it shows a replacement character. *)
LEMMA HeldType ==
  /\ <<>> \in Seq(Byte) /\ <<"L">> \in Seq(Byte)
  /\ Flush(<<>>) = <<>> /\ Flush(<<"L">>) = <<"?">> /\ <<"?">> \in Seq(Byte)
<1>1. "L" \in Byte /\ "?" \in Byte
  BY EmissionAssumption
<1>2. <<>> \in Seq(Byte) /\ <<"L">> \in Seq(Byte) /\ <<"?">> \in Seq(Byte)
  BY <1>1, Single, EmptySeq
<1>3. Flush(<<>>) = <<>> /\ Flush(<<"L">>) = <<"?">>
  BY DEF Flush
<1> QED
  BY <1>2, <1>3

(* What is new: the bytes held back and those of the tokens that were not looked at. *)
Unread == SubSeq(tokenIds, sentTokenCount + 1, Len(tokenIds))
Fresh == Clean(pendingBytes \o Raw(Unread))

(* The sanitized text of the tokens not yet looked at. *)
LEMMA FreshType ==
  ASSUME Types
  PROVE  /\ Unread \in Seq(Vocab) /\ Raw(Unread) \in Seq(Byte) /\ pendingBytes \in Seq(Byte)
         /\ Fresh.out \in Seq(Byte) /\ Fresh.held \in {<<>>, <<"L">>}
         /\ Fresh.out \o Flush(Fresh.held) \in Seq(Byte)
<1>1. /\ tokenIds \in Seq(Vocab) /\ sentTokenCount \in Nat /\ Len(tokenIds) \in Nat
      /\ pendingBytes \in {<<>>, <<"L">>}
  BY LenProperties DEF Types, TypeOK
<1>2. Unread \in Seq(Vocab)
  <2>1. Len(tokenIds) <= Len(tokenIds)
    BY <1>1
  <2> QED
    BY <1>1, <2>1, PartType DEF Unread
<1>3. Raw(Unread) \in Seq(Byte) /\ pendingBytes \in Seq(Byte)
  BY <1>1, <1>2, RawType, HeldType
<1> DEFINE bytes == pendingBytes \o Raw(Unread)
<1>4. bytes \in Seq(Byte)
  BY <1>3, ConcatProperties
<1> HIDE DEF bytes
<1>5. Clean(bytes).out \in Seq(Byte) /\ Clean(bytes).held \in {<<>>, <<"L">>}
  BY <1>4, CleanIs
<1>6. Fresh.out \in Seq(Byte) /\ Fresh.held \in {<<>>, <<"L">>}
  BY <1>5 DEF Fresh, bytes
<1>7. Flush(Fresh.held) \in Seq(Byte)
  BY <1>6, HeldType
<1> QED
  BY <1>2, <1>3, <1>6, <1>7, ConcatProperties

(* The text a row decodes: with what is held back when it has finished, else without. *)
LEMMA DeltaIs ==
  ASSUME Types
  PROVE  /\ Delta.out = IF Finished THEN Fresh.out \o Flush(Fresh.held) ELSE Fresh.out
         /\ Delta.held = IF Finished THEN <<>> ELSE Fresh.held
         /\ Delta.out \in Seq(Byte) /\ Delta.held \in {<<>>, <<"L">>}
         /\ LastDelta = Fresh.out \o Flush(Fresh.held)
<1>1. Sanitized(pendingBytes, Raw(Unread)) = Fresh
  BY FreshType, SanitizedIsClean DEF Fresh
<1>2. LastDelta = Fresh.out \o Flush(Fresh.held)
  BY <1>1 DEF LastDelta, Unread
<1>3. CASE Finished
  <2>1. Delta = [out |-> Fresh.out \o Flush(Fresh.held), held |-> <<>>]
    BY <1>1, <1>3 DEF Delta, Unread
  <2> QED
    BY <1>2, <1>3, <2>1, FreshType
<1>4. CASE ~Finished
  <2>1. Delta = Fresh
    BY <1>1, <1>4 DEF Delta, Unread
  <2> QED
    BY <1>2, <1>4, <2>1, FreshType
<1> QED
  BY <1>3, <1>4

(* The history only grows. *)
LEMMA BurstType ==
  ASSUME NEW burst \in Bursts
  PROVE  burst \in Seq(Vocab)
<1>1. PICK n \in 1..MaxBurst : burst \in [1..n -> Vocab]
  BY DEF Bursts
<1>2. n \in Nat
  BY EmissionAssumption
<1> QED
  BY <1>1, <1>2, SeqDef

Grows == \E more \in Seq(Vocab) : tokenIds' = tokenIds \o more

(* No step shortens the history or changes a token in it. *)
LEMMA HistoryGrows ==
  ASSUME Types, Next
  PROVE  Grows
<1>1. tokenIds \in Seq(Vocab)
  BY DEF Types, TypeOK
<1>2. CASE tokenIds' = tokenIds
  <2>1. <<>> \in Seq(Vocab) /\ tokenIds \o <<>> = tokenIds
    BY <1>1, EmptySeq, ConcatEmptySeq
  <2> QED
    BY <1>2, <2>1 DEF Grows
<1>3. ASSUME NEW token \in Vocab, tokenIds' = Append(tokenIds, token) PROVE Grows
  <2>1. <<token>> \in Seq(Vocab) /\ Append(tokenIds, token) = tokenIds \o <<token>>
    BY <1>1, Single, AppendIsConcat
  <2> QED
    BY <1>3, <2>1 DEF Grows
<1>4. ASSUME NEW burst \in Bursts, tokenIds' = tokenIds \o burst PROVE Grows
  BY <1>4, BurstType DEF Grows
<1>5. CASE Prefill
  BY <1>3, <1>5 DEF Prefill
<1>6. CASE SeatedPrefill
  BY <1>3, <1>6 DEF SeatedPrefill
<1>7. CASE DecodeStep
  BY <1>2, <1>4, <1>7 DEF DecodeStep
<1>8. CASE GuideFails
  BY <1>2, <1>4, <1>8 DEF GuideFails
<1>9. CASE UNCHANGED tokenIds
  BY <1>2, <1>9
<1> QED
  BY <1>5, <1>6, <1>7, <1>8, <1>9
     DEF Next, Runtime, ApplyCancellation, SkipText, DecodeText, UpdateFinishStates, EmitChunks,
         Evict, Abort, Finalize, Cancel, Over, vars

(* A history that grows is a history, and no shorter. *)
LEMMA LongerHistory ==
  ASSUME Types, Grows
  PROVE  tokenIds' \in Seq(Vocab) /\ Len(tokenIds') \in Nat /\ Len(tokenIds) <= Len(tokenIds')
<1>1. tokenIds \in Seq(Vocab)
  BY DEF Types, TypeOK
<1>2. PICK more \in Seq(Vocab) : tokenIds' = tokenIds \o more
  BY DEF Grows
<1>3. tokenIds' \in Seq(Vocab) /\ Len(tokenIds') = Len(tokenIds) + Len(more)
  BY <1>1, <1>2, ConcatProperties
<1>4. Len(tokenIds) \in Nat /\ Len(more) \in Nat
  BY <1>1, LenProperties
<1> QED
  BY <1>3, <1>4

(* The chunk that emitChunks() pushes, and the finalizer's. *)
NextChunk == [ids |-> SubSeq(tokenIds, lastEmittedTokenCount + 1, sentTokenCount),
              text |-> ChunkText, finished |-> Finished, reason |-> terminalReason]

(* The chunks that are pushed. *)
LEMMA ChunkTypes ==
  ASSUME Types
  PROVE  /\ NextChunk \in Chunk /\ ChunkText \in Seq(Byte)
         /\ FinalChunk \in Chunk
<1>1. /\ tokenIds \in Seq(Vocab) /\ sentTokenCount \in Nat /\ lastEmittedTokenCount \in Nat
      /\ Len(tokenIds) \in Nat /\ sentTokenCount <= Len(tokenIds)
      /\ stopMatchBuffer \in Seq(Byte) /\ pendingEmitText \in Seq(Byte)
      /\ terminalReason \in Reasons \cup {Live}
  BY LenProperties DEF Types, TypeOK
<1>2. SubSeq(tokenIds, lastEmittedTokenCount + 1, sentTokenCount) \in Seq(Vocab)
  BY <1>1, PartType
<1>3. SubSeq(tokenIds, lastEmittedTokenCount + 1, Len(tokenIds)) \in Seq(Vocab)
  <2>1. Len(tokenIds) <= Len(tokenIds)
    BY <1>1
  <2> QED
    BY <1>1, <2>1, PartType
<1>4. ChunkText \in Seq(Byte)
  <2>1. (IF HeldBackIsDue THEN stopMatchBuffer ELSE <<>>) \in Seq(Byte)
    BY <1>1, HeldType
  <2> QED
    BY <1>1, <2>1, ConcatProperties DEF ChunkText
<1>5. LastDelta \in Seq(Byte)
  BY DeltaIs, FreshType
<1>6. NextChunk \in Chunk
  BY <1>1, <1>2, <1>4 DEF NextChunk, Chunk, Finished
<1>7. FinalChunk \in Chunk
  BY <1>3, <1>5 DEF FinalChunk, Chunk, Reasons
<1> QED
  BY <1>4, <1>6, <1>7

(* The types hold at the start. *)
LEMMA TypesInit ==
  ASSUME Init
  PROVE  Types
<1>1. Prompt \in Seq(Vocab) /\ Len(Prompt) \in Nat
  BY EmissionAssumption, LenProperties
<1>2. SeededAt \in Nat /\ SeededAt <= Len(Prompt)
  BY <1>1 DEF SeededAt
<1>3. pushed \in Seq(Chunk) /\ <<>> \in Seq(Byte)
  BY EmptySeq DEF Init
<1>4. /\ founding \in BOOLEAN /\ hasChannel \in BOOLEAN /\ stopMatchedThisIter \in BOOLEAN
      /\ mCancelled \in BOOLEAN /\ terminalReason = Live /\ mReason = Live
      /\ pc \in {"prefill", "seat"} /\ mStreamInterval \in Intervals
  BY DEF Init
<1>5. /\ tokenIds = Prompt /\ sentTokenCount = SeededAt /\ lastEmittedTokenCount = SeededAt
      /\ pendingBytes = <<>> /\ stopMatchBuffer = <<>> /\ pendingEmitText = <<>>
  BY DEF Init
<1>6. /\ lastEmittedTokenCount <= sentTokenCount /\ sentTokenCount <= Len(tokenIds)
      /\ sentTokenCount \in Nat /\ lastEmittedTokenCount \in Nat /\ Len(Prompt) <= Len(tokenIds)
      /\ tokenIds \in Seq(Vocab)
  <2> DEFINE n == Len(Prompt)
             m == SeededAt
  <2>1. n \in Nat /\ m \in Nat /\ m <= n
    BY <1>1, <1>2
  <2>2. sentTokenCount = m /\ lastEmittedTokenCount = m /\ Len(tokenIds) = n
    BY <1>5
  <2> HIDE DEF m, n
  <2> QED
    BY <1>1, <1>5, <2>1, <2>2 DEF n
<1> QED
  BY <1>3, <1>4, <1>5, <1>6 DEF Types, TypeOK, Chunk

(* Every step keeps them. *)
LEMMA TypesNext ==
  ASSUME Types, [Next]_vars
  PROVE  Types'
<1>1. CASE UNCHANGED vars
  BY <1>1 DEF Types, TypeOK, vars, textVars, emitVars, channelVars, slotVars
<1>2. CASE Next
  <2>0. TypeOK /\ sentTokenCount \in Nat /\ lastEmittedTokenCount \in Nat /\ Len(Prompt) <= Len(tokenIds)
    BY DEF Types
  <2>1. /\ tokenIds' \in Seq(Vocab) /\ Len(tokenIds') \in Nat /\ Len(tokenIds) \in Nat
        /\ Len(tokenIds) <= Len(tokenIds') /\ Len(Prompt) \in Nat
        /\ sentTokenCount <= Len(tokenIds') /\ Len(Prompt) <= Len(tokenIds')
    <3>1. tokenIds' \in Seq(Vocab) /\ Len(tokenIds') \in Nat /\ Len(tokenIds) <= Len(tokenIds')
      BY <1>2, HistoryGrows, LongerHistory
    <3>2. Len(tokenIds) \in Nat /\ Len(Prompt) \in Nat
      BY <2>0, EmissionAssumption, LenProperties DEF TypeOK
    <3> QED
      BY <2>0, <3>1, <3>2 DEF TypeOK
  <2>2. CASE UNCHANGED <<hasChannel, mStreamInterval, sentTokenCount, pendingBytes, stopMatchBuffer,
                         stopMatchedThisIter, emitVars, channelVars>>
             /\ pc' \in {"prefill", "seat", "poll", "decode", "text", "finish", "emit", "evict",
                         "finalize", "done"}
             /\ founding' \in BOOLEAN /\ mCancelled' \in BOOLEAN
             /\ terminalReason' \in Reasons \cup {Live}
    BY <2>0, <2>1, <2>2 DEF Types, TypeOK, emitVars, channelVars
  <2>3. CASE Prefill \/ SeatedPrefill \/ DecodeStep \/ GuideFails \/ Cancel \/ Over
    BY <2>0, <2>2, <2>3
       DEF Prefill, SeatedPrefill, DecodeStep, GuideFails, Cancel, Over, TypeOK, Reasons, vars,
           textVars, emitVars, channelVars, slotVars
  <2>4. CASE ApplyCancellation \/ Evict \/ Abort
    BY <2>0, <2>2, <2>4
       DEF ApplyCancellation, Evict, Abort, TypeOK, Reasons, textVars, emitVars, channelVars, slotVars
  <2>5. CASE UpdateFinishStates
    <3>1. terminalReason' \in Reasons \cup {Live}
      BY <2>0, <2>5 DEF UpdateFinishStates, NaturalEnding, TypeOK, Reasons, Natural, Live
    <3> QED
      BY <2>0, <2>2, <2>5, <3>1
         DEF UpdateFinishStates, TypeOK, textVars, emitVars, channelVars, slotVars
  <2>6. CASE SkipText
    <3>1. pendingEmitText' \in Seq(Byte)
      BY <2>6, HeldType DEF SkipText
    <3> QED
      BY <2>0, <2>1, <2>6, <3>1
         DEF SkipText, Types, TypeOK, textVars, emitVars, channelVars, slotVars
  <2>7. CASE DecodeText
    <3> DEFINE buffer == stopMatchBuffer \o Delta.out
               outcome == StopMatch(buffer, Finished)
    <3>1. Delta.out \in Seq(Byte) /\ Delta.held \in {<<>>, <<"L">>} /\ stopMatchBuffer \in Seq(Byte)
      BY <2>0, DeltaIs DEF TypeOK
    <3>2. buffer \in Seq(Byte)
      BY <3>1, ConcatProperties
    <3>3. Finished \in BOOLEAN
      BY DEF Finished
    <3>4. outcome.matched \in BOOLEAN /\ outcome.emitted \in Seq(Byte) /\ outcome.kept \in Seq(Byte)
      <4> HIDE DEF buffer
      <4> QED
        BY <3>2, <3>3, StopMatchIs
    <3>5. /\ pendingEmitText' \in Seq(Byte) /\ stopMatchBuffer' \in Seq(Byte)
          /\ stopMatchedThisIter' \in BOOLEAN
      <4> HIDE DEF outcome
      <4>1. \/ /\ pendingEmitText' = outcome.emitted /\ stopMatchBuffer' = outcome.kept
               /\ stopMatchedThisIter' = outcome.matched
            \/ /\ pendingEmitText' = Delta.out /\ stopMatchBuffer' = stopMatchBuffer
               /\ stopMatchedThisIter' = FALSE
        BY <2>7 DEF DecodeText, outcome, buffer
      <4> QED
        BY <3>1, <3>4, <4>1
    <3>6. /\ sentTokenCount' = Len(tokenIds) /\ pendingBytes' \in {<<>>, <<"L">>} /\ pc' = "finish"
          /\ UNCHANGED <<founding, slotVars, tokenIds, terminalReason, lastEmittedTokenCount,
                         mCancelled, channelVars>>
      BY <2>7, <3>1 DEF DecodeText
    <3>7. lastEmittedTokenCount <= Len(tokenIds)
      BY <2>0, <2>1 DEF TypeOK
    <3> QED
      BY <2>0, <2>1, <3>5, <3>6, <3>7 DEF Types, TypeOK, slotVars, channelVars
  <2>8. CASE EmitChunks
    <3>1. NextChunk \in Chunk
      BY ChunkTypes
    <3>2. pushed \in Seq(Chunk)
      BY <2>0 DEF TypeOK, Chunk
    <3>3. Append(pushed, NextChunk) \in Seq(Chunk)
      BY <3>1, <3>2, AppendProperties
    <3>4. /\ pushed' \in Seq(Chunk) /\ mReason' \in Reasons \cup {Live}
          /\ lastEmittedTokenCount' \in {lastEmittedTokenCount, sentTokenCount}
          /\ pendingEmitText' \in {pendingEmitText, <<>>} /\ stopMatchBuffer' \in {stopMatchBuffer, <<>>}
          /\ pc' = "evict"
          /\ UNCHANGED <<founding, slotVars, tokenIds, terminalReason, sentTokenCount, pendingBytes,
                         stopMatchedThisIter, mCancelled>>
      BY <2>0, <2>8, <3>2, <3>3 DEF EmitChunks, NextChunk, TypeOK, emitVars, channelVars
    <3>5. lastEmittedTokenCount' <= sentTokenCount /\ lastEmittedTokenCount' \in Nat
      BY <2>0, <3>4 DEF TypeOK
    <3>6. pendingEmitText' \in Seq(Byte) /\ stopMatchBuffer' \in Seq(Byte)
      BY <2>0, <3>4, HeldType DEF TypeOK
    <3> QED
      BY <2>0, <2>1, <3>4, <3>5, <3>6 DEF Types, TypeOK, Chunk, slotVars
  <2>9. CASE Finalize
    <3>1. pushed \in Seq(Chunk)
      BY <2>0 DEF TypeOK, Chunk
    <3>2. Append(pushed, FinalChunk) \in Seq(Chunk)
      BY <3>1, ChunkTypes, AppendProperties
    <3>3. /\ pushed' \in Seq(Chunk) /\ mReason' \in Reasons \cup {Live} /\ pc' = "done"
          /\ UNCHANGED <<founding, slotVars, tokenIds, terminalReason, textVars, emitVars, mCancelled>>
      BY <2>0, <2>9, <3>1, <3>2 DEF Finalize, TypeOK, Reasons, channelVars
    <3> QED
      BY <2>0, <2>1, <3>3 DEF Types, TypeOK, Chunk, slotVars, textVars, emitVars
  <2> QED
    BY <1>2, <2>3, <2>4, <2>5, <2>6, <2>7, <2>8, <2>9 DEF Next, Runtime
<1> QED
  BY <1>1, <1>2

(* Every variable keeps its type, and a slot never counts tokens as sent that it has not *)
(* looked at (handleRequest and its stages).                                             *)
THEOREM TypeCorrect == Spec => []TypeOK
<1>1. Init => Types
  BY TypesInit
<1>2. Types /\ [Next]_vars => Types'
  BY TypesNext
<1>3. Types => TypeOK
  BY DEF Types
<1> QED
  BY <1>1, <1>2, <1>3, PTL DEF Spec

-----------------------------------------------------------------------------
(* Tokens.                                                                 *)

(* A part of the history stays what it is. *)
LEMMA PartsStay ==
  ASSUME Types, Grows, NEW a \in Nat, NEW b \in Nat, a <= b, b <= Len(tokenIds)
  PROVE  SubSeq(tokenIds', a + 1, b) = SubSeq(tokenIds, a + 1, b)
<1>1. tokenIds \in Seq(Vocab)
  BY DEF Types, TypeOK
<1>2. PICK more \in Seq(Vocab) : tokenIds' = tokenIds \o more
  BY DEF Grows
<1> QED
  BY <1>1, <1>2, PartStays

(* The counts point into the history, in order. *)
LEMMA Counts ==
  ASSUME Types
  PROVE  /\ tokenIds \in Seq(Vocab) /\ Len(tokenIds) \in Nat /\ Len(Prompt) \in Nat
         /\ sentTokenCount \in Nat /\ lastEmittedTokenCount \in Nat
         /\ lastEmittedTokenCount <= sentTokenCount /\ sentTokenCount <= Len(tokenIds)
         /\ Len(Prompt) <= Len(tokenIds)
  BY EmissionAssumption, LenProperties DEF Types, TypeOK

(* Two parts of the history that follow each other are one part of it. *)
LEMMA HistoryJoins ==
  ASSUME Types
  PROVE  \A a, b, c \in Nat : a <= b /\ b <= c /\ c <= Len(tokenIds) =>
           SubSeq(tokenIds, a + 1, c) = SubSeq(tokenIds, a + 1, b) \o SubSeq(tokenIds, b + 1, c)
<1>1. tokenIds \in Seq(Vocab)
  BY Counts
<1> QED
  BY <1>1, PartsJoin

(* Nothing has been sent at the start. *)
LEMMA TokensInit ==
  ASSUME Init
  PROVE  Tokens
<1>1. pushed = <<>> /\ mReason = Live /\ terminalReason = Live /\ pc \in {"prefill", "seat"}
  BY DEF Init
<1>2. Ids = <<>>
  BY <1>1, NothingSent
<1>3. ASSUME hasChannel
      PROVE  /\ lastEmittedTokenCount = Len(Prompt) /\ Len(Prompt) \in Nat
             /\ SubSeq(tokenIds, Len(Prompt) + 1, lastEmittedTokenCount) = <<>>
  <2>1. lastEmittedTokenCount = Len(Prompt) /\ Len(Prompt) \in Nat
    BY <1>3, EmissionAssumption, LenProperties DEF Init, SeededAt
  <2> QED
    BY <2>1, EmptyPart
<1>4. SentInOrder
  BY <1>1, <1>2, <1>3 DEF SentInOrder
<1>5. NothingLeftToSend
  BY <1>1 DEF NothingLeftToSend, Natural, Live
<1> QED
  BY <1>4, <1>5 DEF Tokens

(* A published end is behind the last token. *)
LEMMA EndedHistory ==
  ASSUME Tokens, Next, mReason # Live
  PROVE  UNCHANGED tokenIds
<1>1. (Finished \/ pc = "done") /\ pc \notin {"prefill", "seat"}
  BY DEF Tokens, NothingLeftToSend, Finished
<1> QED
  BY <1>1 DEF Next, Runtime, Prefill, SeatedPrefill, ApplyCancellation, DecodeStep, GuideFails,
              SkipText, DecodeText, UpdateFinishStates, EmitChunks, Evict, Abort, Finalize,
              Cancel, Over, vars

(* Every step keeps what has been sent a part of the history, from its beginning. *)
LEMMA SentInOrderNext ==
  ASSUME Types, Tokens, Next
  PROVE  SentInOrder'
<1> DEFINE p == Len(Prompt)
           l == lastEmittedTokenCount
<1>0. /\ tokenIds \in Seq(Vocab) /\ Len(tokenIds) \in Nat /\ p \in Nat /\ l \in Nat
      /\ sentTokenCount \in Nat /\ l <= sentTokenCount /\ sentTokenCount <= Len(tokenIds)
      /\ pushed \in Seq(Chunk) /\ SentInOrder
  BY Counts DEF Types, TypeOK, Chunk, Tokens
<1>1. Grows
  BY HistoryGrows
<1>2. CASE UNCHANGED <<hasChannel, mReason, pushed, lastEmittedTokenCount>> /\ pc # "done"
  <2>1. Ids' = Ids
    BY <1>2, NothingMoreSent
  <2>2. CASE ~hasChannel
    BY <1>0, <1>2, <2>2 DEF SentInOrder
  <2>3. CASE hasChannel
    <3>1. p <= l /\ Ids = SubSeq(tokenIds, p + 1, l)
      BY <1>0, <1>2, <2>3 DEF SentInOrder
    <3>2. l <= Len(tokenIds)
      BY <1>0
    <3>3. SubSeq(tokenIds', p + 1, l) = SubSeq(tokenIds, p + 1, l)
      BY <1>0, <1>1, <3>1, <3>2, PartsStay
    <3> QED
      BY <1>2, <2>1, <2>3, <3>1, <3>3 DEF SentInOrder
  <2> QED
    BY <2>2, <2>3
<1>3. CASE pc = "done"
  <2>1. UNCHANGED vars
    BY <1>3 DEF Next, Runtime, Prefill, SeatedPrefill, ApplyCancellation, DecodeStep, GuideFails,
                SkipText, DecodeText, UpdateFinishStates, EmitChunks, Evict, Abort, Finalize,
                Cancel, Over
  <2> QED
    BY <1>0, <2>1 DEF SentInOrder, Ids, Generated, vars, slotVars, channelVars, emitVars
<1>4. CASE EmitChunks
  <2>1. pc # "done" /\ UNCHANGED <<hasChannel, tokenIds>>
    BY <1>4 DEF EmitChunks, slotVars
  <2>2. CASE UNCHANGED <<channelVars, lastEmittedTokenCount>>
    BY <1>2, <2>1, <2>2 DEF channelVars
  <2>3. CASE /\ hasChannel /\ pushed' = Append(pushed, NextChunk)
             /\ lastEmittedTokenCount' = sentTokenCount
    <3>1. p <= l /\ Ids = SubSeq(tokenIds, p + 1, l)
      BY <1>0, <2>1, <2>3 DEF SentInOrder
    <3>2. Ids' = Ids \o NextChunk.ids
      BY <1>0, <2>3, ChunkTypes, ChunkSent
    <3>3. NextChunk.ids = SubSeq(tokenIds, l + 1, sentTokenCount)
      BY DEF NextChunk
    <3>4. SubSeq(tokenIds, p + 1, sentTokenCount) =
            SubSeq(tokenIds, p + 1, l) \o SubSeq(tokenIds, l + 1, sentTokenCount)
      BY <1>0, <3>1, HistoryJoins
    <3>5. p <= sentTokenCount
      BY <1>0, <3>1
    <3> QED
      BY <2>1, <2>3, <3>1, <3>2, <3>3, <3>4, <3>5 DEF SentInOrder
  <2> QED
    BY <1>4, <2>2, <2>3 DEF EmitChunks, NextChunk, emitVars
<1>5. CASE Finalize
  <2>1. pc # "done" /\ pc' = "done" /\ UNCHANGED <<hasChannel, tokenIds, lastEmittedTokenCount>>
    BY <1>5 DEF Finalize, slotVars, emitVars
  <2>2. CASE UNCHANGED channelVars
    BY <1>2, <2>1, <2>2 DEF channelVars
  <2>3. CASE hasChannel /\ pushed' = pushed /\ mReason' = "kError"
    <3>1. Ids' = Ids
      BY <2>3, NothingMoreSent
    <3> QED
      BY <1>0, <2>1, <2>3, <3>1 DEF SentInOrder
  <2>4. CASE hasChannel /\ pushed' = Append(pushed, FinalChunk) /\ mReason' = "kError"
    <3>1. p <= l /\ Ids = SubSeq(tokenIds, p + 1, l)
      BY <1>0, <2>1, <2>4 DEF SentInOrder
    <3>2. Ids' = Ids \o FinalChunk.ids
      BY <1>0, <2>4, ChunkTypes, ChunkSent
    <3>3. FinalChunk.ids = SubSeq(tokenIds, l + 1, Len(tokenIds))
      BY DEF FinalChunk
    <3>4. SubSeq(tokenIds, p + 1, Len(tokenIds)) =
            SubSeq(tokenIds, p + 1, l) \o SubSeq(tokenIds, l + 1, Len(tokenIds))
      <4>1. l <= Len(tokenIds) /\ Len(tokenIds) <= Len(tokenIds)
        BY <1>0
      <4> QED
        BY <1>0, <3>1, <4>1, HistoryJoins
    <3> QED
      BY <2>1, <2>4, <3>1, <3>2, <3>3, <3>4 DEF SentInOrder, Generated
  <2> QED
    BY <1>5, <2>2, <2>3, <2>4 DEF Finalize
<1>6. CASE Prefill \/ SeatedPrefill \/ ApplyCancellation \/ DecodeStep \/ GuideFails
  BY <1>2, <1>6 DEF Prefill, SeatedPrefill, ApplyCancellation, DecodeStep, GuideFails, slotVars,
                    channelVars, emitVars
<1>7. CASE SkipText \/ DecodeText \/ UpdateFinishStates \/ Evict \/ Abort \/ Cancel
  BY <1>2, <1>7 DEF SkipText, DecodeText, UpdateFinishStates, Evict, Abort, Cancel, slotVars,
                    channelVars, emitVars
<1> QED
  BY <1>3, <1>4, <1>5, <1>6, <1>7 DEF Next, Runtime, Over

(* No step ends a stream that should have sent more. *)
LEMMA NothingLeftNext ==
  ASSUME Types, Tokens, Next
  PROVE  NothingLeftToSend'
<1>0. /\ tokenIds \in Seq(Vocab) /\ Len(tokenIds) \in Nat
      /\ sentTokenCount \in Nat /\ lastEmittedTokenCount \in Nat
      /\ lastEmittedTokenCount <= sentTokenCount /\ sentTokenCount <= Len(tokenIds)
      /\ mStreamInterval \in Nat \ {0}
  BY Counts, EmissionAssumption DEF Types, TypeOK
<1>1. NothingLeftToSend
  BY DEF Tokens
<1>2. mReason # Live => UNCHANGED tokenIds
  BY EndedHistory
<1>3. CASE Prefill \/ SeatedPrefill
  BY <1>1, <1>3 DEF Prefill, SeatedPrefill, NothingLeftToSend, Finished, Live, Natural, channelVars
<1>4. CASE ApplyCancellation \/ DecodeStep \/ GuideFails
  <2>1. UNCHANGED <<mReason, lastEmittedTokenCount, mStreamInterval>> /\ pc' \in {"poll", "decode", "text"}
    BY <1>4 DEF ApplyCancellation, DecodeStep, GuideFails, channelVars, emitVars, slotVars
  <2>2. pc # "done" /\ (Finished => Finished')
    BY <1>4 DEF ApplyCancellation, DecodeStep, GuideFails, Finished, Live
  <2> QED
    BY <1>1, <1>2, <2>1, <2>2 DEF NothingLeftToSend, Live, Natural
<1>5. CASE SkipText
  <2>1. /\ UNCHANGED <<mReason, lastEmittedTokenCount, mStreamInterval, hasChannel, sentTokenCount, tokenIds,
                       terminalReason>>
        /\ pc' = "finish" /\ pc # "done"
    BY <1>5 DEF SkipText, channelVars, slotVars
  <2>2. hasChannel => terminalReason = Live /\ Len(tokenIds) - sentTokenCount < mStreamInterval
    BY <1>5 DEF SkipText, TooEarly, Finished
  <2>3. hasChannel /\ mStreamInterval = 1 => sentTokenCount = Len(tokenIds)
    BY <1>0, <2>2
  <2> QED
    BY <1>1, <2>1, <2>2, <2>3 DEF NothingLeftToSend, Finished, Live
<1>6. CASE DecodeText
  <2>1. /\ UNCHANGED <<mReason, lastEmittedTokenCount, mStreamInterval, hasChannel, tokenIds, terminalReason>>
        /\ pc' = "finish" /\ pc # "done" /\ sentTokenCount' = Len(tokenIds)
    BY <1>6 DEF DecodeText, channelVars, slotVars
  <2> QED
    BY <1>1, <2>1 DEF NothingLeftToSend, Finished, Live
<1>7. CASE UpdateFinishStates
  <2>1. /\ UNCHANGED <<mReason, lastEmittedTokenCount, mStreamInterval, hasChannel, sentTokenCount, tokenIds>>
        /\ pc = "finish" /\ pc' = "emit"
    BY <1>7 DEF UpdateFinishStates, channelVars, slotVars, emitVars, textVars
  <2>2. /\ terminalReason' = "kCancelled" => terminalReason = "kCancelled"
        /\ Finished => Finished'
    BY <1>7 DEF UpdateFinishStates, NaturalEnding, Finished, Live
  <2> QED
    BY <1>1, <2>1, <2>2 DEF NothingLeftToSend
<1>8. CASE EmitChunks
  <2>1. /\ UNCHANGED <<mStreamInterval, hasChannel, sentTokenCount, tokenIds, terminalReason>>
        /\ pc = "emit" /\ pc' = "evict"
    BY <1>8 DEF EmitChunks, slotVars
  <2>2. CASE UNCHANGED <<mReason, lastEmittedTokenCount>>
    BY <1>1, <2>1, <2>2 DEF NothingLeftToSend, Finished
  <2>3. CASE /\ hasChannel /\ lastEmittedTokenCount' = sentTokenCount
             /\ mReason' = IF mReason = Live THEN terminalReason ELSE mReason
    <3>1. CASE mReason = Live
      BY <1>1, <2>1, <2>3, <3>1 DEF NothingLeftToSend, Finished
    <3>2. CASE mReason # Live
      <4>1. mReason' = mReason
        BY <2>3, <3>2
      <4>2. lastEmittedTokenCount = Len(tokenIds) => sentTokenCount = Len(tokenIds)
        BY <1>0
      <4> QED
        BY <1>1, <2>1, <2>3, <4>1, <4>2 DEF NothingLeftToSend, Finished
    <3> QED
      BY <3>1, <3>2
  <2> QED
    BY <1>8, <2>2, <2>3 DEF EmitChunks, channelVars, emitVars
<1>9. CASE Finalize
  BY <1>1, <1>9 DEF Finalize, NothingLeftToSend, channelVars, slotVars, textVars, emitVars, Natural, Finished, Live
<1>10. CASE Evict \/ Abort
  <2>1. /\ UNCHANGED <<mReason, lastEmittedTokenCount, tokenIds, terminalReason, mStreamInterval>>
        /\ pc' \in {"done", "poll", "finalize"} /\ pc # "done"
    BY <1>10 DEF Evict, Abort, channelVars, emitVars, slotVars
  <2> QED
    BY <1>1, <2>1 DEF NothingLeftToSend, Finished
<1>11. CASE Cancel \/ Over
  <2>1. UNCHANGED <<pc, mReason, lastEmittedTokenCount, tokenIds, terminalReason, mStreamInterval, hasChannel,
                    sentTokenCount>>
    BY <1>11 DEF Cancel, Over, vars, channelVars, emitVars, slotVars, textVars
  <2> QED
    BY <1>1, <2>1 DEF NothingLeftToSend, Finished
<1> QED
  BY <1>3, <1>4, <1>5, <1>6, <1>7, <1>8, <1>9, <1>10, <1>11 DEF Next, Runtime

(* Both, and a step that changes nothing. *)
LEMMA TokensNext ==
  ASSUME Types, Tokens, [Next]_vars
  PROVE  Tokens'
<1>1. CASE UNCHANGED vars
  BY <1>1 DEF Tokens, SentInOrder, NothingLeftToSend, Ids, Generated, Finished, vars, textVars, emitVars,
              channelVars, slotVars
<1>2. CASE Next
  BY <1>2, SentInOrderNext, NothingLeftNext DEF Tokens
<1> QED
  BY <1>1, <1>2

(* What is a part of the history is a prefix of what was generated. *)
LEMMA PartIsPrefix ==
  ASSUME Types, NEW n \in Nat, Len(Prompt) <= n, n <= Len(tokenIds)
  PROVE  IsPrefix(SubSeq(tokenIds, Len(Prompt) + 1, n), Generated)
<1>1. tokenIds \in Seq(Vocab) /\ Len(tokenIds) \in Nat /\ Len(Prompt) \in Nat
  BY Counts
<1> DEFINE s == SubSeq(tokenIds, Len(Prompt) + 1, n)
           t == SubSeq(tokenIds, n + 1, Len(tokenIds))
<1>2. Generated = s \o t
  <2>1. Len(tokenIds) <= Len(tokenIds)
    BY <1>1
  <2> QED
    BY <1>1, <2>1, PartsJoin DEF Generated
<1>3. s \in Seq(Vocab) /\ t \in Seq(Vocab)
  <2>1. Len(tokenIds) <= Len(tokenIds)
    BY <1>1
  <2> QED
    BY <1>1, <2>1, PartType
<1> HIDE DEF s, t
<1>4. IsPrefix(s, s \o t)
  BY <1>3, ConcatIsPrefix
<1> QED
  BY <1>2, <1>4 DEF s

(* The tokens sent are those of the history, all of them where the row says so. *)
LEMMA DeliveredTokens ==
  ASSUME Types, Tokens
  PROVE  TokensAreDelivered
<1>0. /\ tokenIds \in Seq(Vocab) /\ Len(tokenIds) \in Nat /\ Len(Prompt) \in Nat
      /\ sentTokenCount \in Nat /\ lastEmittedTokenCount \in Nat
      /\ lastEmittedTokenCount <= Len(tokenIds) /\ Len(Prompt) <= Len(tokenIds)
      /\ Len(tokenIds) <= Len(tokenIds)
  BY Counts
<1>1. CASE ~hasChannel
  <2>1. Ids = <<>> /\ mReason = Live
    BY <1>1, NothingSent DEF Tokens, SentInOrder
  <2>2. SubSeq(tokenIds, Len(Prompt) + 1, Len(Prompt)) = <<>>
    BY <1>0, EmptyPart
  <2>3. IsPrefix(<<>>, Generated)
    <3>1. Len(Prompt) <= Len(Prompt)
      BY <1>0
    <3> QED
      BY <1>0, <2>2, <3>1, PartIsPrefix
  <2> QED
    BY <2>1, <2>3, SamePrefix DEF TokensAreDelivered, Live, Natural
<1>2. CASE hasChannel /\ Ids = SubSeq(tokenIds, Len(Prompt) + 1, lastEmittedTokenCount)
  <2>1. Len(Prompt) <= lastEmittedTokenCount
    BY <1>2 DEF Tokens, SentInOrder
  <2>2. IsPrefix(Ids, Generated)
    BY <1>0, <1>2, <2>1, PartIsPrefix
  <2>3. lastEmittedTokenCount = Len(tokenIds) => Ids = Generated
    BY <1>2 DEF Generated
  <2> QED
    BY <2>2, <2>3, SamePrefix DEF TokensAreDelivered, Tokens, NothingLeftToSend
<1>3. CASE Ids = Generated
  <2>1. IsPrefix(Generated, Generated)
    BY <1>0, PartIsPrefix DEF Generated
  <2> QED
    BY <1>3, <2>1, SamePrefix DEF TokensAreDelivered
<1> QED
  BY <1>1, <1>2, <1>3 DEF Tokens, SentInOrder

(* Each token is sent once and in order; and unless the stream fails, none is missing at *)
(* its end when its interval is one, or when it was cancelled (emitChunks).              *)
THEOREM TokensAlwaysDelivered == Spec => []TokensAreDelivered
<1> DEFINE IInv == Types /\ Tokens
<1>1. Init => IInv
  BY TypesInit, TokensInit
<1>2. IInv /\ [Next]_vars => IInv'
  BY TypesNext, TokensNext
<1>3. IInv => TokensAreDelivered
  BY DeliveredTokens
<1> QED
  BY <1>1, <1>2, <1>3, PTL DEF Spec

-----------------------------------------------------------------------------
(* Ends.                                                                   *)

(* No stream has ended at the start. *)
LEMMA EndsInit ==
  ASSUME Init
  PROVE  Ends
<1>1. /\ pc \in {"prefill", "seat"} /\ terminalReason = Live /\ mReason = Live /\ pushed = <<>>
      /\ DOMAIN pushed = {}
  BY DEF Init
<1> QED
  BY <1>1 DEF Ends, OneTerminalChunk, Natural, Reasons, Live

(* What a step may do to the chunks: nothing once the end was published, and one chunk   *)
(* that is not the last, or is and carries the reason, before.                           *)
LEMMA ChunkIsLast ==
  ASSUME pushed \in Seq(Chunk), Ends, mReason = Live, NEW chunk \in Chunk,
         pushed' = Append(pushed, chunk), mReason' \in Reasons \cup {Live},
         chunk.finished <=> mReason' # Live, chunk.reason = mReason'
  PROVE  /\ \A i \in DOMAIN pushed' : pushed'[i].finished => i = Len(pushed') /\ pushed'[i].reason = mReason'
         /\ mReason' \in Reasons \ {"kError"} => pushed' # <<>> /\ pushed'[Len(pushed')].finished
         /\ mReason' = Live => \A i \in DOMAIN pushed' : ~pushed'[i].finished
<1>1. /\ Len(pushed) \in Nat /\ DOMAIN pushed = 1..Len(pushed)
      /\ pushed' \in Seq(Chunk) /\ Len(pushed') = Len(pushed) + 1 /\ DOMAIN pushed' = 1..Len(pushed')
      /\ pushed'[Len(pushed) + 1] = chunk /\ \A i \in 1..Len(pushed) : pushed'[i] = pushed[i]
  BY AppendProperties, LenProperties
<1>2. \A i \in 1..Len(pushed) : ~pushed[i].finished
  BY <1>1 DEF Ends
<1>3. \A i \in DOMAIN pushed' : i \in 1..Len(pushed) \/ (i = Len(pushed') /\ i = Len(pushed) + 1)
  BY <1>1
<1>4. pushed' # <<>> /\ pushed'[Len(pushed')] = chunk
  BY <1>1, EmptySeq
<1>5. Live \notin Reasons
  BY DEF Reasons, Natural, Live
<1> QED
  BY <1>1, <1>2, <1>3, <1>4, <1>5

(* A step that ends a stream is the last to push a chunk. *)
LEMMA EndsNext ==
  ASSUME PartialPrefillEviction, Types, Tokens, Ends, [Next]_vars
  PROVE  Ends'
<1>0. /\ pushed \in Seq(Chunk) /\ mReason \in Reasons \cup {Live} /\ terminalReason \in Reasons \cup {Live}
      /\ NextChunk \in Chunk /\ FinalChunk \in Chunk
  BY ChunkTypes DEF Types, TypeOK, Chunk
<1>1. CASE UNCHANGED vars
  BY <1>1 DEF Ends, OneTerminalChunk, Finished, vars, textVars, emitVars, channelVars, slotVars
(* A step that leaves the channel alone. *)
<1>2. ASSUME UNCHANGED channelVars, pc' # "done" \/ ~hasChannel \/ mReason # Live
      PROVE  /\ UNCHANGED hasChannel => OneTerminalChunk'
             /\ mReason' = Live => \A i \in DOMAIN pushed' : ~pushed'[i].finished
  BY <1>2 DEF Ends, OneTerminalChunk, channelVars
<1>3. CASE Prefill \/ SeatedPrefill \/ ApplyCancellation \/ DecodeStep \/ GuideFails
  <2>1. /\ UNCHANGED <<channelVars, hasChannel>>
        /\ pc \notin {"evict", "finalize", "done"} /\ pc' \in {"poll", "text", "decode"}
        /\ terminalReason' \in {terminalReason, "kCancelled", "kError"}
        /\ terminalReason \notin Natural
    BY <1>3 DEF Prefill, SeatedPrefill, ApplyCancellation, DecodeStep, GuideFails, slotVars, Ends
  <2> QED
    BY <1>2, <2>1 DEF Ends, channelVars, Natural
<1>4. CASE SkipText \/ DecodeText
  <2>1. /\ UNCHANGED <<channelVars, hasChannel, terminalReason>> /\ pc = "text" /\ pc' = "finish"
        /\ terminalReason \notin Natural
    BY <1>4 DEF SkipText, DecodeText, slotVars, Ends
  <2>2. stopMatchedThisIter' => terminalReason \notin {"kCancelled", "kError"}
    BY <1>4 DEF SkipText, DecodeText, StopActive
  <2>3. stopMatchedThisIter' => terminalReason = Live
    BY <1>0, <2>1, <2>2 DEF Reasons
  <2> QED
    BY <1>2, <2>1, <2>3 DEF Ends, channelVars
<1>5. CASE UpdateFinishStates
  <2>1. UNCHANGED <<channelVars, hasChannel>> /\ pc = "finish" /\ pc' = "emit"
    BY <1>5 DEF UpdateFinishStates, slotVars
  <2> QED
    BY <1>2, <2>1 DEF Ends, channelVars
<1>6. CASE EmitChunks
  <2>1. /\ UNCHANGED <<hasChannel, terminalReason>> /\ pc = "emit" /\ pc' = "evict"
        /\ mReason = Live
    BY <1>6 DEF EmitChunks, slotVars, Ends
  <2>2. CASE UNCHANGED channelVars /\ (~hasChannel \/ ~Finished)
    BY <1>2, <2>1, <2>2 DEF Ends, Finished, channelVars
  <2>3. CASE pushed' = Append(pushed, NextChunk) /\ mReason' = terminalReason
    <3>1. (NextChunk.finished <=> mReason' # Live) /\ NextChunk.reason = mReason'
      BY <2>3 DEF NextChunk, Finished
    <3>2. mReason' \in Reasons \cup {Live}
      BY <1>0, <2>3
    <3>3. /\ \A i \in DOMAIN pushed' : pushed'[i].finished => i = Len(pushed') /\ pushed'[i].reason = mReason'
          /\ mReason' \in Reasons \ {"kError"} => pushed' # <<>> /\ pushed'[Len(pushed')].finished
          /\ mReason' = Live => \A i \in DOMAIN pushed' : ~pushed'[i].finished
      BY <1>0, <2>1, <2>3, <3>1, <3>2, ChunkIsLast
    <3>4. OneTerminalChunk'
      BY <2>1, <3>3 DEF OneTerminalChunk
    <3> QED
      BY <2>1, <2>3, <3>3, <3>4 DEF Ends, Finished
  <2> QED
    BY <1>6, <2>1, <2>2, <2>3 DEF EmitChunks, NextChunk, channelVars
<1>7. CASE Evict
  <2>1. /\ UNCHANGED <<channelVars, hasChannel, terminalReason>> /\ pc = "evict"
        /\ pc' = IF Finished THEN "done" ELSE "poll"
    BY <1>7 DEF Evict, slotVars
  <2>2. CASE Finished
    BY <1>2, <2>1, <2>2 DEF Ends, channelVars
  <2>3. CASE ~Finished
    <3>1. terminalReason \notin Natural
      BY <2>3 DEF Finished, Natural, Live
    <3> QED
      BY <1>2, <2>1, <2>3, <3>1 DEF Ends, channelVars
  <2> QED
    BY <2>2, <2>3
<1>8. CASE Abort
  <2>1. UNCHANGED <<channelVars, hasChannel>> /\ pc' = "finalize"
    BY <1>8 DEF Abort, slotVars
  <2> QED
    BY <1>2, <2>1 DEF Ends, channelVars
<1>9. CASE Finalize
  <2>1. /\ UNCHANGED <<hasChannel, terminalReason>> /\ pc = "finalize" /\ pc' = "done"
    BY <1>9 DEF Finalize, slotVars
  <2>2. CASE ~(hasChannel /\ mReason = Live)
    <3>1. UNCHANGED channelVars
      BY <1>9, <2>2 DEF Finalize
    <3> QED
      BY <1>2, <2>1, <2>2, <3>1 DEF Ends, channelVars
  <2>3. CASE hasChannel /\ mReason = Live /\ pushed' = pushed /\ mReason' = "kError"
    <3>1. "kError" # Live
      BY DEF Live
    <3>2. OneTerminalChunk'
      BY <2>3, <3>1 DEF Ends, OneTerminalChunk
    <3> QED
      BY <2>1, <2>3, <3>1, <3>2 DEF Ends
  <2>4. CASE hasChannel /\ mReason = Live /\ pushed' = Append(pushed, FinalChunk) /\ mReason' = "kError"
    <3>1. "kError" # Live /\ "kError" \in Reasons
      BY DEF Live, Reasons
    <3>2. (FinalChunk.finished <=> mReason' # Live) /\ FinalChunk.reason = mReason'
      BY <2>4, <3>1 DEF FinalChunk
    <3>3. /\ \A i \in DOMAIN pushed' : pushed'[i].finished => i = Len(pushed') /\ pushed'[i].reason = mReason'
          /\ mReason' \in Reasons \ {"kError"} => pushed' # <<>> /\ pushed'[Len(pushed')].finished
      BY <1>0, <2>4, <3>1, <3>2, ChunkIsLast
    <3>4. OneTerminalChunk'
      BY <2>4, <3>1, <3>3 DEF OneTerminalChunk
    <3> QED
      BY <2>1, <2>4, <3>1, <3>4 DEF Ends
  <2> QED
    BY <1>9, <2>2, <2>3, <2>4 DEF Finalize
<1>10. CASE Cancel \/ Over
  BY <1>10 DEF Cancel, Over, Ends, OneTerminalChunk, Finished, vars, channelVars, slotVars, textVars, emitVars
<1> QED
  BY <1>1, <1>3, <1>4, <1>5, <1>6, <1>7, <1>8, <1>9, <1>10 DEF Next, Runtime

(* No step changes the reason of a stream that has one. *)
LEMMA LatchHolds ==
  ASSUME Types, Ends, [Next]_vars
  PROVE  ReasonIsLatched
<1>1. CASE UNCHANGED vars
  BY <1>1 DEF ReasonIsLatched, vars, channelVars
<1>2. CASE EmitChunks
  <2>1. mReason = Live /\ UNCHANGED terminalReason
    BY <1>2 DEF EmitChunks, Ends
  <2> QED
    BY <2>1 DEF ReasonIsLatched
<1>3. CASE Finalize
  BY <1>3 DEF Finalize, ReasonIsLatched, channelVars
<1>4. CASE UpdateFinishStates
  <2>1. UNCHANGED channelVars /\ pc = "finish"
    BY <1>4 DEF UpdateFinishStates
  <2>2. Finished => terminalReason' = terminalReason
    BY <1>4, <2>1 DEF UpdateFinishStates, Ends, Finished
  <2> QED
    BY <2>1, <2>2 DEF ReasonIsLatched, channelVars
<1>5. CASE Prefill \/ SeatedPrefill \/ ApplyCancellation \/ DecodeStep \/ GuideFails
  BY <1>5 DEF Prefill, SeatedPrefill, ApplyCancellation, DecodeStep, GuideFails, ReasonIsLatched, channelVars
<1>6. CASE SkipText \/ DecodeText \/ Evict \/ Abort \/ Cancel \/ Over
  BY <1>6 DEF SkipText, DecodeText, Evict, Abort, Cancel, Over, ReasonIsLatched, vars, channelVars
<1> QED
  BY <1>1, <1>2, <1>3, <1>4, <1>5, <1>6 DEF Next, Runtime

(* A sequence ends once, with one reason and on one last chunk, where the batch evicts a *)
(* row that ends in its prefill by itself (emitChunks, finish(), performBatchEvict).     *)
THEOREM AlwaysEndsOnce == PartialPrefillEviction /\ Spec => EndsOnce
<1> SUFFICES ASSUME PartialPrefillEviction PROVE Spec => EndsOnce
  OBVIOUS
<1> DEFINE IInv == Types /\ Tokens /\ Ends
<1>1. Init => IInv
  BY TypesInit, TokensInit, EndsInit
<1>2. IInv /\ [Next]_vars => IInv'
  BY TypesNext, TokensNext, EndsNext
<1>3. IInv /\ IInv' /\ [Next]_vars => [ReasonIsLatched /\ OneTerminalChunk']_vars
  <2> SUFFICES ASSUME IInv, IInv', [Next]_vars PROVE ReasonIsLatched /\ OneTerminalChunk'
    OBVIOUS
  <2>1. ReasonIsLatched
    BY LatchHolds
  <2>2. OneTerminalChunk'
    BY DEF Ends
  <2> QED
    BY <2>1, <2>2
<1> QED
  BY <1>1, <1>2, <1>3, PTL DEF Spec, EndsOnce

-----------------------------------------------------------------------------
(* Stop strings and the replacement character.                             *)

(* Where s has a character, t has it too, so much further on. *)
Carries(s, t, off) ==
  \A i \in 1..Len(s) : s[i] # "?" => off + i \in 1..Len(t) /\ t[off + i] = s[i]

(* A stop string that stands in a text stands, so much further on, in every text that *)
(* carries its characters.                                                            *)
LEMMA FoundCarries ==
  ASSUME StopsAreCharacters, NEW s \in Seq(Byte), NEW t \in Seq(Byte), NEW off \in Nat,
         Carries(s, t, off), NEW i \in FoundAt(s)
  PROVE  off + i \in FoundAt(t)
<1>1. PICK stop \in Stops : i \in 1..Len(s) /\ Occurs(stop, s, i)
  BY FoundIs
<1>2. /\ Len(stop) \in Nat /\ Len(stop) >= 1 /\ Len(s) \in Nat /\ Len(t) \in Nat
      /\ i + Len(stop) <= Len(s) + 1
      /\ \A k \in 1..Len(stop) : s[i + k - 1] = stop[k]
  BY <1>1, LongestStop, LenProperties DEF Occurs
<1>3. ASSUME NEW k \in 1..Len(stop)
      PROVE  off + i + k - 1 \in 1..Len(t) /\ t[off + i + k - 1] = stop[k]
  <2>1. i + k - 1 \in 1..Len(s) /\ off + (i + k - 1) = off + i + k - 1
    BY <1>1, <1>2
  <2>2. s[i + k - 1] = stop[k] /\ stop[k] # "?"
    BY <1>2 DEF StopsAreCharacters
  <2>3. off + (i + k - 1) \in 1..Len(t) /\ t[off + (i + k - 1)] = s[i + k - 1]
    BY <2>1, <2>2 DEF Carries
  <2> QED
    BY <2>1, <2>2, <2>3
<1>4. 1 \in 1..Len(stop) /\ Len(stop) \in 1..Len(stop)
  BY <1>2
<1>5. off + i \in 1..Len(t)
  <2>1. off + i + 1 - 1 \in 1..Len(t) /\ off + i + 1 - 1 = off + i
    BY <1>1, <1>3, <1>4
  <2> QED
    BY <2>1
<1>6. off + i + Len(stop) <= Len(t) + 1
  <2>1. off + i + Len(stop) - 1 \in 1..Len(t)
    BY <1>3, <1>4
  <2> QED
    BY <1>1, <1>2, <2>1
<1>7. Occurs(stop, t, off + i)
  BY <1>3, <1>6 DEF Occurs
<1> QED
  BY <1>5, <1>7, FoundIs

(* Flushing what was held adds replacement characters, in which no stop string stands. *)
LEMMA FoundBesideFlush ==
  ASSUME StopsAreCharacters, NEW s \in Seq(Byte), NEW held \in {<<>>, <<"L">>}
  PROVE  s \o Flush(held) \in Seq(Byte) /\ FoundAt(s \o Flush(held)) = FoundAt(s)
<1> DEFINE f == Flush(held)
           u == s \o f
<1>1. f \in Seq(Byte) /\ Len(f) \in {0, 1} /\ (\A k \in 1..Len(f) : f[k] = "?")
  <2>1. f = <<>> \/ f = <<"?">>
    BY HeldType
  <2>2. <<"?">> \in Seq(Byte) /\ <<>> \in Seq(Byte)
    BY HeldType
  <2> HIDE DEF f
  <2>3. CASE f = <<>>
    BY <2>2, <2>3
  <2>4. CASE f = <<"?">>
    BY <2>2, <2>4
  <2> QED
    BY <2>1, <2>3, <2>4
<1> HIDE DEF f
<1>2. /\ u \in Seq(Byte) /\ Len(u) = Len(s) + Len(f) /\ Len(s) \in Nat
      /\ \A i \in 1..(Len(s) + Len(f)) : u[i] = IF i <= Len(s) THEN s[i] ELSE f[i - Len(s)]
  BY <1>1, ConcatProperties, LenProperties
<1>3. FoundAt(s) \subseteq FoundAt(u)
  BY <1>1, FoundStays
<1> HIDE DEF u
<1>4. Carries(u, s, 0)
  <2>1. ASSUME NEW i \in 1..Len(u), u[i] # "?" PROVE 0 + i \in 1..Len(s) /\ s[0 + i] = u[i]
    <3>1. CASE i <= Len(s)
      BY <1>1, <1>2, <3>1
    <3>2. CASE ~(i <= Len(s))
      <4>1. i - Len(s) \in 1..Len(f)
        BY <1>1, <1>2, <3>2
      <4> QED
        BY <1>1, <1>2, <2>1, <3>2, <4>1
    <3> QED
      BY <3>1, <3>2
  <2> QED
    BY <2>1 DEF Carries
<1>5. FoundAt(u) \subseteq FoundAt(s)
  <2>1. ASSUME NEW i \in FoundAt(u) PROVE i \in FoundAt(s)
    <3>1. 0 + i \in FoundAt(s)
      BY <1>2, <1>4, FoundCarries
    <3>2. 0 + i = i
      BY <1>2, FoundIs
    <3> QED
      BY <3>1, <3>2
  <2> QED
    BY <2>1
<1> QED
  BY <1>2, <1>3, <1>5 DEF u, f

(* What stands in a part of a text stands in the whole of it, though the byte in front of *)
(* the part may complete its first character.                                             *)
LEMMA FoundInWhole ==
  ASSUME StopsAreCharacters, NEW x \in Seq(Byte), NEW y \in Seq(Byte),
         FoundAt(Clean(x \o y).out) = {}
  PROVE  FoundAt(Clean(y).out) = {}
<1> DEFINE xy == x \o y
           s == Clean(y).out
           t == Clean(xy).out
<1>1. /\ xy \in Seq(Byte) /\ Len(xy) = Len(x) + Len(y) /\ Len(x) \in Nat /\ Len(y) \in Nat
      /\ \A i \in 1..(Len(x) + Len(y)) : xy[i] = IF i <= Len(x) THEN x[i] ELSE y[i - Len(x)]
  BY ConcatProperties, LenProperties
<1> HIDE DEF xy
<1>2. /\ s \in Seq(Byte) /\ Len(s) = Len(y) - Incomplete(y) /\ Incomplete(y) \in {0, 1}
      /\ \A i \in 1..(Len(y) - Incomplete(y)) : s[i] = Shown(y, i)
  BY CleanIs
<1>3. /\ t \in Seq(Byte) /\ Len(t) = Len(xy) - Incomplete(xy) /\ Incomplete(xy) \in {0, 1}
      /\ \A i \in 1..(Len(xy) - Incomplete(xy)) : t[i] = Shown(xy, i)
  BY <1>1, CleanIs
<1>4. DOMAIN y = 1..Len(y) /\ DOMAIN xy = 1..(Len(x) + Len(y))
  BY <1>1, LenProperties
<1>5. ASSUME NEW i \in 1..Len(y) PROVE Len(x) + i \in 1..(Len(x) + Len(y)) /\ xy[Len(x) + i] = y[i]
  <2>1. Len(x) + i \in 1..(Len(x) + Len(y)) /\ ~(Len(x) + i <= Len(x)) /\ (Len(x) + i) - Len(x) = i
    BY <1>1
  <2> QED
    BY <1>1, <2>1
<1>6. ASSUME Len(y) # 0 PROVE Incomplete(xy) = Incomplete(y)
  <2>1. Len(y) \in 1..Len(y) /\ Len(x) + Len(y) = Len(xy)
    BY <1>1, <1>6
  <2>2. xy[Len(xy)] = y[Len(y)] /\ Len(xy) \in 1..(Len(x) + Len(y))
    BY <1>5, <2>1
  <2> QED
    BY <1>4, <2>1, <2>2 DEF Incomplete, Opens
<1> HIDE DEF s, t
<1>7. ASSUME NEW i \in 1..Len(s), s[i] # "?" PROVE Len(x) + i \in 1..Len(t) /\ t[Len(x) + i] = s[i]
  <2>1. i \in 1..Len(y) /\ i \in 1..(Len(y) - Incomplete(y)) /\ Len(y) # 0
    BY <1>1, <1>2
  <2>2. Len(x) + i \in 1..Len(t) /\ Len(x) + i \in 1..(Len(xy) - Incomplete(xy))
    BY <1>1, <1>2, <1>3, <1>6, <2>1
  <2>3. ~IsBroken(y, i) /\ s[i] = y[i]
    <3>1. s[i] = Shown(y, i)
      BY <1>2, <2>1
    <3> QED
      BY <1>7, <3>1 DEF Shown
  <2>4. Len(x) + i \in 1..(Len(x) + Len(y)) /\ xy[Len(x) + i] = y[i]
    BY <1>5, <2>1
  <2>5. CASE y[i] = "L"
    <3>1. i + 1 \in 1..Len(y) /\ y[i + 1] = "T"
      BY <1>4, <2>1, <2>3, <2>5 DEF IsBroken, Opens, Continues
    <3>2. xy[(Len(x) + i) + 1] = "T" /\ (Len(x) + i) + 1 \in 1..(Len(x) + Len(y))
      <4>1. Len(x) + (i + 1) = (Len(x) + i) + 1
        BY <1>1
      <4> QED
        BY <1>5, <3>1, <4>1
    <3> QED
      BY <1>3, <1>4, <2>2, <2>3, <2>4, <2>5, <3>2 DEF Shown, IsBroken, Opens, Continues
  <2>6. CASE y[i] = "T"
    <3>1. i - 1 \in 1..Len(y) /\ y[i - 1] = "L"
      BY <1>4, <2>1, <2>3, <2>6 DEF IsBroken, Opens, Continues
    <3>2. xy[(Len(x) + i) - 1] = "L" /\ (Len(x) + i) - 1 \in 1..(Len(x) + Len(y))
      <4>1. Len(x) + (i - 1) = (Len(x) + i) - 1
        BY <1>1
      <4> QED
        BY <1>5, <3>1, <4>1
    <3> QED
      BY <1>3, <1>4, <2>2, <2>3, <2>4, <2>6, <3>2 DEF Shown, IsBroken, Opens, Continues
  <2>7. CASE y[i] # "L" /\ y[i] # "T"
    BY <1>3, <1>4, <2>2, <2>3, <2>4, <2>7 DEF Shown, IsBroken, Opens, Continues
  <2> QED
    BY <2>5, <2>6, <2>7
<1>8. Carries(s, t, Len(x))
  BY <1>7 DEF Carries
<1>9. ASSUME NEW i \in FoundAt(s) PROVE FALSE
  <2>1. Len(x) + i \in FoundAt(t)
    BY <1>1, <1>2, <1>3, <1>8, FoundCarries
  <2>2. FoundAt(t) = {}
    BY DEF t, xy
  <2> QED
    BY <2>1, <2>2
<1>10. FoundAt(s) = {}
  BY <1>9
<1> QED
  BY <1>10 DEF s

(* The cut is in front of what is flushed behind. *)
LEMMA CutStays ==
  ASSUME NEW s \in Seq(Byte), NEW t \in Seq(Byte), FoundAt(s) # {}, FoundAt(s \o t) = FoundAt(s)
  PROVE  CutAt(s \o t) = CutAt(s)
<1> DEFINE m == Lowest(FoundAt(s))
<1>1. m \in 1..Len(s) /\ Len(s) \in Nat
  BY FoundBefore, LenProperties
<1> HIDE DEF m
<1>2. m - 1 \in Nat /\ m - 1 <= Len(s) /\ 0 <= m - 1 /\ 0 + 1 = 1
  BY <1>1
<1>3. SubSeq(s \o t, 0 + 1, m - 1) = SubSeq(s, 0 + 1, m - 1)
  BY <1>2, PartStays
<1> QED
  BY <1>2, <1>3 DEF CutAt, m

(* The text of more tokens begins with that of fewer. *)
LEMMA OutGrows ==
  ASSUME NEW x \in Seq(Vocab), NEW y \in Seq(Vocab)
  PROVE  /\ Clean(Raw(x)).out \in Seq(Byte)
         /\ \E rest \in Seq(Byte) : Clean(Raw(x \o y)).out = Clean(Raw(x)).out \o rest
<1> DEFINE r == Raw(x)
           q == Raw(y)
           h == Clean(r).held
<1>1. r \in Seq(Byte) /\ q \in Seq(Byte) /\ Raw(x \o y) = r \o q
  BY RawType, RawConcat
<1> HIDE DEF r, q
<1>2. Clean(r \o q).out = Clean(r).out \o Clean(h \o q).out /\ h \in Seq(Byte)
  BY <1>1, CleanConcat
<1>3. Clean(r).out \in Seq(Byte)
  BY <1>1, CleanIs
<1>4. h \o q \in Seq(Byte)
  BY <1>1, <1>2, ConcatProperties
<1>5. Clean(h \o q).out \in Seq(Byte)
  BY <1>4, CleanIs
<1> QED
  BY <1>1, <1>2, <1>3, <1>5 DEF r

-----------------------------------------------------------------------------
(* Text.                                                                   *)

(* What has been sent, is on its way and is kept is text. *)
LEMMA TextTypes ==
  ASSUME Types
  PROVE  /\ Text \in Seq(Byte) /\ pendingEmitText \in Seq(Byte) /\ stopMatchBuffer \in Seq(Byte)
         /\ pushed \in Seq(Chunk)
  BY SentType DEF Types, TypeOK, Chunk

(* The text that has been looked at is text. *)
LEMMA LookedType ==
  ASSUME Types, NEW start \in Nat
  PROVE  Looked(start).out \in Seq(Byte)
<1>1. SubSeq(tokenIds, start + 1, sentTokenCount) \in Seq(Vocab)
  BY Counts, PartType
<1>2. Raw(SubSeq(tokenIds, start + 1, sentTokenCount)) \in Seq(Byte)
  BY <1>1, RawType
<1> QED
  BY <1>2, CleanIs DEF Looked

(* The text that was looked at stays the same while no more is looked at. *)
LEMMA LookedStays ==
  ASSUME Types, Grows, UNCHANGED sentTokenCount, NEW start \in Nat, start <= sentTokenCount
  PROVE  Looked(start)' = Looked(start)
<1>1. sentTokenCount \in Nat /\ sentTokenCount <= Len(tokenIds)
  BY Counts
<1>2. SubSeq(tokenIds', start + 1, sentTokenCount) = SubSeq(tokenIds, start + 1, sentTokenCount)
  BY <1>1, PartsStay
<1> QED
  BY <1>2 DEF Looked

(* Looking at the rest adds what is new to it. *)
LEMMA LookedOn ==
  ASSUME Types, UNCHANGED tokenIds, sentTokenCount' = Len(tokenIds), NEW start \in Nat,
         start <= sentTokenCount, Looked(start).held = pendingBytes
  PROVE  /\ Looked(start)'.out = Looked(start).out \o Fresh.out
         /\ Looked(start)'.held = Fresh.held
<1> DEFINE x == SubSeq(tokenIds, start + 1, sentTokenCount)
<1>1. /\ tokenIds \in Seq(Vocab) /\ sentTokenCount \in Nat /\ Len(tokenIds) \in Nat
      /\ sentTokenCount <= Len(tokenIds) /\ Len(tokenIds) <= Len(tokenIds)
  BY Counts
<1>2. x \in Seq(Vocab) /\ Unread \in Seq(Vocab)
  BY <1>1, PartType DEF Unread
<1>3. SubSeq(tokenIds, start + 1, Len(tokenIds)) = x \o Unread
  BY <1>1, PartsJoin DEF Unread
<1>4. Looked(start)' = Clean(Raw(x \o Unread))
  BY <1>3 DEF Looked
<1>5. Looked(start) = Clean(Raw(x))
  BY DEF Looked
<1> HIDE DEF x
<1> DEFINE r == Raw(x)
           q == Raw(Unread)
<1>6. r \in Seq(Byte) /\ q \in Seq(Byte) /\ Raw(x \o Unread) = r \o q
  BY <1>2, RawType, RawConcat
<1>7. Fresh = Clean(Clean(r).held \o q)
  BY <1>5 DEF Fresh
<1> HIDE DEF r, q
<1>8. /\ Clean(r \o q).out = Clean(r).out \o Clean(Clean(r).held \o q).out
      /\ Clean(r \o q).held = Clean(Clean(r).held \o q).held
  BY <1>6, CleanConcat
<1> QED
  BY <1>4, <1>5, <1>6, <1>7, <1>8 DEF r

(* The text that was looked at is the beginning of all there is. *)
LEMMA LookedBegins ==
  ASSUME Types, Len(Prompt) <= sentTokenCount
  PROVE  \E rest \in Seq(Byte) : Clean(Raw(Generated)).out = Looked(Len(Prompt)).out \o rest
<1> DEFINE x == SubSeq(tokenIds, Len(Prompt) + 1, sentTokenCount)
<1>1. /\ tokenIds \in Seq(Vocab) /\ sentTokenCount \in Nat /\ Len(tokenIds) \in Nat /\ Len(Prompt) \in Nat
      /\ sentTokenCount <= Len(tokenIds) /\ Len(tokenIds) <= Len(tokenIds)
  BY Counts
<1>2. x \in Seq(Vocab) /\ Unread \in Seq(Vocab)
  BY <1>1, PartType DEF Unread
<1>3. Generated = x \o Unread
  <2>1. SubSeq(tokenIds, Len(Prompt) + 1, Len(tokenIds))
          = x \o SubSeq(tokenIds, sentTokenCount + 1, Len(tokenIds))
    BY <1>1, HistoryJoins
  <2> QED
    BY <2>1 DEF Unread, Generated
<1>4. Looked(Len(Prompt)) = Clean(Raw(x))
  BY DEF Looked
<1> HIDE DEF x
<1>5. \E rest \in Seq(Byte) : Clean(Raw(x \o Unread)).out = Clean(Raw(x)).out \o rest
  BY <1>2, OutGrows
<1> QED
  BY <1>3, <1>4, <1>5

(* The text of the generated tokens only grows. *)
LEMMA GeneratedGrows ==
  ASSUME Types, Grows
  PROVE  \E rest \in Seq(Byte) : Clean(Raw(Generated')).out = Clean(Raw(Generated)).out \o rest
<1> DEFINE p == Len(Prompt)
           n == Len(tokenIds)
           m == Len(tokenIds')
<1>1. /\ tokenIds \in Seq(Vocab) /\ n \in Nat /\ p \in Nat /\ p <= n /\ n <= n
      /\ tokenIds' \in Seq(Vocab) /\ m \in Nat /\ n <= m /\ m <= m
  BY Counts, LongerHistory
<1>2. SubSeq(tokenIds', p + 1, n) = SubSeq(tokenIds, p + 1, n)
  BY <1>1, PartsStay
<1> DEFINE more == SubSeq(tokenIds', n + 1, m)
<1>3. SubSeq(tokenIds', p + 1, m) = SubSeq(tokenIds', p + 1, n) \o more
  <2> HIDE DEF n, m, p
  <2> QED
    BY <1>1, PartsJoin
<1>4. more \in Seq(Vocab) /\ Generated \in Seq(Vocab)
  <2>1. SubSeq(tokenIds, p + 1, n) \in Seq(Vocab)
    BY <1>1, PartType
  <2>2. more \in Seq(Vocab)
    <3>1. m <= Len(tokenIds')
      BY <1>1
    <3> QED
      BY <1>1, <3>1, PartType
  <2> QED
    BY <2>1, <2>2 DEF Generated
<1>5. Generated' = Generated \o more
  BY <1>2, <1>3 DEF Generated
<1> HIDE DEF more
<1> QED
  BY <1>4, <1>5, OutGrows

(* Steps that leave the text alone, though there may be more tokens. *)
LEMMA ReadsStays ==
  ASSUME Types, Grows, UNCHANGED <<sentTokenCount, pendingBytes, stopMatchBuffer, pushed, hasChannel>>,
         hasChannel => UNCHANGED pendingEmitText,
         NEW start \in Starts, NEW emitted, Reads(start, emitted)
  PROVE  start \in Starts' /\ Reads(start, emitted)'
<1>1. start \in Nat /\ start <= sentTokenCount
  BY Counts DEF Starts
<1>2. Looked(start)' = Looked(start) /\ Text' = Text
  BY <1>1, LookedStays, NothingMoreSent
<1>3. start \in Starts'
  BY DEF Starts
<1>4. Reads(start, emitted)'
  BY <1>2 DEF Reads
<1> QED
  BY <1>3, <1>4

(* decodePerSlot(): what was kept and what is new are matched as the whole text would be. *)
LEMMA DecodeReads ==
  ASSUME Types, DecodeText, terminalReason = Live, ReadsOn, hasChannel => pendingEmitText = <<>>,
         NEW start \in Starts, NEW emitted, Reads(start, emitted),
         NEW more, more = emitted \o pendingEmitText'
  PROVE  LET text == Looked(start)'.out
         IN  /\ start \in Starts'
             /\ stopMatchedThisIter' => FoundAt(text) # {} /\ more = CutAt(text)
             /\ ~stopMatchedThisIter' => Reads(start, more)'
             /\ hasChannel => more = (Text \o pendingEmitText)'
<1> DEFINE text == Looked(start)'.out
           b == stopMatchBuffer
           d == Delta.out
<1>0. /\ ~Finished /\ sentTokenCount' = Len(tokenIds) /\ pendingBytes' = Delta.held
      /\ UNCHANGED <<hasChannel, tokenIds, pushed, terminalReason>>
  BY DEF DecodeText, Finished, slotVars, channelVars
<1>1. /\ start \in Nat /\ start <= sentTokenCount /\ sentTokenCount <= Len(tokenIds)
      /\ sentTokenCount \in Nat /\ Len(tokenIds) \in Nat
  BY Counts DEF Starts
<1>2. /\ emitted \in Seq(Byte) /\ b \in Seq(Byte) /\ d \in Seq(Byte)
      /\ Delta.out = Fresh.out /\ Delta.held = Fresh.held
  BY <1>0, TextTypes, DeltaIs, FreshType DEF Reads, Finished, Delta
<1>3. text = (emitted \o b) \o d /\ Looked(start)'.held = pendingBytes'
  BY <1>0, <1>1, <1>2, LookedOn DEF Reads
<1>4. FoundAt(emitted \o b) = {} /\ Keeps(emitted, b)
  BY DEF Reads
<1>5. start \in Starts'
  <2>1. start <= Len(tokenIds)
    BY <1>1
  <2> QED
    BY <1>0, <2>1 DEF Starts
<1>6. hasChannel => more = Text' \o pendingEmitText'
  <2> SUFFICES ASSUME hasChannel PROVE more = Text' \o pendingEmitText'
    OBVIOUS
  <2>1. emitted = Text \o <<>> /\ Text \in Seq(Byte)
    BY TextTypes DEF Reads
  <2>2. Text \o <<>> = Text
    BY <2>1, ConcatEmptySeq
  <2> QED
    BY <1>0, <2>1, <2>2, NothingMoreSent
<1> HIDE DEF text, b, d
<1>7. CASE Stops # {}
  <2> DEFINE o == StopMatch(b \o d, FALSE)
  <2>1. /\ pendingEmitText' = o.emitted /\ stopMatchBuffer' = o.kept
        /\ stopMatchedThisIter' = o.matched
    <3>1. StopActive /\ Finished = FALSE
      BY <1>0, <1>7 DEF StopActive, Live, Finished
    <3> QED
      BY <3>1 DEF DecodeText, b, d
  <2>2. /\ o.matched <=> FoundAt((emitted \o b) \o d) # {}
        /\ ~o.matched => /\ (emitted \o b) \o d = (emitted \o o.emitted) \o o.kept
                         /\ Keeps(emitted \o o.emitted, o.kept)
        /\ o.matched => emitted \o o.emitted =
                          SubSeq((emitted \o b) \o d, 1, Lowest(FoundAt((emitted \o b) \o d)) - 1)
    BY <1>2, <1>4, <1>7, MatchGrows
  <2>3. o.emitted \in Seq(Byte) /\ o.kept \in Seq(Byte)
    <3>1. b \o d \in Seq(Byte)
      BY <1>2, ConcatProperties
    <3> QED
      BY <3>1, StopMatchIs
  <2> HIDE DEF o
  <2>4. more \in Seq(Byte)
    BY <1>2, <2>1, <2>3, ConcatProperties
  <2>5. o.matched => FoundAt(text) # {} /\ more = CutAt(text)
    BY <1>3, <2>1, <2>2 DEF CutAt
  <2>6. ASSUME ~o.matched PROVE Reads(start, more)'
    <3>1. text = more \o stopMatchBuffer' /\ FoundAt(text) = {} /\ Keeps(more, stopMatchBuffer')
      BY <1>3, <2>1, <2>2, <2>6
    <3> QED
      BY <1>0, <1>3, <1>6, <2>4, <3>1 DEF Reads, text
  <2> QED
    BY <1>5, <1>6, <2>1, <2>5, <2>6 DEF text
<1>8. CASE Stops = {}
  <2>1. /\ pendingEmitText' = d /\ stopMatchBuffer' = b /\ stopMatchedThisIter' = FALSE
        /\ b = <<>>
    BY <1>8 DEF DecodeText, StopActive, ReadsOn, b, d
  <2>2. more \in Seq(Byte) /\ more = emitted \o d
    BY <1>2, <2>1, ConcatProperties
  <2>3. text = more \o <<>>
    <3>1. emitted \o <<>> = emitted /\ more \o <<>> = more
      BY <1>2, <2>2, ConcatEmptySeq
    <3> QED
      BY <1>3, <2>1, <2>2, <3>1
  <2>4. more \o <<>> \in Seq(Byte)
    BY <2>2, ConcatEmptySeq
  <2>5. FoundAt(more \o <<>>) = {}
    BY <1>8, <2>4, FoundIs
  <2>6. Keeps(more, <<>>)
    BY <1>8 DEF Keeps
  <2>7. Reads(start, more)'
    <3> QED
      BY <1>0, <1>3, <1>6, <2>1, <2>2, <2>3, <2>5, <2>6 DEF Reads, text
  <2> QED
    BY <1>5, <1>6, <2>1, <2>7
<1> QED
  BY <1>7, <1>8

(* No text has been looked at at the start. *)
LEMMA ReaderInit ==
  ASSUME Init
  PROVE  Reader
<1>0. /\ pc \in {"prefill", "seat"} /\ pendingEmitText = <<>> /\ stopMatchBuffer = <<>> /\ pendingBytes = <<>>
      /\ mReason = Live /\ pushed = <<>> /\ tokenIds = Prompt /\ sentTokenCount = SeededAt
      /\ stopMatchedThisIter = FALSE
  BY DEF Init
<1>1. Text = <<>> /\ Len(Prompt) \in Nat /\ Types
  BY <1>0, NothingSent, EmissionAssumption, LenProperties, TypesInit
<1>2. SeededAt \in Starts /\ SeededAt \in Nat
  BY <1>0, <1>1 DEF Starts, SeededAt
<1>3. /\ <<>> \in Seq(Byte) /\ <<>> \o <<>> = <<>>
      /\ FoundAt(<<>>) = {}
  <2>1. <<>> \in Seq(Byte) /\ Len(<<>>) = 0
    BY EmptySeq
  <2>2. FoundAt(<<>>) = {}
    <3>1. DOMAIN <<>> = {}
      OBVIOUS
    <3> QED
      BY <3>1 DEF FoundAt
  <2>3. <<>> \o <<>> = <<>>
    BY <2>1, ConcatEmptySeq
  <2> QED
    BY <2>1, <2>2, <2>3
<1>4. Clean(<<>>).out = <<>> /\ Clean(<<>>).held = <<>>
  <2>1. /\ Len(Clean(<<>>).out) = Len(<<>>) - Incomplete(<<>>) /\ Clean(<<>>).out \in Seq(Byte)
        /\ Incomplete(<<>>) <= Len(<<>>) /\ Incomplete(<<>>) \in {0, 1}
        /\ Clean(<<>>).held = IF Incomplete(<<>>) = 1 THEN <<"L">> ELSE <<>>
    BY <1>3, CleanIs
  <2>2. Incomplete(<<>>) = 0 /\ Len(Clean(<<>>).out) = 0
    BY <2>1
  <2> QED
    BY <2>1, <2>2, EmptySeq
<1>5. Looked(SeededAt) = Clean(<<>>)
  <2>1. SubSeq(tokenIds, SeededAt + 1, SeededAt) = <<>>
    BY <1>2, EmptyPart
  <2> QED
    BY <1>0, <2>1, RawEmpty DEF Looked
<1>6. Keeps(<<>>, <<>>)
  BY DEF Keeps
<1>7. Reads(SeededAt, <<>>)
  BY <1>0, <1>1, <1>3, <1>4, <1>5, <1>6 DEF Reads
<1>8. ReadsOn
  BY <1>0, <1>2, <1>7 DEF ReadsOn
<1>9. StopsHere
  BY <1>0 DEF StopsHere, Matched, Live
<1>10. SentText
  <2>1. Generated \in Seq(Vocab)
    <3>1. /\ tokenIds \in Seq(Vocab) /\ Len(Prompt) \in Nat /\ Len(tokenIds) \in Nat
          /\ Len(tokenIds) <= Len(tokenIds)
      BY <1>1, Counts
    <3> QED
      BY <3>1, PartType DEF Generated
  <2>2. Clean(Raw(Generated)).out \in Seq(Byte)
    BY <2>1, RawType, CleanIs
  <2>3. <<>> \o Clean(Raw(Generated)).out = Clean(Raw(Generated)).out
    BY <2>2, ConcatEmptySeq
  <2> QED
    BY <1>1, <1>3, <2>2, <2>3 DEF SentText
<1>11. CancelledEarly
  <2>1. currentGenerateLength = 0
    BY <1>0, <1>1 DEF currentGenerateLength
  <2> QED
    BY <2>1 DEF CancelledEarly
<1> QED
  BY <1>8, <1>9, <1>10, <1>11 DEF Reader

(* What is sent when emitChunks() is done. *)
LEMMA TextEmitted ==
  ASSUME Types, Ends, EmitChunks, hasChannel
  PROVE  /\ mReason = Live /\ mReason' = terminalReason
         /\ Text' = (Text \o pendingEmitText) \o (IF HeldBackIsDue THEN stopMatchBuffer ELSE <<>>)
         /\ pendingEmitText' = <<>>
         /\ UNCHANGED <<hasChannel, tokenIds, sentTokenCount, pendingBytes, terminalReason>>
         /\ pc = "emit" /\ pc' = "evict"
<1> DEFINE h == IF HeldBackIsDue THEN stopMatchBuffer ELSE <<>>
<1>1. /\ mReason = Live /\ pc = "emit" /\ pc' = "evict"
      /\ UNCHANGED <<hasChannel, tokenIds, sentTokenCount, pendingBytes, terminalReason>>
  BY DEF EmitChunks, Ends, slotVars
<1>2. /\ Text \in Seq(Byte) /\ pendingEmitText \in Seq(Byte) /\ h \in Seq(Byte) /\ pushed \in Seq(Chunk)
  BY TextTypes, HeldType
<1>3. ChunkText = pendingEmitText \o h
  BY DEF ChunkText
<1> HIDE DEF h
<1>4. Text \o (pendingEmitText \o h) = (Text \o pendingEmitText) \o h
  BY <1>2, ConcatAssociative
<1>5. CASE ChunkText = <<>> /\ ~Finished
  <2>1. UNCHANGED <<channelVars, pendingEmitText>>
    BY <1>5 DEF EmitChunks, emitVars
  <2>2. pendingEmitText = <<>>
    <3>1. Len(pendingEmitText \o h) = Len(pendingEmitText) + Len(h)
      BY <1>2, ConcatProperties
    <3>2. Len(pendingEmitText) \in Nat /\ Len(h) \in Nat /\ Len(pendingEmitText \o h) = 0
      BY <1>2, <1>3, <1>5, LenProperties, EmptySeq
    <3>3. Len(pendingEmitText) = 0
      BY <3>1, <3>2
    <3> QED
      BY <1>2, <3>3, EmptySeq
  <2>3. Text' = Text
    BY <2>1, NothingMoreSent DEF channelVars
  <2>4. Text \o <<>> = Text
    BY <1>2, ConcatEmptySeq
  <2>5. mReason' = terminalReason
    BY <1>1, <1>5, <2>1 DEF Finished, channelVars
  <2> QED
    BY <1>1, <1>3, <1>4, <1>5, <2>1, <2>2, <2>3, <2>4, <2>5 DEF h
<1>6. CASE ~(ChunkText = <<>> /\ ~Finished)
  <2>1. /\ pushed' = Append(pushed, NextChunk) /\ pendingEmitText' = <<>>
        /\ mReason' = terminalReason
    BY <1>1, <1>6 DEF EmitChunks, NextChunk
  <2>2. Text' = Text \o ChunkText
    <3>1. Text' = Text \o NextChunk.text
      BY <1>2, <2>1, ChunkTypes, ChunkSent
    <3> QED
      BY <3>1 DEF NextChunk
  <2> QED
    BY <1>1, <1>3, <1>4, <2>1, <2>2 DEF h
<1> QED
  BY <1>5, <1>6

(* Every step keeps the text emitted and kept the text that was looked at. *)
LEMMA ReadsOnNext ==
  ASSUME PartialPrefillEviction, Types, Ends, Reader, Next
  PROVE  ReadsOn'
<1>0. /\ ReadsOn /\ Grows /\ terminalReason \in Reasons \cup {Live}
      /\ pc \in {"prefill", "seat", "poll", "decode", "text", "finish", "emit", "evict", "finalize", "done"}
  BY HistoryGrows DEF Reader, Types, TypeOK
(* Steps that look at no text and send none. *)
<1>1. ASSUME UNCHANGED <<sentTokenCount, pendingBytes, stopMatchBuffer, pushed, hasChannel>>,
             hasChannel => UNCHANGED pendingEmitText,
             Reading' => Reading,
             pc' \in {"prefill", "seat", "poll", "decode", "text", "evict"} =>
               pc \in {"prefill", "seat", "poll", "decode", "text", "evict"}
      PROVE  ReadsOn'
  <2>1. ASSUME Reading PROVE \E start \in Starts' : \E emitted : Reads(start, emitted)'
    <3>1. PICK start \in Starts : \E emitted : Reads(start, emitted)
      BY <1>0, <2>1 DEF ReadsOn
    <3>2. PICK emitted : Reads(start, emitted)
      BY <3>1
    <3>3. start \in Starts' /\ Reads(start, emitted)'
      BY <1>0, <1>1, <3>2, ReadsStays
    <3> QED
      BY <3>3
  <2> QED
    BY <1>0, <1>1, <2>1 DEF ReadsOn
<1>2. CASE Prefill \/ SeatedPrefill \/ ApplyCancellation \/ DecodeStep \/ GuideFails
  <2>1. /\ UNCHANGED <<sentTokenCount, pendingBytes, stopMatchBuffer, pushed, hasChannel, pendingEmitText>>
        /\ pc \in {"prefill", "seat", "poll", "decode", "text"}
    BY <1>2 DEF Prefill, SeatedPrefill, ApplyCancellation, DecodeStep, GuideFails, textVars, emitVars,
                channelVars, slotVars
  <2>2. Reading
    BY <2>1 DEF Reading
  <2> QED
    BY <1>1, <2>1, <2>2
<1>3. CASE SkipText
  <2>1. /\ UNCHANGED <<sentTokenCount, pendingBytes, stopMatchBuffer, pushed, hasChannel>>
        /\ pc = "text" /\ pc' = "finish" /\ pendingEmitText' = <<>>
    BY <1>3 DEF SkipText, channelVars, slotVars
  <2>2. hasChannel => UNCHANGED pendingEmitText
    BY <1>0, <2>1 DEF ReadsOn
  <2> QED
    BY <1>1, <2>1, <2>2 DEF Reading
<1>4. CASE DecodeText
  <2>1. /\ pc = "text" /\ pc' = "finish" /\ UNCHANGED <<terminalReason, hasChannel>>
        /\ Stops = {} => UNCHANGED stopMatchBuffer
    BY <1>4 DEF DecodeText, StopActive, slotVars
  <2>2. ASSUME Reading' PROVE \E start \in Starts' : \E emitted : Reads(start, emitted)'
    <3>1. ~stopMatchedThisIter' /\ terminalReason = Live
      BY <2>1, <2>2 DEF Reading, Finished
    <3>2. PICK start \in Starts : \E emitted : Reads(start, emitted)
      BY <1>0, <2>1 DEF ReadsOn, Reading
    <3>3. PICK emitted : Reads(start, emitted)
      BY <3>2
    <3>4. hasChannel => pendingEmitText = <<>>
      BY <1>0, <2>1 DEF ReadsOn
    <3>5. PICK more : more = emitted \o pendingEmitText'
      OBVIOUS
    <3>6. start \in Starts' /\ Reads(start, more)'
      BY <1>0, <1>4, <3>1, <3>3, <3>4, <3>5, DecodeReads
    <3> QED
      BY <3>6
  <2> QED
    BY <1>0, <2>1, <2>2 DEF ReadsOn
<1>5. CASE UpdateFinishStates
  <2>1. /\ UNCHANGED <<sentTokenCount, pendingBytes, stopMatchBuffer, pushed, hasChannel, pendingEmitText>>
        /\ pc = "finish" /\ pc' = "emit"
    BY <1>5 DEF UpdateFinishStates, textVars, emitVars, channelVars, slotVars
  <2>2. Reading' => Reading
    <3> SUFFICES ASSUME Reading' PROVE Reading
      OBVIOUS
    <3>1. terminalReason' \in {Live, "kEndId", "kLength"}
      BY <2>1 DEF Reading
    <3>2. ~stopMatchedThisIter
      BY <1>5, <3>1 DEF UpdateFinishStates, Live
    <3>3. ~Finished
      BY <1>5, <2>1, <3>1, <3>2 DEF UpdateFinishStates, Ends, Finished, Natural
    <3> QED
      BY <2>1, <3>2, <3>3 DEF Reading
  <2> QED
    BY <1>1, <2>1, <2>2
<1>6. CASE EmitChunks
  <2>1. CASE ~hasChannel
    <3>1. /\ UNCHANGED <<sentTokenCount, pendingBytes, stopMatchBuffer, pushed, hasChannel, pendingEmitText,
                         terminalReason>>
          /\ pc = "emit" /\ pc' = "evict"
      BY <1>6, <2>1 DEF EmitChunks, slotVars, channelVars, emitVars
    <3>2. ASSUME Reading' PROVE \E start \in Starts' : \E emitted : Reads(start, emitted)'
      <4>1. Reading
        BY <3>1, <3>2 DEF Reading, Finished
      <4>2. PICK start \in Starts : \E emitted : Reads(start, emitted)
        BY <1>0, <4>1 DEF ReadsOn
      <4>3. PICK emitted : Reads(start, emitted)
        BY <4>2
      <4>4. start \in Starts' /\ Reads(start, emitted)'
        BY <1>0, <3>1, <4>3, ReadsStays
      <4> QED
        BY <4>4
    <3> QED
      BY <1>0, <2>1, <3>1, <3>2 DEF ReadsOn
  <2>2. CASE hasChannel
    <3>1. /\ pc = "emit" /\ pc' = "evict" /\ pendingEmitText' = <<>>
          /\ UNCHANGED <<hasChannel, tokenIds, sentTokenCount, pendingBytes, terminalReason>>
          /\ Text' = (Text \o pendingEmitText) \o (IF HeldBackIsDue THEN stopMatchBuffer ELSE <<>>)
      BY <1>6, <2>2, TextEmitted
    <3>2. Stops = {} => stopMatchBuffer' = <<>>
      BY <1>0, <1>6 DEF EmitChunks, ReadsOn
    <3>3. ASSUME Reading' PROVE \E start \in Starts' : \E emitted : Reads(start, emitted)'
      <4>1. terminalReason = Live /\ Reading
        BY <3>1, <3>3 DEF Reading, Finished
      <4>2. PICK start \in Starts : \E emitted : Reads(start, emitted)
        BY <1>0, <4>1 DEF ReadsOn
      <4>3. PICK emitted : Reads(start, emitted)
        BY <4>2
      <4>4. ~HeldBackIsDue
        BY <4>1 DEF HeldBackIsDue, Live
      <4>5. UNCHANGED stopMatchBuffer
        BY <1>6, <4>4 DEF EmitChunks
      <4>6. Text \o pendingEmitText \in Seq(Byte) /\ emitted = Text \o pendingEmitText
        BY <2>2, <4>3 DEF Reads
      <4>7. Text' = Text \o pendingEmitText
        BY <3>1, <4>4, <4>6, ConcatEmptySeq
      <4>8. emitted = Text' \o pendingEmitText'
        BY <3>1, <4>6, <4>7, ConcatEmptySeq
      <4>9. Looked(start)' = Looked(start)
        BY <3>1 DEF Looked
      <4>10. start \in Starts'
        BY <3>1 DEF Starts
      <4>11. Reads(start, emitted)'
        BY <3>1, <4>3, <4>5, <4>8, <4>9 DEF Reads
      <4> QED
        BY <4>10, <4>11
    <3> QED
      BY <3>1, <3>2, <3>3 DEF ReadsOn
  <2> QED
    BY <2>1, <2>2
<1>7. CASE Evict
  <2>1. /\ UNCHANGED <<sentTokenCount, pendingBytes, stopMatchBuffer, pushed, hasChannel, pendingEmitText>>
        /\ pc = "evict" /\ pc' = IF Finished THEN "done" ELSE "poll"
    BY <1>7 DEF Evict, textVars, emitVars, channelVars, slotVars
  <2>2. Reading' => Reading
    BY <2>1 DEF Reading
  <2> QED
    BY <1>1, <2>1, <2>2
<1>8. CASE Abort
  <2>1. /\ UNCHANGED <<sentTokenCount, pendingBytes, stopMatchBuffer, pushed, hasChannel, pendingEmitText>>
        /\ pc' = "finalize"
    BY <1>8 DEF Abort, textVars, emitVars, channelVars, slotVars
  <2> QED
    BY <1>1, <2>1 DEF Reading
<1>9. CASE Finalize
  <2>1. pc' = "done" /\ UNCHANGED stopMatchBuffer
    BY <1>9 DEF Finalize, textVars
  <2> QED
    BY <1>0, <2>1 DEF ReadsOn, Reading
<1>10. CASE Cancel \/ Over
  <2>1. UNCHANGED <<pc, sentTokenCount, pendingBytes, stopMatchBuffer, stopMatchedThisIter, pushed, hasChannel,
                    pendingEmitText, terminalReason>>
    BY <1>10 DEF Cancel, Over, vars, textVars, emitVars, channelVars, slotVars
  <2>2. Reading' => Reading
    BY <2>1 DEF Reading, Finished
  <2> QED
    BY <1>1, <2>1, <2>2
<1> QED
  BY <1>2, <1>3, <1>4, <1>5, <1>6, <1>7, <1>8, <1>9, <1>10 DEF Next, Runtime

(* Every step keeps the text of a match cut where it should be. *)
LEMMA StopsHereNext ==
  ASSUME PartialPrefillEviction, Types, Tokens, Ends, Reader, Next
  PROVE  StopsHere'
<1> DEFINE p == Len(Prompt)
           text == Looked(p).out
<1>0. ReadsOn /\ StopsHere /\ p \in Nat
  BY Counts DEF Reader
(* Once the end was published nothing is looked at. *)
<1>1. ASSUME UNCHANGED mReason, mReason # Live
      PROVE  UNCHANGED <<tokenIds, sentTokenCount, pendingBytes, pushed>>
  <2>1. pc \in {"evict", "finalize", "done"}
    BY <1>1 DEF Ends
  <2> QED
    BY <1>1, <2>1
       DEF Next, Runtime, Prefill, SeatedPrefill, ApplyCancellation, DecodeStep, GuideFails,
           SkipText, DecodeText, UpdateFinishStates, EmitChunks, Evict, Abort, Finalize,
           Cancel, Over, vars, textVars, emitVars, channelVars, slotVars
<1>2. ASSUME UNCHANGED mReason, ~Matched'
      PROVE  StopsHere'
  <2>1. CASE mReason = Live
    BY <1>2, <2>1 DEF StopsHere, Live
  <2>2. CASE mReason # Live
    <3>1. UNCHANGED <<tokenIds, sentTokenCount, pendingBytes, pushed>>
      BY <1>1, <1>2, <2>2
    <3>2. Looked(p)' = Looked(p) /\ Text' = Text
      BY <3>1, NothingMoreSent DEF Looked
    <3> QED
      BY <1>0, <1>2, <3>1, <3>2 DEF StopsHere
  <2> QED
    BY <2>1, <2>2
<1>3. CASE Prefill \/ SeatedPrefill \/ ApplyCancellation \/ DecodeStep \/ GuideFails
  <2>1. UNCHANGED mReason /\ pc' \in {"poll", "text", "decode"}
    BY <1>3 DEF Prefill, SeatedPrefill, ApplyCancellation, DecodeStep, GuideFails, channelVars
  <2> QED
    BY <1>2, <2>1 DEF Matched
<1>4. CASE SkipText
  <2>1. UNCHANGED mReason /\ pc' = "finish" /\ ~stopMatchedThisIter'
    BY <1>4 DEF SkipText, channelVars
  <2> QED
    BY <1>2, <2>1 DEF Matched
<1>5. CASE DecodeText
  <2>1. /\ pc = "text" /\ pc' = "finish" /\ UNCHANGED <<terminalReason, hasChannel, mReason, pushed>>
        /\ mReason = Live
    BY <1>5 DEF DecodeText, slotVars, channelVars, Ends
  <2>2. ASSUME hasChannel, stopMatchedThisIter'
        PROVE  FoundAt(text') # {} /\ Text' \o pendingEmitText' = CutAt(text')
    <3>1. terminalReason = Live
      <4>1. StopActive
        BY <1>5, <2>2 DEF DecodeText
      <4>2. terminalReason \notin Natural /\ terminalReason \in Reasons \cup {Live}
        BY <2>1 DEF Ends, Types, TypeOK
      <4> QED
        BY <4>1, <4>2 DEF StopActive, Reasons
    <3>2. PICK start \in Starts : \E emitted : Reads(start, emitted)
      BY <1>0, <2>1 DEF ReadsOn, Reading
    <3>3. PICK emitted : Reads(start, emitted)
      BY <3>2
    <3>4. start = p
      BY <2>2 DEF Starts
    <3>5. hasChannel => pendingEmitText = <<>>
      BY <1>0, <2>1 DEF ReadsOn
    <3>6. PICK more : more = emitted \o pendingEmitText'
      OBVIOUS
    <3>7. /\ FoundAt(Looked(start)'.out) # {} /\ more = CutAt(Looked(start)'.out)
          /\ more = (Text \o pendingEmitText)'
      BY <1>0, <1>5, <2>2, <3>1, <3>3, <3>5, <3>6, DecodeReads
    <3> QED
      BY <3>4, <3>7
  <2> HIDE DEF text
  <2>3. mReason' = Live
    BY <2>1
  <2> QED
    BY <2>1, <2>2, <2>3 DEF StopsHere, Matched, text, Live
<1>6. CASE UpdateFinishStates
  <2>1. /\ UNCHANGED <<tokenIds, sentTokenCount, pendingBytes, pushed, hasChannel, pendingEmitText, mReason>>
        /\ pc = "finish" /\ pc' = "emit" /\ mReason = Live
    BY <1>6 DEF UpdateFinishStates, textVars, emitVars, channelVars, slotVars, Ends
  <2>2. Looked(p)' = Looked(p) /\ Text' = Text
    BY <2>1, NothingMoreSent DEF Looked
  <2>3. Matched' => Matched
    <3> SUFFICES ASSUME Matched', ~stopMatchedThisIter PROVE FALSE
      BY <2>1 DEF Matched
    <3>1. terminalReason' = "kStopWords"
      BY <2>1 DEF Matched
    <3> QED
      BY <1>6, <2>1, <3>1 DEF UpdateFinishStates, Ends, NaturalEnding, Live, Natural
  <2> QED
    BY <1>0, <2>1, <2>2, <2>3 DEF StopsHere, Live
<1>7. CASE EmitChunks
  <2>1. CASE ~hasChannel
    <3>1. UNCHANGED mReason /\ pc' = "evict"
      BY <1>7, <2>1 DEF EmitChunks, channelVars
    <3> QED
      BY <1>2, <3>1 DEF Matched
  <2>2. CASE hasChannel
    <3>1. /\ mReason = Live /\ mReason' = terminalReason
          /\ Text' = (Text \o pendingEmitText) \o (IF HeldBackIsDue THEN stopMatchBuffer ELSE <<>>)
          /\ UNCHANGED <<hasChannel, tokenIds, sentTokenCount, pendingBytes, terminalReason>>
          /\ pc = "emit" /\ pc' = "evict"
      BY <1>7, <2>2, TextEmitted
    <3>2. Looked(p)' = Looked(p)
      BY <3>1 DEF Looked
    <3>3. CASE terminalReason = "kStopWords"
      <4>1. FoundAt(text) # {} /\ Text \o pendingEmitText = CutAt(text)
        BY <1>0, <2>2, <3>1, <3>3 DEF StopsHere, Matched
      <4>2. Text \o pendingEmitText \in Seq(Byte)
        BY TextTypes, ConcatProperties
      <4>3. Text' = Text \o pendingEmitText
        BY <3>1, <3>3, <4>2, ConcatEmptySeq DEF HeldBackIsDue
      <4> QED
        BY <3>1, <3>2, <3>3, <4>1, <4>3 DEF StopsHere, Matched
    <3>4. CASE terminalReason \in {"kEndId", "kLength"}
      <4>1. Reading
        BY <3>1, <3>4 DEF Reading
      <4>2. PICK start \in Starts : \E emitted : Reads(start, emitted)
        BY <1>0, <4>1 DEF ReadsOn
      <4>3. PICK emitted : Reads(start, emitted)
        BY <4>2
      <4>4. start = p
        BY <2>2 DEF Starts
      <4>5. Text' = text /\ FoundAt(text) = {} /\ Looked(p).held = pendingBytes
        BY <2>2, <3>1, <3>4, <4>3, <4>4 DEF Reads, HeldBackIsDue
      <4> QED
        BY <3>1, <3>2, <3>4, <4>5 DEF StopsHere, Matched
    <3>5. CASE terminalReason \notin Natural
      BY <3>1, <3>5 DEF StopsHere, Matched, Natural
    <3> QED
      BY <3>3, <3>4, <3>5 DEF Natural
  <2> QED
    BY <2>1, <2>2
<1>8. CASE Evict \/ Abort
  <2>1. UNCHANGED mReason /\ pc' \in {"done", "poll", "finalize"}
    BY <1>8 DEF Evict, Abort, channelVars
  <2> QED
    BY <1>2, <2>1 DEF Matched
<1>9. CASE Finalize
  <2>1. pc' = "done" /\ mReason' \in {mReason, "kError"}
    BY <1>9 DEF Finalize, channelVars
  <2>2. CASE mReason' = "kError"
    BY <2>1, <2>2 DEF StopsHere, Matched
  <2>3. CASE UNCHANGED mReason
    BY <1>2, <2>1, <2>3 DEF Matched
  <2> QED
    BY <2>1, <2>2, <2>3
<1>10. CASE Cancel \/ Over
  <2>1. UNCHANGED <<pc, tokenIds, sentTokenCount, pendingBytes, stopMatchedThisIter, pushed, hasChannel,
                    pendingEmitText, terminalReason, mReason>>
    BY <1>10 DEF Cancel, Over, vars, textVars, emitVars, channelVars, slotVars
  <2>2. Looked(p)' = Looked(p) /\ Text' = Text
    BY <2>1, NothingMoreSent DEF Looked
  <2> QED
    BY <1>0, <2>1, <2>2 DEF StopsHere, Matched
<1> QED
  BY <1>3, <1>4, <1>5, <1>6, <1>7, <1>8, <1>9, <1>10 DEF Next, Runtime

(* Every step keeps what has been sent free of stop strings. *)
LEMMA SentTextNext ==
  ASSUME PartialPrefillEviction, Types, Tokens, Ends, Reader, Next
  PROVE  SentText'
<1>0. ReadsOn /\ StopsHere /\ SentText /\ Grows
  BY HistoryGrows DEF Reader
<1>1. Text \in Seq(Byte)
  BY TextTypes
(* There may be more tokens behind what was sent. *)
<1>2. ASSUME UNCHANGED <<hasChannel, pushed>>, mReason' = mReason
      PROVE  SentText'
  <2> SUFFICES ASSUME hasChannel, mReason \notin {"kCancelled", "kError"}
               PROVE  /\ FoundAt(Text') = {}
                      /\ \E rest \in Seq(Byte) : Clean(Raw(Generated')).out = Text' \o rest
    BY <1>2 DEF SentText
  <2>1. Text' = Text
    BY <1>2, NothingMoreSent
  <2>2. PICK r \in Seq(Byte) : Clean(Raw(Generated)).out = Text \o r
    BY <1>0 DEF SentText
  <2>3. PICK q \in Seq(Byte) : Clean(Raw(Generated')).out = Clean(Raw(Generated)).out \o q
    BY <1>0, GeneratedGrows
  <2>4. (Text \o r) \o q = Text \o (r \o q) /\ r \o q \in Seq(Byte)
    BY <1>1, ConcatAssociative, ConcatProperties
  <2>5. FoundAt(Text) = {}
    BY <1>0 DEF SentText
  <2> QED
    BY <2>1, <2>2, <2>3, <2>4, <2>5
<1>3. CASE EmitChunks /\ hasChannel
  <2>1. /\ mReason = Live /\ mReason' = terminalReason
        /\ Text' = (Text \o pendingEmitText) \o (IF HeldBackIsDue THEN stopMatchBuffer ELSE <<>>)
        /\ UNCHANGED <<hasChannel, tokenIds, sentTokenCount, terminalReason>>
        /\ pc = "emit"
    BY <1>3, TextEmitted
  <2> SUFFICES ASSUME terminalReason \notin {"kCancelled", "kError"}
               PROVE  /\ FoundAt(Text') = {}
                      /\ \E rest \in Seq(Byte) : Clean(Raw(Generated)).out = Text' \o rest
    BY <2>1 DEF SentText, Generated
  <2> DEFINE p == Len(Prompt)
             text == Looked(p).out
  <2>2. p \in Nat /\ p <= sentTokenCount /\ text \in Seq(Byte)
    <3>1. p \in Nat /\ p <= lastEmittedTokenCount
      BY <1>3, Counts DEF Tokens, SentInOrder
    <3>2. lastEmittedTokenCount \in Nat /\ sentTokenCount \in Nat /\ lastEmittedTokenCount <= sentTokenCount
      BY Counts
    <3> QED
      BY <3>1, <3>2, LookedType
  <2>3. PICK q \in Seq(Byte) : Clean(Raw(Generated)).out = text \o q
    BY <2>2, LookedBegins
  <2>4. Text \o pendingEmitText \in Seq(Byte) /\ stopMatchBuffer \in Seq(Byte)
    BY TextTypes, ConcatProperties
  <2>5. FoundAt(Text') = {} /\ \E r \in Seq(Byte) : text = Text' \o r /\ Text' \in Seq(Byte)
    <3>1. CASE terminalReason = "kStopWords"
      <4>1. FoundAt(text) # {} /\ Text \o pendingEmitText = CutAt(text)
        BY <1>0, <1>3, <2>1, <3>1 DEF StopsHere, Matched
      <4>2. Text' = CutAt(text)
        BY <2>1, <2>4, <3>1, <4>1, ConcatEmptySeq DEF HeldBackIsDue
      <4> HIDE DEF text
      <4>3. /\ FoundAt(CutAt(text)) = {} /\ CutAt(text) \in Seq(Byte)
            /\ \E r \in Seq(Byte) : text = CutAt(text) \o r
        BY <2>2, <4>1, FoundBefore DEF CutAt
      <4> QED
        BY <4>2, <4>3
    <3>2. CASE terminalReason \in {Live, "kEndId", "kLength"}
      <4>1. Reading
        BY <2>1, <3>2 DEF Reading
      <4>2. PICK start \in Starts : \E emitted : Reads(start, emitted)
        BY <1>0, <4>1 DEF ReadsOn
      <4>3. PICK emitted : Reads(start, emitted)
        BY <4>2
      <4>4. start = p
        BY <1>3 DEF Starts
      <4>5. /\ text = (Text \o pendingEmitText) \o stopMatchBuffer
            /\ FoundAt((Text \o pendingEmitText) \o stopMatchBuffer) = {}
        BY <1>3, <4>3, <4>4 DEF Reads
      <4> DEFINE e == Text \o pendingEmitText
      <4> HIDE DEF e, text
      <4>6. e \in Seq(Byte) /\ text = e \o stopMatchBuffer /\ FoundAt(e \o stopMatchBuffer) = {}
        BY <2>4, <4>5 DEF e
      <4>7. CASE HeldBackIsDue
        <5>1. Text' = text
          BY <2>1, <4>6, <4>7 DEF e
        <5>2. text \o <<>> = text /\ <<>> \in Seq(Byte)
          BY <2>2, ConcatEmptySeq, EmptySeq
        <5> QED
          BY <2>2, <4>6, <5>1, <5>2
      <4>8. CASE ~HeldBackIsDue
        <5>1. Text' = e
          <6>1. e \o <<>> = e
            BY <4>6, ConcatEmptySeq
          <6> QED
            BY <2>1, <4>8, <6>1 DEF e
        <5>2. FoundAt(e) = {}
          <6>1. FoundAt(e) \subseteq FoundAt(e \o stopMatchBuffer)
            BY <2>4, <4>6, FoundStays
          <6> QED
            BY <4>6, <6>1
        <5> QED
          BY <2>4, <4>6, <5>1, <5>2
      <4> QED
        BY <4>7, <4>8
    <3>3. terminalReason \in Reasons \cup {Live}
      BY DEF Types, TypeOK
    <3> QED
      BY <3>1, <3>2, <3>3 DEF Reasons, Natural
  <2>6. PICK r \in Seq(Byte) : text = Text' \o r /\ Text' \in Seq(Byte)
    BY <2>5
  <2> HIDE DEF text
  <2>7. (Text' \o r) \o q = Text' \o (r \o q) /\ r \o q \in Seq(Byte)
    BY <2>6, ConcatAssociative, ConcatProperties
  <2> QED
    BY <2>3, <2>5, <2>6, <2>7
<1>4. CASE EmitChunks /\ ~hasChannel
  BY <1>2, <1>4 DEF EmitChunks, channelVars, slotVars
<1>5. CASE Finalize
  <2>1. CASE hasChannel /\ mReason = Live
    BY <1>5, <2>1 DEF Finalize, SentText
  <2>2. CASE ~(hasChannel /\ mReason = Live)
    BY <1>2, <1>5, <2>2 DEF Finalize, channelVars, slotVars
  <2> QED
    BY <2>1, <2>2
<1>6. CASE Prefill \/ SeatedPrefill \/ ApplyCancellation \/ DecodeStep \/ GuideFails
  BY <1>2, <1>6 DEF Prefill, SeatedPrefill, ApplyCancellation, DecodeStep, GuideFails, channelVars, slotVars
<1>7. CASE SkipText \/ DecodeText \/ UpdateFinishStates \/ Evict \/ Abort
  BY <1>2, <1>7 DEF SkipText, DecodeText, UpdateFinishStates, Evict, Abort, channelVars, slotVars
<1>8. CASE Cancel \/ Over
  BY <1>2, <1>8 DEF Cancel, Over, vars, channelVars, slotVars
<1> QED
  BY <1>3, <1>4, <1>5, <1>6, <1>7, <1>8 DEF Next, Runtime

(* Every step keeps what a cancelled row sends free of them, its first token aside. *)
LEMMA CancelledEarlyNext ==
  ASSUME StopsAreCharacters, PartialPrefillEviction, Types, Tokens, Ends, Reader, Next
  PROVE  CancelledEarly'
<1>0. /\ ReadsOn /\ SentText /\ CancelledEarly /\ Text \in Seq(Byte)
      /\ tokenIds \in Seq(Vocab) /\ Len(tokenIds) \in Nat /\ Len(Prompt) \in Nat
  BY TextTypes, Counts DEF Reader
<1>1. ASSUME UNCHANGED pushed, mReason' = "kCancelled", mReason = "kCancelled",
             UNCHANGED <<hasChannel, mStreamInterval, tokenIds>>
      PROVE  hasChannel /\ mStreamInterval = 1 /\ currentGenerateLength' > 1 => FoundAt(Text') = {}
  <2>1. Text' = Text
    BY <1>1, NothingMoreSent
  <2> QED
    BY <1>0, <1>1, <2>1 DEF CancelledEarly, currentGenerateLength
<1>2. CASE Prefill \/ SeatedPrefill
  <2>1. PICK token \in Vocab : tokenIds' = Append(tokenIds, token)
    BY <1>2 DEF Prefill, SeatedPrefill
  <2>2. Len(tokenIds') = Len(tokenIds) + 1
    BY <1>0, <2>1, AppendProperties
  <2>3. pc \in {"prefill", "seat"} /\ pc' = "poll"
    BY <1>2 DEF Prefill, SeatedPrefill
  <2>4. currentGenerateLength = 0
    BY <1>0, <2>3 DEF CancelledEarly
  <2>5. currentGenerateLength' = 1
    BY <1>0, <2>2, <2>4 DEF currentGenerateLength
  <2> QED
    BY <2>3, <2>5 DEF CancelledEarly
<1>3. CASE ApplyCancellation
  <2>1. /\ pc = "poll" /\ pc' \in {"text", "decode"} /\ mReason = Live
        /\ UNCHANGED <<hasChannel, mStreamInterval, tokenIds, sentTokenCount, mReason>>
        /\ terminalReason' = "kCancelled" => terminalReason # "kError"
    BY <1>3 DEF ApplyCancellation, Ends, slotVars, textVars, channelVars, Finished, Live
  <2> QED
    BY <1>0, <2>1 DEF CancelledEarly, currentGenerateLength, Live
<1>4. CASE DecodeStep
  <2>1. /\ pc = "decode" /\ pc' = "text" /\ mReason = Live
        /\ UNCHANGED <<hasChannel, mStreamInterval, sentTokenCount, mReason, terminalReason>>
        /\ Finished => UNCHANGED tokenIds
    BY <1>4 DEF DecodeStep, Ends, slotVars, textVars, channelVars
  <2>2. terminalReason = "kCancelled" => UNCHANGED tokenIds
    BY <2>1 DEF Finished, Live
  <2> QED
    BY <1>0, <2>1, <2>2 DEF CancelledEarly, currentGenerateLength, Live
<1>5. CASE GuideFails
  <2>1. pc' \in {"poll", "text"} /\ terminalReason' = "kError" /\ mReason' = Live
    BY <1>5 DEF GuideFails, Ends, channelVars
  <2> QED
    BY <2>1 DEF CancelledEarly, Live
<1>6. CASE SkipText
  <2>1. pc' = "finish" /\ UNCHANGED <<hasChannel, terminalReason>> /\ mReason' = Live
    BY <1>6 DEF SkipText, Ends, slotVars, channelVars
  <2>2. hasChannel => terminalReason # "kCancelled"
    BY <1>6 DEF SkipText, TooEarly, Finished, Live
  <2> QED
    BY <2>1, <2>2 DEF CancelledEarly, Live
<1>7. CASE DecodeText
  <2>1. /\ pc = "text" /\ pc' = "finish" /\ mReason = Live
        /\ UNCHANGED <<hasChannel, mStreamInterval, tokenIds, terminalReason, mReason, pushed>>
    BY <1>7 DEF DecodeText, Ends, slotVars, channelVars
  <2>2. ASSUME hasChannel, mStreamInterval = 1, currentGenerateLength > 1, terminalReason = "kCancelled"
        PROVE  FoundAt(Text' \o pendingEmitText') = {}
    <3>1. sentTokenCount = Len(tokenIds)
      BY <1>0, <2>1, <2>2 DEF CancelledEarly
    <3>2. Unread = <<>>
      BY <1>0, <3>1, EmptyPart DEF Unread
    <3>3. Fresh = Clean(pendingBytes)
      <4>1. pendingBytes \in Seq(Byte)
        BY FreshType
      <4>2. pendingBytes \o <<>> = pendingBytes
        BY <4>1, ConcatEmptySeq
      <4> QED
        BY <3>2, <4>2, RawEmpty DEF Fresh
    <3>4. pendingBytes = <<>> \/ pendingBytes = <<"L">>
      BY DEF Types, TypeOK
    <3>5. Clean(pendingBytes).out = <<>>
      <4>1. pendingBytes \in Seq(Byte)
        BY FreshType
      <4>2. /\ Len(Clean(pendingBytes).out) = Len(pendingBytes) - Incomplete(pendingBytes)
            /\ Clean(pendingBytes).out \in Seq(Byte)
        BY <4>1, CleanIs
      <4>3. Len(pendingBytes) = Incomplete(pendingBytes) /\ Len(pendingBytes) \in Nat
        BY <3>4 DEF Incomplete, Opens
      <4>4. Len(Clean(pendingBytes).out) = 0
        BY <4>2, <4>3
      <4> QED
        BY <4>2, <4>4, EmptySeq
    <3>6. pendingEmitText' = Flush(Fresh.held)
      <4>1. ~StopActive /\ Finished
        BY <2>2 DEF StopActive, Finished, Live
      <4>2. pendingEmitText' = Delta.out
        BY <1>7, <4>1 DEF DecodeText
      <4>3. Delta.out = Fresh.out \o Flush(Fresh.held)
        BY <4>1, DeltaIs
      <4>4. Fresh.held \in {<<>>, <<"L">>} /\ Flush(Fresh.held) \in Seq(Byte)
        BY FreshType, HeldType
      <4>5. <<>> \o Flush(Fresh.held) = Flush(Fresh.held)
        BY <4>4, ConcatEmptySeq
      <4> QED
        BY <3>3, <3>5, <4>2, <4>3, <4>5
    <3>7. Fresh.held \in {<<>>, <<"L">>}
      BY FreshType
    <3>8. FoundAt(Text \o Flush(Fresh.held)) = FoundAt(Text)
      BY <1>0, <3>7, FoundBesideFlush
    <3>9. FoundAt(Text) = {}
      BY <1>0, <2>1, <2>2 DEF SentText, Live
    <3>10. Text' = Text
      BY <2>1, NothingMoreSent
    <3> QED
      BY <3>6, <3>8, <3>9, <3>10
  <2> QED
    BY <2>1, <2>2 DEF CancelledEarly, currentGenerateLength, Live
<1>8. CASE UpdateFinishStates
  <2>1. /\ pc = "finish" /\ pc' = "emit" /\ mReason = Live
        /\ UNCHANGED <<hasChannel, mStreamInterval, tokenIds, mReason, pushed, pendingEmitText>>
        /\ terminalReason' = "kCancelled" => terminalReason = "kCancelled"
    BY <1>8 DEF UpdateFinishStates, NaturalEnding, Ends, slotVars, channelVars, emitVars, Live
  <2>2. Text' = Text
    BY <2>1, NothingMoreSent
  <2> QED
    BY <1>0, <2>1, <2>2 DEF CancelledEarly, currentGenerateLength, Live
<1>9. CASE EmitChunks
  <2>1. CASE hasChannel
    <3>1. /\ mReason = Live /\ mReason' = terminalReason
          /\ Text' = (Text \o pendingEmitText) \o (IF HeldBackIsDue THEN stopMatchBuffer ELSE <<>>)
          /\ UNCHANGED <<hasChannel, tokenIds, sentTokenCount, terminalReason>>
          /\ pc = "emit" /\ pc' = "evict"
      BY <1>9, <2>1, TextEmitted
    <3>2. UNCHANGED mStreamInterval
      BY <1>9 DEF EmitChunks, slotVars
    <3>3. mStreamInterval = 1 => sentTokenCount = Len(tokenIds)
      BY <2>1, <3>1 DEF Tokens, NothingLeftToSend
    <3>4. ASSUME mStreamInterval = 1, currentGenerateLength > 1, terminalReason = "kCancelled"
          PROVE  FoundAt(Text') = {}
      <4>1. FoundAt(Text \o pendingEmitText) = {}
        BY <1>0, <2>1, <3>1, <3>4 DEF CancelledEarly
      <4>2. Text \o pendingEmitText \in Seq(Byte)
        BY TextTypes, ConcatProperties
      <4>3. Text' = Text \o pendingEmitText
        BY <3>1, <3>4, <4>2, ConcatEmptySeq DEF HeldBackIsDue
      <4> QED
        BY <4>1, <4>3
    <3> QED
      BY <2>1, <3>1, <3>2, <3>3, <3>4 DEF CancelledEarly, currentGenerateLength
  <2>2. CASE ~hasChannel
    <3>1. ~hasChannel' /\ pc' = "evict"
      BY <1>9, <2>2 DEF EmitChunks, slotVars
    <3> QED
      BY <3>1 DEF CancelledEarly
  <2> QED
    BY <2>1, <2>2
<1>10. CASE Evict
  <2>1. /\ pc = "evict" /\ pc' = IF Finished THEN "done" ELSE "poll"
        /\ UNCHANGED <<hasChannel, mStreamInterval, tokenIds, sentTokenCount, mReason, pushed, terminalReason>>
    BY <1>10 DEF Evict, slotVars, textVars, channelVars
  <2> QED
    BY <1>0, <1>1, <2>1 DEF CancelledEarly, currentGenerateLength
<1>11. CASE Abort
  <2>1. /\ pc' = "finalize" /\ UNCHANGED <<hasChannel, mStreamInterval, tokenIds, mReason, pushed>>
    BY <1>11 DEF Abort, slotVars, channelVars
  <2> QED
    BY <1>1, <2>1 DEF CancelledEarly
<1>12. CASE Finalize
  <2>1. pc' = "done" /\ UNCHANGED <<hasChannel, mStreamInterval, tokenIds>>
    BY <1>12 DEF Finalize, slotVars
  <2>2. mReason' = "kCancelled" => UNCHANGED channelVars
    BY <1>12 DEF Finalize
  <2> QED
    BY <1>1, <2>1, <2>2 DEF CancelledEarly, channelVars
<1>13. CASE Cancel \/ Over
  <2>1. UNCHANGED <<pc, hasChannel, mStreamInterval, tokenIds, sentTokenCount, mReason, pushed, terminalReason,
                    pendingEmitText>>
    BY <1>13 DEF Cancel, Over, vars, textVars, emitVars, channelVars, slotVars
  <2>2. Text' = Text
    BY <2>1, NothingMoreSent
  <2> QED
    BY <1>0, <2>1, <2>2 DEF CancelledEarly, currentGenerateLength, Finished
<1> QED
  BY <1>2, <1>3, <1>4, <1>5, <1>6, <1>7, <1>8, <1>9, <1>10, <1>11, <1>12, <1>13 DEF Next, Runtime

(* All four, and a step that changes nothing. *)
LEMMA ReaderNext ==
  ASSUME StopsAreCharacters, PartialPrefillEviction, Types, Tokens, Ends, Reader, [Next]_vars
  PROVE  Reader'
<1>1. CASE UNCHANGED vars
  <2>1. /\ UNCHANGED <<pc, founding, hasChannel, mStreamInterval, tokenIds, terminalReason, sentTokenCount>>
        /\ UNCHANGED <<pendingBytes, stopMatchBuffer, stopMatchedThisIter, pendingEmitText, mReason, pushed>>
    BY <1>1 DEF vars, textVars, emitVars, channelVars, slotVars
  <2>2. Text' = Text /\ Generated' = Generated /\ currentGenerateLength' = currentGenerateLength
        /\ Finished' = Finished /\ Starts' = Starts
    BY <2>1, NothingMoreSent DEF Generated, currentGenerateLength, Finished, Starts
  <2>3. \A start : Looked(start)' = Looked(start)
    BY <2>1 DEF Looked
  <2>4. ReadsOn'
    BY <2>1, <2>2, <2>3 DEF Reader, ReadsOn, Reading, Reads
  <2>5. StopsHere'
    BY <2>1, <2>2, <2>3 DEF Reader, StopsHere, Matched
  <2>6. SentText' /\ CancelledEarly'
    BY <2>1, <2>2 DEF Reader, SentText, CancelledEarly
  <2> QED
    BY <2>4, <2>5, <2>6 DEF Reader
<1>2. CASE Next
  BY <1>2, ReadsOnNext, StopsHereNext, SentTextNext, CancelledEarlyNext DEF Reader
<1> QED
  BY <1>1, <1>2

-----------------------------------------------------------------------------
(* Tokenizer::decode() of the tokens up to a count. *)
LEMMA DecodedIs ==
  ASSUME NEW ids \in Seq(Vocab)
  PROVE  /\ Decoded(ids) = Clean(Raw(ids)).out \o Flush(Clean(Raw(ids)).held)
         /\ Raw(ids) \in Seq(Byte) /\ Clean(Raw(ids)).out \in Seq(Byte)
         /\ Clean(Raw(ids)).held \in {<<>>, <<"L">>}
<1>1. Raw(ids) \in Seq(Byte)
  BY RawType
<1>2. Clean(Raw(ids)).out \in Seq(Byte) /\ Clean(Raw(ids)).held \in {<<>>, <<"L">>}
  BY <1>1, CleanIs
<1>3. Decoded(ids) = Clean(Raw(ids)).out \o Flush(Clean(Raw(ids)).held)
  BY DEF Decoded, Clean
<1> QED
  BY <1>1, <1>2, <1>3

(* The invariant makes the stream of a row that ended by itself the response. *)
LEMMA ResponseIsStreamed ==
  ASSUME StopsAreCharacters, Types, Tokens, Reader
  PROVE  StreamIsResponse
<1> SUFFICES ASSUME mReason \in Natural, sentTokenCount = Len(tokenIds),
                    pendingBytes = <<>> \/ mReason = "kStopWords"
             PROVE  /\ Text = Response.emitted
                    /\ (mReason = "kStopWords") = Response.matched
  BY DEF StreamIsResponse
<1> DEFINE seen == Clean(Raw(Generated))
           all == Decoded(Generated)
<1>1. Looked(Len(Prompt)) = seen
  BY DEF Looked, Generated
<1>2. Generated \in Seq(Vocab)
  <2>1. /\ tokenIds \in Seq(Vocab) /\ Len(Prompt) \in Nat /\ Len(tokenIds) \in Nat
        /\ Len(tokenIds) <= Len(tokenIds)
    BY Counts
  <2> QED
    BY <2>1, PartType DEF Generated
<1>3. /\ all = seen.out \o Flush(seen.held)
      /\ seen.out \in Seq(Byte) /\ seen.held \in {<<>>, <<"L">>}
  BY <1>2, DecodedIs
<1>4. StopsHere
  BY DEF Reader
<1> HIDE DEF seen, all
<1>5. all \in Seq(Byte) /\ FoundAt(all) = FoundAt(seen.out)
  BY <1>3, FoundBesideFlush
<1> DEFINE o == StopMatch(all, TRUE)
<1>6. Response = o
  BY DEF Response, all
<1>7. /\ o.matched \in BOOLEAN /\ o.emitted \in Seq(Byte) /\ o.kept \in Seq(Byte)
      /\ o.matched <=> FoundAt(all) # {}
      /\ o.matched => o.emitted = SubSeq(all, 1, Lowest(FoundAt(all)) - 1)
      /\ ~o.matched => o.emitted \o o.kept = all /\ o.kept = <<>>
  BY <1>5, StopMatchIs
<1> HIDE DEF o
<1>8. CASE mReason = "kStopWords"
  <2>1. FoundAt(seen.out) # {} /\ Text = CutAt(seen.out)
    BY <1>1, <1>4, <1>8 DEF StopsHere
  <2>2. Flush(seen.held) \in Seq(Byte)
    BY <1>3, HeldType
  <2>3. CutAt(all) = CutAt(seen.out)
    <3> DEFINE s == seen.out
               t == Flush(seen.held)
    <3>1. s \in Seq(Byte) /\ t \in Seq(Byte) /\ FoundAt(s) # {} /\ all = s \o t /\ FoundAt(s \o t) = FoundAt(s)
      BY <1>3, <1>5, <2>1, <2>2
    <3> HIDE DEF s, t
    <3>2. CutAt(s \o t) = CutAt(s)
      BY <3>1, CutStays
    <3> QED
      BY <3>1, <3>2 DEF s
  <2>4. o.matched
    BY <1>5, <1>7, <2>1
  <2>5. o.emitted = CutAt(all)
    BY <1>7, <2>4 DEF CutAt
  <2> QED
    BY <1>6, <1>7, <1>8, <2>1, <2>3, <2>4, <2>5
<1>9. CASE mReason \in {"kEndId", "kLength"}
  <2>1. Text = seen.out /\ FoundAt(Text) = {} /\ seen.held = <<>>
    BY <1>1, <1>4, <1>9 DEF StopsHere
  <2>2. all = Text
    <3>1. Flush(<<>>) = <<>>
      BY HeldType
    <3>2. seen.out \o <<>> = seen.out
      BY <1>3, ConcatEmptySeq
    <3> QED
      BY <1>3, <2>1, <3>1, <3>2
  <2>3. ~o.matched
    BY <1>7, <2>1, <2>2
  <2>4. o.emitted = all
    <3>1. o.emitted \o <<>> = o.emitted
      BY <1>7, ConcatEmptySeq
    <3> QED
      BY <1>7, <2>3, <3>1
  <2>5. o.matched = FALSE /\ (mReason = "kStopWords") = FALSE
    BY <1>7, <1>9, <2>3
  <2> QED
    BY <1>6, <2>2, <2>4, <2>5
<1> QED
  BY <1>8, <1>9 DEF Natural

(* The invariant keeps stop strings out of the stream and out of the text of a row that *)
(* goes on.                                                                             *)
LEMMA StopsDoStop ==
  ASSUME StopsAreCharacters, Types, Tokens, Ends, Reader
  PROVE  StopStringsStop
<1>0. /\ tokenIds \in Seq(Vocab) /\ Len(Prompt) \in Nat /\ Len(tokenIds) \in Nat
      /\ sentTokenCount \in Nat /\ sentTokenCount <= Len(tokenIds) /\ Len(tokenIds) <= Len(tokenIds)
      /\ Len(Prompt) <= Len(tokenIds)
  BY Counts
<1>1. Generated \in Seq(Vocab)
  BY <1>0, PartType DEF Generated
<1>2. ASSUME mReason # "kError", mReason = "kCancelled" => mStreamInterval = 1 /\ currentGenerateLength > 1
      PROVE  FoundAt(Text) = {} /\ (mReason # "kCancelled" => IsPrefix(Text, Decoded(Generated)))
  <2>1. CASE ~hasChannel
    <3>1. Text = <<>> /\ mReason = Live
      BY <2>1, NothingSent DEF Tokens, SentInOrder
    <3>2. FoundAt(<<>>) = {}
      <4>1. DOMAIN <<>> = {}
        OBVIOUS
      <4> QED
        BY <4>1 DEF FoundAt
    <3>3. Decoded(Generated) \in Seq(Byte)
      <4>1. Flush(Clean(Raw(Generated)).held) \in Seq(Byte)
        BY <1>1, DecodedIs, HeldType
      <4> QED
        BY <1>1, <4>1, DecodedIs, ConcatProperties
    <3>4. IsPrefix(<<>>, Decoded(Generated))
      <4> DEFINE all == Decoded(Generated)
      <4>1. <<>> \in Seq(Byte) /\ <<>> \o all = all
        BY <3>3, EmptySeq, ConcatEmptySeq
      <4> HIDE DEF all
      <4>2. IsPrefix(<<>>, <<>> \o all)
        BY <3>3, <4>1, ConcatIsPrefix DEF all
      <4> QED
        BY <4>1, <4>2 DEF all
    <3> QED
      BY <3>1, <3>2, <3>4
  <2>2. CASE hasChannel /\ mReason = "kCancelled"
    BY <1>2, <2>2 DEF Reader, CancelledEarly
  <2>3. CASE hasChannel /\ mReason # "kCancelled"
    <3>1. FoundAt(Text) = {}
      BY <1>2, <2>3 DEF Reader, SentText
    <3>2. PICK r \in Seq(Byte) : Clean(Raw(Generated)).out = Text \o r
      BY <1>2, <2>3 DEF Reader, SentText
    <3> DEFINE f == Flush(Clean(Raw(Generated)).held)
    <3>3. Decoded(Generated) = (Text \o r) \o f /\ f \in Seq(Byte)
      BY <1>1, <3>2, DecodedIs, HeldType
    <3> HIDE DEF f
    <3>4. Text \in Seq(Byte)
      BY TextTypes
    <3>5. r \o f \in Seq(Byte) /\ (Text \o r) \o f = Text \o (r \o f)
      BY <3>3, <3>4, ConcatProperties, ConcatAssociative
    <3>6. IsPrefix(Text, Text \o (r \o f))
      BY <3>4, <3>5, ConcatIsPrefix
    <3> QED
      BY <3>1, <3>3, <3>5, <3>6
  <2> QED
    BY <2>1, <2>2, <2>3
<1>3. ASSUME pc = "decode", ~Finished
      PROVE  FoundAt(Decoded(SubSeq(tokenIds, Len(Prompt) + 1, sentTokenCount))) = {}
  <2>1. PICK start \in Starts : \E emitted : Reads(start, emitted)
    BY <1>3 DEF Reader, ReadsOn, Reading
  <2>2. FoundAt(Looked(start).out) = {}
    BY <2>1 DEF Reads
  <2> DEFINE ids == SubSeq(tokenIds, Len(Prompt) + 1, sentTokenCount)
  <2>3. ids \in Seq(Vocab)
    BY <1>0, PartType
  <2>4. FoundAt(Clean(Raw(ids)).out) = {}
    <3>1. CASE start = Len(Prompt)
      BY <2>2, <3>1 DEF Looked
    <3>2. CASE start = 0 /\ Len(Prompt) <= sentTokenCount
      <4> DEFINE before == SubSeq(tokenIds, 1, Len(Prompt))
      <4>1. SubSeq(tokenIds, 0 + 1, sentTokenCount) = SubSeq(tokenIds, 0 + 1, Len(Prompt)) \o ids
        <5>1. 0 \in Nat /\ 0 <= Len(Prompt)
          BY <1>0
        <5> QED
          BY <1>0, <3>2, <5>1, HistoryJoins
      <4>2. before \in Seq(Vocab)
        <5>1. SubSeq(tokenIds, 0 + 1, Len(Prompt)) \in Seq(Vocab)
          BY <1>0, PartType
        <5> QED
          BY <5>1
      <4>3. Looked(start) = Clean(Raw(before \o ids))
        <5>1. start = 0 /\ 0 + 1 = 1
          BY <3>2
        <5>2. Looked(start) = Clean(Raw(SubSeq(tokenIds, start + 1, sentTokenCount)))
          BY DEF Looked
        <5>3. SubSeq(tokenIds, start + 1, sentTokenCount) = before \o ids
          BY <4>1, <5>1
        <5> HIDE DEF before, ids
        <5> QED
          BY <5>2, <5>3
      <4> HIDE DEF before, ids
      <4>4. Raw(before \o ids) = Raw(before) \o Raw(ids) /\ Raw(before) \in Seq(Byte) /\ Raw(ids) \in Seq(Byte)
        BY <2>3, <4>2, RawConcat, RawType
      <4>5. FoundAt(Clean(Raw(before) \o Raw(ids)).out) = {}
        BY <2>2, <4>3, <4>4
      <4> QED
        BY <4>4, <4>5, FoundInWhole
    <3>3. CASE start = 0 /\ ~(Len(Prompt) <= sentTokenCount)
      <4>1. sentTokenCount < Len(Prompt) + 1
        BY <1>0, <3>3
      <4>2. ids = <<>>
        BY <1>0, <4>1, SubSeqEmpty
      <4>3. Clean(Raw(<<>>)).out = <<>>
        <5>1. <<>> \in Seq(Byte) /\ Len(<<>>) = 0
          BY EmptySeq
        <5>2. /\ Clean(<<>>).out \in Seq(Byte)
              /\ Len(Clean(<<>>).out) = Len(<<>>) - Incomplete(<<>>)
              /\ Incomplete(<<>>) \in {0, 1} /\ Incomplete(<<>>) <= Len(<<>>)
          BY <5>1, CleanIs
        <5>3. Len(Clean(<<>>).out) = 0
          BY <5>1, <5>2
        <5> QED
          BY <5>2, <5>3, EmptySeq, RawEmpty
      <4>4. FoundAt(<<>>) = {}
        <5>1. DOMAIN <<>> = {}
          OBVIOUS
        <5> QED
          BY <5>1 DEF FoundAt
      <4> QED
        BY <4>2, <4>3, <4>4
    <3> QED
      BY <3>1, <3>2, <3>3 DEF Starts
  <2>5. /\ Decoded(ids) = Clean(Raw(ids)).out \o Flush(Clean(Raw(ids)).held)
        /\ Clean(Raw(ids)).out \in Seq(Byte) /\ Clean(Raw(ids)).held \in {<<>>, <<"L">>}
    BY <2>3, DecodedIs
  <2>6. FoundAt(Clean(Raw(ids)).out \o Flush(Clean(Raw(ids)).held)) = FoundAt(Clean(Raw(ids)).out)
    <3> DEFINE s == Clean(Raw(ids)).out
               h == Clean(Raw(ids)).held
    <3>1. s \in Seq(Byte) /\ h \in {<<>>, <<"L">>}
      BY <2>5
    <3> HIDE DEF s, h
    <3>2. FoundAt(s \o Flush(h)) = FoundAt(s)
      BY <3>1, FoundBesideFlush
    <3> QED
      BY <3>2 DEF s, h
  <2> QED
    BY <2>4, <2>5, <2>6
<1> QED
  BY <1>2, <1>3, SamePrefix DEF StopStringsStop

(* Streaming and not streaming agree: the chunks of a sequence that ends by itself add   *)
(* up to the text handleRequest() returns, with the same reason, for any vocabulary, any *)
(* stop strings without a replacement character, and any way of spreading them           *)
(* (decodePerSlot, applyStopStringMatch, emitChunks).                                    *)
THEOREM StreamAlwaysResponse ==
  StopsAreCharacters /\ PartialPrefillEviction /\ Spec => []StreamIsResponse
<1> SUFFICES ASSUME StopsAreCharacters, PartialPrefillEviction PROVE Spec => []StreamIsResponse
  OBVIOUS
<1> DEFINE IInv == Types /\ Tokens /\ Ends /\ Reader
<1>1. Init => IInv
  BY TypesInit, TokensInit, EndsInit, ReaderInit
<1>2. IInv /\ [Next]_vars => IInv'
  BY TypesNext, TokensNext, EndsNext, ReaderNext
<1>3. IInv => StreamIsResponse
  BY ResponseIsStreamed
<1> QED
  BY <1>1, <1>2, <1>3, PTL DEF Spec

(* No stop string, and nothing behind one, is in a stream that did not fail, and no row  *)
(* goes on with one in the text that was looked at (applyStopStringMatch).               *)
THEOREM StopStringsAlwaysStop ==
  StopsAreCharacters /\ PartialPrefillEviction /\ Spec => []StopStringsStop
<1> SUFFICES ASSUME StopsAreCharacters, PartialPrefillEviction PROVE Spec => []StopStringsStop
  OBVIOUS
<1> DEFINE IInv == Types /\ Tokens /\ Ends /\ Reader
<1>1. Init => IInv
  BY TypesInit, TokensInit, EndsInit, ReaderInit
<1>2. IInv /\ [Next]_vars => IInv'
  BY TypesNext, TokensNext, EndsNext, ReaderNext
<1>3. IInv => StopStringsStop
  BY StopsDoStop
<1> QED
  BY <1>1, <1>2, <1>3, PTL DEF Spec
=============================================================================
