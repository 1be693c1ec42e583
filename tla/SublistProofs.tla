----------------------------- MODULE SublistProofs -----------------------------
(***************************************************************************)
(* What the operators of Sublists, and FlattenSeq, return for every list.  *)
(* The recursive functions behind them are got hold of as the least natural*)
(* number, or the shortest list, that would not be in a set; the rest is   *)
(* by that induction over lists (SequencesByInduction), one set per law.   *)
(***************************************************************************)
EXTENDS Sublists, SequencesExt, SequenceTheorems, FiniteSetTheorems, WellFoundedInduction, TLAPS

-----------------------------------------------------------------------------
(* Induction, over sets instead of predicates *)

\* The least number of a set.
LEMMA LeastNatural ==
  ASSUME NEW T \in SUBSET Nat, T # {}
  PROVE  \E x \in T : \A y \in T : x <= y
<1>1. IsWellFoundedOn(OpToRel(<, Nat), Nat)
  BY NatLessThanWellFounded, Zenon
<1>2. PICK x \in T : \A y \in T : ~ (<<y, x>> \in OpToRel(<, Nat))
  BY <1>1, WFMin, Zenon
<1>3. \A y \in T : ~ (y < x)
  <2> TAKE y \in T
  <2>1. x \in Nat /\ y \in Nat
    OBVIOUS
  <2>2. <<y, x>> \notin OpToRel(<, Nat)
    BY <1>2
  <2> QED BY <2>1, <2>2, Zenon DEF OpToRel
<1> QED BY <1>3

\* A set with 0 and every successor has all the numbers.
LEMMA NaturalsByInduction ==
  ASSUME NEW T, 0 \in T, \A n \in Nat : n \in T => n + 1 \in T
  PROVE  Nat \subseteq T
<1> SUFFICES ASSUME NEW m \in Nat, m \notin T PROVE FALSE
  OBVIOUS
<1>1. PICK x \in Nat \ T : \A y \in Nat \ T : x <= y
  BY LeastNatural
<1>2. x # 0 /\ x - 1 \in Nat
  BY <1>1
<1>3. x - 1 \in T
  BY <1>1, <1>2
<1> QED BY <1>1, <1>2, <1>3

-----------------------------------------------------------------------------
(* Keep *)

\* What Keep has come to after n elements.
IsKept(kept, seq, S, m) ==
  kept = [n \in 0..m |-> IF n = 0 THEN <<>> ELSE With(kept[n - 1], seq[n], S)]

Kept(seq, S) ==
  CHOOSE kept : kept = [n \in 0..Len(seq) |->
                            IF n = 0 THEN <<>> ELSE With(kept[n - 1], seq[n], S)]

\* There is such a function, and Keep is its last value.
LEMMA KeptExists ==
  ASSUME NEW seq, NEW S
  PROVE  \A m \in Nat : \E kept : IsKept(kept, seq, S, m)
<1> DEFINE T == {m \in Nat : \E kept : IsKept(kept, seq, S, m)}
<1>1. 0 \in T
  <2> DEFINE k == [n \in 0..0 |-> <<>>]
  <2>1. k = [n \in 0..0 |-> IF n = 0 THEN <<>> ELSE With(k[n - 1], seq[n], S)]
    OBVIOUS
  <2> QED BY <2>1 DEF IsKept
<1>2. ASSUME NEW m \in Nat, m \in T PROVE m + 1 \in T
  <2>1. PICK kept : IsKept(kept, seq, S, m)
    BY <1>2
  <2> DEFINE k == [n \in 0..(m + 1) |-> IF n = 0 THEN <<>> ELSE With(kept[n - 1], seq[n], S)]
  <2>2. \A n \in 0..m : k[n] = kept[n]
    <3> DEFINE e(n) == IF n = 0 THEN <<>> ELSE With(kept[n - 1], seq[n], S)
    <3>1. kept = [n \in 0..m |-> e(n)]
      BY <2>1 DEF IsKept
    <3>2. \A n \in 0..m : k[n] = e(n)
      OBVIOUS
    <3> HIDE DEF e, k
    <3> QED BY <3>1, <3>2
  <2> HIDE DEF k
  <2>3. \A n \in 0..(m+1) : n # 0 => k[n - 1] = kept[n - 1]
    BY <2>2
  <2>4. k = [n \in 0..(m + 1) |-> IF n = 0 THEN <<>> ELSE With(k[n - 1], seq[n], S)]
    BY <2>3 DEF k
  <2> QED BY <2>4 DEF IsKept
<1> HIDE DEF T
<1>3. Nat \subseteq T
  BY <1>1, <1>2, NaturalsByInduction
<1> QED BY <1>3 DEF T

LEMMA KeptSteps ==
  ASSUME NEW seq, NEW S, Len(seq) \in Nat
  PROVE  /\ Kept(seq, S)[0] = <<>>
         /\ \A n \in 1..Len(seq) : Kept(seq, S)[n] = With(Kept(seq, S)[n - 1], seq[n], S)
         /\ Keep(seq, S) = Kept(seq, S)[Len(seq)]
<1>1. Keep(seq, S) = Kept(seq, S)[Len(seq)]
  BY DEF Keep, Kept
<1>2. \E kept : IsKept(kept, seq, S, Len(seq))
  BY KeptExists
<1>3. IsKept(Kept(seq, S), seq, S, Len(seq))
  BY <1>2 DEF IsKept, Kept
<1> HIDE DEF Kept
<1> DEFINE K == Kept(seq, S)
           e(n) == IF n = 0 THEN <<>> ELSE With(K[n - 1], seq[n], S)
<1>4. K = [n \in 0..Len(seq) |-> e(n)]
  BY <1>3 DEF IsKept
<1>5. \A n \in 0..Len(seq) : K[n] = e(n)
  <2> HIDE DEF e, K
  <2> QED BY <1>4
<1> QED BY <1>1, <1>5

\* Induction over sequences that grow at their end.
LEMMA SequencesByInduction ==
  ASSUME NEW A, NEW T, <<>> \in T,
         \A s \in Seq(A), e \in A : s \in T => Append(s, e) \in T
  PROVE  Seq(A) \subseteq T
<1> DEFINE N == {n \in Nat : \A s \in Seq(A) : Len(s) = n => s \in T}
<1>1. 0 \in N
  BY EmptySeq
<1>2. ASSUME NEW n \in Nat, n \in N PROVE n + 1 \in N
  <2> SUFFICES ASSUME NEW s \in Seq(A), Len(s) = n + 1 PROVE s \in T
    OBVIOUS
  <2>1. s # <<>>
    BY EmptySeq
  <2>2. PICK front \in Seq(A), e \in A : s = Append(front, e)
    BY <2>1, SequenceEmptyOrAppend
  <2>3. Len(front) = n
    BY <2>2, AppendProperties, LenProperties
  <2>4. front \in T
    BY <1>2, <2>3
  <2> QED BY <2>2, <2>4
<1> HIDE DEF N
<1>3. Nat \subseteq N
  BY <1>1, <1>2, NaturalsByInduction
<1>4. \A s \in Seq(A) : Len(s) \in Nat
  BY LenProperties
<1> QED BY <1>3, <1>4 DEF N

\* Keep goes through the elements one by one.
LEMMA KeepEmpty ==
  ASSUME NEW S
  PROVE  Keep(<<>>, S) = <<>>
<1>1. Len(<<>>) = 0
  BY EmptySeq
<1> QED BY <1>1, KeptSteps

LEMMA KeepAppend ==
  ASSUME NEW A, NEW s \in Seq(A), NEW e \in A, NEW S
  PROVE  Keep(Append(s, e), S) = With(Keep(s, S), e, S)
<1> DEFINE t == Append(s, e)
<1>1. Len(s) \in Nat /\ Len(t) = Len(s) + 1 /\ t[Len(s) + 1] = e /\ \A i \in 1..Len(s) : t[i] = s[i]
  BY LenProperties, AppendProperties
<1> HIDE DEF t
<1> DEFINE N == {n \in Nat : n <= Len(s) => Kept(t, S)[n] = Kept(s, S)[n]}
<1>2. 0 \in N
  BY <1>1, KeptSteps
<1>3. ASSUME NEW n \in Nat, n \in N PROVE n + 1 \in N
  <2> SUFFICES ASSUME n + 1 <= Len(s) PROVE Kept(t, S)[n + 1] = Kept(s, S)[n + 1]
    OBVIOUS
  <2>1. n + 1 \in 1..Len(s) /\ n + 1 \in 1..Len(t) /\ (n + 1) - 1 = n
    BY <1>1
  <2>5. Len(t) \in Nat
    BY <1>1
  <2>6. \A i \in 1..Len(t) : Kept(t, S)[i] = With(Kept(t, S)[i - 1], t[i], S)
    BY <2>5, KeptSteps, Zenon
  <2>2. Kept(t, S)[n + 1] = With(Kept(t, S)[n], t[n + 1], S)
    BY <2>1, <2>6
  <2>7. \A i \in 1..Len(s) : Kept(s, S)[i] = With(Kept(s, S)[i - 1], s[i], S)
    BY <1>1, KeptSteps, Zenon
  <2>3. Kept(s, S)[n + 1] = With(Kept(s, S)[n], s[n + 1], S)
    BY <2>1, <2>7
  <2>4. Kept(t, S)[n] = Kept(s, S)[n] /\ t[n + 1] = s[n + 1]
    BY <1>1, <1>3, <2>1
  <2> QED BY <2>2, <2>3, <2>4
<1> HIDE DEF N
<1>4. Nat \subseteq N
  BY <1>2, <1>3, NaturalsByInduction
<1>5. Kept(t, S)[Len(s)] = Kept(s, S)[Len(s)]
  BY <1>1, <1>4 DEF N
<1>6. Len(t) \in 1..Len(t) /\ Len(t) - 1 = Len(s) /\ t[Len(t)] = e
  BY <1>1
<1>7. Keep(t, S) = With(Kept(t, S)[Len(s)], e, S)
  BY <1>1, <1>6, KeptSteps
<1>8. Keep(s, S) = Kept(s, S)[Len(s)]
  BY <1>1, KeptSteps
<1> QED BY <1>5, <1>7, <1>8 DEF t

LEMMA ToSetAppend ==
  ASSUME NEW A, NEW s \in Seq(A), NEW e \in A
  PROVE  ToSet(Append(s, e)) = ToSet(s) \cup {e}
<1> DEFINE t == Append(s, e)
<1>1. Len(s) \in Nat /\ Len(t) = Len(s) + 1 /\ t[Len(s) + 1] = e /\ \A i \in 1..Len(s) : t[i] = s[i]
  BY LenProperties, AppendProperties
<1>2. DOMAIN s = 1..Len(s) /\ DOMAIN t = 1..Len(t)
  BY LenProperties, AppendProperties
<1> HIDE DEF t
<1>3. ToSet(t) = ToSet(s) \cup {e}
  BY <1>1, <1>2 DEF ToSet
<1> QED BY <1>3 DEF t

LEMMA KeepWanted ==
  ASSUME NEW A, NEW s \in Seq(A), NEW e \in A, NEW S, e \in S
  PROVE  Keep(Append(s, e), S) = Append(Keep(s, S), e)
<1>1. With(Keep(s, S), e, S) = Append(Keep(s, S), e)
  BY DEF With
<1>2. Keep(Append(s, e), S) = With(Keep(s, S), e, S)
  BY KeepAppend
<1> QED BY <1>1, <1>2

LEMMA KeepUnwanted ==
  ASSUME NEW A, NEW s \in Seq(A), NEW e \in A, NEW S, e \notin S
  PROVE  Keep(Append(s, e), S) = Keep(s, S)
<1>1. With(Keep(s, S), e, S) = Keep(s, S)
  BY DEF With
<1>2. Keep(Append(s, e), S) = With(Keep(s, S), e, S)
  BY KeepAppend
<1> QED BY <1>1, <1>2

\* What is kept is what is there and wanted.
LEMMA KeepIsSeq ==
  ASSUME NEW A, NEW s \in Seq(A), NEW S
  PROVE  Keep(s, S) \in Seq(A)
<1> DEFINE T == {q \in Seq(A) : Keep(q, S) \in Seq(A)}
<1>1. <<>> \in T
  BY KeepEmpty, EmptySeq
<1>2. ASSUME NEW q \in Seq(A), NEW e \in A, q \in T PROVE Append(q, e) \in T
  <2>1. Append(q, e) \in Seq(A) /\ Keep(q, S) \in Seq(A)
    BY <1>2, AppendProperties
  <2>2. CASE e \in S
    <3>1. Keep(Append(q, e), S) = Append(Keep(q, S), e)
      BY <2>2, KeepWanted
    <3>2. Append(Keep(q, S), e) \in Seq(A)
      BY <2>1, AppendProperties
    <3> QED BY <2>1, <3>1, <3>2
  <2>3. CASE e \notin S
    BY <2>1, <2>3, KeepUnwanted
  <2> QED BY <2>2, <2>3
<1> HIDE DEF T
<1>3. Seq(A) \subseteq T
  BY <1>1, <1>2, SequencesByInduction
<1> QED BY <1>3 DEF T

LEMMA KeepSet ==
  ASSUME NEW A, NEW s \in Seq(A), NEW S
  PROVE  ToSet(Keep(s, S)) = ToSet(s) \cap S
<1> DEFINE T == {q \in Seq(A) : ToSet(Keep(q, S)) = ToSet(q) \cap S}
<1>1. <<>> \in T
  BY KeepEmpty, EmptySeq DEF ToSet
<1>2. ASSUME NEW q \in Seq(A), NEW e \in A, q \in T PROVE Append(q, e) \in T
  <2>1. ToSet(Append(q, e)) = ToSet(q) \cup {e}
    BY ToSetAppend
  <2>2. Keep(q, S) \in Seq(A) /\ Append(q, e) \in Seq(A)
    BY KeepIsSeq, AppendProperties
  <2>3. CASE e \in S
    <3>1. ToSet(Append(Keep(q, S), e)) = ToSet(Keep(q, S)) \cup {e}
      BY <2>2, ToSetAppend
    <3>2. Keep(Append(q, e), S) = Append(Keep(q, S), e)
      BY <2>3, KeepWanted
    <3> QED BY <1>2, <2>1, <2>2, <2>3, <3>1, <3>2
  <2>4. CASE e \notin S
    BY <1>2, <2>1, <2>2, <2>4, KeepUnwanted
  <2> QED BY <2>3, <2>4
<1> HIDE DEF T
<1>3. Seq(A) \subseteq T
  BY <1>1, <1>2, SequencesByInduction
<1> QED BY <1>3 DEF T

\* Lists put together.
LEMMA ConcatAppend ==
  ASSUME NEW A, NEW s \in Seq(A), NEW t \in Seq(A), NEW e \in A
  PROVE  s \o Append(t, e) = Append(s \o t, e)
<1>1. <<e>> \in Seq(A)
  OBVIOUS
<1>2. Append(t, e) = t \o <<e>> /\ Append(s \o t, e) = (s \o t) \o <<e>>
  BY AppendIsConcat, ConcatProperties
<1> QED BY <1>1, <1>2, ConcatAssociative

Regroups(s, t, u, v) == s \o t \o u \o v = s \o (t \o u \o v)

LEMMA FourLists ==
  ASSUME NEW A
  PROVE  \A s, t, u, v \in Seq(A) : Regroups(s, t, u, v) /\ t \o u \o v \in Seq(A)
<1> DEFINE Associates(a, b, c) == (a \o b) \o c = a \o (b \o c)
<1>1. \A a, b, c \in Seq(A) : Associates(a, b, c)
  BY ConcatAssociative
<1>2. \A a, b \in Seq(A) : a \o b \in Seq(A)
  BY ConcatProperties
<1> TAKE s, t, u, v \in Seq(A)
<1>3. t \o u \in Seq(A) /\ (t \o u) \o v \in Seq(A)
  BY <1>2, Zenon
<1> HIDE DEF Associates
<1>4. Associates(s, t, u) /\ Associates(s, t \o u, v)
  BY <1>1, <1>3, Zenon
<1> QED BY <1>3, <1>4 DEF Associates, Regroups

LEMMA KeepConcat ==
  ASSUME NEW A, NEW s \in Seq(A), NEW t \in Seq(A), NEW S
  PROVE  Keep(t \o s, S) = Keep(t, S) \o Keep(s, S)
<1> DEFINE T == {q \in Seq(A) : Keep(t \o q, S) = Keep(t, S) \o Keep(q, S)}
<1>1. <<>> \in T
  BY KeepEmpty, ConcatEmptySeq, EmptySeq, KeepIsSeq
<1>2. ASSUME NEW q \in Seq(A), NEW e \in A, q \in T PROVE Append(q, e) \in T
  <2>1. t \o Append(q, e) = Append(t \o q, e) /\ t \o q \in Seq(A) /\ Append(q, e) \in Seq(A)
    BY ConcatAppend, ConcatProperties, AppendProperties
  <2>2. Keep(t, S) \in Seq(A) /\ Keep(q, S) \in Seq(A)
    BY KeepIsSeq
  <2>3. CASE e \in S
    <3>1. Keep(Append(t \o q, e), S) = Append(Keep(t \o q, S), e)
      BY <2>1, <2>3, KeepWanted
    <3>2. Keep(Append(q, e), S) = Append(Keep(q, S), e)
      BY <2>3, KeepWanted
    <3>3. Keep(t, S) \o Append(Keep(q, S), e) = Append(Keep(t, S) \o Keep(q, S), e)
      BY <2>2, ConcatAppend
    <3> QED BY <1>2, <2>1, <3>1, <3>2, <3>3
  <2>4. CASE e \notin S
    <3>1. Keep(Append(t \o q, e), S) = Keep(t \o q, S)
      BY <2>1, <2>4, KeepUnwanted
    <3>2. Keep(Append(q, e), S) = Keep(q, S)
      BY <2>4, KeepUnwanted
    <3> QED BY <1>2, <2>1, <3>1, <3>2
  <2> QED BY <2>3, <2>4
<1> HIDE DEF T
<1>3. Seq(A) \subseteq T
  BY <1>1, <1>2, SequencesByInduction
<1> QED BY <1>3 DEF T

\* All, nothing, or the same is kept; keeping twice; how much is kept.
LEMMA KeepAll ==
  ASSUME NEW A, NEW s \in Seq(A), NEW S, ToSet(s) \subseteq S
  PROVE  Keep(s, S) = s
<1> DEFINE T == {q \in Seq(A) : ToSet(q) \subseteq S => Keep(q, S) = q}
<1>1. <<>> \in T
  BY KeepEmpty, EmptySeq
<1>2. ASSUME NEW q \in Seq(A), NEW e \in A, q \in T PROVE Append(q, e) \in T
  <2>1. ToSet(Append(q, e)) = ToSet(q) \cup {e} /\ Append(q, e) \in Seq(A)
    BY ToSetAppend, AppendProperties
  <2>2. ASSUME ToSet(Append(q, e)) \subseteq S PROVE Keep(Append(q, e), S) = Append(q, e)
    <3>1. e \in S /\ Keep(q, S) = q
      BY <1>2, <2>1, <2>2
    <3> QED BY <3>1, KeepWanted
  <2> QED BY <2>1, <2>2
<1> HIDE DEF T
<1>3. Seq(A) \subseteq T
  BY <1>1, <1>2, SequencesByInduction
<1> QED BY <1>3 DEF T

LEMMA KeepNone ==
  ASSUME NEW A, NEW s \in Seq(A), NEW S, ToSet(s) \cap S = {}
  PROVE  Keep(s, S) = <<>>
<1> DEFINE T == {q \in Seq(A) : ToSet(q) \cap S = {} => Keep(q, S) = <<>>}
<1>1. <<>> \in T
  BY KeepEmpty, EmptySeq
<1>2. ASSUME NEW q \in Seq(A), NEW e \in A, q \in T PROVE Append(q, e) \in T
  <2>1. ToSet(Append(q, e)) = ToSet(q) \cup {e} /\ Append(q, e) \in Seq(A)
    BY ToSetAppend, AppendProperties
  <2>2. ASSUME ToSet(Append(q, e)) \cap S = {} PROVE Keep(Append(q, e), S) = <<>>
    <3>1. e \notin S /\ Keep(q, S) = <<>>
      BY <1>2, <2>1, <2>2
    <3> QED BY <3>1, KeepUnwanted
  <2> QED BY <2>1, <2>2
<1> HIDE DEF T
<1>3. Seq(A) \subseteq T
  BY <1>1, <1>2, SequencesByInduction
<1> QED BY <1>3 DEF T

LEMMA KeepSame ==
  ASSUME NEW A, NEW s \in Seq(A), NEW S, NEW U, ToSet(s) \cap S = ToSet(s) \cap U
  PROVE  Keep(s, S) = Keep(s, U)
<1> DEFINE T == {q \in Seq(A) : ToSet(q) \cap S = ToSet(q) \cap U => Keep(q, S) = Keep(q, U)}
<1>1. <<>> \in T
  BY KeepEmpty, EmptySeq
<1>2. ASSUME NEW q \in Seq(A), NEW e \in A, q \in T PROVE Append(q, e) \in T
  <2>1. ToSet(Append(q, e)) = ToSet(q) \cup {e} /\ Append(q, e) \in Seq(A)
    BY ToSetAppend, AppendProperties
  <2>2. ASSUME ToSet(Append(q, e)) \cap S = ToSet(Append(q, e)) \cap U
        PROVE  Keep(Append(q, e), S) = Keep(Append(q, e), U)
    <3>1. (e \in S <=> e \in U) /\ Keep(q, S) = Keep(q, U)
      BY <1>2, <2>1, <2>2
    <3>2. CASE e \in S
      <4>1. Keep(Append(q, e), S) = Append(Keep(q, S), e)
        BY <3>2, KeepWanted
      <4>2. Keep(Append(q, e), U) = Append(Keep(q, U), e)
        BY <3>1, <3>2, KeepWanted
      <4> QED BY <3>1, <4>1, <4>2
    <3>3. CASE e \notin S
      BY <3>1, <3>3, KeepUnwanted
    <3> QED BY <3>2, <3>3
  <2> QED BY <2>1, <2>2
<1> HIDE DEF T
<1>3. Seq(A) \subseteq T
  BY <1>1, <1>2, SequencesByInduction
<1> QED BY <1>3 DEF T

LEMMA KeepKeep ==
  ASSUME NEW A, NEW s \in Seq(A), NEW S, NEW U
  PROVE  Keep(Keep(s, S), U) = Keep(s, S \cap U)
<1> DEFINE T == {q \in Seq(A) : Keep(Keep(q, S), U) = Keep(q, S \cap U)}
<1>1. <<>> \in T
  BY KeepEmpty, EmptySeq
<1>2. ASSUME NEW q \in Seq(A), NEW e \in A, q \in T PROVE Append(q, e) \in T
  <2>1. Append(q, e) \in Seq(A) /\ Keep(q, S) \in Seq(A)
    BY KeepIsSeq, AppendProperties
  <2>2. CASE e \in S /\ e \in U
    <3>1. Keep(Append(q, e), S) = Append(Keep(q, S), e)
      BY <2>2, KeepWanted
    <3>2. Keep(Append(Keep(q, S), e), U) = Append(Keep(Keep(q, S), U), e)
      BY <2>1, <2>2, KeepWanted
    <3>3. Keep(Append(q, e), S \cap U) = Append(Keep(q, S \cap U), e)
      BY <2>2, KeepWanted
    <3> QED BY <1>2, <2>1, <3>1, <3>2, <3>3
  <2>3. CASE e \in S /\ e \notin U
    <3>1. Keep(Append(q, e), S) = Append(Keep(q, S), e)
      BY <2>3, KeepWanted
    <3>2. Keep(Append(Keep(q, S), e), U) = Keep(Keep(q, S), U)
      BY <2>1, <2>3, KeepUnwanted
    <3>3. Keep(Append(q, e), S \cap U) = Keep(q, S \cap U)
      BY <2>3, KeepUnwanted
    <3> QED BY <1>2, <2>1, <3>1, <3>2, <3>3
  <2>4. CASE e \notin S
    <3>1. Keep(Append(q, e), S) = Keep(q, S)
      BY <2>4, KeepUnwanted
    <3>2. Keep(Append(q, e), S \cap U) = Keep(q, S \cap U)
      BY <2>4, KeepUnwanted
    <3> QED BY <1>2, <2>1, <3>1, <3>2
  <2> QED BY <2>2, <2>3, <2>4
<1> HIDE DEF T
<1>3. Seq(A) \subseteq T
  BY <1>1, <1>2, SequencesByInduction
<1> QED BY <1>3 DEF T

LEMMA KeepLen ==
  ASSUME NEW A, NEW s \in Seq(A), NEW S
  PROVE  Len(Keep(s, S)) <= Len(s)
<1> DEFINE T == {q \in Seq(A) : Len(Keep(q, S)) <= Len(q)}
<1>1. <<>> \in T
  BY KeepEmpty, EmptySeq
<1>2. ASSUME NEW q \in Seq(A), NEW e \in A, q \in T PROVE Append(q, e) \in T
  <2>1. Append(q, e) \in Seq(A) /\ Keep(q, S) \in Seq(A)
    BY KeepIsSeq, AppendProperties
  <2>2. Len(Append(q, e)) = Len(q) + 1 /\ Len(Append(Keep(q, S), e)) = Len(Keep(q, S)) + 1
    BY <2>1, AppendProperties
  <2>3. Len(q) \in Nat /\ Len(Keep(q, S)) \in Nat
    BY <2>1, LenProperties
  <2>4. CASE e \in S
    BY <1>2, <2>1, <2>2, <2>3, <2>4, KeepWanted
  <2>5. CASE e \notin S
    BY <1>2, <2>1, <2>2, <2>3, <2>5, KeepUnwanted
  <2> QED BY <2>4, <2>5
<1> HIDE DEF T
<1>3. Seq(A) \subseteq T
  BY <1>1, <1>2, SequencesByInduction
<1> QED BY <1>3 DEF T

LEMMA KeepMonotone ==
  ASSUME NEW A, NEW s \in Seq(A), NEW S, NEW U, ToSet(s) \cap S \subseteq U
  PROVE  Len(Keep(s, S)) <= Len(Keep(s, U))
<1>1. Keep(Keep(s, U), S) = Keep(s, U \cap S)
  BY KeepKeep
<1>2. ToSet(s) \cap (U \cap S) = ToSet(s) \cap S
  OBVIOUS
<1>3. Keep(s, U \cap S) = Keep(s, S)
  BY <1>2, KeepSame
<1>4. Keep(s, U) \in Seq(A)
  BY KeepIsSeq
<1>5. Len(Keep(Keep(s, U), S)) <= Len(Keep(s, U))
  BY <1>4, KeepLen
<1> QED BY <1>1, <1>3, <1>5

-----------------------------------------------------------------------------
(* Lists without repetitions *)

\* They stay so when something new comes, or something goes; they are as long as their sets.
LEMMA InjectiveAppend ==
  ASSUME NEW A, NEW s \in Seq(A), NEW e \in A
  PROVE  IsInjective(Append(s, e)) <=> IsInjective(s) /\ e \notin ToSet(s)
<1> DEFINE t == Append(s, e)
<1>1. Len(s) \in Nat /\ Len(t) = Len(s) + 1 /\ t[Len(s) + 1] = e /\ \A i \in 1..Len(s) : t[i] = s[i]
  BY LenProperties, AppendProperties
<1>2. DOMAIN s = 1..Len(s) /\ DOMAIN t = 1..Len(t)
  BY LenProperties, AppendProperties
<1> HIDE DEF t
<1>3. ASSUME IsInjective(t) PROVE IsInjective(s) /\ e \notin ToSet(s)
  <2>1. ASSUME NEW i \in DOMAIN s, NEW j \in DOMAIN s, s[i] = s[j] PROVE i = j
    BY <1>1, <1>2, <1>3, <2>1 DEF IsInjective
  <2>2. ASSUME NEW i \in DOMAIN s, s[i] = e PROVE FALSE
    BY <1>1, <1>2, <1>3, <2>2 DEF IsInjective
  <2> QED BY <2>1, <2>2 DEF IsInjective, ToSet
<1>4. ASSUME IsInjective(s), e \notin ToSet(s) PROVE IsInjective(t)
  <2>1. ASSUME NEW i \in DOMAIN t, NEW j \in DOMAIN t, t[i] = t[j] PROVE i = j
    <3>1. CASE i \in DOMAIN s /\ j \in DOMAIN s
      BY <1>1, <1>2, <1>4, <2>1, <3>1 DEF IsInjective
    <3>2. CASE i \notin DOMAIN s \/ j \notin DOMAIN s
      BY <1>1, <1>2, <1>4, <2>1, <3>2 DEF ToSet
    <3> QED BY <3>1, <3>2
  <2> QED BY <2>1 DEF IsInjective
<1> QED BY <1>3, <1>4 DEF t

LEMMA KeepInjective ==
  ASSUME NEW A, NEW s \in Seq(A), NEW S, IsInjective(s)
  PROVE  IsInjective(Keep(s, S))
<1> DEFINE T == {q \in Seq(A) : IsInjective(q) => IsInjective(Keep(q, S))}
<1>1. <<>> \in T
  BY KeepEmpty, EmptySeq
<1>2. ASSUME NEW q \in Seq(A), NEW e \in A, q \in T PROVE Append(q, e) \in T
  <2>1. Append(q, e) \in Seq(A) /\ Keep(q, S) \in Seq(A)
    BY KeepIsSeq, AppendProperties
  <2>2. ASSUME IsInjective(Append(q, e)) PROVE IsInjective(Keep(Append(q, e), S))
    <3>1. IsInjective(Keep(q, S)) /\ e \notin ToSet(q)
      BY <1>2, <2>2, InjectiveAppend
    <3>2. CASE e \in S
      <4>1. e \notin ToSet(Keep(q, S))
        BY <3>1, KeepSet
      <4>2. IsInjective(Append(Keep(q, S), e))
        BY <2>1, <3>1, <4>1, InjectiveAppend
      <4>3. Keep(Append(q, e), S) = Append(Keep(q, S), e)
        BY <3>2, KeepWanted
      <4> QED BY <4>2, <4>3
    <3>3. CASE e \notin S
      BY <3>1, <3>3, KeepUnwanted
    <3> QED BY <3>2, <3>3
  <2> QED BY <2>1, <2>2
<1> HIDE DEF T
<1>3. Seq(A) \subseteq T
  BY <1>1, <1>2, SequencesByInduction
<1> QED BY <1>3 DEF T

LEMMA InjectiveLen ==
  ASSUME NEW A, NEW s \in Seq(A)
  PROVE  /\ IsFiniteSet(ToSet(s))
         /\ IsInjective(s) => Cardinality(ToSet(s)) = Len(s)
<1> DEFINE T == {q \in Seq(A) : 
             /\ IsFiniteSet(ToSet(q))
             /\ IsInjective(q) => Cardinality(ToSet(q)) = Len(q)}
<1>1. <<>> \in T
  <2>1. ToSet(<<>>) = {}
    BY EmptySeq DEF ToSet
  <2> QED BY <2>1, EmptySeq, FS_EmptySet
<1>2. ASSUME NEW q \in Seq(A), NEW e \in A, q \in T PROVE Append(q, e) \in T
  <2>1. Append(q, e) \in Seq(A) /\ ToSet(Append(q, e)) = ToSet(q) \cup {e}
    BY ToSetAppend, AppendProperties
  <2>2. Len(Append(q, e)) = Len(q) + 1
    BY AppendProperties
  <2>3. /\ IsFiniteSet(ToSet(q) \cup {e})
        /\ e \notin ToSet(q) => Cardinality(ToSet(q) \cup {e}) = Cardinality(ToSet(q)) + 1
    BY <1>2, FS_AddElement
  <2>4. IsInjective(Append(q, e)) => IsInjective(q) /\ e \notin ToSet(q)
    BY InjectiveAppend
  <2> QED BY <1>2, <2>1, <2>2, <2>3, <2>4
<1> HIDE DEF T
<1>3. Seq(A) \subseteq T
  BY <1>1, <1>2, SequencesByInduction
<1> QED BY <1>3 DEF T

-----------------------------------------------------------------------------
(* FlattenSeq *)

\* What FlattenSeq has come to after n lists.
IsFlat(flat, seqs, m) ==
  flat = [n \in 1..m |-> IF n = 1 THEN seqs[n] ELSE flat[n - 1] \o seqs[n]]

Flat(seqs) ==
  CHOOSE flat : flat = [n \in 1..Len(seqs) |->
                            IF n = 1 THEN seqs[n] ELSE flat[n - 1] \o seqs[n]]

LEMMA FlatExists ==
  ASSUME NEW seqs
  PROVE  \A m \in Nat : \E flat : IsFlat(flat, seqs, m)
<1> DEFINE T == {m \in Nat : \E flat : IsFlat(flat, seqs, m)}
<1>1. 0 \in T
  <2> DEFINE k == [n \in 1..0 |-> <<>>]
  <2>1. k = [n \in 1..0 |-> IF n = 1 THEN seqs[n] ELSE k[n - 1] \o seqs[n]]
    OBVIOUS
  <2> QED BY <2>1 DEF IsFlat
<1>2. ASSUME NEW m \in Nat, m \in T PROVE m + 1 \in T
  <2>1. PICK flat : IsFlat(flat, seqs, m)
    BY <1>2
  <2> DEFINE e(n) == IF n = 1 THEN seqs[n] ELSE flat[n - 1] \o seqs[n]
             k == [n \in 1..(m + 1) |-> e(n)]
  <2>2. \A n \in 1..m : k[n] = flat[n]
    <3>1. flat = [n \in 1..m |-> e(n)]
      BY <2>1 DEF IsFlat
    <3>2. \A n \in 1..m : k[n] = e(n)
      <4> HIDE DEF e
      <4> QED OBVIOUS
    <3> HIDE DEF e, k
    <3> QED BY <3>1, <3>2
  <2> HIDE DEF k
  <2>3. \A n \in 1..(m+1) : n # 1 => k[n - 1] = flat[n - 1]
    BY <2>2
  <2>4. k = [n \in 1..(m + 1) |-> IF n = 1 THEN seqs[n] ELSE k[n - 1] \o seqs[n]]
    BY <2>3 DEF k
  <2>5. IsFlat(k, seqs, m + 1)
    BY <2>4 DEF IsFlat
  <2> QED BY <2>5
<1> HIDE DEF T
<1>3. Nat \subseteq T
  BY <1>1, <1>2, NaturalsByInduction
<1> QED BY <1>3 DEF T

LEMMA FlatSteps ==
  ASSUME NEW seqs, Len(seqs) \in Nat
  PROVE  /\ \A n \in 1..Len(seqs) :
              Flat(seqs)[n] = IF n = 1 THEN seqs[n] ELSE Flat(seqs)[n - 1] \o seqs[n]
         /\ Len(seqs) # 0 => FlattenSeq(seqs) = Flat(seqs)[Len(seqs)]
         /\ Len(seqs) = 0 => FlattenSeq(seqs) = seqs
<1>1. Len(seqs) # 0 => FlattenSeq(seqs) = Flat(seqs)[Len(seqs)]
  BY DEF FlattenSeq, Flat
<1>2. \E flat : IsFlat(flat, seqs, Len(seqs))
  BY FlatExists
<1>3. IsFlat(Flat(seqs), seqs, Len(seqs))
  BY <1>2 DEF IsFlat, Flat
<1> HIDE DEF Flat
<1> DEFINE F == Flat(seqs)
           e(n) == IF n = 1 THEN seqs[n] ELSE F[n - 1] \o seqs[n]
<1>4. F = [n \in 1..Len(seqs) |-> e(n)]
  BY <1>3 DEF IsFlat
<1>5. \A n \in 1..Len(seqs) : F[n] = e(n)
  <2> HIDE DEF e, F
  <2> QED BY <1>4
<1>6. Len(seqs) = 0 => FlattenSeq(seqs) = seqs
  BY DEF FlattenSeq
<1> QED BY <1>1, <1>5, <1>6

LEMMA FlattenEmpty == FlattenSeq(<<>>) = <<>>
BY FlatSteps, EmptySeq

LEMMA FlattenAppend ==
  ASSUME NEW A, NEW s \in Seq(Seq(A)), NEW e \in Seq(A)
  PROVE  FlattenSeq(Append(s, e)) = FlattenSeq(s) \o e
<1> DEFINE t == Append(s, e)
<1>1. Len(s) \in Nat /\ Len(t) = Len(s) + 1 /\ t[Len(s) + 1] = e /\ \A i \in 1..Len(s) : t[i] = s[i]
  BY LenProperties, AppendProperties
<1>7. Len(t) \in Nat /\ Len(t) # 0
  BY <1>1
<1> HIDE DEF t
<1>4. \A n \in 1..Len(t) : Flat(t)[n] = IF n = 1 THEN t[n] ELSE Flat(t)[n - 1] \o t[n]
  BY <1>7, FlatSteps, Zenon
<1>5. \A n \in 1..Len(s) : Flat(s)[n] = IF n = 1 THEN s[n] ELSE Flat(s)[n - 1] \o s[n]
  BY <1>1, FlatSteps, Zenon
<1>6. FlattenSeq(t) = Flat(t)[Len(t)]
  BY <1>7, FlatSteps, Zenon
<1>2. CASE Len(s) = 0
  <2>1. s = <<>>
    BY <1>2, EmptySeq
  <2>2. FlattenSeq(t) = e
    BY <1>1, <1>2, <1>4, <1>6
  <2>3. <<>> \o e = e
    BY ConcatEmptySeq
  <2> QED BY <2>1, <2>2, <2>3, FlattenEmpty DEF t
<1>3. CASE Len(s) # 0
  <2> DEFINE N == {n \in Nat : n \in 1..Len(s) => Flat(t)[n] = Flat(s)[n]}
  <2>1. 0 \in N
    OBVIOUS
  <2>2. ASSUME NEW n \in Nat, n \in N PROVE n + 1 \in N
    <3> SUFFICES ASSUME n + 1 \in 1..Len(s) PROVE Flat(t)[n + 1] = Flat(s)[n + 1]
      OBVIOUS
    <3>1. n + 1 \in 1..Len(t) /\ (n + 1) - 1 = n /\ t[n + 1] = s[n + 1]
      BY <1>1
    <3>2. CASE n = 0
      BY <1>4, <1>5, <3>1, <3>2
    <3>3. CASE n # 0
      <4>1. Flat(t)[n] = Flat(s)[n] /\ n + 1 # 1
        BY <2>2, <3>3, <1>1
      <4>2. Flat(t)[n + 1] = Flat(t)[n] \o t[n + 1]
        BY <1>4, <3>1, <4>1
      <4>3. Flat(s)[n + 1] = Flat(s)[n] \o s[n + 1]
        BY <1>5, <3>1, <4>1
      <4> QED BY <3>1, <4>1, <4>2, <4>3
    <3> QED BY <3>2, <3>3
  <2> HIDE DEF N
  <2>3. Nat \subseteq N
    BY <2>1, <2>2, NaturalsByInduction
  <2>4. Flat(t)[Len(s)] = Flat(s)[Len(s)]
    BY <1>1, <1>3, <2>3 DEF N
  <2>5. Flat(t)[Len(t)] = Flat(t)[Len(s)] \o e
    <3>1. Len(t) \in 1..Len(t) /\ Len(t) # 1 /\ Len(t) - 1 = Len(s) /\ t[Len(t)] = e
      BY <1>1, <1>3
    <3> QED BY <1>4, <3>1
  <2>6. FlattenSeq(s) = Flat(s)[Len(s)]
    BY <1>1, <1>3, FlatSteps
  <2> QED BY <1>6, <2>4, <2>5, <2>6 DEF t
<1> QED BY <1>2, <1>3

\* What is in the flat list is in one of the lists.
LEMMA FlattenIsSeq ==
  ASSUME NEW A, NEW s \in Seq(Seq(A))
  PROVE  FlattenSeq(s) \in Seq(A)
<1> DEFINE T == {q \in Seq(Seq(A)) : FlattenSeq(q) \in Seq(A)}
<1>1. <<>> \in T
  BY FlattenEmpty, EmptySeq
<1>2. ASSUME NEW q \in Seq(Seq(A)), NEW e \in Seq(A), q \in T PROVE Append(q, e) \in T
  <2>1. Append(q, e) \in Seq(Seq(A))
    BY AppendProperties
  <2>2. FlattenSeq(q) \o e \in Seq(A)
    BY <1>2, ConcatProperties
  <2> QED BY <2>1, <2>2, FlattenAppend
<1> HIDE DEF T
<1>3. Seq(Seq(A)) \subseteq T
  BY <1>1, <1>2, SequencesByInduction
<1> QED BY <1>3 DEF T

LEMMA ToSetConcat ==
  ASSUME NEW A, NEW s \in Seq(A), NEW t \in Seq(A)
  PROVE  ToSet(s \o t) = ToSet(s) \cup ToSet(t)
<1> DEFINE u == s \o t
<1>1. /\ Len(s) \in Nat /\ Len(t) \in Nat /\ Len(u) = Len(s) + Len(t)
      /\ \A i \in 1..Len(s) : u[i] = s[i]
      /\ \A i \in 1..Len(t) : u[Len(s) + i] = t[i]
  <2>1. \A i \in 1..(Len(s) + Len(t)) : u[i] = IF i <= Len(s) THEN s[i] ELSE t[i - Len(s)]
    BY ConcatProperties
  <2>2. Len(s) \in Nat /\ Len(t) \in Nat /\ Len(u) = Len(s) + Len(t)
    BY ConcatProperties, LenProperties
  <2> HIDE DEF u
  <2>3. ASSUME NEW i \in 1..Len(t) PROVE u[Len(s) + i] = t[i]
    <3>1. Len(s) + i \in 1..(Len(s) + Len(t)) /\ ~(Len(s) + i <= Len(s)) /\ (Len(s) + i) - Len(s) = i
      BY <2>2
    <3> QED BY <2>1, <3>1
  <2>4. ASSUME NEW i \in 1..Len(s) PROVE u[i] = s[i]
    <3>1. i \in 1..(Len(s) + Len(t)) /\ i <= Len(s)
      BY <2>2
    <3> QED BY <2>1, <3>1
  <2> QED BY <2>2, <2>3, <2>4
<1>2. DOMAIN s = 1..Len(s) /\ DOMAIN t = 1..Len(t) /\ DOMAIN u = 1..Len(u)
  BY LenProperties, ConcatProperties
<1> HIDE DEF u
<1>3. ASSUME NEW i \in 1..Len(u) PROVE u[i] \in ToSet(s) \cup ToSet(t)
  <2>1. CASE i <= Len(s)
    BY <1>1, <1>2, <2>1 DEF ToSet
  <2>2. CASE i > Len(s)
    <3> DEFINE j == i - Len(s)
    <3>2. j \in 1..Len(t) /\ i = Len(s) + j
      BY <1>1, <2>2
    <3>1. i - Len(s) \in 1..Len(t) /\ u[i] = t[i - Len(s)]
      BY <1>1, <3>2
    <3> QED BY <1>2, <3>1 DEF ToSet
  <2> QED BY <1>1, <2>1, <2>2
<1>4. ASSUME NEW i \in 1..Len(t) PROVE t[i] \in ToSet(u)
  <2>1. Len(s) + i \in 1..Len(u)
    BY <1>1
  <2> QED BY <1>1, <1>2, <2>1 DEF ToSet
<1>5. ASSUME NEW i \in 1..Len(s) PROVE s[i] \in ToSet(u)
  BY <1>1, <1>2 DEF ToSet
<1>6. ToSet(u) = ToSet(s) \cup ToSet(t)
  BY <1>2, <1>3, <1>4, <1>5 DEF ToSet
<1> QED BY <1>6 DEF u

LEMMA InFlatten ==
  ASSUME NEW A, NEW s \in Seq(Seq(A)), NEW x
  PROVE  (x \in ToSet(FlattenSeq(s))) <=> (\E i \in DOMAIN s : x \in ToSet(s[i]))

<1> DEFINE In(q) == \E r \in ToSet(q) : x \in ToSet(r)
           T == {q \in Seq(Seq(A)) : x \in ToSet(FlattenSeq(q)) <=> In(q)}
<1>1. <<>> \in T
  <2>1. ToSet(<<>>) = {}
    BY EmptySeq DEF ToSet
  <2> QED BY <2>1, FlattenEmpty, EmptySeq
<1>2. ASSUME NEW q \in Seq(Seq(A)), NEW e \in Seq(A), q \in T PROVE Append(q, e) \in T
  <2>1. Append(q, e) \in Seq(Seq(A)) /\ ToSet(Append(q, e)) = ToSet(q) \cup {e}
    BY AppendProperties, ToSetAppend
  <2>2. FlattenSeq(q) \in Seq(A)
    BY FlattenIsSeq
  <2>3. ToSet(FlattenSeq(q) \o e) = ToSet(FlattenSeq(q)) \cup ToSet(e)
    BY <2>2, ToSetConcat
  <2>4. FlattenSeq(Append(q, e)) = FlattenSeq(q) \o e
    BY FlattenAppend
  <2>5. x \in ToSet(FlattenSeq(q)) <=> In(q)
    BY <1>2
  <2>6. In(Append(q, e)) <=> In(q) \/ x \in ToSet(e)
    BY <2>1
  <2> HIDE DEF In
  <2>7. x \in ToSet(FlattenSeq(Append(q, e))) <=> In(Append(q, e))
    BY <2>3, <2>4, <2>5, <2>6
  <2> QED BY <2>1, <2>7
<1> HIDE DEF T
<1>3. Seq(Seq(A)) \subseteq T
  <2> HIDE DEF In
  <2> QED BY <1>1, <1>2, SequencesByInduction
<1>4. x \in ToSet(FlattenSeq(s)) <=> In(s)
  BY <1>3 DEF T
<1> QED BY <1>4 DEF ToSet

-----------------------------------------------------------------------------
(* Lists as functions, and Distinct *)

\* Lists written down as functions.
LEMMA ListOf ==
  ASSUME NEW A, NEW n \in Nat, NEW f, f \in [1..n -> A]
  PROVE  /\ f \in Seq(A) /\ Len(f) = n /\ DOMAIN f = 1..n
         /\ ToSet(f) = {f[i] : i \in 1..n}
<1>1. f \in Seq(A)
  BY SeqDef
<1>2. Len(f) = n
  BY <1>1, LenProperties
<1> QED BY <1>1, <1>2 DEF ToSet

LEMMA ElementsIn ==
  ASSUME NEW A, NEW s \in Seq(A)
  PROVE  /\ ToSet(s) \subseteq A
         /\ s \in Seq(ToSet(s))
         /\ \A x : x \in ToSet(s) <=> \E i \in 1..Len(s) : s[i] = x
<1>1. Len(s) \in Nat /\ s \in [1..Len(s) -> A] /\ DOMAIN s = 1..Len(s)
  BY LenProperties
<1>2. ToSet(s) \subseteq A
  BY <1>1 DEF ToSet
<1>3. s \in [1..Len(s) -> ToSet(s)]
  BY <1>1 DEF ToSet
<1>4. s \in Seq(ToSet(s))
  BY <1>1, <1>3, ListOf
<1> QED BY <1>1, <1>2, <1>4 DEF ToSet

LEMMA InjectiveConcat ==
  ASSUME NEW A, NEW s \in Seq(A), NEW t \in Seq(A), IsInjective(s), IsInjective(t),
         ToSet(s) \cap ToSet(t) = {}
  PROVE  IsInjective(s \o t)
<1> DEFINE T == {q \in Seq(A) : IsInjective(q) /\ ToSet(s) \cap ToSet(q) = {} => IsInjective(s \o q)}
<1>1. <<>> \in T
  BY EmptySeq, ConcatEmptySeq
<1>2. ASSUME NEW q \in Seq(A), NEW e \in A, q \in T PROVE Append(q, e) \in T
  <2>1. Append(q, e) \in Seq(A) /\ s \o q \in Seq(A)
    BY AppendProperties, ConcatProperties
  <2>2. s \o Append(q, e) = Append(s \o q, e)
    BY ConcatAppend
  <2>3. ToSet(Append(q, e)) = ToSet(q) \cup {e} /\ ToSet(s \o q) = ToSet(s) \cup ToSet(q)
    BY ToSetAppend, ToSetConcat
  <2>4. ASSUME IsInjective(Append(q, e)), ToSet(s) \cap ToSet(Append(q, e)) = {}
        PROVE  IsInjective(s \o Append(q, e))
    <3>1. IsInjective(q) /\ e \notin ToSet(q)
      BY <2>4, InjectiveAppend
    <3>2. IsInjective(s \o q) /\ e \notin ToSet(s \o q)
      BY <1>2, <2>3, <2>4, <3>1
    <3> QED BY <2>1, <2>2, <3>2, InjectiveAppend
  <2> QED BY <2>1, <2>4
<1> HIDE DEF T
<1>3. Seq(A) \subseteq T
  BY <1>1, <1>2, SequencesByInduction
<1> QED BY <1>3 DEF T

\* An element is for the first time somewhere.
LEMMA FirstPlace ==
  ASSUME NEW A, NEW s \in Seq(A), NEW i \in 1..Len(s)
  PROVE  \E j \in 1..Len(s) : s[j] = s[i] /\ \A k \in 1..(j - 1) : s[k] # s[j]
<1> DEFINE T == {j \in Nat : j \in 1..Len(s) /\ s[j] = s[i]}
<1>1. Len(s) \in Nat
  BY LenProperties
<1>2. i \in T
  BY <1>1
<1>3. PICK j \in T : \A k \in T : j <= k
  BY <1>2, LeastNatural
<1>4. \A k \in 1..(j - 1) : k \in Nat /\ k \in 1..Len(s) /\ ~(j <= k)
  BY <1>1, <1>3
<1>5. \A k \in 1..(j - 1) : s[k] # s[j]
  BY <1>3, <1>4
<1> QED BY <1>3, <1>5

LEMMA PlacesOf ==
  ASSUME NEW A, NEW s \in Seq(A)
  PROVE  /\ Places(s) \in Seq(1..Len(s)) /\ ToSet(Places(s)) = 1..Len(s)
         /\ IsInjective(Places(s))
<1>1. Len(s) \in Nat
  BY LenProperties
<1>2. Places(s) \in [1..Len(s) -> 1..Len(s)] /\ \A i \in 1..Len(s) : Places(s)[i] = i
  BY DEF Places
<1>3. /\ Places(s) \in Seq(1..Len(s)) /\ DOMAIN Places(s) = 1..Len(s)
      /\ ToSet(Places(s)) = {Places(s)[i] : i \in 1..Len(s)}
  BY <1>1, <1>2, ListOf
<1> QED BY <1>2, <1>3 DEF IsInjective

\* The elements at some places, all of them different: no two are equal where the
\* places hold different elements, and they are those at the places.
LEMMA AtPlaces ==
  ASSUME NEW A, NEW s \in Seq(A), NEW S,
         \A i, j \in S \cap (1..Len(s)) : s[i] = s[j] => i = j
  PROVE  LET at == At(s, Keep(Places(s), S)) IN
         /\ at \in Seq(A) /\ IsInjective(at) /\ Len(at) = Len(Keep(Places(s), S))
         /\ \A k \in 1..Len(at) : at[k] = s[Keep(Places(s), S)[k]]
         /\ ToSet(at) = {s[i] : i \in S \cap (1..Len(s))}
<1> DEFINE p == Keep(Places(s), S)
           at == At(s, p)
<1>1. p \in Seq(1..Len(s)) /\ IsInjective(p) /\ ToSet(p) = S \cap (1..Len(s))
  BY PlacesOf, KeepIsSeq, KeepInjective, KeepSet
<1>2. Len(p) \in Nat /\ DOMAIN p = 1..Len(p) /\ \A k \in 1..Len(p) : p[k] \in 1..Len(s)
  BY <1>1, LenProperties, ElementOfSeq
<1>3. \A x : x \in S \cap (1..Len(s)) <=> \E k \in 1..Len(p) : p[k] = x
  BY <1>1, ElementsIn
<1> HIDE DEF p
<1>4. at \in [1..Len(p) -> A] /\ \A k \in 1..Len(p) : at[k] = s[p[k]]
  BY <1>2, ElementOfSeq DEF At
<1> HIDE DEF at
<1>5. at \in Seq(A) /\ Len(at) = Len(p) /\ DOMAIN at = 1..Len(p)
  BY <1>2, <1>4, ListOf
<1>6. ASSUME NEW k \in 1..Len(p), NEW l \in 1..Len(p), at[k] = at[l] PROVE k = l
  <2>1. p[k] = p[l]
    BY <1>3, <1>4, <1>6
  <2> QED BY <1>1, <1>2, <2>1 DEF IsInjective
<1>7. IsInjective(at)
  BY <1>5, <1>6 DEF IsInjective
<1>8. ToSet(at) = {s[i] : i \in S \cap (1..Len(s))}
  BY <1>3, <1>4, <1>5 DEF ToSet
<1> QED BY <1>4, <1>5, <1>7, <1>8 DEF p, at

LEMMA DistinctIs ==
  ASSUME NEW A, NEW s \in Seq(A)
  PROVE  Distinct(s) \in Seq(A) /\ IsInjective(Distinct(s)) /\ ToSet(Distinct(s)) = ToSet(s)
<1> DEFINE S == {i \in 1..Len(s) : \A j \in 1..(i - 1) : s[j] # s[i]}
<1>1. Len(s) \in Nat
  BY LenProperties
<1>2. ASSUME NEW i \in S, NEW j \in S, s[i] = s[j] PROVE i = j
  <2>1. ~(i < j) /\ ~(j < i)
    BY <1>1, <1>2
  <2> QED BY <1>1, <2>1
<1>3. {s[i] : i \in S} = ToSet(s)
  <2>1. \A x : x \in ToSet(s) <=> \E i \in 1..Len(s) : s[i] = x
    BY ElementsIn
  <2>2. \A i \in 1..Len(s) : \E j \in S : s[j] = s[i]
    BY FirstPlace
  <2> QED BY <2>1, <2>2
<1>4. S \cap (1..Len(s)) = S /\ Distinct(s) = At(s, Keep(Places(s), S))
  BY DEF Distinct
<1> HIDE DEF S
<1>5. \A i, j \in S \cap (1..Len(s)) : s[i] = s[j] => i = j
  BY <1>2
<1>6. /\ At(s, Keep(Places(s), S)) \in Seq(A) /\ IsInjective(At(s, Keep(Places(s), S)))
      /\ ToSet(At(s, Keep(Places(s), S))) = {s[i] : i \in S \cap (1..Len(s))}
  BY <1>5, AtPlaces
<1> QED BY <1>3, <1>4, <1>6
=============================================================================
