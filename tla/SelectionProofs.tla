--------------------------- MODULE SelectionProofs ---------------------------
(***************************************************************************)
(* What At returns: the elements at the positions picked, all of them, no  *)
(* others, in their order; and when two selections are the same.           *)
(***************************************************************************)
EXTENDS Selection, FiniteSetTheorems, TLAPS

IsSeq(s) == \E S : s \in Seq(S)

LEMMA EmptyIsSeq == IsSeq(<<>>)
<1>1. <<>> \in Seq({})
  OBVIOUS
<1> QED BY <1>1 DEF IsSeq

LEMMA AppendIsSeq == ASSUME NEW s, NEW x, IsSeq(s) PROVE IsSeq(Append(s, x))
<1>1. PICK S : s \in Seq(S)
  BY DEF IsSeq
<1>2. Append(s, x) \in Seq(S \cup {x})
  BY <1>1
<1> QED BY <1>2 DEF IsSeq

LEMMA ConcatIsSeq ==
    ASSUME NEW s, NEW t, IsSeq(s), IsSeq(t)
    PROVE  /\ IsSeq(s \o t) /\ Len(s \o t) = Len(s) + Len(t)
           /\ \A i \in 1..Len(s) : (s \o t)[i] = s[i]
           /\ \A i \in 1..Len(t) : (s \o t)[Len(s) + i] = t[i]
<1>1. PICK S : s \in Seq(S)
  BY DEF IsSeq
<1>2. PICK T : t \in Seq(T)
  BY DEF IsSeq
<1>3. s \in Seq(S \cup T) /\ t \in Seq(S \cup T)
  BY <1>1, <1>2
<1>4. s \o t \in Seq(S \cup T) /\ Len(s \o t) = Len(s) + Len(t)
  BY <1>3
<1>5. \A i \in 1..Len(s) : (s \o t)[i] = s[i]
  BY <1>3
<1>6. \A i \in 1..Len(t) : (s \o t)[Len(s) + i] = t[i]
  BY <1>3
<1> QED BY <1>4, <1>5, <1>6 DEF IsSeq

(* The rank of position i among those of J.                                *)
RankIn(J, i) == Cardinality({k \in J : k <= i})

(* Ranks number the positions of J from 1 on, in their order.              *)
LEMMA Ranks ==
    ASSUME NEW J \in SUBSET Nat, IsFiniteSet(J)
    PROVE  /\ Cardinality(J) \in Nat
           /\ \A i \in J : RankIn(J, i) \in 1..Cardinality(J)
           /\ \A i, k \in J : i < k => RankIn(J, i) < RankIn(J, k)
           /\ \A r \in 1..Cardinality(J) : \E i \in J : RankIn(J, i) = r
<1> DEFINE UpTo(i) == {k \in J : k <= i}
           c == Cardinality(J)
           f == [i \in J |-> RankIn(J, i)]
<1>1. c \in Nat
  BY FS_CardinalityType
<1>2. ASSUME NEW i \in J
      PROVE  UpTo(i) \in SUBSET J /\ IsFiniteSet(UpTo(i)) /\ i \in UpTo(i)
  <2>1. UpTo(i) \in SUBSET J /\ i \in UpTo(i)
    OBVIOUS
  <2> HIDE DEF UpTo
  <2> QED BY <2>1, FS_Subset
<1>3. ASSUME NEW i \in J
      PROVE  RankIn(J, i) \in 1..c /\ RankIn(J, i) = Cardinality(UpTo(i))
  <2>1. RankIn(J, i) = Cardinality(UpTo(i))
    BY DEF RankIn
  <2>2. UpTo(i) \in SUBSET J /\ IsFiniteSet(UpTo(i)) /\ i \in UpTo(i)
    BY <1>2
  <2> HIDE DEF UpTo
  <2>3. Cardinality(UpTo(i)) \in Nat /\ Cardinality(UpTo(i)) <= c
    BY <2>2, FS_Subset, FS_CardinalityType
  <2>4. Cardinality(UpTo(i)) # 0
    BY <2>2, FS_EmptySet
  <2> QED BY <1>1, <2>1, <2>3, <2>4
<1>4. \A i \in J : RankIn(J, i) \in 1..c
  BY <1>3
<1>5. \A i, k \in J : i < k => RankIn(J, i) < RankIn(J, k)
  <2> SUFFICES ASSUME NEW i \in J, NEW k \in J, i < k PROVE RankIn(J, i) < RankIn(J, k)
    OBVIOUS
  <2>1. UpTo(i) \in SUBSET UpTo(k) /\ k \notin UpTo(i)
    <3>1. i \in Nat /\ k \in Nat /\ ~(k <= i)
      OBVIOUS
    <3>2. \A x \in J : x \in Nat /\ (x <= i => x <= k)
      BY <3>1
    <3> QED BY <3>1, <3>2
  <2>2. IsFiniteSet(UpTo(k)) /\ k \in UpTo(k)
    BY <1>2
  <2>3. RankIn(J, i) = Cardinality(UpTo(i)) /\ RankIn(J, k) = Cardinality(UpTo(k))
    BY <1>3
  <2> HIDE DEF UpTo
  <2>4. RankIn(J, i) \in Nat /\ RankIn(J, k) \in Nat
    BY <1>1, <1>4
  <2>5. RankIn(J, i) <= RankIn(J, k) /\ RankIn(J, i) # RankIn(J, k)
    BY <2>1, <2>2, <2>3, FS_Subset
  <2> QED BY <2>4, <2>5
<1>6. f \in Injection(J, 1..c)
  <2>1. f \in [J -> 1..c]
    BY <1>4
  <2>2. ASSUME NEW i \in J, NEW k \in J, f[i] = f[k]
        PROVE  i = k
    <3>1. RankIn(J, i) = RankIn(J, k)
      BY <2>2
    <3> HIDE DEF f
    <3>2. i \in Nat /\ k \in Nat /\ RankIn(J, i) \in Nat
      BY <1>1, <1>4
    <3>3. ~(i < k) /\ ~(k < i)
      BY <1>5, <3>1, <3>2
    <3> QED BY <3>2, <3>3
  <2> HIDE DEF f
  <2> QED BY <2>1, <2>2 DEF Injection, IsInjective
<1>7. IsFiniteSet(1..c) /\ Cardinality(1..c) = c
  BY <1>1, FS_Interval
<1> HIDE DEF f
<1>8. f \in Surjection(J, 1..c)
  BY <1>6, <1>7, FS_Injection
<1>9. ASSUME NEW r \in 1..c
      PROVE  \E i \in J : RankIn(J, i) = r
  <2>1. PICK i \in J : f[i] = r
    BY <1>8 DEF Surjection
  <2> QED BY <2>1 DEF f
<1> QED BY <1>1, <1>4, <1>5, <1>9

Places(s, I) == I \cap 1..Len(s)

(* The element of s at position i is in At(s, I) at i's rank.              *)
Ranked(t, s, P) ==
    /\ IsFiniteSet(P) /\ IsSeq(t) /\ Len(t) \in Nat /\ Len(t) = Cardinality(P)
    /\ \A i \in P : i \in Nat /\ RankIn(P, i) \in Nat /\ RankIn(P, i) \in 1..Len(t)
    /\ \A i \in P : t[RankIn(P, i)] = s[i]
    /\ \A i, k \in P : i < k <=> RankIn(P, i) < RankIn(P, k)
    /\ \A i, k \in P : RankIn(P, i) = RankIn(P, k) => i = k
    /\ \A j \in 1..Len(t) : \E i \in P : RankIn(P, i) = j

LEMMA AtRanks ==
    ASSUME NEW s, NEW I, IsSeq(s)
    PROVE  Ranked(At(s, I), s, Places(s, I))
<1> DEFINE J == I \cap 1..Len(s)
           c == Cardinality(J)
           Pos(j) == CHOOSE i \in J : RankIn(J, i) = j
           Line(j) == s[Pos(j)]
           at == [j \in 1..c |-> Line(j)]
<1>1. Len(s) \in Nat
  BY DEF IsSeq
<1>2. IsFiniteSet(J) /\ J \in SUBSET Nat
  <2>1. IsFiniteSet(1..Len(s))
    BY <1>1, FS_Interval
  <2>2. J \in SUBSET (1..Len(s))
    OBVIOUS
  <2>3. IsFiniteSet(J)
    BY <2>1, <2>2, FS_Subset
  <2> QED BY <1>1, <2>2, <2>3
<1>3. At(s, I) = at
  BY DEF At, RankIn
<1> HIDE DEF J
<1>4. /\ c \in Nat
      /\ \A i \in J : RankIn(J, i) \in 1..c
      /\ \A i, k \in J : i < k => RankIn(J, i) < RankIn(J, k)
      /\ \A r \in 1..c : \E i \in J : RankIn(J, i) = r
  BY <1>2, Ranks
<1> HIDE DEF c
<1>5. \A j \in 1..c : Pos(j) \in J /\ RankIn(J, Pos(j)) = j
  BY <1>4
<1>6. \A i \in J : Pos(RankIn(J, i)) = i
  <2> SUFFICES ASSUME NEW i \in J PROVE Pos(RankIn(J, i)) = i
    OBVIOUS
  <2> DEFINE p == Pos(RankIn(J, i))
  <2>1. RankIn(J, i) \in 1..c
    BY <1>4
  <2>2. p \in J /\ RankIn(J, p) = RankIn(J, i)
    BY <1>5, <2>1
  <2> HIDE DEF p
  <2>3. i \in Nat /\ p \in Nat /\ ~(i < p) /\ ~(p < i)
    BY <1>2, <1>4, <2>1, <2>2
  <2> QED BY <2>3 DEF p
<1> HIDE DEF Pos
<1>8. at \in Seq({Line(j) : j \in 1..c}) /\ Len(at) = c
  BY <1>4
<1>9. \A j \in 1..c : at[j] = s[Pos(j)]
  BY <1>8
<1> HIDE DEF at
<1>10. IsSeq(at)
  BY <1>8 DEF IsSeq
<1>11. \A i \in J : at[RankIn(J, i)] = s[i]
  BY <1>4, <1>6, <1>9
<1>12. \A i \in J : i \in Nat /\ RankIn(J, i) \in Nat
  BY <1>2, <1>4
<1>13. \A i, k \in J : i < k <=> RankIn(J, i) < RankIn(J, k)
  <2> SUFFICES ASSUME NEW i \in J, NEW k \in J PROVE i < k <=> RankIn(J, i) < RankIn(J, k)
    OBVIOUS
  <2>1. i \in Nat /\ k \in Nat /\ RankIn(J, i) \in Nat /\ RankIn(J, k) \in Nat
    BY <1>12
  <2>2. (i < k => RankIn(J, i) < RankIn(J, k)) /\ (k < i => RankIn(J, k) < RankIn(J, i))
    BY <1>4
  <2>3. CASE i = k
    BY <2>1, <2>3
  <2>4. CASE i # k
    BY <2>1, <2>2, <2>4
  <2> QED BY <2>3, <2>4
<1>14. \A i, k \in J : RankIn(J, i) = RankIn(J, k) => i = k
  BY <1>6
<1>15. Ranked(at, s, J)
  BY <1>2, <1>4, <1>8, <1>10, <1>11, <1>12, <1>13, <1>14 DEF Ranked, c
<1> QED BY <1>3, <1>15 DEF J, Places

(* t is the elements of s at the positions in I: all of them, no others,   *)
(* in their order.                                                         *)
Picks(t, s, I) ==
    /\ \A i \in I \cap 1..Len(s) : \E j \in 1..Len(t) : t[j] = s[i]
    /\ \A j \in 1..Len(t) : \E i \in I \cap 1..Len(s) : t[j] = s[i]
    /\ \A j, k \in 1..Len(t) : j < k =>
          \E i, m \in I \cap 1..Len(s) : i < m /\ t[j] = s[i] /\ t[k] = s[m]

LEMMA AtLines ==
    ASSUME NEW s, NEW I, IsSeq(s)
    PROVE  IsSeq(At(s, I)) /\ Picks(At(s, I), s, I)
<1> DEFINE P == Places(s, I)
           t == At(s, I)
<1>1. Ranked(t, s, P)
  BY AtRanks
<1> HIDE DEF P, t
<1>2. \A i \in P : \E j \in 1..Len(t) : t[j] = s[i]
  BY <1>1 DEF Ranked
<1>3. \A j \in 1..Len(t) : \E i \in P : t[j] = s[i]
  BY <1>1 DEF Ranked
<1>4. ASSUME NEW j \in 1..Len(t), NEW k \in 1..Len(t), j < k
      PROVE  \E i, m \in P : i < m /\ t[j] = s[i] /\ t[k] = s[m]
  <2>1. PICK i, m \in P : RankIn(P, i) = j /\ RankIn(P, m) = k
    BY <1>1 DEF Ranked
  <2> QED BY <1>1, <1>4, <2>1 DEF Ranked
<1> QED BY <1>1, <1>2, <1>3, <1>4 DEF P, t, Places, Ranked, Picks

LEMMA SameSeq ==
    ASSUME NEW a, NEW b, IsSeq(a), IsSeq(b), Len(a) = Len(b),
           \A i \in 1..Len(a) : a[i] = b[i]
    PROVE  a = b
<1>1. PICK S, T : a \in Seq(S) /\ b \in Seq(T)
  BY DEF IsSeq
<1> QED BY <1>1

(* At looks at nothing but the elements it picks.                          *)
LEMMA AtSame ==
    ASSUME NEW s, NEW t, IsSeq(s), IsSeq(t), NEW I, NEW K,
           Places(s, I) = Places(t, K), \A i \in Places(s, I) : s[i] = t[i]
    PROVE  At(s, I) = At(t, K)
<1> DEFINE P == Places(s, I)
           a == At(s, I)
           b == At(t, K)
<1>1. Ranked(a, s, P) /\ Ranked(b, t, P)
  BY AtRanks
<1>2. \A i \in P : s[i] = t[i]
  OBVIOUS
<1> HIDE DEF P, a, b
<1>3. \A j \in 1..Len(a) : a[j] = b[j]
  BY <1>1, <1>2 DEF Ranked
<1>4. a = b
  BY <1>1, <1>3, SameSeq DEF Ranked
<1> QED BY <1>4 DEF a, b

LEMMA AtAll ==
    ASSUME NEW s, NEW I, IsSeq(s), 1..Len(s) \subseteq I
    PROVE  At(s, I) = s
<1> DEFINE n == Len(s)
           P == 1..n
           a == At(s, I)
<1>1. Places(s, I) = P /\ n \in Nat
  BY DEF IsSeq, Places
<1>2. Ranked(a, s, P)
  BY <1>1, AtRanks
<1> HIDE DEF a, n
<1>3. Cardinality(P) = n
  BY <1>1, FS_Interval
<1>4. ASSUME NEW i \in P
      PROVE  RankIn(P, i) = i
  <2>1. {k \in P : k <= i} = 1..i /\ i \in Nat
    BY <1>1
  <2>2. Cardinality(1..i) = i
    BY <2>1, FS_Interval
  <2> QED BY <2>1, <2>2 DEF RankIn
<1>5. Len(a) = n /\ \A i \in 1..Len(a) : a[i] = s[i]
  BY <1>2, <1>3, <1>4 DEF Ranked
<1>6. a = s
  BY <1>2, <1>5, SameSeq DEF Ranked, n
<1> QED BY <1>6 DEF a

(* A selection from a selection: v and w say the same of what At(s, I) has *)
(* of s, v by its place there and w by its place in s.                     *)
LEMMA AtAt ==
    ASSUME NEW s, NEW v, NEW w, IsSeq(s), IsSeq(v), IsSeq(w), NEW I, NEW K, NEW L,
           Len(v) = Len(At(s, I)), Places(w, L) \subseteq Places(s, I),
           \A i \in Places(s, I) : RankIn(Places(s, I), i) \in K <=> i \in Places(w, L),
           \A i \in Places(w, L) : v[RankIn(Places(s, I), i)] = w[i]
    PROVE  At(v, K) = At(w, L)
<1> DEFINE P == Places(s, I)
           A == Places(v, K)
           B == Places(w, L)
           t == At(s, I)
           a == At(v, K)
           b == At(w, L)
           f == [i \in B |-> RankIn(P, i)]
<1>1. Ranked(t, s, P) /\ Ranked(a, v, A) /\ Ranked(b, w, B)
  BY AtRanks
<1>2. /\ Len(v) = Len(t) /\ B \subseteq P /\ A = K \cap 1..Len(t)
      /\ \A i \in P : RankIn(P, i) \in K <=> i \in B
      /\ \A i \in B : v[RankIn(P, i)] = w[i]
  BY DEF Places
<1> HIDE DEF a, b, t, A, B, P
<1>3. A \subseteq 1..Len(t) /\ \A i \in P : i \in B <=> RankIn(P, i) \in A
  BY <1>1, <1>2 DEF Ranked
<1>4. \A j \in A : \E i \in B : RankIn(P, i) = j
  BY <1>1, <1>2, <1>3 DEF Ranked
<1>5. \A i, k \in B : RankIn(P, i) = RankIn(P, k) => i = k
  BY <1>1, <1>2 DEF Ranked
<1>6. ASSUME NEW i \in B
      PROVE  RankIn(A, RankIn(P, i)) = RankIn(B, i)
  <2> DEFINE U == {k \in B : k <= i}
             V == {k \in A : k <= RankIn(P, i)}
             g == [k \in U |-> RankIn(P, k)]
  <2>1. \A k \in P : k <= i <=> RankIn(P, k) <= RankIn(P, i)
    <3> SUFFICES ASSUME NEW k \in P PROVE k <= i <=> RankIn(P, k) <= RankIn(P, i)
      OBVIOUS
    <3>1. i \in P
      BY <1>2
    <3>2. /\ i \in Nat /\ k \in Nat /\ RankIn(P, k) \in Nat /\ RankIn(P, i) \in Nat
          /\ i < k <=> RankIn(P, i) < RankIn(P, k)
      BY <1>1, <3>1 DEF Ranked
    <3>3. ASSUME NEW x \in Nat, NEW y \in Nat, NEW p \in Nat, NEW q \in Nat, x < y <=> p < q
          PROVE  y <= x <=> q <= p
      BY <3>3
    <3> HIDE DEF U, V, g
    <3> QED BY <3>2, <3>3
  <2>2. \A k \in U : RankIn(P, k) \in V
    BY <1>2, <1>3, <2>1
  <2>3. \A j \in V : \E k \in U : RankIn(P, k) = j
    BY <1>2, <1>4, <2>1
  <2>4. \A k, m \in U : RankIn(P, k) = RankIn(P, m) => k = m
    BY <1>5
  <2>5. RankIn(B, i) = Cardinality(U) /\ RankIn(A, RankIn(P, i)) = Cardinality(V)
    BY DEF RankIn
  <2>6. IsFiniteSet(U)
    <3>1. U \in SUBSET B /\ IsFiniteSet(B)
      BY <1>1 DEF Ranked
    <3> HIDE DEF U
    <3> QED BY <3>1, FS_Subset
  <2> HIDE DEF U, V
  <2>7. g \in Bijection(U, V)
    BY <2>2, <2>3, <2>4 DEF Bijection, Injection, Surjection, IsInjective
  <2>8. ExistsBijection(U, V)
    BY <2>7 DEF ExistsBijection
  <2> QED BY <2>5, <2>6, <2>8, FS_Bijection
<1>7. Cardinality(A) = Cardinality(B)
  <2>1. \A i \in B : RankIn(P, i) \in A
    BY <1>2, <1>3
  <2>2. f \in Bijection(B, A)
    BY <1>4, <1>5, <2>1 DEF Bijection, Injection, Surjection, IsInjective
  <2>3. ExistsBijection(B, A) /\ IsFiniteSet(B)
    BY <1>1, <2>2 DEF ExistsBijection, Ranked
  <2> QED BY <2>3, FS_Bijection
<1>8. \A j \in 1..Len(b) : a[j] = b[j]
  <2> SUFFICES ASSUME NEW j \in 1..Len(b) PROVE a[j] = b[j]
    OBVIOUS
  <2>1. PICK i \in B : RankIn(B, i) = j
    BY <1>1 DEF Ranked
  <2>2. RankIn(P, i) \in A /\ v[RankIn(P, i)] = w[i]
    BY <1>2, <1>3
  <2>3. a[RankIn(A, RankIn(P, i))] = v[RankIn(P, i)] /\ b[RankIn(B, i)] = w[i]
    BY <1>1, <2>2 DEF Ranked
  <2> QED BY <1>6, <2>1, <2>2, <2>3
<1>9. a = b
  BY <1>1, <1>7, <1>8, SameSeq DEF Ranked
<1> QED BY <1>9 DEF a, b
=============================================================================
