--------------------------- MODULE SettingsProofs ---------------------------
(***************************************************************************)
(* Whatever the bridge and others write, in whatever order, other tools'   *)
(* hooks stay, unpair takes away what pair has put in, and what doctor     *)
(* says of the file is true and what it advises works.                     *)
(***************************************************************************)
EXTENDS Doctor, SelectionProofs

LEMMA AtType ==
    ASSUME NEW S, NEW s \in Seq(S), NEW I
    PROVE  At(s, I) \in Seq(S)
<1> DEFINE t == At(s, I)
<1>1. IsSeq(s)
  BY DEF IsSeq
<1>2. IsSeq(t) /\ Picks(t, s, I)
  BY <1>1, AtLines
<1> HIDE DEF t
<1>3. \A j \in 1..Len(t) : t[j] \in S
  BY <1>2 DEF Picks
<1>4. PICK T : t \in Seq(T)
  BY <1>2 DEF IsSeq
<1>5. t \in Seq(S)
  BY <1>3, <1>4
<1> QED BY <1>5 DEF t

(* One more selection from what Without leaves.                            *)
LEMMA OnlyOfWithout ==
    ASSUME NEW s, IsSeq(s), NEW O, NEW S, S \cap O = {}
    PROVE  Only(Without(s, O), S) = Only(s, S)
<1> DEFINE I == {i \in 1..Len(s) : s[i] \notin O}
           L == {i \in 1..Len(s) : s[i] \in S}
           t == At(s, I)
           K == {j \in 1..Len(t) : t[j] \in S}
           P == Places(s, I)
<1>1. Ranked(t, s, P)
  BY AtRanks
<1>2. P = I /\ Places(s, L) = L
  BY DEF Places
<1>3. L \subseteq P
  BY <1>2
<1>4. Only(Without(s, O), S) = At(t, K) /\ Only(s, S) = At(s, L)
  BY DEF Only, Without
<1>5. \A i \in P : i \in L <=> s[i] \in S
  BY <1>2
<1> HIDE DEF P, I, L, t
<1>6. \A i \in P : RankIn(P, i) \in K <=> i \in L
  BY <1>1, <1>5 DEF Ranked
<1>7. \A i \in L : t[RankIn(P, i)] = s[i]
  BY <1>1, <1>3 DEF Ranked
<1> HIDE DEF K
<1>8. At(t, K) = At(s, L)
  <2>1. IsSeq(t) /\ Len(t) = Len(At(s, I)) /\ Places(s, I) = P
    BY <1>1 DEF Ranked, t, P
  <2> QED BY <1>2, <1>3, <1>6, <1>7, <2>1, AtAt
<1> QED BY <1>4, <1>8

LEMMA WithoutTwice ==
    ASSUME NEW s, IsSeq(s), NEW O
    PROVE  Without(Without(s, O), O) = Without(s, O)
<1> DEFINE I == {i \in 1..Len(s) : s[i] \notin O}
           t == At(s, I)
<1>1. IsSeq(t) /\ Picks(t, s, I)
  BY AtLines
<1>2. Without(s, O) = t
  BY DEF Without
<1>3. \A j \in 1..Len(t) : t[j] \notin O
  BY <1>1 DEF Picks
<1> HIDE DEF t
<1>4. Without(t, O) = At(t, {j \in 1..Len(t) : t[j] \notin O})
  BY DEF Without
<1>5. 1..Len(t) \subseteq {j \in 1..Len(t) : t[j] \notin O}
  BY <1>3
<1>6. At(t, {j \in 1..Len(t) : t[j] \notin O}) = t
  BY <1>1, <1>5, AtAll
<1> QED BY <1>2, <1>4, <1>6

-----------------------------------------------------------------------------
(* One group.                                                              *)

LEMMA NoneIsTheirs ==
    ASSUME NEW path \in Paths
    PROVE  ForeignCommand \cap OwnedBy[path] = {}
BY ForeignAssumption

LEMMA OwnIsKnown ==
    ASSUME NEW path \in StablePaths
    PROVE  /\ path \in Paths /\ CommandOf[path] \in KnownCommands
           /\ CommandOf[path] \in OwnedBy[path] /\ CommandOf[path] \notin ForeignCommand
<1>1. path \in Paths
  BY DEF Paths
<1>2. CommandOf[path] \in OwnedBy[path] /\ CommandOf[path] \notin ForeignCommand
  BY <1>1, OwnAssumption, NoneIsTheirs
<1>3. DOMAIN CommandOf = StablePaths
  BY DEF CommandOf
<1>4. CommandOf[path] \in Range(CommandOf)
  BY <1>3 DEF Range
<1>5. CommandOf[path] \in KnownCommands
  BY <1>4 DEF KnownCommands
<1> QED BY <1>1, <1>2, <1>5

LEMMA GroupParts ==
    ASSUME NEW g \in AnyGroup
    PROVE  /\ g.kind \in {"group", "odd"} /\ g.matcher \in Matchers /\ g.hooks \in Seq(KnownCommands)
           /\ IsSeq(g.hooks)
BY DEF AnyGroup, IsSeq

LEMMA GroupType ==
    ASSUME NEW m \in Matchers, NEW h \in Seq(KnownCommands)
    PROVE  /\ Group(m, h) \in AnyGroup
           /\ Group(m, h).kind = "group" /\ Group(m, h).matcher = m /\ Group(m, h).hooks = h
<1> DEFINE H == Seq(KnownCommands)
<1>2. h \in H
  OBVIOUS
<1> HIDE DEF H
<1>3. [kind |-> "group", matcher |-> m, hooks |-> h] \in
          [kind : {"group", "odd"}, matcher : Matchers, hooks : H]
  BY <1>2
<1> QED BY <1>3 DEF Group, AnyGroup, H

LEMMA FilterType ==
    ASSUME NEW path, NEW g \in AnyGroup
    PROVE  FilterOwnedHooks(path, g) \in AnyGroup /\ Others(path, g) \in Seq(KnownCommands)
<1>1. Others(path, g) \in Seq(KnownCommands)
  BY GroupParts, AtType DEF Others, Without
<1> QED BY <1>1, GroupParts, GroupType DEF FilterOwnedHooks

(* What is left of a group is left of it again, with other tools' commands *)
(* where they were; and a group that goes has none.                        *)
LEMMA Filtered ==
    ASSUME NEW path \in Paths, NEW g \in AnyGroup
    PROVE  LET f == FilterOwnedHooks(path, g)
           IN  /\ FilterOwnedHooks(path, f) = f
               /\ ~DroppedWholeGroup(path, g) => ~DroppedWholeGroup(path, f)
               /\ Theirs(f) = Theirs(g) /\ (HasTheirs(f) <=> HasTheirs(g))
               /\ DroppedWholeGroup(path, g) => ~HasTheirs(g)
<1> DEFINE f == FilterOwnedHooks(path, g)
           o == Others(path, g)
<1>1. IsSeq(g.hooks) /\ o \in Seq(KnownCommands) /\ g.matcher \in Matchers
  BY GroupParts, FilterType
<1>2. o = Without(g.hooks, OwnedBy[path])
  BY DEF Others
<1>3. Without(o, OwnedBy[path]) = o
  BY <1>1, <1>2, WithoutTwice
<1>4. Only(o, ForeignCommand) = Only(g.hooks, ForeignCommand)
  BY <1>1, <1>2, NoneIsTheirs, OnlyOfWithout
<1> HIDE DEF o
<1>5. CASE g.kind = "group" /\ o # g.hooks
  <2>1. f = Group(g.matcher, o)
    BY <1>5 DEF FilterOwnedHooks, o
  <2>2. f.kind = "group" /\ f.matcher = g.matcher /\ f.hooks = o
    BY <2>1 DEF Group
  <2> HIDE DEF f
  <2>3. Others(path, f) = f.hooks
    BY <1>3, <2>2 DEF Others
  <2>4. FilterOwnedHooks(path, f) = f
    BY <2>3 DEF FilterOwnedHooks
  <2>5. Theirs(f) = Theirs(g)
    BY <1>4, <1>5, <2>2 DEF Theirs
  <2>6. HasTheirs(f) <=> HasTheirs(g)
    BY <1>5, <2>2, <2>5 DEF HasTheirs
  <2>7. ~DroppedWholeGroup(path, f)
    BY <2>3 DEF DroppedWholeGroup
  <2>8. DroppedWholeGroup(path, g) => Only(g.hooks, ForeignCommand) = <<>>
    <3>1. SUFFICES ASSUME DroppedWholeGroup(path, g) PROVE Only(<<>>, ForeignCommand) = <<>>
      BY <1>4, <3>1 DEF DroppedWholeGroup, o
    <3>2. IsSeq(<<>>) /\ Len(<<>>) = 0
      BY EmptyIsSeq
    <3> QED BY <3>2, AtAll DEF Only
  <2>9. g.kind = "group" => Theirs(g).hooks = Only(g.hooks, ForeignCommand)
    BY DEF Theirs, Group
  <2> QED BY <1>5, <2>4, <2>5, <2>6, <2>7, <2>8, <2>9 DEF f, HasTheirs
<1>6. CASE ~(g.kind = "group" /\ o # g.hooks)
  <2>1. f = g
    BY <1>6 DEF FilterOwnedHooks, o
  <2>2. ~DroppedWholeGroup(path, g)
    BY <1>6 DEF DroppedWholeGroup, o
  <2> QED BY <2>1, <2>2
<1> QED BY <1>5, <1>6

-----------------------------------------------------------------------------
(* The groups of one event.                                                *)

LEMMA AtNone ==
    ASSUME NEW s, NEW I, IsSeq(s), I \cap 1..Len(s) = {}
    PROVE  At(s, I) = <<>>
<1> DEFINE e == <<>>
           O == {}
<1>1. IsSeq(e) /\ Len(e) = 0 /\ 1..0 = {}
  BY EmptyIsSeq
<1>2. Places(s, I) = {} /\ Places(e, O) = {} /\ 1..Len(e) \subseteq O
  BY <1>1 DEF Places
<1> HIDE DEF e, O
<1>3. Places(s, I) = Places(e, O) /\ \A i \in Places(s, I) : s[i] = e[i]
  BY <1>2
<1>4. At(s, I) = At(e, O)
  BY <1>1, <1>3, AtSame
<1>5. At(e, O) = e
  BY <1>1, <1>2, AtAll
<1> QED BY <1>4, <1>5 DEF e

LEMMA OfAny ==
    ASSUME NEW S, NEW s \in Seq(S)
    PROVE  IsSeq(s) /\ Len(s) \in Nat /\ \A i \in 1..Len(s) : s[i] \in S
BY DEF IsSeq

LEMMA TheirsType == ASSUME NEW g \in AnyGroup PROVE Theirs(g) \in AnyGroup
<1>1. Only(g.hooks, ForeignCommand) \in Seq(KnownCommands)
  BY GroupParts, AtType DEF Only
<1> QED BY <1>1, GroupParts, GroupType DEF Theirs

LEMMA MappedTypes ==
    ASSUME NEW path, NEW g \in Seq(AnyGroup)
    PROVE  /\ [i \in 1..Len(g) |-> Theirs(g[i])] \in Seq(AnyGroup)
           /\ [i \in 1..Len(g) |-> FilterOwnedHooks(path, g[i])] \in Seq(AnyGroup)
<1>1. Len(g) \in Nat /\ \A i \in 1..Len(g) : g[i] \in AnyGroup
  BY OfAny
<1>2. \A i \in 1..Len(g) : Theirs(g[i]) \in AnyGroup /\ FilterOwnedHooks(path, g[i]) \in AnyGroup
  BY <1>1, TheirsType, FilterType
<1> QED BY <1>1, <1>2

LEMMA KeptType ==
    ASSUME NEW path, NEW g \in Seq(AnyGroup)
    PROVE  Kept(path, g) \in Seq(AnyGroup)
BY MappedTypes, AtType DEF Kept

LEMMA ForeignOfMore ==
    ASSUME NEW a \in Seq(AnyGroup), NEW b \in Seq(AnyGroup),
           \A i \in 1..Len(b) : ~HasTheirs(b[i])
    PROVE  ForeignIn(a \o b) = ForeignIn(a)
<1> DEFINE c == a \o b
           v == [i \in 1..Len(c) |-> Theirs(c[i])]
           w == [i \in 1..Len(a) |-> Theirs(a[i])]
           K == {i \in 1..Len(c) : HasTheirs(c[i])}
           L == {i \in 1..Len(a) : HasTheirs(a[i])}
<1>1. c \in Seq(AnyGroup) /\ IsSeq(a) /\ IsSeq(b) /\ Len(a) \in Nat /\ Len(b) \in Nat
  BY OfAny
<1>2. /\ Len(c) = Len(a) + Len(b)
      /\ \A i \in 1..Len(a) : c[i] = a[i]
      /\ \A i \in 1..Len(b) : c[Len(a) + i] = b[i]
  BY <1>1, ConcatIsSeq
<1>3. /\ v \in Seq(AnyGroup) /\ w \in Seq(AnyGroup)
  BY <1>1, MappedTypes
<1>4. ForeignIn(c) = At(v, K) /\ ForeignIn(a) = At(w, L)
  BY DEF ForeignIn
<1> HIDE DEF c
<1>5. Len(v) = Len(c) /\ Len(w) = Len(a)
  BY <1>1, <1>2
<1>6. K = L
  <2>1. \A i \in K : i \in L
    <3> SUFFICES ASSUME NEW i \in 1..Len(c), HasTheirs(c[i]) PROVE i \in L
      OBVIOUS
    <3>1. CASE i <= Len(a)
      BY <1>1, <1>2, <3>1
    <3>2. CASE ~(i <= Len(a))
      <4>1. i - Len(a) \in 1..Len(b) /\ Len(a) + (i - Len(a)) = i
        BY <1>1, <1>2, <3>2
      <4>2. c[i] = b[i - Len(a)]
        BY <1>2, <4>1
      <4> QED BY <4>1, <4>2
    <3> QED BY <3>1, <3>2
  <2>2. \A i \in L : i \in K
    BY <1>1, <1>2
  <2> QED BY <2>1, <2>2
<1>7. \A i \in L : v[i] = w[i]
  <2> SUFFICES ASSUME NEW i \in L PROVE v[i] = w[i]
    OBVIOUS
  <2>1. i \in 1..Len(a) /\ i \in 1..Len(c) /\ c[i] = a[i]
    BY <1>1, <1>2
  <2> QED BY <2>1
<1>8. Places(v, K) = K /\ Places(w, L) = L
  BY <1>5 DEF Places
<1>9. IsSeq(v) /\ IsSeq(w)
  BY <1>3, OfAny
<1> HIDE DEF v, w, K, L
<1>10. At(v, K) = At(w, L)
  BY <1>6, <1>7, <1>8, <1>9, AtSame
<1> QED BY <1>4, <1>10 DEF c

LEMMA ForeignOfKept ==
    ASSUME NEW path \in Paths, NEW g \in Seq(AnyGroup)
    PROVE  ForeignIn(Kept(path, g)) = ForeignIn(g)
<1> DEFINE s == [i \in 1..Len(g) |-> FilterOwnedHooks(path, g[i])]
           I == {i \in 1..Len(g) : ~DroppedWholeGroup(path, g[i])}
           t == At(s, I)
           v == [j \in 1..Len(t) |-> Theirs(t[j])]
           K == {j \in 1..Len(t) : HasTheirs(t[j])}
           w == [i \in 1..Len(g) |-> Theirs(g[i])]
           L == {i \in 1..Len(g) : HasTheirs(g[i])}
           P == Places(s, I)
<1>1. /\ Len(g) \in Nat /\ \A i \in 1..Len(g) : g[i] \in AnyGroup
  BY OfAny
<1>2. s \in Seq(AnyGroup) /\ w \in Seq(AnyGroup) /\ t \in Seq(AnyGroup)
  BY MappedTypes, AtType
<1>3. Len(s) = Len(g) /\ Len(w) = Len(g) /\ P = I /\ Places(w, L) = L
  BY <1>1 DEF Places
<1>4. Kept(path, g) = t /\ ForeignIn(t) = At(v, K) /\ ForeignIn(g) = At(w, L)
  BY DEF Kept, ForeignIn
<1>5. Ranked(t, s, P)
  BY <1>2, OfAny, AtRanks
<1> HIDE DEF t
<1>6. v \in Seq(AnyGroup) /\ Len(v) = Len(t)
  <2>1. v \in Seq(AnyGroup)
    BY <1>2, MappedTypes
  <2>2. Len(t) \in Nat
    BY <1>2, OfAny
  <2> QED BY <2>1, <2>2
<1>7. ASSUME NEW i \in 1..Len(g)
      PROVE  /\ Theirs(s[i]) = w[i] /\ (HasTheirs(s[i]) <=> i \in L)
             /\ i \in L => i \in I
  BY <1>1, Filtered
<1>8. L \subseteq P
  BY <1>3, <1>7
<1>9. ASSUME NEW i \in P
      PROVE  /\ RankIn(P, i) \in K <=> i \in L
             /\ v[RankIn(P, i)] = w[i]
  <2>1. i \in 1..Len(g) /\ RankIn(P, i) \in 1..Len(t) /\ t[RankIn(P, i)] = s[i]
    BY <1>3, <1>5, <1>9 DEF Ranked
  <2>2. v[RankIn(P, i)] = Theirs(s[i])
    BY <2>1
  <2>3. RankIn(P, i) \in K <=> HasTheirs(s[i])
    BY <2>1
  <2> QED BY <1>7, <2>1, <2>2, <2>3
<1>10. IsSeq(s) /\ IsSeq(v) /\ IsSeq(w) /\ Len(v) = Len(At(s, I))
  BY <1>2, <1>6, OfAny DEF t
<1> HIDE DEF s, I, v, K, w, L
<1>11. At(v, K) = At(w, L)
  BY <1>3, <1>8, <1>9, <1>10, AtAt DEF P
<1> QED BY <1>4, <1>11

(* Nothing of what is wanted is left by the next merge.                    *)
LEMMA KeptOfKept ==
    ASSUME NEW path \in Paths, NEW g \in Seq(AnyGroup), NEW more \in Seq(AnyGroup),
           \A i \in 1..Len(more) : DroppedWholeGroup(path, more[i])
    PROVE  Kept(path, Kept(path, g) \o more) = Kept(path, g)
<1> DEFINE s == [i \in 1..Len(g) |-> FilterOwnedHooks(path, g[i])]
           I == {i \in 1..Len(g) : ~DroppedWholeGroup(path, g[i])}
           t == Kept(path, g)
           c == t \o more
           u == [j \in 1..Len(c) |-> FilterOwnedHooks(path, c[j])]
           K == {j \in 1..Len(c) : ~DroppedWholeGroup(path, c[j])}
<1>1. Len(g) \in Nat /\ \A i \in 1..Len(g) : g[i] \in AnyGroup
  BY OfAny
<1>2. s \in Seq(AnyGroup) /\ t \in Seq(AnyGroup) /\ Len(s) = Len(g)
  <2>1. s \in Seq(AnyGroup)
    BY MappedTypes
  <2>2. t \in Seq(AnyGroup)
    BY KeptType
  <2>3. Len(s) = Len(g)
    BY <1>1
  <2> QED BY <2>1, <2>2, <2>3
<1>3. t = At(s, I) /\ Kept(path, c) = At(u, K)
  BY DEF Kept
<1>4. IsSeq(t) /\ Picks(t, s, I)
  <2>1. IsSeq(s)
    BY <1>2, OfAny
  <2> HIDE DEF s, I, t
  <2> QED BY <1>3, <2>1, AtLines
<1> HIDE DEF t
<1>5. ASSUME NEW j \in 1..Len(t)
      PROVE  FilterOwnedHooks(path, t[j]) = t[j] /\ ~DroppedWholeGroup(path, t[j])
  <2>1. PICK i \in I : t[j] = s[i]
    BY <1>4, <1>5 DEF Picks
  <2> QED BY <1>1, <2>1, Filtered
<1> HIDE DEF s, I
<1>6. c \in Seq(AnyGroup) /\ IsSeq(more) /\ Len(t) \in Nat /\ Len(more) \in Nat
  BY <1>2, OfAny
<1>7. /\ Len(c) = Len(t) + Len(more)
      /\ \A j \in 1..Len(t) : c[j] = t[j]
      /\ \A j \in 1..Len(more) : c[Len(t) + j] = more[j]
  BY <1>4, <1>6, ConcatIsSeq
<1>8. u \in Seq(AnyGroup)
  BY <1>6, MappedTypes
<1> HIDE DEF c
<1>9. Len(u) = Len(c)
  BY <1>6, <1>7
<1>10. K = 1..Len(t)
  <2>1. ASSUME NEW j \in K
        PROVE  j \in 1..Len(t)
    <3>1. j \in 1..Len(c) /\ ~DroppedWholeGroup(path, c[j])
      OBVIOUS
    <3>2. CASE ~(j <= Len(t))
      <4>1. j - Len(t) \in 1..Len(more) /\ Len(t) + (j - Len(t)) = j
        BY <1>6, <1>7, <3>1, <3>2
      <4>2. c[j] = more[j - Len(t)]
        BY <1>7, <4>1
      <4> QED BY <3>1, <4>1, <4>2
    <3>3. CASE j <= Len(t)
      BY <1>6, <1>7, <3>1, <3>3
    <3> QED BY <3>2, <3>3
  <2>2. ASSUME NEW j \in 1..Len(t)
        PROVE  j \in K
    <3>1. j \in 1..Len(c) /\ c[j] = t[j]
      BY <1>6, <1>7
    <3> QED BY <1>5, <3>1
  <2> QED BY <2>1, <2>2
<1>11. \A j \in 1..Len(t) : u[j] = t[j]
  <2> SUFFICES ASSUME NEW j \in 1..Len(t) PROVE u[j] = t[j]
    OBVIOUS
  <2>1. j \in 1..Len(c) /\ c[j] = t[j]
    BY <1>6, <1>7
  <2> QED BY <1>5, <2>1
<1>12. IsSeq(u) /\ Places(u, K) = 1..Len(t) /\ Places(t, 1..Len(t)) = 1..Len(t)
  <2>1. IsSeq(u)
    BY <1>8, OfAny
  <2>2. 1..Len(t) \subseteq 1..Len(u)
    BY <1>6, <1>7, <1>9
  <2> HIDE DEF u, K
  <2> QED BY <1>10, <2>1, <2>2 DEF Places
<1> HIDE DEF u, K
<1>13. At(u, K) = At(t, 1..Len(t))
  BY <1>4, <1>11, <1>12, AtSame
<1>14. At(t, 1..Len(t)) = t
  BY <1>4, AtAll
<1> QED BY <1>3, <1>13, <1>14 DEF c, t

(* What the bridge adds is not theirs, and goes with the next merge.       *)
LEMMA FreshIsOurs ==
    ASSUME NEW path \in StablePaths
    PROVE  /\ Fresh(path) \in Seq(AnyGroup) /\ Len(Fresh(path)) = 1
           /\ \A i \in 1..Len(Fresh(path)) :
                 /\ ~HasTheirs(Fresh(path)[i])
                 /\ DroppedWholeGroup(path, Fresh(path)[i])
<1> DEFINE x == CommandOf[path]
           h == <<x>>
           m == AnyTool
           g == Group(m, h)
<1>1. x \in KnownCommands /\ x \in OwnedBy[path]
  BY OwnIsKnown
<1>2. x \notin ForeignCommand
  BY OwnIsKnown
<1> HIDE DEF x
<1>3. h \in Seq(KnownCommands) /\ Len(h) = 1 /\ h[1] = x /\ h # <<>> /\ IsSeq(h)
  <2>1. h \in Seq(KnownCommands) /\ Len(h) = 1 /\ h[1] = x /\ h # <<>>
    BY <1>1
  <2> QED BY <2>1 DEF IsSeq
<1>4. Only(h, ForeignCommand) = <<>>
  <2>1. {i \in 1..Len(h) : h[i] \in ForeignCommand} \cap 1..Len(h) = {}
    BY <1>2, <1>3
  <2> HIDE DEF h
  <2> QED BY <1>3, <2>1, AtNone DEF Only
<1>5. Without(h, OwnedBy[path]) = <<>>
  <2>1. {i \in 1..Len(h) : h[i] \notin OwnedBy[path]} \cap 1..Len(h) = {}
    BY <1>1, <1>3
  <2> HIDE DEF h
  <2> QED BY <1>3, <2>1, AtNone DEF Without
<1>6. m \in Matchers
  BY MatchersAssumption
<1>8. Fresh(path) = <<g>>
  BY DEF Fresh, x
<1> HIDE DEF h, m
<1>7. g \in AnyGroup /\ g.kind = "group" /\ g.hooks = h
  BY <1>3, <1>6, GroupType
<1> HIDE DEF g
<1>9. ~HasTheirs(g)
  <2>1. Theirs(g) = Group(g.matcher, Only(h, ForeignCommand))
    BY <1>7 DEF Theirs
  <2>2. Theirs(g).hooks = <<>>
    BY <1>4, <2>1 DEF Group
  <2> QED BY <1>7, <2>2 DEF HasTheirs
<1>10. DroppedWholeGroup(path, g)
  BY <1>3, <1>5, <1>7 DEF DroppedWholeGroup, Others
<1> QED BY <1>7, <1>8, <1>9, <1>10 DEF x

(* Groups with nothing of theirs, as the bridge adds them or none.         *)
NotTheirs(w) == w \in Seq(AnyGroup) /\ \A i \in 1..Len(w) : ~HasTheirs(w[i])

LEMMA FreshNotTheirs == ASSUME NEW path \in StablePaths PROVE NotTheirs(Fresh(path))
BY FreshIsOurs DEF NotTheirs

LEMMA NoneNotTheirs == NotTheirs(<<>>)
<1> DEFINE e == <<>>
<1>1. e \in Seq(AnyGroup) /\ Len(e) = 0
  OBVIOUS
<1> HIDE DEF e
<1>2. NotTheirs(e)
  BY <1>1 DEF NotTheirs
<1> QED BY <1>2 DEF e

LEMMA NothingTheirs == ASSUME NEW w, NotTheirs(w) PROVE ForeignIn(w) = <<>>
<1> DEFINE v == [i \in 1..Len(w) |-> Theirs(w[i])]
           K == {i \in 1..Len(w) : HasTheirs(w[i])}
<1>1. ForeignIn(w) = At(v, K)
  BY DEF ForeignIn
<1>2. v \in Seq(AnyGroup) /\ K = {}
  BY MappedTypes DEF NotTheirs
<1>3. IsSeq(v)
  BY <1>2, OfAny
<1> HIDE DEF v, K
<1>4. K \cap 1..Len(v) = {}
  BY <1>2
<1> QED BY <1>1, <1>3, <1>4, AtNone

LEMMA ForeignOfMerged ==
    ASSUME NEW path \in Paths, NEW g \in Seq(AnyGroup), NEW w, NotTheirs(w)
    PROVE  /\ Kept(path, g) \o w \in Seq(AnyGroup)
           /\ ForeignIn(Kept(path, g) \o w) = ForeignIn(g)
<1>1. Kept(path, g) \in Seq(AnyGroup)
  BY KeptType
<1>2. w \in Seq(AnyGroup) /\ \A i \in 1..Len(w) : ~HasTheirs(w[i])
  BY DEF NotTheirs
<1> DEFINE k == Kept(path, g)
<1> HIDE DEF k
<1>3. k \in Seq(AnyGroup)
  BY <1>1 DEF k
<1>4. k \o w \in Seq(AnyGroup)
  BY <1>2, <1>3
<1>5. ForeignIn(k \o w) = ForeignIn(k)
  BY <1>2, <1>3, ForeignOfMore
<1> QED BY <1>4, <1>5, ForeignOfKept DEF k

-----------------------------------------------------------------------------
(* The events.                                                             *)

LEMMA EventParts ==
    ASSUME NEW e \in AnyEvent
    PROVE  e.name \in STRING /\ e.isArray \in BOOLEAN /\ e.groups \in Seq(AnyGroup)
BY DEF AnyEvent

LEMMA EventType ==
    ASSUME NEW n \in STRING, NEW g \in Seq(AnyGroup)
    PROVE  /\ Event(n, g) \in AnyEvent
           /\ Event(n, g).name = n /\ Event(n, g).groups = g /\ Event(n, g).isArray = TRUE
<1> DEFINE G == Seq(AnyGroup)
<1>1. g \in G
  OBVIOUS
<1> HIDE DEF G
<1>2. [name |-> n, isArray |-> TRUE, groups |-> g] \in [name : STRING, isArray : BOOLEAN, groups : G]
  BY <1>1
<1> QED BY <1>2 DEF Event, AnyEvent, G

LEMMA MergedEvent ==
    ASSUME NEW path \in Paths, NEW e \in AnyEvent, NEW names, NEW w, NotTheirs(w)
    PROVE  /\ MergeEvent(path, e, names, w) \in AnyEvent
           /\ MergeEvent(path, e, names, w).name = e.name
           /\ ForeignIn(MergeEvent(path, e, names, w).groups) = ForeignIn(e.groups)
<1> DEFINE k == Kept(path, e.groups) \o w
<1>1. e.name \in STRING /\ e.groups \in Seq(AnyGroup)
  BY EventParts
<1>2. k \in Seq(AnyGroup) /\ ForeignIn(k) = ForeignIn(e.groups)
  BY <1>1, ForeignOfMerged
<1>3. CASE e.name \in names
  <2>1. MergeEvent(path, e, names, w) = Event(e.name, k)
    BY <1>3 DEF MergeEvent
  <2> DEFINE x == MergeEvent(path, e, names, w)
  <2> HIDE DEF k, x
  <2>2. /\ Event(e.name, k) \in AnyEvent
        /\ Event(e.name, k).name = e.name /\ Event(e.name, k).groups = k
    BY <1>1, <1>2, EventType
  <2>3. x \in AnyEvent /\ x.name = e.name /\ x.groups = k
    BY <2>1, <2>2 DEF x
  <2> QED BY <1>2, <2>3 DEF x
<1>4. CASE e.name \notin names
  BY <1>4 DEF MergeEvent
<1> QED BY <1>3, <1>4

LEMMA NoGroups == ForeignIn(<<>>) = <<>>
<1> DEFINE e == <<>>
<1>1. e \in Seq(AnyGroup) /\ Len(e) = 0
  OBVIOUS
<1> HIDE DEF e
<1>2. NotTheirs(e)
  BY <1>1 DEF NotTheirs
<1>3. ForeignIn(e) = <<>>
  BY <1>2, NothingTheirs
<1> QED BY <1>3 DEF e

(* Every event of merged has the name and other tools' hooks it had.       *)
LEMMA ForeignOfMergedEvents ==
    ASSUME NEW path \in Paths, NEW h \in Seq(AnyEvent), NEW names, NEW w, NotTheirs(w)
    PROVE  /\ MergeEvents(path, h, names, w) \in Seq(AnyEvent)
           /\ ForeignHooks(MergeEvents(path, h, names, w)) = ForeignHooks(h)
<1> DEFINE m == [i \in 1..Len(h) |-> MergeEvent(path, h[i], names, w)]
           I == {i \in 1..Len(h) : Stays(m[i], names)}
           t == At(m, I)
<1>1. Len(h) \in Nat /\ \A i \in 1..Len(h) : h[i] \in AnyEvent
  BY OfAny
<1>2. ASSUME NEW i \in 1..Len(h)
      PROVE  /\ m[i] \in AnyEvent /\ m[i].name = h[i].name
             /\ ForeignIn(m[i].groups) = ForeignIn(h[i].groups)
  <2>1. m[i] = MergeEvent(path, h[i], names, w)
    OBVIOUS
  <2> HIDE DEF m
  <2> QED BY <1>1, <2>1, MergedEvent
<1>3. m \in Seq(AnyEvent) /\ Len(m) = Len(h)
  BY <1>1, <1>2
<1>4. MergeEvents(path, h, names, w) = t
  BY DEF MergeEvents
<1>5. ASSUME NEW i \in 1..Len(h), ForeignIn(h[i].groups) # <<>>
      PROVE  i \in I
  <2>1. m[i].groups # <<>>
    BY <1>2, <1>5, NoGroups
  <2> HIDE DEF m
  <2> QED BY <2>1 DEF Stays
<1> HIDE DEF m, I, t
<1>6. t \in Seq(AnyEvent)
  BY <1>3, AtType DEF t
<1>7. Picks(t, m, I)
  BY <1>3, OfAny, AtLines DEF t
<1>8. \A j \in 1..Len(t) : \E i \in 1..Len(h) :
          t[j].name = h[i].name /\ ForeignIn(t[j].groups) = ForeignIn(h[i].groups)
  <2> SUFFICES ASSUME NEW j \in 1..Len(t)
               PROVE  \E i \in 1..Len(h) : /\ t[j].name = h[i].name
                                           /\ ForeignIn(t[j].groups) = ForeignIn(h[i].groups)
    OBVIOUS
  <2>1. PICK i \in I \cap 1..Len(m) : t[j] = m[i]
    BY <1>7 DEF Picks
  <2>2. i \in 1..Len(h)
    BY <1>3
  <2> QED BY <1>2, <2>1, <2>2
<1>9. \A i \in 1..Len(h) : ForeignIn(h[i].groups) # <<>> =>
          \E j \in 1..Len(t) :
              t[j].name = h[i].name /\ ForeignIn(t[j].groups) = ForeignIn(h[i].groups)
  <2> SUFFICES ASSUME NEW i \in 1..Len(h), ForeignIn(h[i].groups) # <<>>
               PROVE  \E j \in 1..Len(t) : /\ t[j].name = h[i].name
                                           /\ ForeignIn(t[j].groups) = ForeignIn(h[i].groups)
    OBVIOUS
  <2>1. i \in I \cap 1..Len(m)
    BY <1>3, <1>5
  <2>2. PICK j \in 1..Len(t) : t[j] = m[i]
    BY <1>7, <2>1 DEF Picks
  <2> QED BY <1>2, <2>2
<1>10. ForeignHooks(t) = ForeignHooks(h)
  <2>1. ASSUME NEW x \in ForeignHooks(t) PROVE x \in ForeignHooks(h)
    BY <1>8 DEF ForeignHooks
  <2>2. ASSUME NEW x \in ForeignHooks(h) PROVE x \in ForeignHooks(t)
    BY <1>9 DEF ForeignHooks
  <2> QED BY <2>1, <2>2
<1> QED BY <1>4, <1>6, <1>10

LEMMA ForeignOfMoreEvents ==
    ASSUME NEW a \in Seq(AnyEvent), NEW b \in Seq(AnyEvent),
           \A i \in 1..Len(b) : ForeignIn(b[i].groups) = <<>>
    PROVE  ForeignHooks(a \o b) = ForeignHooks(a)
<1> DEFINE c == a \o b
<1>1. Len(a) \in Nat /\ Len(b) \in Nat /\ IsSeq(a) /\ IsSeq(b)
  BY OfAny
<1>2. /\ Len(c) = Len(a) + Len(b)
      /\ \A i \in 1..Len(a) : c[i] = a[i]
      /\ \A i \in 1..Len(b) : c[Len(a) + i] = b[i]
  BY <1>1, ConcatIsSeq
<1> HIDE DEF c
<1>3. ASSUME NEW i \in 1..Len(c), ForeignIn(c[i].groups) # <<>>
      PROVE  i \in 1..Len(a) /\ c[i] = a[i]
  <2>1. CASE i <= Len(a)
    BY <1>1, <1>2, <2>1
  <2>2. CASE ~(i <= Len(a))
    <3>1. i - Len(a) \in 1..Len(b) /\ Len(a) + (i - Len(a)) = i
      BY <1>1, <1>2, <2>2
    <3>2. c[i] = b[i - Len(a)]
      BY <1>2, <3>1
    <3> QED BY <1>3, <3>1, <3>2
  <2> QED BY <2>1, <2>2
<1>4. \A i \in 1..Len(a) : i \in 1..Len(c) /\ c[i] = a[i]
  BY <1>1, <1>2
<1>5. ASSUME NEW x \in ForeignHooks(c) PROVE x \in ForeignHooks(a)
  BY <1>3 DEF ForeignHooks
<1>6. ASSUME NEW x \in ForeignHooks(a) PROVE x \in ForeignHooks(c)
  BY <1>4 DEF ForeignHooks
<1> QED BY <1>5, <1>6 DEF c

-----------------------------------------------------------------------------
(* Objects that name no event twice.                                       *)

Distinct(h) == \A i, j \in 1..Len(h) : h[i].name = h[j].name => i = j

LEMMA LastOfIs ==
    ASSUME NEW h \in Seq(AnyEvent), NEW i \in 1..Len(h)
    PROVE  LET m == LastOf(h, h[i].name)
           IN  /\ m \in 1..Len(h) /\ h[m].name = h[i].name
               /\ \A j \in m + 1..Len(h) : h[j].name # h[i].name
<1> DEFINE n == h[i].name
           K == {j \in 1..Len(h) : h[j].name = n}
           c == Cardinality(K)
<1>1. Len(h) \in Nat
  BY OfAny
<1>2. K \in SUBSET Nat /\ IsFiniteSet(K) /\ i \in K
  <2>1. IsFiniteSet(1..Len(h)) /\ K \in SUBSET (1..Len(h)) /\ i \in K
    BY <1>1, FS_Interval
  <2>2. K \in SUBSET Nat
    BY <1>1, <2>1
  <2> HIDE DEF K
  <2>3. IsFiniteSet(K)
    BY <2>1, FS_Subset
  <2> QED BY <2>1, <2>2, <2>3
<1>3. \A m \in K : m \in 1..Len(h) /\ h[m].name = n
  OBVIOUS
<1>4. \A j \in 1..Len(h) : h[j].name = n => j \in K
  OBVIOUS
<1> HIDE DEF K
<1>5. /\ c \in Nat
      /\ \A m \in K : RankIn(K, m) \in 1..c
      /\ \A m, k \in K : m < k => RankIn(K, m) < RankIn(K, k)
      /\ \A r \in 1..c : \E m \in K : RankIn(K, m) = r
  BY <1>2, Ranks
<1> HIDE DEF c
<1>6. c \in 1..c
  BY <1>2, <1>5
<1>7. PICK m \in K : RankIn(K, m) = c
  BY <1>5, <1>6
<1>8. ASSUME NEW j \in m + 1..Len(h)
      PROVE  h[j].name # n
  <2>1. m \in 1..Len(h)
    BY <1>3
  <2>2. m < j /\ j \in 1..Len(h)
    BY <1>1, <2>1
  <2>3. j \in K => c < RankIn(K, j) /\ RankIn(K, j) \in 1..c
    BY <1>5, <1>7, <2>2
  <2>4. j \notin K
    BY <1>5, <2>3
  <2> QED BY <1>4, <2>2, <2>4
<1>9. \E k \in 1..Len(h) : h[k].name = n /\ \A j \in k + 1..Len(h) : h[j].name # n
  BY <1>3, <1>8
<1> HIDE DEF n
<1>10. LET k == LastOf(h, n)
       IN  /\ k \in 1..Len(h) /\ h[k].name = n
           /\ \A j \in k + 1..Len(h) : h[j].name # n
  BY <1>9 DEF LastOf
<1> QED BY <1>10 DEF n

LEMMA PicksDistinct ==
    ASSUME NEW t, NEW s, NEW I, Len(t) \in Nat, Picks(t, s, I),
           \A i, k \in I \cap 1..Len(s) : i < k => s[i].name # s[k].name
    PROVE  Distinct(t)
<1>1. ASSUME NEW j \in 1..Len(t), NEW k \in 1..Len(t), j < k
      PROVE  t[j].name # t[k].name
  <2>1. PICK i, m \in I \cap 1..Len(s) : i < m /\ t[j] = s[i] /\ t[k] = s[m]
    BY <1>1 DEF Picks
  <2> QED BY <2>1
<1>2. ASSUME NEW j \in 1..Len(t), NEW k \in 1..Len(t), t[j].name = t[k].name
      PROVE  j = k
  <2>1. ~(j < k) /\ ~(k < j)
    BY <1>1, <1>2
  <2> QED BY <2>1
<1> QED BY <1>2 DEF Distinct

LEMMA DecodedType ==
    ASSUME NEW h \in Seq(AnyEvent)
    PROVE  /\ Decoded(h) \in Seq(AnyEvent) /\ Distinct(Decoded(h))
           /\ Names(Decoded(h)) \subseteq Names(h)
<1> DEFINE d == [i \in 1..Len(h) |-> h[LastOf(h, h[i].name)]]
           I == {i \in 1..Len(h) : FirstOf(h, i)}
           t == At(d, I)
<1>1. Len(h) \in Nat /\ \A i \in 1..Len(h) : h[i] \in AnyEvent
  BY OfAny
<1>2. ASSUME NEW i \in 1..Len(h)
      PROVE  d[i] \in AnyEvent /\ d[i].name = h[i].name
  <2>1. d[i] = h[LastOf(h, h[i].name)]
    OBVIOUS
  <2> HIDE DEF d
  <2>2. LastOf(h, h[i].name) \in 1..Len(h) /\ h[LastOf(h, h[i].name)].name = h[i].name
    BY LastOfIs
  <2> QED BY <1>1, <2>1, <2>2
<1>3. d \in Seq(AnyEvent) /\ Len(d) = Len(h)
  BY <1>1, <1>2
<1>4. \A i, k \in I : i < k => h[i].name # h[k].name
  BY <1>1 DEF FirstOf
<1>5. I \subseteq 1..Len(h) /\ Decoded(h) = t
  BY DEF Decoded
<1> HIDE DEF d, I
<1>6. t \in Seq(AnyEvent)
  BY <1>3, AtType
<1>7. IsSeq(d)
  BY <1>3, OfAny
<1>8. Picks(t, d, I)
  BY <1>7, AtLines
<1> HIDE DEF t
<1>9. Len(t) \in Nat
  BY <1>6, OfAny
<1>10. \A i, k \in I \cap 1..Len(d) : i < k => d[i].name # d[k].name
  BY <1>2, <1>3, <1>4
<1>11. Distinct(t)
  BY <1>8, <1>9, <1>10, PicksDistinct
<1>12. ASSUME NEW j \in 1..Len(t) PROVE t[j].name \in Names(h)
  <2>1. PICK i \in 1..Len(d) : t[j] = d[i]
    BY <1>8 DEF Picks
  <2> QED BY <1>2, <1>3, <2>1 DEF Names
<1>13. Names(t) \subseteq Names(h)
  BY <1>12 DEF Names
<1> QED BY <1>5, <1>6, <1>11, <1>13

LEMMA DecodedSame ==
    ASSUME NEW h \in Seq(AnyEvent), Distinct(h)
    PROVE  Decoded(h) = h
<1> DEFINE d == [i \in 1..Len(h) |-> h[LastOf(h, h[i].name)]]
           I == {i \in 1..Len(h) : FirstOf(h, i)}
<1>1. Len(h) \in Nat /\ IsSeq(h)
  BY OfAny
<1>2. Len(d) = Len(h) /\ \A i \in 1..Len(h) : d[i] = h[i]
  <2>1. ASSUME NEW i \in 1..Len(h)
        PROVE  h[LastOf(h, h[i].name)] = h[i]
    <3>1. LastOf(h, h[i].name) \in 1..Len(h) /\ h[LastOf(h, h[i].name)].name = h[i].name
      BY LastOfIs
    <3> QED BY <3>1 DEF Distinct
  <2> QED BY <1>1, <2>1
<1>3. IsSeq(d)
  <2>1. d \in Seq({h[LastOf(h, h[i].name)] : i \in 1..Len(h)})
    BY <1>1
  <2> HIDE DEF d
  <2> QED BY <2>1 DEF IsSeq
<1>4. 1..Len(h) \subseteq I
  BY <1>1 DEF FirstOf, Distinct
<1>5. Decoded(h) = At(d, I)
  BY DEF Decoded
<1> HIDE DEF d, I
<1>6. d = h
  BY <1>1, <1>2, <1>3, SameSeq
<1>7. At(h, I) = h
  BY <1>1, <1>4, AtAll
<1> QED BY <1>5, <1>6, <1>7

LEMMA NoEvents ==
    /\ <<>> \in Seq(AnyEvent) /\ Distinct(<<>>) /\ Decoded(<<>>) = <<>>
    /\ ForeignHooks(<<>>) = {} /\ Names(<<>>) = {}
<1> DEFINE e == <<>>
<1>1. e \in Seq(AnyEvent) /\ Len(e) = 0 /\ 1..0 = {}
  OBVIOUS
<1> HIDE DEF e
<1>2. Distinct(e)
  BY <1>1 DEF Distinct
<1>3. Decoded(e) = e
  BY <1>1, <1>2, DecodedSame
<1>4. ForeignHooks(e) = {}
  BY <1>1 DEF ForeignHooks
<1>5. Names(e) = {}
  BY <1>1 DEF Names
<1> QED BY <1>1, <1>2, <1>3, <1>4, <1>5 DEF e

LEMMA MergedDistinct ==
    ASSUME NEW path \in Paths, NEW h \in Seq(AnyEvent), NEW names, NEW w, NotTheirs(w), Distinct(h)
    PROVE  /\ Distinct(MergeEvents(path, h, names, w))
           /\ Names(MergeEvents(path, h, names, w)) \subseteq Names(h)
<1> DEFINE m == [i \in 1..Len(h) |-> MergeEvent(path, h[i], names, w)]
           I == {i \in 1..Len(h) : Stays(m[i], names)}
           t == At(m, I)
<1>1. Len(h) \in Nat /\ \A i \in 1..Len(h) : h[i] \in AnyEvent
  BY OfAny
<1>2. ASSUME NEW i \in 1..Len(h)
      PROVE  m[i] \in AnyEvent /\ m[i].name = h[i].name
  <2>1. m[i] = MergeEvent(path, h[i], names, w)
    OBVIOUS
  <2> HIDE DEF m
  <2> QED BY <1>1, <2>1, MergedEvent
<1>3. m \in Seq(AnyEvent) /\ Len(m) = Len(h)
  BY <1>1, <1>2
<1>4. MergeEvents(path, h, names, w) = t
  BY DEF MergeEvents
<1> HIDE DEF m, I
<1>5. IsSeq(m) /\ t \in Seq(AnyEvent)
  <2>1. IsSeq(m)
    BY <1>3, OfAny
  <2>2. t \in Seq(AnyEvent)
    BY <1>3, AtType
  <2> QED BY <2>1, <2>2
<1>6. Picks(t, m, I)
  BY <1>5, AtLines
<1> HIDE DEF t
<1>7. Len(t) \in Nat
  BY <1>5, OfAny
<1>8. \A i, k \in I \cap 1..Len(m) : i < k => m[i].name # m[k].name
  <2> SUFFICES ASSUME NEW i \in 1..Len(m), NEW k \in 1..Len(m), i < k, m[i].name = m[k].name
               PROVE  FALSE
    OBVIOUS
  <2>1. i \in 1..Len(h) /\ k \in 1..Len(h) /\ i # k
    BY <1>3
  <2>2. h[i].name = h[k].name
    BY <1>2, <2>1
  <2> QED BY <2>1, <2>2 DEF Distinct
<1>9. Distinct(t)
  BY <1>6, <1>7, <1>8, PicksDistinct
<1>10. ASSUME NEW j \in 1..Len(t)
       PROVE  t[j].name \in Names(h)
  <2>1. PICK i \in I \cap 1..Len(m) : t[j] = m[i]
    BY <1>6 DEF Picks
  <2> QED BY <1>2, <1>3, <2>1 DEF Names
<1>11. Names(t) \subseteq Names(h)
  BY <1>10 DEF Names
<1> QED BY <1>4, <1>9, <1>11

LEMMA ConcatDistinct ==
    ASSUME NEW a \in Seq(AnyEvent), NEW b \in Seq(AnyEvent), Distinct(a), Distinct(b),
           \A i \in 1..Len(a), j \in 1..Len(b) : a[i].name # b[j].name
    PROVE  a \o b \in Seq(AnyEvent) /\ Distinct(a \o b)
<1> DEFINE c == a \o b
<1>1. Len(a) \in Nat /\ Len(b) \in Nat /\ IsSeq(a) /\ IsSeq(b)
  BY OfAny
<1>2. /\ Len(c) = Len(a) + Len(b)
      /\ \A i \in 1..Len(a) : c[i] = a[i]
      /\ \A i \in 1..Len(b) : c[Len(a) + i] = b[i]
  BY <1>1, ConcatIsSeq
<1>3. c \in Seq(AnyEvent)
  OBVIOUS
<1> HIDE DEF c
<1>4. ASSUME NEW i \in 1..Len(c), ~(i <= Len(a))
      PROVE  i - Len(a) \in 1..Len(b) /\ c[i] = b[i - Len(a)]
  <2>1. i - Len(a) \in 1..Len(b) /\ Len(a) + (i - Len(a)) = i
    BY <1>1, <1>2, <1>4
  <2> QED BY <1>2, <2>1
<1>5. ASSUME NEW i \in 1..Len(c), i <= Len(a)
      PROVE  i \in 1..Len(a) /\ c[i] = a[i]
  BY <1>1, <1>2, <1>5
<1>6. ASSUME NEW i \in 1..Len(c), NEW j \in 1..Len(c), c[i].name = c[j].name
      PROVE  i = j
  <2>1. CASE i <= Len(a) /\ j <= Len(a)
    BY <1>5, <1>6, <2>1 DEF Distinct
  <2>2. CASE i <= Len(a) /\ ~(j <= Len(a))
    BY <1>4, <1>5, <1>6, <2>2
  <2>3. CASE ~(i <= Len(a)) /\ j <= Len(a)
    <3>1. c[i].name # c[j].name
      BY <1>4, <1>5, <2>3
    <3> QED BY <1>6, <3>1
  <2>4. CASE ~(i <= Len(a)) /\ ~(j <= Len(a))
    <3>1. /\ i - Len(a) \in 1..Len(b) /\ j - Len(a) \in 1..Len(b)
          /\ b[i - Len(a)].name = b[j - Len(a)].name
      BY <1>4, <1>6, <2>4
    <3>2. \A k, m \in 1..Len(b) : b[k].name = b[m].name => k = m
      BY DEF Distinct
    <3>3. i - Len(a) = j - Len(a)
      BY <3>1, <3>2
    <3>4. i \in Nat /\ j \in Nat
      BY <1>1, <1>2
    <3> QED BY <1>1, <3>3, <3>4
  <2> QED BY <2>1, <2>2, <2>3, <2>4
<1>7. Distinct(c)
  BY <1>6 DEF Distinct
<1> QED BY <1>3, <1>7 DEF c

(* The names given to a merge: none twice.                                 *)
NamesOnce(names) == names \in Seq(STRING) /\ IsInjective(names)

LEMMA SelectedOnce ==
    ASSUME NEW names, NamesOnce(names), NEW I
    PROVE  NamesOnce(At(names, I))
<1> DEFINE t == At(names, I)
<1>1. names \in Seq(STRING) /\ \A i, j \in 1..Len(names) : names[i] = names[j] => i = j
  BY DEF NamesOnce, IsInjective
<1>2. t \in Seq(STRING) /\ IsSeq(names)
  <2>1. t \in Seq(STRING)
    BY <1>1, AtType
  <2>2. IsSeq(names)
    BY <1>1, OfAny
  <2> QED BY <2>1, <2>2
<1>3. Picks(t, names, I)
  BY <1>2, AtLines
<1> HIDE DEF t
<1>4. ASSUME NEW j \in 1..Len(t), NEW k \in 1..Len(t), j < k
      PROVE  t[j] # t[k]
  <2>1. PICK i, m \in I \cap 1..Len(names) : i < m /\ t[j] = names[i] /\ t[k] = names[m]
    BY <1>3, <1>4 DEF Picks
  <2> QED BY <1>1, <2>1
<1>5. ASSUME NEW j \in 1..Len(t), NEW k \in 1..Len(t), t[j] = t[k]
      PROVE  j = k
  <2>1. ~(j < k) /\ ~(k < j)
    BY <1>4, <1>5
  <2>2. j \in Int /\ k \in Int
    OBVIOUS
  <2> QED BY <2>1, <2>2
<1>6. DOMAIN t = 1..Len(t)
  BY <1>2
<1>7. IsInjective(t)
  BY <1>5, <1>6 DEF IsInjective
<1> QED BY <1>2, <1>7 DEF NamesOnce, t

LEMMA NewEventsType ==
    ASSUME NEW path \in StablePaths, NEW h \in Seq(AnyEvent), NEW names, NamesOnce(names)
    PROVE  LET n == NewEvents(path, h, names)
           IN  /\ n \in Seq(AnyEvent) /\ Distinct(n)
               /\ \A i \in 1..Len(n) : /\ n[i].name \in ToSet(names) \ Names(h)
                                       /\ n[i].groups = Fresh(path)
               /\ \A x \in ToSet(names) \ Names(h) : \E i \in 1..Len(n) : n[i].name = x
<1> DEFINE s == Without(names, Names(h))
           I == {i \in 1..Len(names) : names[i] \notin Names(h)}
           n == NewEvents(path, h, names)
           f == Fresh(path)
<1>1. s = At(names, I) /\ I \subseteq 1..Len(names)
  BY DEF Without
<1>2. names \in Seq(STRING)
  BY DEF NamesOnce
<1>3. IsSeq(names)
  BY <1>2, OfAny
<1> HIDE DEF s
<1>4. NamesOnce(s) /\ Picks(s, names, I)
  BY <1>1, <1>3, SelectedOnce, AtLines
<1>5. s \in Seq(STRING) /\ \A i, j \in 1..Len(s) : s[i] = s[j] => i = j
  BY <1>4 DEF NamesOnce, IsInjective
<1>6. Len(s) \in Nat /\ \A i \in 1..Len(s) : s[i] \in STRING
  BY <1>5, OfAny
<1>7. n = [i \in 1..Len(s) |-> Event(s[i], f)]
  BY DEF NewEvents, s
<1>8. f \in Seq(AnyGroup)
  BY FreshIsOurs
<1> HIDE DEF f, n
<1>9. ASSUME NEW i \in 1..Len(s)
      PROVE  Event(s[i], f) \in AnyEvent /\ Event(s[i], f).name = s[i] /\ Event(s[i], f).groups = f
  <2>1. s[i] \in STRING
    BY <1>6
  <2> QED BY <1>8, <2>1, EventType
<1>10. n \in Seq(AnyEvent) /\ Len(n) = Len(s)
  BY <1>6, <1>7, <1>9
<1>11. \A i \in 1..Len(s) : n[i].name = s[i] /\ n[i].groups = f
  BY <1>7, <1>9
<1>12. Distinct(n)
  BY <1>5, <1>10, <1>11 DEF Distinct
<1>13. ASSUME NEW i \in 1..Len(s)
       PROVE  s[i] \in ToSet(names) \ Names(h)
  <2>1. PICK k \in I \cap 1..Len(names) : s[i] = names[k]
    BY <1>4 DEF Picks
  <2>2. names[k] \in ToSet(names)
    BY <1>2 DEF ToSet
  <2> QED BY <2>1, <2>2
<1>14. ASSUME NEW x \in ToSet(names) \ Names(h)
       PROVE  \E i \in 1..Len(s) : s[i] = x
  <2>1. PICK k \in 1..Len(names) : names[k] = x
    BY <1>2 DEF ToSet
  <2>2. k \in I \cap 1..Len(names)
    BY <2>1
  <2> HIDE DEF I
  <2> QED BY <1>4, <2>1, <2>2 DEF Picks
<1>15. \A i \in 1..Len(n) : n[i].name \in ToSet(names) \ Names(h) /\ n[i].groups = f
  BY <1>10, <1>11, <1>13
<1>16. \A x \in ToSet(names) \ Names(h) : \E i \in 1..Len(n) : n[i].name = x
  BY <1>10, <1>11, <1>14
<1> QED BY <1>10, <1>12, <1>15, <1>16 DEF n, f

(* What pair and unpair write into the events.                             *)
LEMMA InstallType ==
    ASSUME NEW path \in StablePaths, NEW h \in Seq(AnyEvent), Distinct(h), NEW names, NamesOnce(names)
    PROVE  /\ Install(path, h, names) \in Seq(AnyEvent)
           /\ Distinct(Install(path, h, names))
           /\ ForeignHooks(Install(path, h, names)) = ForeignHooks(h)
<1> DEFINE f == Fresh(path)
           a == MergeEvents(path, h, ToSet(names), f)
           b == NewEvents(path, h, names)
<1>0. path \in Paths
  BY DEF Paths
<1>1. NotTheirs(f)
  BY FreshNotTheirs
<1>2. Install(path, h, names) = a \o b
  BY DEF Install
<1>3. a \in Seq(AnyEvent) /\ ForeignHooks(a) = ForeignHooks(h)
  BY <1>0, <1>1, ForeignOfMergedEvents
<1>4. Distinct(a) /\ Names(a) \subseteq Names(h)
  BY <1>0, <1>1, MergedDistinct
<1>5. /\ b \in Seq(AnyEvent) /\ Distinct(b)
      /\ \A i \in 1..Len(b) : b[i].name \in ToSet(names) \ Names(h) /\ b[i].groups = f
  BY NewEventsType
<1>6. ForeignIn(f) = <<>>
  BY <1>1, NothingTheirs
<1> HIDE DEF a, b, f
<1>7. \A i \in 1..Len(a) : a[i].name \in Names(h)
  BY <1>4 DEF Names
<1>8. a \o b \in Seq(AnyEvent) /\ Distinct(a \o b)
  BY <1>3, <1>4, <1>5, <1>7, ConcatDistinct
<1>9. ForeignHooks(a \o b) = ForeignHooks(a)
  BY <1>3, <1>5, <1>6, ForeignOfMoreEvents
<1> QED BY <1>2, <1>3, <1>8, <1>9

LEMMA UninstallType ==
    ASSUME NEW path \in Paths, NEW h \in Seq(AnyEvent), Distinct(h)
    PROVE  /\ Uninstall(path, h) \in Seq(AnyEvent)
           /\ Distinct(Uninstall(path, h))
           /\ ForeignHooks(Uninstall(path, h)) = ForeignHooks(h)
<1> DEFINE e == <<>>
           N == Names(h)
           u == Uninstall(path, h)
<1>1. NotTheirs(e)
  BY NoneNotTheirs
<1>2. u = MergeEvents(path, h, N, e)
  BY DEF Uninstall
<1> HIDE DEF e, N, u
<1>3. u \in Seq(AnyEvent) /\ ForeignHooks(u) = ForeignHooks(h)
  BY <1>1, <1>2, ForeignOfMergedEvents
<1>4. Distinct(u)
  BY <1>1, <1>2, MergedDistinct
<1> QED BY <1>3, <1>4 DEF u

-----------------------------------------------------------------------------
(* The document around the hooks.                                          *)

LEMMA AppendedAway ==
    ASSUME NEW S, NEW m \in Seq(S), NEW x \in S
    PROVE  Without(Append(m, x), {x}) = Without(m, {x})
<1> DEFINE c == Append(m, x)
           X == {x}
           I == {i \in 1..Len(c) : c[i] \notin X}
           K == {i \in 1..Len(m) : m[i] \notin X}
<1>1. Len(m) \in Nat /\ IsSeq(m)
  BY OfAny
<1>2. /\ c \in Seq(S) /\ Len(c) = Len(m) + 1 /\ c[Len(m) + 1] = x
      /\ \A i \in 1..Len(m) : c[i] = m[i]
  BY <1>1
<1>3. IsSeq(c)
  BY <1>2 DEF IsSeq
<1>4. Without(c, X) = At(c, I) /\ Without(m, X) = At(m, K)
  BY DEF Without
<1> HIDE DEF c
<1>5. Places(c, I) = Places(m, K) /\ Places(c, I) \subseteq 1..Len(m)
  <2>1. ASSUME NEW i \in 1..Len(c), c[i] \notin X
        PROVE  i \in 1..Len(m)
    BY <1>1, <1>2, <2>1
  <2>2. \A i \in 1..Len(m) : i \in 1..Len(c) /\ c[i] = m[i]
    BY <1>1, <1>2
  <2>3. I = K /\ I \subseteq 1..Len(m)
    BY <2>1, <2>2
  <2> HIDE DEF I, K
  <2>4. 1..Len(m) \subseteq 1..Len(c)
    BY <2>2
  <2> QED BY <2>3, <2>4 DEF Places
<1> HIDE DEF I, K
<1>6. \A i \in Places(c, I) : c[i] = m[i]
  BY <1>2, <1>5
<1>7. At(c, I) = At(m, K)
  BY <1>1, <1>3, <1>5, <1>6, AtSame
<1> QED BY <1>4, <1>7 DEF c

MemberName == {"permissions", "hooks"}

LEMMA MembershipType ==
    ASSUME NEW m \in Seq(MemberName), NEW h
    PROVE  /\ Membership(m, h) \in Seq(MemberName)
           /\ Without(Membership(m, h), {"hooks"}) = Without(m, {"hooks"})
           /\ h # <<>> => "hooks" \in ToSet(Membership(m, h))
<1> DEFINE x == "hooks"
           X == {x}
           w == Without(m, X)
           a == Append(m, x)
<1>1. x \in MemberName
  BY DEF MemberName
<1>2. CASE h = <<>>
  <2>1. Membership(m, h) = w
    BY <1>2 DEF Membership
  <2> HIDE DEF X, x
  <2>2. w \in Seq(MemberName)
    BY AtType DEF Without
  <2>3. IsSeq(m)
    BY OfAny
  <2>4. Without(w, X) = w
    BY <2>3, WithoutTwice
  <2> HIDE DEF w
  <2> QED BY <1>2, <2>1, <2>2, <2>4 DEF w, X, x
<1>3. CASE h # <<>> /\ x \in ToSet(m)
  BY <1>3 DEF Membership
<1>4. CASE h # <<>> /\ x \notin ToSet(m)
  <2>1. Membership(m, h) = a
    BY <1>4 DEF Membership
  <2> HIDE DEF x
  <2>2. Without(a, X) = w
    BY <1>1, AppendedAway
  <2>3. a \in Seq(MemberName) /\ Len(m) \in Nat
    BY <1>1
  <2>4. a[Len(m) + 1] = x /\ Len(m) + 1 \in DOMAIN a
    BY <2>3
  <2>5. x \in ToSet(a)
    BY <2>4 DEF ToSet
  <2> HIDE DEF a, w
  <2> QED BY <2>1, <2>2, <2>3, <2>5 DEF w, X, x
<1> QED BY <1>2, <1>3, <1>4

LEMMA FileParts ==
    ASSUME NEW f \in AnyFile
    PROVE  /\ f.shape \in Shapes /\ f.members \in Seq(MemberName) /\ f.permissions \in Nat
           /\ f.hooks \in Seq(AnyEvent) /\ f.laid \in {"ours", "hand"}
           /\ f = [shape |-> f.shape, members |-> f.members, permissions |-> f.permissions,
                   hooks |-> f.hooks, laid |-> f.laid]
BY DEF AnyFile, MemberName

LEMMA DocumentWhole ==
    ASSUME NEW m \in Seq(MemberName), NEW p \in Nat, NEW h \in Seq(AnyEvent),
           NEW l \in {"ours", "hand"}, h # <<>> => "hooks" \in ToSet(m)
    PROVE  LET d == Document(m, p, h, l)
           IN  /\ Whole(d)
               /\ d.shape = "document" /\ d.members = m /\ d.permissions = p /\ d.hooks = h
               /\ d.laid = l
<1> DEFINE M == Seq(MemberName)
           H == Seq(AnyEvent)
           d == Document(m, p, h, l)
           x == "hooks" \in ToSet(m)
<1>1. m \in M /\ h \in H /\ (h # <<>> => x)
  OBVIOUS
<1> HIDE DEF M, H, x
<1>2. d = [shape |-> "document", members |-> m, permissions |-> p, hooks |-> h, laid |-> l]
  BY DEF Document
<1>3. "document" \in Shapes
  BY DEF Shapes
<1>4. d \in [shape : Shapes, members : M, permissions : Nat, hooks : H, laid : {"ours", "hand"}]
  BY <1>1, <1>2, <1>3
<1>5. /\ d.shape = "document" /\ d.members = m /\ d.permissions = p /\ d.hooks = h
      /\ d.laid = l
  BY <1>2
<1> HIDE DEF d
<1>6. d \in AnyFile
  BY <1>4 DEF AnyFile, M, H, MemberName
<1> QED BY <1>1, <1>5, <1>6 DEF Whole, d, x

LEMMA ForeignParts ==
    ASSUME NEW f, NEW g, f.permissions = g.permissions,
           Without(f.members, {"hooks"}) = Without(g.members, {"hooks"}),
           ForeignHooks(Decoded(f.hooks)) = ForeignHooks(Decoded(g.hooks))
    PROVE  Foreign(f) = Foreign(g)
BY DEF Foreign

LEMMA Spliced ==
    ASSUME NEW f, Whole(f), NEW h \in Seq(AnyEvent), Distinct(h),
           ForeignHooks(h) = ForeignHooks(Decoded(f.hooks))
    PROVE  LET d == SpliceTopLevelKey(f, h)
           IN  Whole(d) /\ Foreign(d) = Foreign(f) /\ d.hooks = h /\ d.shape = "document"
<1> DEFINE m == Membership(f.members, h)
           d == SpliceTopLevelKey(f, h)
<1>1. f \in AnyFile
  BY DEF Whole
<1>2. f.members \in Seq(MemberName) /\ f.permissions \in Nat
  BY <1>1, FileParts
<1>3. /\ m \in Seq(MemberName) /\ Without(m, {"hooks"}) = Without(f.members, {"hooks"})
      /\ h # <<>> => "hooks" \in ToSet(m)
  BY <1>2, MembershipType
<1>4. d = Document(m, f.permissions, h, "ours")
  BY DEF SpliceTopLevelKey
<1> HIDE DEF m, d
<1>5. /\ Whole(d) /\ d.shape = "document"
      /\ d.members = m /\ d.permissions = f.permissions /\ d.hooks = h
  BY <1>2, <1>3, <1>4, DocumentWhole
<1>6. Decoded(d.hooks) = h
  BY <1>5, DecodedSame
<1>7. Foreign(d) = Foreign(f)
  BY <1>3, <1>5, <1>6, ForeignParts
<1> QED BY <1>5, <1>7 DEF d

-----------------------------------------------------------------------------
(* The plans.                                                              *)

LEMMA PlanInstallIs ==
    ASSUME NEW f, NEW path, NEW names
    PROVE  LET plan == PlanInstall(f, path, names)
               h == Decoded(f.hooks)
           IN  \/ /\ f.shape \in {"absent", "empty"}
                  /\ plan = [ok |-> TRUE, after |-> BuildFromScratch(path, names)]
               \/ /\ f.shape = "document" /\ Readable(h, ToSet(names))
                  /\ plan = [ok |-> TRUE, after |-> SpliceTopLevelKey(f, Install(path, h, names))]
               \/ /\ f.shape \notin {"absent", "empty"}
                  /\ ~(f.shape = "document" /\ Readable(h, ToSet(names)))
                  /\ plan = Refused
<1> DEFINE h == Decoded(f.hooks)
           r == Readable(h, ToSet(names))
           a == [ok |-> TRUE, after |-> BuildFromScratch(path, names)]
           b == [ok |-> TRUE, after |-> SpliceTopLevelKey(f, Install(path, h, names))]
           plan == PlanInstall(f, path, names)
<1>1. plan = CASE f.shape \in {"absent", "empty"} -> a
               [] f.shape = "document" /\ r -> b
               [] OTHER -> Refused
  BY DEF PlanInstall
<1> HIDE DEF r, a, b, plan
<1>2. f.shape \in {"absent", "empty"} => plan = a
  BY <1>1
<1>3. f.shape = "document" /\ r => plan = b
  BY <1>1
<1>4. f.shape \notin {"absent", "empty"} /\ ~(f.shape = "document" /\ r) => plan = Refused
  BY <1>1
<1> QED BY <1>2, <1>3, <1>4 DEF plan, a, b, r

LEMMA PlanUninstallIs ==
    ASSUME NEW f, NEW path
    PROVE  LET plan == PlanUninstall(f, path)
               h == Decoded(f.hooks)
           IN  \/ f.shape \in {"absent", "empty"} /\ plan = [ok |-> TRUE, after |-> f]
               \/ /\ f.shape = "document" /\ Readable(h, Names(h))
                  /\ plan = [ok |-> TRUE, after |-> SpliceTopLevelKey(f, Uninstall(path, h))]
               \/ /\ f.shape \notin {"absent", "empty"}
                  /\ ~(f.shape = "document" /\ Readable(h, Names(h)))
                  /\ plan = Refused
<1> DEFINE h == Decoded(f.hooks)
           r == Readable(h, Names(h))
           a == [ok |-> TRUE, after |-> f]
           b == [ok |-> TRUE, after |-> SpliceTopLevelKey(f, Uninstall(path, h))]
           plan == PlanUninstall(f, path)
<1>1. plan = CASE f.shape \in {"absent", "empty"} -> a
               [] f.shape = "document" /\ r -> b
               [] OTHER -> Refused
  BY DEF PlanUninstall
<1> HIDE DEF r, a, b, plan
<1>2. f.shape \in {"absent", "empty"} => plan = a
  BY <1>1
<1>3. f.shape = "document" /\ r => plan = b
  BY <1>1
<1>4. f.shape \notin {"absent", "empty"} /\ ~(f.shape = "document" /\ r) => plan = Refused
  BY <1>1
<1> QED BY <1>2, <1>3, <1>4 DEF plan, a, b, r

LEMMA EmptyFile ==
    ASSUME NEW f, Whole(f), f.shape \in {"absent", "empty"}
    PROVE  f.members = <<>> /\ f.permissions = 0 /\ f.hooks = <<>>
<1>1. f.members = <<>> /\ f.permissions = 0
  BY DEF Whole
<1> DEFINE e == <<>>
<1>2. DOMAIN e = {}
  OBVIOUS
<1>3. f.members = e
  BY <1>1
<1> HIDE DEF e
<1>4. ToSet(f.members) = {}
  BY <1>2, <1>3 DEF ToSet
<1>5. f.hooks = <<>>
  BY <1>4 DEF Whole
<1> QED BY <1>1, <1>5

LEMMA FromScratch ==
    ASSUME NEW f, Whole(f), f.shape \in {"absent", "empty"},
           NEW path \in StablePaths, NEW names, NamesOnce(names)
    PROVE  /\ Whole(BuildFromScratch(path, names))
           /\ Foreign(BuildFromScratch(path, names)) = Foreign(f)
           /\ BuildFromScratch(path, names).hooks = Install(path, <<>>, names)
           /\ BuildFromScratch(path, names).shape = "document"
<1> DEFINE e == <<>>
           x == "hooks"
           m == Append(e, x)
           h == Install(path, e, names)
           d == BuildFromScratch(path, names)
<1>1. f.members = e /\ f.permissions = 0 /\ f.hooks = e
  BY EmptyFile
<1>2. e \in Seq(AnyEvent) /\ Distinct(e) /\ Decoded(e) = e
  BY NoEvents
<1>3. e \in Seq(MemberName) /\ x \in MemberName /\ Len(e) = 0
  BY DEF MemberName
<1>4. d = Document(m, 0, h, "ours")
  BY DEF BuildFromScratch
<1> HIDE DEF e, d
<1>5. h \in Seq(AnyEvent) /\ Distinct(h) /\ ForeignHooks(h) = ForeignHooks(e)
  BY <1>2, InstallType
<1>6. Without(m, {x}) = Without(e, {x})
  BY <1>3, AppendedAway
<1>7. m \in Seq(MemberName) /\ x \in ToSet(m)
  <2>1. m \in Seq(MemberName) /\ m[1] = x /\ 1 \in DOMAIN m
    BY <1>3
  <2> HIDE DEF m
  <2> QED BY <2>1 DEF ToSet
<1> HIDE DEF m, h
<1>8. /\ Whole(d) /\ d.shape = "document" /\ d.members = m /\ d.permissions = 0 /\ d.hooks = h
  <2>1. h # <<>> => "hooks" \in ToSet(m)
    BY <1>7
  <2>2. 0 \in Nat
    OBVIOUS
  <2> HIDE DEF x
  <2> QED BY <1>4, <1>5, <1>7, <2>1, <2>2, DocumentWhole
<1>9. Decoded(d.hooks) = h
  BY <1>5, <1>8, DecodedSame
<1>10. Foreign(d) = Foreign(f)
  BY <1>1, <1>2, <1>5, <1>6, <1>8, <1>9, ForeignParts
<1> QED BY <1>8, <1>10 DEF d, h, e

(* Neither plan changes anything that is not the bridge's.                 *)
LEMMA InstallKeeps ==
    ASSUME NEW f, Whole(f), NEW path \in StablePaths, NEW names, NamesOnce(names),
           PlanInstall(f, path, names).ok
    PROVE  LET d == PlanInstall(f, path, names).after
           IN  Whole(d) /\ Foreign(d) = Foreign(f)
<1> DEFINE plan == PlanInstall(f, path, names)
           h == Decoded(f.hooks)
           b == BuildFromScratch(path, names)
           s == SpliceTopLevelKey(f, Install(path, h, names))
<1>1. f.hooks \in Seq(AnyEvent)
  BY FileParts DEF Whole
<1>2. h \in Seq(AnyEvent) /\ Distinct(h)
  BY <1>1, DecodedType
<1>3. f.shape \in {"absent", "empty"} => Whole(b) /\ Foreign(b) = Foreign(f)
  BY FromScratch
<1> HIDE DEF h, b
<1>4. /\ Install(path, h, names) \in Seq(AnyEvent) /\ Distinct(Install(path, h, names))
      /\ ForeignHooks(Install(path, h, names)) = ForeignHooks(h)
  BY <1>2, InstallType
<1>5. Whole(s) /\ Foreign(s) = Foreign(f)
  BY <1>4, Spliced DEF h
<1> HIDE DEF s
<1>6. \/ f.shape \in {"absent", "empty"} /\ plan = [ok |-> TRUE, after |-> b]
      \/ plan = [ok |-> TRUE, after |-> s]
      \/ plan = Refused
  BY PlanInstallIs DEF b, s, h
<1>7. plan # Refused /\ plan.ok
  BY DEF Refused
<1> HIDE DEF plan
<1>8. Whole(plan.after) /\ Foreign(plan.after) = Foreign(f)
  <2>1. CASE f.shape \in {"absent", "empty"} /\ plan = [ok |-> TRUE, after |-> b]
    <3>1. plan.after = b
      BY <2>1
    <3> QED BY <1>3, <2>1, <3>1
  <2>2. CASE plan = [ok |-> TRUE, after |-> s]
    <3>1. plan.after = s
      BY <2>2
    <3> QED BY <1>5, <3>1
  <2> QED BY <1>6, <1>7, <2>1, <2>2
<1> QED BY <1>8 DEF plan

LEMMA UninstallKeeps ==
    ASSUME NEW f, Whole(f), NEW path \in Paths, PlanUninstall(f, path).ok
    PROVE  LET d == PlanUninstall(f, path).after
           IN  Whole(d) /\ Foreign(d) = Foreign(f)
<1> DEFINE plan == PlanUninstall(f, path)
           h == Decoded(f.hooks)
           s == SpliceTopLevelKey(f, Uninstall(path, h))
<1>1. f.hooks \in Seq(AnyEvent)
  BY FileParts DEF Whole
<1>2. h \in Seq(AnyEvent) /\ Distinct(h)
  BY <1>1, DecodedType
<1> HIDE DEF h
<1>3. /\ Uninstall(path, h) \in Seq(AnyEvent) /\ Distinct(Uninstall(path, h))
      /\ ForeignHooks(Uninstall(path, h)) = ForeignHooks(h)
  BY <1>2, UninstallType
<1>4. Whole(s) /\ Foreign(s) = Foreign(f)
  BY <1>3, Spliced DEF h
<1> HIDE DEF s
<1>5. \/ plan = [ok |-> TRUE, after |-> f]
      \/ plan = [ok |-> TRUE, after |-> s]
      \/ plan = Refused
  BY PlanUninstallIs DEF s, h
<1>6. plan # Refused /\ plan.ok
  BY DEF Refused
<1> HIDE DEF plan
<1>7. plan.after = f \/ plan.after = s
  BY <1>5, <1>6
<1> QED BY <1>4, <1>7 DEF plan

-----------------------------------------------------------------------------
(* What others write.                                                      *)

LEMMA SetType ==
    ASSUME NEW h \in Seq(AnyEvent), NEW e \in AnyEvent
    PROVE  Set(h, e) \in Seq(AnyEvent)
<1> DEFINE m == [i \in 1..Len(h) |-> IF h[i].name = e.name THEN e ELSE h[i]]
<1>1. Len(h) \in Nat /\ \A i \in 1..Len(h) : h[i] \in AnyEvent
  BY OfAny
<1>2. m \in Seq(AnyEvent)
  BY <1>1
<1>3. Append(h, e) \in Seq(AnyEvent)
  OBVIOUS
<1>4. Set(h, e) = m \/ Set(h, e) = Append(h, e)
  BY DEF Set
<1> HIDE DEF m
<1> QED BY <1>2, <1>3, <1>4

LEMMA GroupsType ==
    ASSUME NEW h \in Seq(AnyEvent), NEW name
    PROVE  GroupsOf(h, name) \in Seq(AnyGroup) /\ (h = <<>> => GroupsOf(h, name) = <<>>)
<1>1. CASE name \in Names(h)
  <2>1. PICK i \in 1..Len(h) : h[i].name = name
    BY <1>1 DEF Names
  <2>2. LastOf(h, h[i].name) \in 1..Len(h)
    BY LastOfIs
  <2>3. h[LastOf(h, name)] \in AnyEvent
    BY <2>1, <2>2, OfAny
  <2>4. h[LastOf(h, name)].groups \in Seq(AnyGroup)
    BY <2>3, EventParts
  <2>5. h # <<>>
    BY <2>1
  <2> QED BY <1>1, <2>4, <2>5 DEF GroupsOf
<1>2. CASE name \notin Names(h)
  <2>1. GroupsOf(h, name) = <<>>
    BY <1>2 DEF GroupsOf
  <2>2. <<>> \in Seq(AnyGroup)
    OBVIOUS
  <2> QED BY <2>1, <2>2
<1> QED BY <1>1, <1>2

LEMMA AddedType ==
    /\ Added \in KnownCommands
    /\ Group("Bash", <<Added>>) \in AnyGroup /\ <<Group("Bash", <<Added>>)>> \in Seq(AnyGroup)
<1> DEFINE m == "Bash"
           a == <<Added>>
           g == Group(m, a)
<1>1. Added \in KnownCommands
  BY ForeignAssumption DEF KnownCommands
<1>2. m \in Matchers
  BY MatchersAssumption
<1>3. a \in Seq(KnownCommands)
  BY <1>1
<1> HIDE DEF m, a
<1>4. g \in AnyGroup
  BY <1>2, <1>3, GroupType
<1> HIDE DEF g
<1>5. <<g>> \in Seq(AnyGroup)
  BY <1>4
<1> QED BY <1>1, <1>4, <1>5 DEF g, m, a

LEMMA SharedType ==
    ASSUME NEW g \in Seq(AnyGroup), NEW i \in DOMAIN g
    PROVE  Shared(g, i) \in Seq(AnyGroup)
<1>1. i \in 1..Len(g) /\ Len(g) \in Nat /\ \A k \in 1..Len(g) : g[k] \in AnyGroup
  BY OfAny
<1> DEFINE x == g[i]
           h == Append(x.hooks, Added)
           y == [x EXCEPT !.hooks = h]
<1>2. x \in AnyGroup
  BY <1>1
<1> HIDE DEF x
<1>3. h \in Seq(KnownCommands)
  BY <1>2, GroupParts, AddedType
<1> HIDE DEF h
<1>4. y \in AnyGroup
  <2> DEFINE H == Seq(KnownCommands)
  <2>1. h \in H
    BY <1>3
  <2>2. x \in [kind : {"group", "odd"}, matcher : Matchers, hooks : H]
    BY <1>2 DEF AnyGroup
  <2> HIDE DEF H
  <2>3. x = [kind |-> x.kind, matcher |-> x.matcher, hooks |-> x.hooks]
    BY <2>2
  <2>4. y = [kind |-> x.kind, matcher |-> x.matcher, hooks |-> h]
    BY <2>3
  <2>5. y \in [kind : {"group", "odd"}, matcher : Matchers, hooks : H]
    BY <2>1, <2>2, <2>4
  <2> QED BY <2>5 DEF AnyGroup, H
<1>5. Shared(g, i) = [g EXCEPT ![i] = y]
  BY DEF Shared, y, h, x
<1> HIDE DEF y
<1>6. [g EXCEPT ![i] = y] \in Seq(AnyGroup)
  BY <1>4
<1> QED BY <1>5, <1>6

LEMMA NamesAreStrings ==
    ASSUME NEW name \in ToSet(Events) \cup OtherEvents PROVE name \in STRING
<1>1. Events \in Seq(STRING) /\ OtherEvents \subseteq STRING
  BY EventsAssumption
<1>2. \A i \in DOMAIN Events : Events[i] \in STRING
  BY <1>1
<1> QED BY <1>1, <1>2 DEF ToSet

(* A document with other members or events.                                *)
Changed(f, m, p, h, l) == [f EXCEPT !.members = m, !.permissions = p, !.hooks = h, !.laid = l]

LEMMA ChangedWhole ==
    ASSUME NEW f, Whole(f), f.shape = "document",
           NEW m \in Seq(MemberName), NEW p \in Nat, NEW h \in Seq(AnyEvent),
           NEW l \in {"ours", "hand"}, h # <<>> => "hooks" \in ToSet(m)
    PROVE  Whole(Changed(f, m, p, h, l))
<1> DEFINE new == Changed(f, m, p, h, l)
<1>1. f = [shape |-> f.shape, members |-> f.members, permissions |-> f.permissions,
           hooks |-> f.hooks, laid |-> f.laid]
  BY FileParts DEF Whole
<1> DEFINE doc == "document"
<1>2. f.shape = doc
  OBVIOUS
<1> HIDE DEF doc
<1>3. PICK b, c, d, e : f = [shape |-> doc, members |-> b, permissions |-> c, hooks |-> d, laid |-> e]
  BY <1>1, <1>2
<1>4. new = [shape |-> doc, members |-> m, permissions |-> p, hooks |-> h, laid |-> l]
  <2> DEFINE f1 == [f EXCEPT !.members = m]
             f2 == [f1 EXCEPT !.permissions = p]
             f3 == [f2 EXCEPT !.hooks = h]
             f4 == [f3 EXCEPT !.laid = l]
  <2>1. new = f4
    BY DEF Changed
  <2>2. f1 = [shape |-> doc, members |-> m, permissions |-> c, hooks |-> d, laid |-> e]
    BY <1>3
  <2> HIDE DEF f1, new
  <2>3. f2 = [shape |-> doc, members |-> m, permissions |-> p, hooks |-> d, laid |-> e]
    BY <2>2
  <2> HIDE DEF f2
  <2>4. f3 = [shape |-> doc, members |-> m, permissions |-> p, hooks |-> h, laid |-> e]
    BY <2>3
  <2> HIDE DEF f3
  <2>5. f4 = [shape |-> doc, members |-> m, permissions |-> p, hooks |-> h, laid |-> l]
    BY <2>4
  <2> QED BY <2>1, <2>5
<1>5. new = Document(m, p, h, l)
  BY <1>4 DEF Document, doc
<1> HIDE DEF new
<1>6. Whole(new)
  BY <1>5, DocumentWhole
<1> QED BY <1>6 DEF new

LEMMA WithMember ==
    ASSUME NEW m \in Seq(MemberName)
    PROVE  /\ LET n == IF "hooks" \in ToSet(m) THEN m ELSE Append(m, "hooks")
              IN  n \in Seq(MemberName) /\ "hooks" \in ToSet(n)
           /\ LET n == IF "permissions" \in ToSet(m) THEN m ELSE <<"permissions">> \o m
              IN  n \in Seq(MemberName) /\ ("hooks" \in ToSet(m) => "hooks" \in ToSet(n))
<1>1. Len(m) \in Nat
  OBVIOUS
<1>2. Append(m, "hooks") \in Seq(MemberName) /\ "hooks" \in ToSet(Append(m, "hooks"))
  <2> DEFINE x == "hooks"
             a == Append(m, x)
  <2>1. x \in MemberName
    BY DEF MemberName
  <2> HIDE DEF x
  <2>2. a \in Seq(MemberName) /\ a[Len(m) + 1] = x /\ Len(m) + 1 \in DOMAIN a
    BY <1>1, <2>1
  <2> HIDE DEF a
  <2>3. x \in ToSet(a)
    BY <2>2 DEF ToSet
  <2> QED BY <2>2, <2>3 DEF a, x
<1>3. /\ <<"permissions">> \o m \in Seq(MemberName)
      /\ "hooks" \in ToSet(m) => "hooks" \in ToSet(<<"permissions">> \o m)
  <2> DEFINE y == "permissions"
             x == "hooks"
             e == <<y>>
             a == e \o m
  <2>1. y \in MemberName
    BY DEF MemberName
  <2> HIDE DEF x, y
  <2>2. e \in Seq(MemberName) /\ Len(e) = 1
    BY <2>1
  <2> HIDE DEF e
  <2>3. a \in Seq(MemberName)
    BY <2>2
  <2>4. IsSeq(e) /\ IsSeq(m)
    BY <2>2, OfAny
  <2>5. Len(a) = 1 + Len(m) /\ \A i \in 1..Len(m) : a[1 + i] = m[i]
    <3>1. Len(a) = Len(e) + Len(m) /\ \A i \in 1..Len(m) : a[Len(e) + i] = m[i]
      BY <2>4, ConcatIsSeq
    <3> HIDE DEF a
    <3> QED BY <2>2, <3>1
  <2>6. DOMAIN a = 1..Len(a)
    BY <2>3
  <2> HIDE DEF a
  <2>7. ASSUME NEW i \in DOMAIN m PROVE m[i] \in ToSet(a)
    <3>1. i \in 1..Len(m) /\ 1 + i \in 1..Len(a)
      BY <1>1, <2>5
    <3>2. 1 + i \in DOMAIN a /\ a[1 + i] = m[i]
      BY <2>5, <2>6, <3>1
    <3> QED BY <3>2 DEF ToSet
  <2>8. x \in ToSet(m) => x \in ToSet(a)
    BY <2>7 DEF ToSet
  <2> QED BY <2>3, <2>8 DEF a, e, x, y
<1> QED BY <1>2, <1>3

-----------------------------------------------------------------------------
(* What a merge leaves of the bridge.                                      *)

LEMMA FreshGoes ==
    ASSUME NEW path \in StablePaths, NEW g \in Seq(AnyGroup)
    PROVE  /\ Kept(path, Kept(path, g) \o Fresh(path)) = Kept(path, g)
           /\ Kept(path, g) \o Fresh(path) \in Seq(AnyGroup)
           /\ Kept(path, g) \o Fresh(path) # <<>>
           /\ Kept(path, <<>>) = <<>> /\ Fresh(path) = Kept(path, <<>>) \o Fresh(path)
<1> DEFINE f == Fresh(path)
           k == Kept(path, g)
           e == <<>>
<1>1. path \in Paths
  BY DEF Paths
<1>2. /\ f \in Seq(AnyGroup) /\ Len(f) = 1
      /\ \A i \in 1..Len(f) : DroppedWholeGroup(path, f[i])
  BY <1>1, FreshIsOurs
<1>3. Kept(path, k \o f) = k
  BY <1>1, <1>2, KeptOfKept
<1>4. k \in Seq(AnyGroup)
  BY KeptType
<1> HIDE DEF f, k
<1>5. k \o f \in Seq(AnyGroup) /\ Len(k \o f) = Len(k) + 1 /\ Len(k) \in Nat
  <2>1. IsSeq(k) /\ IsSeq(f) /\ Len(k) \in Nat
    BY <1>2, <1>4, OfAny
  <2>2. Len(k \o f) = Len(k) + Len(f)
    BY <2>1, ConcatIsSeq
  <2>3. k \o f \in Seq(AnyGroup)
    BY <1>2, <1>4
  <2> QED BY <1>2, <2>1, <2>2, <2>3
<1>6. k \o f # <<>>
  BY <1>5
<1>7. Kept(path, e) = e
  <2> DEFINE s == [i \in 1..Len(e) |-> FilterOwnedHooks(path, e[i])]
             I == {i \in 1..Len(e) : ~DroppedWholeGroup(path, e[i])}
  <2>1. e \in Seq(AnyGroup) /\ 1..Len(e) = {}
    OBVIOUS
  <2>2. s \in Seq(AnyGroup) /\ I = {}
    BY <2>1, MappedTypes
  <2>3. Kept(path, e) = At(s, I)
    BY DEF Kept
  <2> HIDE DEF s, I
  <2>4. IsSeq(s) /\ I \cap 1..Len(s) = {}
    BY <2>2, OfAny
  <2> QED BY <2>3, <2>4, AtNone
<1>8. f = e \o f
  BY <1>2
<1> QED BY <1>3, <1>5, <1>6, <1>7, <1>8 DEF f, k

LEMMA NamedMerge ==
    ASSUME NEW path, NEW e, NEW names, e.name \in names, NEW w
    PROVE  MergeEvent(path, e, names, w) = Event(e.name, Kept(path, e.groups) \o w)
BY DEF MergeEvent

(* A merge of an event that pair has merged: pair's finds nothing to do,   *)
(* and unpair's leaves what it would have left before.                     *)
LEMMA MergedAgain ==
    ASSUME NEW path \in StablePaths, NEW e \in AnyEvent, NEW names
    PROVE  LET x == MergeEvent(path, e, names, Fresh(path))
           IN  /\ MergeEvent(path, x, names, Fresh(path)) = x
               /\ \A A, B : e.name \in A /\ e.name \in B =>
                      MergeEvent(path, x, A, <<>>) = MergeEvent(path, e, B, <<>>)
<1> DEFINE f == Fresh(path)
           k == Kept(path, e.groups)
           x == MergeEvent(path, e, names, f)
           n == e.name
<1>1. n \in STRING /\ e.groups \in Seq(AnyGroup)
  BY EventParts
<1>2. Kept(path, k \o f) = k /\ k \o f \in Seq(AnyGroup)
  BY <1>1, FreshGoes
<1>3. CASE n \in names
  <2>1. x = Event(n, k \o f)
    BY <1>3, NamedMerge
  <2>2. Event(n, k \o f).name = n /\ Event(n, k \o f).groups = k \o f
    BY DEF Event
  <2> HIDE DEF x, f
  <2>3. x.name = n /\ Kept(path, x.groups) = k
    BY <1>2, <2>1, <2>2
  <2>4. MergeEvent(path, x, names, f) = Event(n, k \o f)
    BY <1>3, <2>3, NamedMerge
  <2> DEFINE o == <<>>
  <2> HIDE DEF o
  <2>5. ASSUME NEW A, NEW B, n \in A, n \in B
        PROVE  MergeEvent(path, x, A, o) = MergeEvent(path, e, B, o)
    <3>1. MergeEvent(path, x, A, o) = Event(n, k \o o)
      BY <2>3, <2>5, NamedMerge
    <3>2. MergeEvent(path, e, B, o) = Event(n, k \o o)
      BY <2>5, NamedMerge
    <3> QED BY <3>1, <3>2
  <2> QED BY <2>1, <2>4, <2>5 DEF x, f, o
<1>4. CASE n \notin names
  <2>1. x = e
    BY <1>4 DEF MergeEvent
  <2> HIDE DEF x
  <2> DEFINE o == <<>>
  <2> HIDE DEF o
  <2>2. ASSUME NEW A, NEW B, n \in A, n \in B
        PROVE  MergeEvent(path, e, A, o) = MergeEvent(path, e, B, o)
    <3>1. MergeEvent(path, e, A, o) = Event(n, k \o o) /\ MergeEvent(path, e, B, o) = Event(n, k \o o)
      BY <2>2, NamedMerge
    <3> QED BY <3>1
  <2>3. MergeEvent(path, e, names, f) = e
    BY <1>4 DEF MergeEvent
  <2> QED BY <2>1, <2>2, <2>3 DEF x, o
<1> QED BY <1>3, <1>4

(* What pair leaves: every event it registers, with its groups last, and   *)
(* the others.                                                             *)
Merged(path, e) == \E g \in Seq(AnyGroup) : e.groups = Kept(path, g) \o Fresh(path)
IsIn(e, h) == \E i \in 1..Len(h) : h[i] = e

LEMMA InstalledEvents ==
    ASSUME NEW path \in StablePaths, NEW h \in Seq(AnyEvent), NEW names, NamesOnce(names)
    PROVE  LET H == Install(path, h, names)
           IN  /\ ToSet(names) \subseteq Names(H)
               /\ \A i \in 1..Len(H) :
                     /\ MergeEvent(path, H[i], ToSet(names), Fresh(path)) = H[i]
                     /\ H[i].name \in ToSet(names) => H[i].groups # <<>> /\ H[i].isArray
                     /\ H[i].name \notin ToSet(names) => \E j \in 1..Len(h) : H[i] = h[j]
                     /\ H[i].name \in ToSet(names) => Merged(path, H[i])
               /\ \A j \in 1..Len(h) : h[j].name \notin ToSet(names) => IsIn(h[j], H)
<1> DEFINE f == Fresh(path)
           N == ToSet(names)
           m == [i \in 1..Len(h) |-> MergeEvent(path, h[i], N, f)]
           I == {i \in 1..Len(h) : Stays(m[i], N)}
           a == MergeEvents(path, h, N, f)
           b == NewEvents(path, h, names)
           H == a \o b
           Good(x) == /\ MergeEvent(path, x, N, f) = x
                      /\ x.name \in N => x.groups # <<>> /\ x.isArray
                      /\ x.name \notin N => \E j \in 1..Len(h) : x = h[j]
                      /\ x.name \in N => Merged(path, x)
<1>1. path \in Paths
  BY DEF Paths
<1>2. Len(h) \in Nat /\ \A i \in 1..Len(h) : h[i] \in AnyEvent
  BY OfAny
<1>3. NotTheirs(f)
  BY <1>1, FreshNotTheirs
<1>4. f \in Seq(AnyGroup)
  BY <1>3 DEF NotTheirs
<1>5. Install(path, h, names) = H
  BY DEF Install
<1>6. a = At(m, I)
  BY DEF MergeEvents
<1>7. /\ b \in Seq(AnyEvent)
      /\ \A i \in 1..Len(b) : b[i].name \in N /\ b[i].groups = f
      /\ \A x \in N \ Names(h) : \E i \in 1..Len(b) : b[i].name = x
      /\ \A i \in 1..Len(b) : b[i] = Event(b[i].name, f)
  <2>1. /\ b \in Seq(AnyEvent)
        /\ \A i \in 1..Len(b) : b[i].name \in N /\ b[i].groups = f
        /\ \A x \in N \ Names(h) : \E i \in 1..Len(b) : b[i].name = x
    BY <1>1, NewEventsType
  <2>2. \A i \in 1..Len(b) : b[i] = Event(b[i].name, f)
    <3> DEFINE s == Without(names, Names(h))
    <3>1. names \in Seq(STRING)
      BY DEF NamesOnce
    <3>2. s \in Seq(STRING)
      BY <3>1, AtType DEF Without
    <3>3. b = [i \in 1..Len(s) |-> Event(s[i], f)]
      BY DEF NewEvents
    <3> HIDE DEF s, b, f
    <3>4. Len(b) = Len(s)
      BY <3>2, <3>3
    <3>5. \A i \in 1..Len(b) : b[i] = Event(s[i], f) /\ Event(s[i], f).name = s[i]
      BY <3>3, <3>4 DEF Event
    <3> QED BY <3>5
  <2> QED BY <2>1, <2>2
<1>8. ASSUME NEW i \in 1..Len(h)
      PROVE  /\ m[i] \in AnyEvent /\ m[i].name = h[i].name
             /\ MergeEvent(path, m[i], N, f) = m[i]
             /\ m[i].name \in N => m[i].groups # <<>> /\ m[i].isArray
             /\ m[i].name \notin N => m[i] = h[i]
             /\ m[i].name \in N => Merged(path, m[i])
             /\ i \in I
  <2>1. m[i] = MergeEvent(path, h[i], N, f)
    OBVIOUS
  <2> DEFINE y == m[i]
             e == h[i]
             k == Kept(path, e.groups)
  <2>2. i \in I <=> Stays(y, N)
    OBVIOUS
  <2>3. e \in AnyEvent
    BY <1>2
  <2> HIDE DEF m, N, f, e, I
  <2>4. y \in AnyEvent /\ y.name = e.name
    BY <1>1, <1>3, <2>1, <2>3, MergedEvent DEF e
  <2>5. MergeEvent(path, y, N, f) = y
    BY <2>1, <2>3, MergedAgain DEF f, e
  <2>6. ASSUME y.name \in N
        PROVE  /\ y.groups # <<>> /\ y.isArray
               /\ Merged(path, y)
    <3>1. e.groups \in Seq(AnyGroup)
      BY <2>3, EventParts
    <3>2. k \o f # <<>>
      BY <3>1, FreshGoes DEF f
    <3>3. y = Event(e.name, k \o f)
      BY <2>1, <2>4, <2>6, NamedMerge DEF e
    <3> HIDE DEF y
    <3>4. y.groups = k \o f /\ y.isArray
      BY <3>3 DEF Event
    <3>5. Merged(path, y)
      BY <3>1, <3>4 DEF Merged, f
    <3> HIDE DEF k
    <3> QED BY <3>2, <3>4, <3>5
  <2>7. y.name \notin N => y = e
    BY <2>1, <2>4 DEF MergeEvent, e
  <2>8. Stays(y, N)
    BY <2>6 DEF Stays
  <2> HIDE DEF y
  <2> QED BY <2>2, <2>4, <2>5, <2>6, <2>7, <2>8 DEF y, e
<1>9. m \in Seq(AnyEvent) /\ Len(m) = Len(h) /\ 1..Len(m) \subseteq I
  <2>1. I \subseteq 1..Len(h) /\ Len(m) = Len(h)
    BY <1>2
  <2>2. m \in Seq(AnyEvent)
    BY <1>2, <1>8
  <2> QED BY <1>8, <2>1, <2>2
<1> HIDE DEF m, I
<1>10. a = m
  <2>1. IsSeq(m)
    BY <1>9, OfAny
  <2> HIDE DEF a
  <2> QED BY <1>6, <1>9, <2>1, AtAll
<1> HIDE DEF a, b, f
<1>11. ASSUME NEW i \in 1..Len(b) PROVE Good(b[i])
  <2> DEFINE y == b[i]
             o == <<>>
             k == Kept(path, o)
  <2>1. y.name \in N /\ y.groups = f /\ y = Event(y.name, f) /\ y \in AnyEvent
    <3>1. y \in AnyEvent
      BY <1>7, OfAny
    <3> QED BY <1>7, <3>1
  <2>2. o \in Seq(AnyGroup)
    OBVIOUS
  <2> HIDE DEF o, y
  <2>3. f = k \o f /\ k \o f # <<>> /\ Kept(path, k \o f) = k
    BY <2>2, FreshGoes DEF f, o
  <2>4. MergeEvent(path, y, N, f) = Event(y.name, Kept(path, f) \o f)
    BY <2>1, NamedMerge
  <2>5. Kept(path, f) \o f = f
    BY <2>3
  <2>6. y.isArray
    BY <2>1 DEF Event
  <2>7. f # <<>>
    BY <2>3
  <2>8. Merged(path, y)
    BY <2>1, <2>2, <2>3 DEF Merged, f
  <2> QED BY <2>1, <2>4, <2>5, <2>6, <2>7, <2>8 DEF y
<1>12. ASSUME NEW i \in 1..Len(a) PROVE Good(a[i])
  BY <1>8, <1>9, <1>10
<1>13. /\ Len(H) = Len(a) + Len(b) /\ Len(a) \in Nat /\ Len(b) \in Nat
       /\ \A i \in 1..Len(a) : H[i] = a[i]
       /\ \A i \in 1..Len(b) : H[Len(a) + i] = b[i]
  <2>1. IsSeq(a) /\ Len(a) \in Nat
    BY <1>9, <1>10, OfAny
  <2>2. IsSeq(b) /\ Len(b) \in Nat
    BY <1>7, OfAny
  <2> QED BY <2>1, <2>2, ConcatIsSeq
<1> HIDE DEF H
<1>14. ASSUME NEW i \in 1..Len(H) PROVE Good(H[i])
  <2> HIDE DEF Good
  <2>1. CASE i <= Len(a)
    BY <1>12, <1>13, <2>1
  <2>2. CASE ~(i <= Len(a))
    <3>1. i - Len(a) \in 1..Len(b) /\ Len(a) + (i - Len(a)) = i
      BY <1>13, <2>2
    <3>2. H[i] = b[i - Len(a)]
      BY <1>13, <3>1
    <3> QED BY <1>11, <3>1, <3>2
  <2> QED BY <2>1, <2>2
<1>15. N \subseteq Names(H)
  <2> SUFFICES ASSUME NEW x \in N PROVE \E i \in 1..Len(H) : H[i].name = x
    BY DEF Names
  <2>1. CASE x \in Names(h)
    <3>1. PICK j \in 1..Len(h) : h[j].name = x
      BY <2>1 DEF Names
    <3>2. j \in 1..Len(a) /\ a[j].name = x
      BY <1>8, <1>9, <1>10, <3>1
    <3>3. j \in 1..Len(H) /\ H[j] = a[j]
      BY <1>13, <3>2
    <3> QED BY <3>2, <3>3
  <2>2. CASE x \notin Names(h)
    <3>1. PICK j \in 1..Len(b) : b[j].name = x
      BY <1>7, <2>2
    <3>2. Len(a) + j \in 1..Len(H) /\ H[Len(a) + j] = b[j]
      BY <1>13
    <3> QED BY <3>1, <3>2
  <2> QED BY <2>1, <2>2
<1>16. \A j \in 1..Len(h) : h[j].name \notin N => IsIn(h[j], H)
  <2> SUFFICES ASSUME NEW j \in 1..Len(h), h[j].name \notin N
               PROVE  j \in 1..Len(H) /\ H[j] = h[j]
    BY DEF IsIn
  <2>1. j \in 1..Len(a) /\ a[j] = h[j]
    BY <1>8, <1>9, <1>10
  <2> QED BY <1>13, <2>1
<1> QED BY <1>5, <1>14, <1>15, <1>16 DEF f

-----------------------------------------------------------------------------
(* The bridge's commands in groups, by their places.                       *)

LEMMA CommandsInIs ==
    ASSUME NEW g, NEW S
    PROVE  /\ \A at : at \in DOMAIN CommandsIn(g, S) <=>
                  \E i \in 1..Len(g) : g[i].kind = "group" /\ \E k \in 1..Len(g[i].hooks) :
                      at = <<i, k>> /\ g[i].hooks[k] \in S
           /\ \A at \in DOMAIN CommandsIn(g, S) : CommandsIn(g, S)[at] = g[at[1]].hooks[at[2]]
<1> DEFINE places == UNION {{<<i, k>> : k \in 1..Len(g[i].hooks)} :
                              i \in {j \in 1..Len(g) : g[j].kind = "group"}}
           Command(at) == g[at[1]].hooks[at[2]]
           D == {x \in places : Command(x) \in S}
<1>1. CommandsIn(g, S) = [at \in D |-> Command(at)]
  BY DEF CommandsIn
<1>2. ASSUME NEW at
      PROVE  at \in places <=> \E i \in 1..Len(g) : g[i].kind = "group" /\ \E k \in 1..Len(g[i].hooks) :
                                   at = <<i, k>>
  OBVIOUS
<1>3. \A i, k : Command(<<i, k>>) = g[i].hooks[k]
  OBVIOUS
<1>4. ASSUME NEW at
      PROVE  at \in D <=> \E i \in 1..Len(g) : g[i].kind = "group" /\ \E k \in 1..Len(g[i].hooks) :
                              at = <<i, k>> /\ g[i].hooks[k] \in S
  <2>1. at \in D <=> at \in places /\ Command(at) \in S
    OBVIOUS
  <2> HIDE DEF places, Command, D
  <2> QED BY <1>2, <1>3, <2>1
<1>5. \A at \in D : CommandsIn(g, S)[at] = Command(at)
  BY <1>1
<1>6. DOMAIN CommandsIn(g, S) = D
  BY <1>1
<1> HIDE DEF D, places
<1> QED BY <1>4, <1>5, <1>6

(* What the bridge of path takes for a bridge's is what it recognises.     *)
Ours(path) == KnownCommands \ (ForeignCommand \cup Unrecognisable(path))

LEMMA OursIsOwned ==
    ASSUME NEW path \in Paths
    PROVE  /\ Ours(path) \subseteq OwnedBy[path]
           /\ path \in StablePaths => CommandOf[path] \in Ours(path)
<1>1. Ours(path) \subseteq OwnedBy[path]
  BY RecognisedAssumption DEF Ours
<1>2. path \in StablePaths => CommandOf[path] \in Ours(path)
  BY OwnIsKnown, OwnAssumption DEF Ours
<1> QED BY <1>1, <1>2

(* None of them is left in a group that a merge keeps.                     *)
LEMMA NoneKept ==
    ASSUME NEW path \in Paths, NEW g \in Seq(AnyGroup),
           NEW i \in 1..Len(Kept(path, g)), Kept(path, g)[i].kind = "group",
           NEW k \in 1..Len(Kept(path, g)[i].hooks)
    PROVE  Kept(path, g)[i].hooks[k] \notin OwnedBy[path]
<1> DEFINE s == [j \in 1..Len(g) |-> FilterOwnedHooks(path, g[j])]
           I == {j \in 1..Len(g) : ~DroppedWholeGroup(path, g[j])}
           t == Kept(path, g)
<1>1. t = At(s, I)
  BY DEF Kept
<1>2. s \in Seq(AnyGroup) /\ Len(s) = Len(g)
  <2>1. s \in Seq(AnyGroup)
    BY MappedTypes
  <2>2. Len(g) \in Nat
    BY OfAny
  <2> QED BY <2>1, <2>2
<1>3. IsSeq(s)
  BY <1>2, OfAny
<1>4. \A j \in 1..Len(g) : s[j] = FilterOwnedHooks(path, g[j])
  OBVIOUS
<1> HIDE DEF s, t
<1>5. Picks(t, s, I)
  BY <1>1, <1>3, AtLines
<1>6. PICK j \in 1..Len(s) : t[i] = s[j]
  BY <1>5 DEF Picks, t
<1> DEFINE x == g[j]
           y == FilterOwnedHooks(path, x)
           o == Others(path, x)
<1>7. x \in AnyGroup /\ t[i] = y
  <2>1. j \in 1..Len(g)
    BY <1>2, <1>6
  <2> QED BY <1>4, <1>6, <2>1, OfAny
<1>8. y.kind = "group" => y.hooks = o
  <2>1. CASE x.kind = "group" /\ o # x.hooks
    BY <2>1 DEF FilterOwnedHooks, Group
  <2>2. CASE ~(x.kind = "group" /\ o # x.hooks)
    BY <2>2 DEF FilterOwnedHooks
  <2> QED BY <2>1, <2>2
<1>9. \A n \in 1..Len(o) : o[n] \notin OwnedBy[path]
  <2> DEFINE h == x.hooks
             K == {n \in 1..Len(h) : h[n] \notin OwnedBy[path]}
  <2>1. IsSeq(h)
    BY <1>7, GroupParts
  <2>2. o = At(h, K)
    BY DEF Others, Without
  <2> HIDE DEF h
  <2>3. Picks(o, h, K)
    BY <2>1, <2>2, AtLines
  <2>4. \A n \in K : h[n] \notin OwnedBy[path]
    OBVIOUS
  <2> HIDE DEF K, o
  <2> QED BY <2>3, <2>4 DEF Picks
<1> HIDE DEF x, y, o
<1>10. t[i].kind = "group" /\ t[i].hooks = o /\ k \in 1..Len(o)
  BY <1>7, <1>8 DEF t
<1> QED BY <1>9, <1>10 DEF t

(* After pair's merge of an event the bridge's command is there, once.     *)
LEMMA OneAdded ==
    ASSUME NEW path \in StablePaths, NEW g \in Seq(AnyGroup),
           NEW S \in SUBSET OwnedBy[path], CommandOf[path] \in S
    PROVE  IsOnly(CommandsIn(Kept(path, g) \o Fresh(path), S), CommandOf[path])
<1> DEFINE t == Kept(path, g)
           f == Fresh(path)
           n == Len(t)
           w == t \o f
           c == CommandOf[path]
           C == CommandsIn(w, S)
<1>1. path \in Paths
  BY DEF Paths
<1>2. S \subseteq OwnedBy[path] /\ c \in S
  OBVIOUS
<1>3. IsSeq(t) /\ n \in Nat
  BY KeptType, OfAny
<1>4. /\ IsSeq(f) /\ Len(f) = 1
      /\ f[1].kind = "group" /\ Len(f[1].hooks) = 1 /\ f[1].hooks[1] = c
  <2>1. f \in Seq(AnyGroup) /\ Len(f) = 1
    BY FreshIsOurs
  <2>2. f[1] = Group(AnyTool, <<c>>)
    BY DEF Fresh
  <2>3. f[1].kind = "group" /\ f[1].hooks = <<c>>
    BY <2>2 DEF Group
  <2> HIDE DEF f, c
  <2> QED BY <2>1, <2>3, OfAny
<1>5. \A i \in 1..n : t[i].kind = "group" => \A k \in 1..Len(t[i].hooks) : t[i].hooks[k] \notin S
  BY <1>1, <1>2, NoneKept
<1> HIDE DEF t, f, c
<1>6. /\ Len(w) = n + 1 /\ w[n + 1] = f[1]
      /\ \A i \in 1..n : w[i] = t[i]
  <2>1. /\ Len(w) = n + Len(f) /\ \A i \in 1..Len(t) : w[i] = t[i]
        /\ \A i \in 1..Len(f) : w[n + i] = f[i]
    <3>1. IsSeq(t) /\ IsSeq(f)
      BY <1>3, <1>4
    <3> QED BY <3>1, ConcatIsSeq
  <2> HIDE DEF w
  <2> QED BY <1>4, <2>1
<1> HIDE DEF w, n
<1>7. \A at : at \in DOMAIN C <=>
          \E i \in 1..Len(w) : w[i].kind = "group" /\ \E k \in 1..Len(w[i].hooks) :
              at = <<i, k>> /\ w[i].hooks[k] \in S
  BY CommandsInIs
<1>8. \A at \in DOMAIN C : C[at] = w[at[1]].hooks[at[2]]
  BY CommandsInIs
<1> HIDE DEF C
<1> DEFINE at == <<n + 1, 1>>
<1>9. at \in DOMAIN C
  BY <1>2, <1>3, <1>4, <1>6, <1>7
<1>10. ASSUME NEW x \in DOMAIN C PROVE x = at
  <2>1. PICK i \in 1..Len(w) : w[i].kind = "group" /\ \E k \in 1..Len(w[i].hooks) :
            x = <<i, k>> /\ w[i].hooks[k] \in S
    BY <1>7
  <2>2. PICK k \in 1..Len(w[i].hooks) : x = <<i, k>> /\ w[i].hooks[k] \in S
    BY <2>1
  <2>3. i \notin 1..n
    BY <1>5, <1>6, <2>1, <2>2
  <2>4. i = n + 1
    BY <1>3, <1>6, <2>3
  <2>5. k = 1
    <3>1. w[i] = f[1]
      BY <1>6, <2>4
    <3>2. Len(w[i].hooks) = 1
      BY <1>4, <3>1
    <3> QED BY <3>2
  <2> QED BY <2>2, <2>4, <2>5
<1>11. C[at] = c
  BY <1>4, <1>6, <1>8, <1>9
<1> HIDE DEF at
<1>12. DOMAIN C = {at}
  BY <1>9, <1>10
<1>13. IsOnly(C, c)
  BY <1>11, <1>12 DEF IsOnly
<1> QED BY <1>13 DEF C, c, w, t, f

(* An event that has only the bridge's command among those it recognises.  *)
LEMMA OnlyOurs ==
    ASSUME NEW path \in StablePaths, NEW g,
           IsOnly(OwnedCommands(path, g), CommandOf[path]),
           NEW S \in SUBSET OwnedBy[path], CommandOf[path] \in S
    PROVE  IsOnly(CommandsIn(g, S), CommandOf[path])
<1> DEFINE O == OwnedBy[path]
           c == CommandOf[path]
           C == CommandsIn(g, S)
           D == CommandsIn(g, O)
<1>1. S \subseteq O /\ c \in S
  OBVIOUS
<1>2. IsOnly(D, c)
  BY DEF OwnedCommands
<1> HIDE DEF O, c
<1>3. \A at : at \in DOMAIN C <=>
          \E i \in 1..Len(g) : g[i].kind = "group" /\ \E k \in 1..Len(g[i].hooks) :
              at = <<i, k>> /\ g[i].hooks[k] \in S
  BY CommandsInIs
<1>4. \A at : at \in DOMAIN D <=>
          \E i \in 1..Len(g) : g[i].kind = "group" /\ \E k \in 1..Len(g[i].hooks) :
              at = <<i, k>> /\ g[i].hooks[k] \in O
  BY CommandsInIs
<1>5. \A at \in DOMAIN C : C[at] = g[at[1]].hooks[at[2]]
  BY CommandsInIs
<1>6. \A at \in DOMAIN D : D[at] = g[at[1]].hooks[at[2]]
  BY CommandsInIs
<1> HIDE DEF C, D
<1>7. PICK at \in DOMAIN D : DOMAIN D = {at} /\ D[at] = c
  BY <1>2 DEF IsOnly
<1>8. DOMAIN C \subseteq DOMAIN D
  BY <1>1, <1>3, <1>4
<1>9. at \in DOMAIN C
  <2>1. PICK i \in 1..Len(g) : g[i].kind = "group" /\ \E k \in 1..Len(g[i].hooks) :
            at = <<i, k>> /\ g[i].hooks[k] \in O
    BY <1>4
  <2>2. PICK k \in 1..Len(g[i].hooks) : at = <<i, k>> /\ g[i].hooks[k] \in O
    BY <2>1
  <2>3. g[i].hooks[k] = c
    BY <1>6, <1>7, <2>2
  <2>4. g[i].hooks[k] \in S
    BY <1>1, <2>3
  <2> QED BY <1>3, <2>1, <2>2, <2>4
<1>10. DOMAIN C = {at} /\ C[at] = c
  BY <1>5, <1>6, <1>7, <1>8, <1>9
<1> QED BY <1>9, <1>10 DEF IsOnly, C, c

LEMMA GroupsAre ==
    ASSUME NEW h \in Seq(AnyEvent), Distinct(h), NEW i \in 1..Len(h)
    PROVE  GroupsOf(h, h[i].name) = h[i].groups
<1> DEFINE n == h[i].name
           m == LastOf(h, n)
<1>1. m \in 1..Len(h) /\ h[m].name = n
  BY LastOfIs
<1>2. n \in Names(h)
  BY DEF Names
<1> HIDE DEF m
<1>3. m = i
  BY <1>1 DEF Distinct
<1> QED BY <1>2, <1>3 DEF GroupsOf, m

LEMMA NoneInNone == ASSUME NEW S PROVE DOMAIN CommandsIn(<<>>, S) = {}
<1> DEFINE e == <<>>
<1>1. Len(e) = 0 /\ 1..0 = {}
  OBVIOUS
<1> HIDE DEF e
<1>2. \A at : at \notin DOMAIN CommandsIn(e, S)
  BY <1>1, CommandsInIs
<1>3. DOMAIN CommandsIn(e, S) = {}
  BY <1>2
<1> QED BY <1>3 DEF e

(* Each event that pair merges, or that needs no merge, has the bridge's   *)
(* command once and no other command of a bridge.                          *)
LEMMA AllRegistered ==
    ASSUME NEW path \in StablePaths, NEW h \in Seq(AnyEvent), Distinct(h),
           NEW names, NamesOnce(names), NEW name,
           name \in ToSet(names) \/ IsOnly(OwnedCommands(path, GroupsOf(h, name)), CommandOf[path]),
           NEW S \in SUBSET OwnedBy[path], CommandOf[path] \in S
    PROVE  IsOnly(CommandsIn(GroupsOf(Install(path, h, names), name), S), CommandOf[path])
<1> DEFINE H == Install(path, h, names)
           N == ToSet(names)
           c == CommandOf[path]
<1>1. H \in Seq(AnyEvent) /\ Distinct(H)
  BY InstallType
<1>2. /\ N \subseteq Names(H)
      /\ \A i \in 1..Len(H) :
            H[i].name \in N => Merged(path, H[i])
      /\ \A j \in 1..Len(h) : h[j].name \notin N => IsIn(h[j], H)
  BY InstalledEvents
<1> HIDE DEF H, c, N
<1>3. CASE name \in N
  <2>1. PICK i \in 1..Len(H) : H[i].name = name
    BY <1>2, <1>3 DEF Names
  <2>2. PICK g \in Seq(AnyGroup) : H[i].groups = Kept(path, g) \o Fresh(path)
    BY <1>2, <1>3, <2>1 DEF Merged
  <2>3. GroupsOf(H, name) = Kept(path, g) \o Fresh(path)
    BY <1>1, <2>1, <2>2, GroupsAre
  <2>4. IsOnly(CommandsIn(Kept(path, g) \o Fresh(path), S), c)
    BY OneAdded DEF c
  <2> QED BY <2>3, <2>4 DEF H, c
<1>4. CASE name \notin N
  <2>1. IsOnly(OwnedCommands(path, GroupsOf(h, name)), c)
    BY <1>4 DEF N, c
  <2>2. name \in Names(h)
    <3>1. ASSUME name \notin Names(h) PROVE FALSE
      <4>1. GroupsOf(h, name) = <<>>
        BY <3>1 DEF GroupsOf
      <4>2. DOMAIN OwnedCommands(path, GroupsOf(h, name)) = {}
        BY <4>1, NoneInNone DEF OwnedCommands
      <4> QED BY <2>1, <4>2 DEF IsOnly
    <3> QED BY <3>1
  <2>3. PICK j \in 1..Len(h) : h[j].name = name
    BY <2>2 DEF Names
  <2>4. PICK i \in 1..Len(H) : H[i] = h[j]
    BY <1>2, <1>4, <2>3 DEF IsIn
  <2>5. GroupsOf(H, name) = GroupsOf(h, name)
    <3>1. GroupsOf(h, name) = h[j].groups
      BY <2>3, GroupsAre
    <3>2. GroupsOf(H, name) = H[i].groups
      BY <1>1, <2>3, <2>4, GroupsAre
    <3> QED BY <2>4, <3>1, <3>2
  <2>6. IsOnly(CommandsIn(GroupsOf(h, name), S), c)
    BY <2>1, OnlyOurs DEF c
  <2> QED BY <2>5, <2>6 DEF H, c
<1> QED BY <1>3, <1>4

(* unpair leaves of every event what a merge keeps.                        *)
LEMMA UninstalledEvents ==
    ASSUME NEW path \in Paths, NEW h \in Seq(AnyEvent),
           NEW i \in 1..Len(Uninstall(path, h))
    PROVE  \E g \in Seq(AnyGroup) : Uninstall(path, h)[i].groups = Kept(path, g)
<1> DEFINE e == <<>>
           A == Names(h)
           v == [j \in 1..Len(h) |-> MergeEvent(path, h[j], A, e)]
           K == {j \in 1..Len(h) : Stays(v[j], A)}
           u == Uninstall(path, h)
<1>1. u = At(v, K)
  BY DEF Uninstall, MergeEvents
<1>2. NotTheirs(e)
  BY NoneNotTheirs
<1>3. Len(h) \in Nat /\ \A j \in 1..Len(h) : h[j] \in AnyEvent
  BY OfAny
<1>4. \A j \in 1..Len(h) : v[j] = MergeEvent(path, h[j], A, e)
  OBVIOUS
<1>5. v \in Seq(AnyEvent) /\ Len(v) = Len(h)
  <2>1. \A j \in 1..Len(h) : MergeEvent(path, h[j], A, e) \in AnyEvent
    BY <1>2, <1>3, MergedEvent
  <2> HIDE DEF A, e
  <2> QED BY <1>3, <2>1
<1>6. IsSeq(v)
  BY <1>5, OfAny
<1> HIDE DEF u, v
<1>7. Picks(u, v, K)
  BY <1>1, <1>6, AtLines
<1>8. PICK j \in 1..Len(v) : u[i] = v[j]
  BY <1>7 DEF Picks, u
<1>9. j \in 1..Len(h) /\ u[i] = MergeEvent(path, h[j], A, e)
  BY <1>4, <1>5, <1>8
<1>10. h[j].name \in A
  BY <1>9 DEF Names
<1> DEFINE g == h[j].groups
           k == Kept(path, g)
<1>11. g \in Seq(AnyGroup) /\ k \in Seq(AnyGroup)
  BY <1>3, <1>9, EventParts, KeptType
<1>12. k \o e = k
  BY <1>11
<1> HIDE DEF A, e
<1>13. u[i] = Event(h[j].name, k \o e)
  BY <1>9, <1>10, NamedMerge
<1> HIDE DEF k
<1>14. u[i].groups = k
  BY <1>12, <1>13 DEF Event
<1> HIDE DEF g
<1>15. \E x \in Seq(AnyGroup) : u[i].groups = Kept(path, x)
  BY <1>11, <1>14 DEF k
<1> QED BY <1>15 DEF u

LEMMA NoneRegistered ==
    ASSUME NEW path \in Paths, NEW h \in Seq(AnyEvent), Distinct(h),
           NEW i \in 1..Len(Uninstall(path, h))
    PROVE  LET H == Uninstall(path, h)
           IN  DOMAIN CommandsIn(GroupsOf(H, H[i].name), Ours(path)) = {}
<1> DEFINE H == Uninstall(path, h)
           S == Ours(path)
<1>1. H \in Seq(AnyEvent) /\ Distinct(H)
  BY UninstallType
<1>2. PICK g \in Seq(AnyGroup) : H[i].groups = Kept(path, g)
  BY UninstalledEvents
<1> DEFINE k == Kept(path, g)
<1>3. S \subseteq OwnedBy[path]
  BY OursIsOwned
<1>4. \A n \in 1..Len(k) : k[n].kind = "group" => \A m \in 1..Len(k[n].hooks) : k[n].hooks[m] \notin S
  BY <1>3, NoneKept
<1> HIDE DEF H
<1>5. GroupsOf(H, H[i].name) = k
  BY <1>1, <1>2, GroupsAre DEF H
<1> HIDE DEF k, S
<1>6. \A at : at \notin DOMAIN CommandsIn(k, S)
  BY <1>4, CommandsInIs
<1> QED BY <1>5, <1>6 DEF H, S

-----------------------------------------------------------------------------
(* What the commands promise of the file they write.                       *)

Registers(f, path, S) ==
    \A name \in S : IsOnly(Bridges(f, path, name), CommandOf[path])

ListsOnly(f, path) ==
    \A name \in ToSet(Events) : IsOnly(InstalledCommands(f, path, name), CommandOf[path])

Clears(f, path) ==
    \A i \in DOMAIN f.hooks : DOMAIN Bridges(f, path, f.hooks[i].name) = {}

(* The file in which the command found the events that lack the hook and   *)
(* the one in which it merges these are the same.                          *)
Suffices(f, path, names) ==
    \A name \in ToSet(Events) :
        name \in ToSet(names) \/ IsOnly(InstalledCommands(f, path, name), CommandOf[path])

LEMMA MissingSuffices ==
    ASSUME NEW f, NEW path
    PROVE  NamesOnce(Missing(f, path)) /\ Suffices(f, path, Missing(f, path)) /\ Suffices(f, path, Events)
<1> DEFINE Lacks(name) == ~IsOnly(InstalledCommands(f, path, name), CommandOf[path])
           I == {i \in 1..Len(Events) : Lacks(Events[i])}
           m == Missing(f, path)
<1>1. m = At(Events, I)
  BY DEF Missing
<1>2. NamesOnce(Events)
  BY EventsAssumption DEF NamesOnce
<1>3. Events \in Seq(STRING) /\ IsSeq(Events)
  BY <1>2, OfAny DEF NamesOnce
<1> HIDE DEF m
<1>4. NamesOnce(m) /\ Picks(m, Events, I) /\ IsSeq(m)
  BY <1>1, <1>2, <1>3, SelectedOnce, AtLines
<1>5. ASSUME NEW name \in ToSet(Events), Lacks(name) PROVE name \in ToSet(m)
  <2>1. PICK i \in 1..Len(Events) : Events[i] = name
    BY <1>3 DEF ToSet
  <2>2. i \in I \cap 1..Len(Events)
    BY <1>5, <2>1
  <2> HIDE DEF I
  <2>3. PICK j \in 1..Len(m) : m[j] = Events[i]
    BY <1>4, <2>2 DEF Picks
  <2>4. m \in Seq(STRING)
    BY <1>4 DEF NamesOnce
  <2> QED BY <2>1, <2>3, <2>4 DEF ToSet
<1> QED BY <1>4, <1>5 DEF Suffices, m

(* What pair writes are the merged hooks.                                  *)
LEMMA Written ==
    ASSUME NEW f, Whole(f), NEW path \in StablePaths, NEW names, NamesOnce(names),
           PlanInstall(f, path, names).ok
    PROVE  LET a == PlanInstall(f, path, names).after
               H == Install(path, Decoded(f.hooks), names)
           IN  /\ a.shape = "document" /\ a.hooks = H /\ Decoded(a.hooks) = H
               /\ H \in Seq(AnyEvent) /\ Distinct(H)
<1> DEFINE plan == PlanInstall(f, path, names)
           h == Decoded(f.hooks)
           H == Install(path, h, names)
           a == plan.after
<1>1. f.hooks \in Seq(AnyEvent)
  BY FileParts DEF Whole
<1>2. h \in Seq(AnyEvent) /\ Distinct(h)
  BY <1>1, DecodedType
<1>3. f.shape \in {"absent", "empty"} => h = <<>>
  BY EmptyFile, NoEvents
<1>4. a.hooks = H /\ a.shape = "document"
  <2>1. f.shape \in {"absent", "empty"} => BuildFromScratch(path, names).hooks = Install(path, <<>>, names)
    BY FromScratch
  <2>2. SpliceTopLevelKey(f, H).hooks = H /\ SpliceTopLevelKey(f, H).shape = "document"
    BY DEF SpliceTopLevelKey, Document
  <2> DEFINE b == BuildFromScratch(path, names)
             s == SpliceTopLevelKey(f, H)
  <2>3. \/ f.shape \in {"absent", "empty"} /\ plan = [ok |-> TRUE, after |-> b]
        \/ plan = [ok |-> TRUE, after |-> s]
        \/ plan = Refused
    BY PlanInstallIs
  <2>4. plan # Refused
    BY DEF Refused
  <2> HIDE DEF plan, b, s, H
  <2>5. CASE f.shape \in {"absent", "empty"} /\ plan = [ok |-> TRUE, after |-> b]
    <3>1. plan.after = b
      BY <2>5
    <3>2. b.hooks = H
      BY <1>3, <2>1, <2>5 DEF b, H
    <3>3. b.shape = "document"
      BY DEF b, BuildFromScratch, Document
    <3> QED BY <3>1, <3>2, <3>3
  <2>6. CASE plan = [ok |-> TRUE, after |-> s]
    <3>1. plan.after = s
      BY <2>6
    <3> QED BY <2>2, <3>1 DEF s, H
  <2> QED BY <2>3, <2>4, <2>5, <2>6
<1> HIDE DEF plan, h
<1>5. H \in Seq(AnyEvent) /\ Distinct(H)
  BY <1>2, InstallType
<1>6. Decoded(a.hooks) = H
  BY <1>4, <1>5, DecodedSame
<1> HIDE DEF a
<1> QED BY <1>4, <1>5, <1>6 DEF a, plan, h

(* Each event of names has one command of any of the bridge's own, its     *)
(* present one.                                                            *)
LEMMA InstallRegisters ==
    ASSUME NEW f, Whole(f), NEW path \in StablePaths, NEW names, NamesOnce(names),
           PlanInstall(f, path, names).ok,
           NEW name,
           name \in ToSet(names) \/ IsOnly(InstalledCommands(f, path, name), CommandOf[path])
    PROVE  LET a == PlanInstall(f, path, names).after
           IN  /\ IsOnly(Bridges(a, path, name), CommandOf[path])
               /\ IsOnly(InstalledCommands(a, path, name), CommandOf[path])
<1> DEFINE h == Decoded(f.hooks)
           H == Install(path, h, names)
           a == PlanInstall(f, path, names).after
<1>1. h \in Seq(AnyEvent) /\ Distinct(h)
  BY FileParts, DecodedType DEF Whole
<1>2. Decoded(a.hooks) = H
  BY Written
<1>3. path \in Paths
  BY DEF Paths
<1>4. /\ Ours(path) \in SUBSET OwnedBy[path] /\ CommandOf[path] \in Ours(path)
      /\ OwnedBy[path] \in SUBSET OwnedBy[path] /\ CommandOf[path] \in OwnedBy[path]
  BY <1>3, OursIsOwned
<1>5. name \in ToSet(names) \/ IsOnly(OwnedCommands(path, GroupsOf(h, name)), CommandOf[path])
  BY DEF InstalledCommands
<1> HIDE DEF a, h
<1>6. IsOnly(CommandsIn(GroupsOf(H, name), Ours(path)), CommandOf[path])
  BY <1>1, <1>4, <1>5, AllRegistered
<1>7. IsOnly(CommandsIn(GroupsOf(H, name), OwnedBy[path]), CommandOf[path])
  BY <1>1, <1>4, <1>5, AllRegistered
<1> HIDE DEF H
<1> QED BY <1>2, <1>6, <1>7 DEF Bridges, Ours, InstalledCommands, OwnedCommands, a

(* A file in which all other events have it already then has it in all.    *)
LEMMA InstallRegistersAll ==
    ASSUME NEW f, Whole(f), NEW path \in StablePaths, NEW names, NamesOnce(names),
           Suffices(f, path, names), PlanInstall(f, path, names).ok
    PROVE  LET a == PlanInstall(f, path, names).after
           IN  Registers(a, path, ToSet(Events)) /\ ListsOnly(a, path)
<1> DEFINE a == PlanInstall(f, path, names).after
<1>1. ASSUME NEW name \in ToSet(Events)
      PROVE  /\ IsOnly(Bridges(a, path, name), CommandOf[path])
             /\ IsOnly(InstalledCommands(a, path, name), CommandOf[path])
  <2>1. name \in ToSet(names) \/ IsOnly(InstalledCommands(f, path, name), CommandOf[path])
    BY DEF Suffices
  <2> QED BY <2>1, InstallRegisters
<1> HIDE DEF a
<1> QED BY <1>1 DEF Registers, ListsOnly, a

LEMMA UninstallClears ==
    ASSUME NEW f, Whole(f), NEW path \in Paths, PlanUninstall(f, path).ok
    PROVE  Clears(PlanUninstall(f, path).after, path)
<1> DEFINE plan == PlanUninstall(f, path)
           h == Decoded(f.hooks)
           H == Uninstall(path, h)
           a == plan.after
           s == SpliceTopLevelKey(f, H)
<1>1. f.hooks \in Seq(AnyEvent)
  BY FileParts DEF Whole
<1>2. h \in Seq(AnyEvent) /\ Distinct(h)
  BY <1>1, DecodedType
<1>3. s.hooks = H
  BY DEF SpliceTopLevelKey, Document
<1>4. \/ f.shape \in {"absent", "empty"} /\ plan = [ok |-> TRUE, after |-> f]
      \/ plan = [ok |-> TRUE, after |-> s]
      \/ plan = Refused
  BY PlanUninstallIs
<1>5. plan # Refused
  BY DEF Refused
<1> HIDE DEF plan, s, H, h
<1>6. CASE f.shape \in {"absent", "empty"} /\ plan = [ok |-> TRUE, after |-> f]
  <2>1. a = f
    BY <1>6
  <2>2. f.hooks = <<>>
    BY <1>6, EmptyFile
  <2>3. DOMAIN a.hooks = {}
    BY <2>1, <2>2
  <2> HIDE DEF a
  <2> QED BY <2>3 DEF Clears, a, plan
<1>7. CASE plan = [ok |-> TRUE, after |-> s]
  <2>1. a = s
    BY <1>7
  <2>2. a.hooks = H
    BY <1>3, <2>1
  <2>3. H \in Seq(AnyEvent) /\ Distinct(H)
    BY <1>2, UninstallType DEF H
  <2>4. Decoded(a.hooks) = H /\ DOMAIN a.hooks = 1..Len(H)
    BY <2>2, <2>3, DecodedSame
  <2> HIDE DEF a
  <2>5. ASSUME NEW i \in 1..Len(H) PROVE DOMAIN Bridges(a, path, a.hooks[i].name) = {}
    <3>1. DOMAIN CommandsIn(GroupsOf(H, H[i].name), Ours(path)) = {}
      BY <1>2, NoneRegistered DEF H
    <3> QED BY <2>2, <2>4, <3>1 DEF Bridges, Ours
  <2> QED BY <2>4, <2>5 DEF Clears, a, plan
<1> QED BY <1>4, <1>5, <1>6, <1>7

-----------------------------------------------------------------------------
(* A command that has looked knows which events lack its hook in the file  *)
(* that it read; one that has asked holds a whole file with what others    *)
(* had put into the file that it read, and with what it promises.          *)

Fields == {"pc", "op", "path", "missing", "after", "read", "reread", "copied"}

Carries(p) ==
    /\ DOMAIN p = Fields
    /\ p.pc = "looked" =>
           p.op = "hooksonly" /\ p.path \in StablePaths /\ p.missing = Missing(p.read, p.path)
    /\ p.pc = "asked" =>
           /\ Whole(p.after) /\ Foreign(p.after) = p.copied
           /\ p.op = "unpair" => Clears(p.after, p.path)
           /\ p.op # "unpair" => p.path \in StablePaths
           /\ p.op # "unpair" => Registers(p.after, p.path, Promised(p))

IInv ==
    /\ Whole(file) /\ binary \in Binaries /\ ForeignKept
    /\ DOMAIN proc = Cmd /\ \A c \in Cmd : Carries(proc[c])

LEMMA IdleCarries == Carries(Idle) /\ Carries(Done) /\ DOMAIN Idle = Fields
<1>1. DOMAIN Idle = Fields /\ Idle.pc = "idle"
  BY DEF Idle, Fields
<1>2. DOMAIN Done = Fields /\ Done.pc = "done"
  BY DEF Done, Idle, Fields
<1> QED BY <1>1, <1>2 DEF Carries

(* The other variables stay and one command gets a new state.              *)
LEMMA GoesKeeps ==
    ASSUME IInv, NEW c \in Cmd, NEW p, Carries(p), Goes(c, p), UNCHANGED <<file, binary, others>>
    PROVE  IInv'
<1>1. proc' = [proc EXCEPT ![c] = p]
  BY DEF Goes
<1>2. DOMAIN proc' = Cmd /\ \A d \in Cmd : Carries(proc'[d])
  BY <1>1 DEF IInv
<1>3. Whole(file') /\ binary' \in Binaries /\ ForeignKept'
  BY DEF IInv, ForeignKept
<1> QED BY <1>2, <1>3 DEF IInv

LEMMA PlannedKeeps ==
    ASSUME IInv, NEW c \in Cmd, NEW p, DOMAIN p = Fields, NEW plan, Planned(c, p, plan),
           UNCHANGED <<file, binary, others>>,
           plan.ok => Whole(plan.after) /\ Foreign(plan.after) = Foreign(file),
           plan.ok /\ p.op = "unpair" => Clears(plan.after, p.path),
           p.op # "unpair" => p.path \in StablePaths,
           plan.ok /\ p.op # "unpair" /\ p.read = file =>
               Registers(plan.after, p.path, ToSet(Events)),
           plan.ok /\ p.op # "unpair" /\ p.read # file =>
               Registers(plan.after, p.path, ToSet(p.missing))
    PROVE  IInv'
<1>1. CASE plan.ok /\ plan.after # file
  <2> DEFINE q == [p EXCEPT !.pc = "asked", !.after = plan.after, !.read = NoFile,
                            !.reread = p.read # file, !.copied = others]
  <2>1. Goes(c, q)
    BY <1>1 DEF Planned
  <2>2. /\ DOMAIN q = Fields /\ q.pc = "asked" /\ q.after = plan.after /\ q.copied = others
        /\ q.op = p.op /\ q.path = p.path /\ q.reread = (p.read # file)
        /\ q.missing = p.missing
    BY DEF Fields
  <2> HIDE DEF q
  <2>3. Foreign(q.after) = q.copied
    BY <1>1, <2>2 DEF IInv, ForeignKept
  <2>4. q.op # "unpair" => Registers(q.after, q.path, Promised(q))
    <3>1. CASE q.reread
      <4>1. p.read # file /\ Promised(q) = ToSet(p.missing)
        BY <2>2, <3>1 DEF Promised
      <4> QED BY <1>1, <2>2, <4>1
    <3>2. CASE ~q.reread
      <4>1. p.read = file /\ Promised(q) = ToSet(Events)
        BY <2>2, <3>2 DEF Promised
      <4> QED BY <1>1, <2>2, <4>1
    <3> QED BY <3>1, <3>2
  <2>5. Carries(q)
    BY <1>1, <2>2, <2>3, <2>4 DEF Carries
  <2> QED BY <2>1, <2>5, GoesKeeps
<1>2. CASE ~(plan.ok /\ plan.after # file)
  <2>1. Goes(c, Done)
    BY <1>2 DEF Planned
  <2> QED BY <2>1, IdleCarries, GoesKeeps
<1> QED BY <1>1, <1>2

LEMMA EditedKeeps ==
    ASSUME IInv, NEW new, Whole(new), Edited(new)
    PROVE  IInv'
<1>1. file' = new /\ others' = Foreign(new) /\ proc' = proc /\ binary' = binary
  BY DEF Edited
<1>2. ForeignKept' /\ Whole(file')
  BY <1>1 DEF ForeignKept
<1> QED BY <1>1, <1>2 DEF IInv

LEMMA KnownPaths ==
    ASSUME NEW b \in Binaries
    PROVE  StableBinaryPath(b) \in StablePaths /\ StableBinaryPath(b) \in Paths /\ <<>> \in Paths
BY DEF Paths, StablePaths

LEMMA EventsOnce == NamesOnce(Events)
BY EventsAssumption DEF NamesOnce

-----------------------------------------------------------------------------
(* The commands.                                                           *)

LEMMA PairPlansKeeps == ASSUME IInv, NEW c \in Cmd, PairPlans(c) PROVE IInv'
<1> DEFINE path == StableBinaryPath(binary)
           p == [Idle EXCEPT !.op = "pair", !.path = path, !.read = file]
           plan == PlanInstall(file, path, Events)
<1>1. UNCHANGED <<file, binary, others>> /\ Planned(c, p, plan)
  BY DEF PairPlans, Begins
<1>2. path \in StablePaths /\ Whole(file)
  BY KnownPaths DEF IInv
<1> HIDE DEF path
<1>3. DOMAIN p = Fields /\ p.op = "pair" /\ p.path = path /\ p.read = file
  BY IdleCarries DEF Fields
<1> HIDE DEF p
<1>4. plan.ok => Whole(plan.after) /\ Foreign(plan.after) = Foreign(file)
  BY <1>2, EventsOnce, InstallKeeps
<1>5. plan.ok => Registers(plan.after, path, ToSet(Events))
  BY <1>2, EventsOnce, MissingSuffices, InstallRegistersAll
<1> HIDE DEF plan
<1> QED BY <1>1, <1>2, <1>3, <1>4, <1>5, PlannedKeeps

LEMMA UnpairPlansKeeps == ASSUME IInv, NEW c \in Cmd, UnpairPlans(c) PROVE IInv'
<1>1. PICK path \in {StableBinaryPath(binary), <<>>} :
          /\ Begins(c, "unpair")
          /\ Planned(c, [Idle EXCEPT !.op = "unpair", !.path = path, !.read = file],
                     PlanUninstall(file, path))
  BY DEF UnpairPlans
<1> DEFINE p == [Idle EXCEPT !.op = "unpair", !.path = path, !.read = file]
           plan == PlanUninstall(file, path)
<1>2. UNCHANGED <<file, binary, others>> /\ Planned(c, p, plan)
  BY <1>1 DEF Begins
<1>3. DOMAIN p = Fields /\ p.op = "unpair" /\ p.path = path
  BY IdleCarries DEF Fields
<1>4. path \in Paths /\ Whole(file)
  BY KnownPaths DEF IInv
<1> HIDE DEF p
<1>5. plan.ok => Whole(plan.after) /\ Foreign(plan.after) = Foreign(file)
  BY <1>4, UninstallKeeps
<1>6. plan.ok => Clears(plan.after, path)
  BY <1>4, UninstallClears
<1> HIDE DEF plan
<1> QED BY <1>2, <1>3, <1>5, <1>6, PlannedKeeps

LEMMA HooksOnlyLooksKeeps == ASSUME IInv, NEW c \in Cmd, HooksOnlyLooks(c) PROVE IInv'
<1> DEFINE path == StableBinaryPath(binary)
           m == Missing(file, path)
           p == [Idle EXCEPT !.pc = "looked", !.op = "hooksonly", !.path = path,
                             !.missing = m, !.read = file]
<1>1. UNCHANGED <<file, binary, others>> /\ (Goes(c, p) \/ Goes(c, Done))
  BY DEF HooksOnlyLooks, Begins
<1>2. path \in StablePaths
  BY KnownPaths DEF IInv
<1> HIDE DEF path, m
<1>3. /\ DOMAIN p = Fields /\ p.pc = "looked" /\ p.op = "hooksonly" /\ p.path = path
      /\ p.missing = m /\ p.read = file
  BY IdleCarries DEF Fields
<1> HIDE DEF p
<1>4. Carries(p)
  BY <1>2, <1>3 DEF Carries, m
<1> QED BY <1>1, <1>4, IdleCarries, GoesKeeps

LEMMA HooksOnlyPlansKeeps == ASSUME IInv, NEW c \in Cmd, HooksOnlyPlans(c) PROVE IInv'
<1> DEFINE p == proc[c]
           plan == PlanInstall(file, p.path, p.missing)
<1>1. UNCHANGED <<file, binary, others>> /\ Planned(c, p, plan) /\ p.pc = "looked"
  BY DEF HooksOnlyPlans
<1>2. /\ DOMAIN p = Fields /\ p.path \in StablePaths /\ Whole(file)
      /\ p.op = "hooksonly" /\ p.missing = Missing(p.read, p.path)
  BY <1>1 DEF IInv, Carries
<1> HIDE DEF p
<1>3. NamesOnce(p.missing) /\ Suffices(p.read, p.path, p.missing)
  BY <1>2, MissingSuffices
<1>4. plan.ok => Whole(plan.after) /\ Foreign(plan.after) = Foreign(file)
  BY <1>2, <1>3, InstallKeeps
<1>5. plan.ok /\ p.read = file => Registers(plan.after, p.path, ToSet(Events))
  BY <1>2, <1>3, InstallRegistersAll
<1>6. plan.ok => Registers(plan.after, p.path, ToSet(p.missing))
  BY <1>2, <1>3, InstallRegisters DEF Registers
<1> HIDE DEF plan
<1> QED BY <1>1, <1>2, <1>4, <1>5, <1>6, PlannedKeeps

LEMMA ApplyKeeps == ASSUME IInv, NEW c \in Cmd, Apply(c) PROVE IInv'
<1>1. /\ proc[c].pc = "asked" /\ Goes(c, Done)
      /\ file' = proc[c].after /\ others' = proc[c].copied /\ binary' = binary
  BY DEF Apply
<1>2. Whole(file') /\ ForeignKept'
  BY <1>1 DEF IInv, Carries, ForeignKept
<1>3. DOMAIN proc' = Cmd /\ \A d \in Cmd : Carries(proc'[d])
  BY <1>1, IdleCarries DEF IInv, Goes
<1> QED BY <1>1, <1>2, <1>3 DEF IInv

LEMMA AbandonsKeeps == ASSUME IInv, NEW c \in Cmd, Abandons(c) PROVE IInv'
<1>1. Goes(c, Done) /\ UNCHANGED <<file, binary, others>>
  BY DEF Abandons
<1> QED BY <1>1, IdleCarries, GoesKeeps

-----------------------------------------------------------------------------
(* The others.                                                             *)

LEMMA FileIs ==
    ASSUME IInv
    PROVE  /\ Whole(file) /\ file.members \in Seq(MemberName) /\ file.permissions \in Nat
           /\ file.hooks \in Seq(AnyEvent) /\ file.laid \in {"ours", "hand"}
           /\ file.hooks # <<>> => "hooks" \in ToSet(file.members)
BY FileParts DEF IInv, Whole

(* The forms in which the edits write a document.                          *)
MembersWith(f) == IF "hooks" \in ToSet(f.members) THEN f.members ELSE Append(f.members, "hooks")
Extended(f, h) == [f EXCEPT !.members = MembersWith(f), !.hooks = h, !.laid = "hand"]

LEMMA EditedForms ==
    ASSUME IInv, file.shape = "document", NEW h \in Seq(AnyEvent)
    PROVE  /\ Whole(Extended(file, h))
           /\ file.hooks # <<>> => Whole(Rewritten(file, h))
<1>1. /\ Whole(file) /\ file.members \in Seq(MemberName) /\ file.permissions \in Nat
      /\ file.hooks # <<>> => "hooks" \in ToSet(file.members)
  BY FileIs
<1> DEFINE m == MembersWith(file)
           hand == "hand"
           New(n) == Changed(file, n, file.permissions, h, hand)
<1>2. m \in Seq(MemberName) /\ "hooks" \in ToSet(m)
  BY <1>1, WithMember DEF MembersWith
<1>3. file = [shape |-> file.shape, members |-> file.members, permissions |-> file.permissions,
              hooks |-> file.hooks, laid |-> file.laid]
  BY FileParts DEF IInv, Whole
<1>4. hand \in {"ours", "hand"}
  OBVIOUS
<1> HIDE DEF m, hand
<1>5. Whole(New(m))
  BY <1>1, <1>2, <1>4, ChangedWhole
<1>6. file.hooks # <<>> => Whole(New(file.members))
  BY <1>1, <1>4, ChangedWhole
<1>7. PICK a, b, d, e, k : file = [shape |-> a, members |-> b, permissions |-> d, hooks |-> e, laid |-> k]
  BY <1>3
<1>8. Extended(file, h) = New(m)
  <2>1. file.permissions = d
    BY <1>7
  <2> QED BY <1>7, <2>1 DEF Changed, hand, Extended, m
<1>9. Rewritten(file, h) = New(file.members)
  <2>1. file.permissions = d /\ file.members = b
    BY <1>7
  <2> QED BY <1>7, <2>1 DEF Changed, hand, Rewritten
<1> QED BY <1>5, <1>6, <1>8, <1>9 DEF m

LEMMA AddGroupKeeps ==
    ASSUME IInv, NEW name \in ToSet(Events) \cup OtherEvents, AddGroup(name) PROVE IInv'
<1> DEFINE one == <<Group("Bash", <<Added>>)>>
           old == GroupsOf(file.hooks, name)
<1>1. PICK groups \in {one \o old, old \o one} :
          Edited(Extended(file, Set(file.hooks, Event(name, groups))))
  BY DEF AddGroup, Extended, MembersWith
<1>2. file.shape = "document"
  BY DEF AddGroup
<1>3. file.hooks \in Seq(AnyEvent) /\ name \in STRING
  BY FileIs, NamesAreStrings
<1>4. one \in Seq(AnyGroup) /\ old \in Seq(AnyGroup)
  BY <1>3, AddedType, GroupsType
<1> HIDE DEF one, old
<1>5. groups \in Seq(AnyGroup)
  <2>1. one \o old \in Seq(AnyGroup) /\ old \o one \in Seq(AnyGroup)
    BY <1>4
  <2> QED BY <2>1
<1> DEFINE h == Set(file.hooks, Event(name, groups))
<1>6. Event(name, groups) \in AnyEvent
  BY <1>3, <1>5, EventType
<1>7. h \in Seq(AnyEvent)
  BY <1>3, <1>6, SetType
<1>8. Edited(Extended(file, h))
  BY <1>1
<1> HIDE DEF h
<1>9. Whole(Extended(file, h))
  BY <1>2, <1>7, EditedForms
<1> QED BY <1>8, <1>9, EditedKeeps

(* An event with groups is written again.                                  *)
LEMMA RewrittenKeeps ==
    ASSUME IInv, NEW name \in ToSet(Events) \cup OtherEvents, file.shape = "document",
           GroupsOf(file.hooks, name) # <<>>, NEW groups \in Seq(AnyGroup),
           Edited(Rewritten(file, Set(file.hooks, Event(name, groups))))
    PROVE  IInv'
<1> DEFINE h == Set(file.hooks, Event(name, groups))
<1>1. file.hooks \in Seq(AnyEvent) /\ name \in STRING
  BY FileIs, NamesAreStrings
<1>2. file.hooks # <<>>
  BY <1>1, GroupsType
<1>3. Event(name, groups) \in AnyEvent
  BY <1>1, EventType
<1>4. h \in Seq(AnyEvent)
  BY <1>1, <1>3, SetType
<1>5. Edited(Rewritten(file, h))
  OBVIOUS
<1> HIDE DEF h
<1>6. Whole(Rewritten(file, h))
  BY <1>2, <1>4, EditedForms
<1> QED BY <1>5, <1>6, EditedKeeps

LEMMA ShareKeeps ==
    ASSUME IInv, NEW name \in ToSet(Events) \cup OtherEvents, Share(name) PROVE IInv'
<1> DEFINE old == GroupsOf(file.hooks, name)
<1>1. PICK i \in DOMAIN old :
          Edited(Rewritten(file, Set(file.hooks, Event(name, Shared(old, i)))))
  BY DEF Share
<1>2. file.shape = "document" /\ file.hooks \in Seq(AnyEvent)
  BY FileIs DEF Share
<1>3. old \in Seq(AnyGroup)
  BY <1>2, GroupsType
<1>4. old # <<>>
  <2> DEFINE e == <<>>
  <2>1. DOMAIN e = {}
    OBVIOUS
  <2> HIDE DEF old
  <2> QED BY <1>1, <2>1
<1> HIDE DEF old
<1>5. Shared(old, i) \in Seq(AnyGroup)
  BY <1>3, SharedType
<1> QED BY <1>1, <1>2, <1>4, <1>5, RewrittenKeeps DEF old

LEMMA ClearEventKeeps ==
    ASSUME IInv, NEW name \in ToSet(Events) \cup OtherEvents, ClearEvent(name) PROVE IInv'
<1> DEFINE e == <<>>
<1>1. /\ file.shape = "document" /\ GroupsOf(file.hooks, name) # <<>>
      /\ Edited(Rewritten(file, Set(file.hooks, Event(name, e))))
  BY DEF ClearEvent
<1>2. e \in Seq(AnyGroup)
  OBVIOUS
<1> HIDE DEF e
<1> QED BY <1>1, <1>2, RewrittenKeeps

LEMMA EditOtherKeeps == ASSUME IInv, EditOther PROVE IInv'
<1> DEFINE m == IF "permissions" \in ToSet(file.members) THEN file.members
                ELSE <<"permissions">> \o file.members
           n == file.permissions + 1
           new == [file EXCEPT !.members = m, !.permissions = n]
           hand == file.laid
<1>1. file.shape = "document" /\ Edited(new)
  BY DEF EditOther
<1>2. /\ Whole(file) /\ file.members \in Seq(MemberName) /\ file.permissions \in Nat
      /\ file.hooks \in Seq(AnyEvent) /\ hand \in {"ours", "hand"}
      /\ file.hooks # <<>> => "hooks" \in ToSet(file.members)
  BY FileIs
<1>3. m \in Seq(MemberName) /\ ("hooks" \in ToSet(file.members) => "hooks" \in ToSet(m))
  BY <1>2, WithMember
<1>4. n \in Nat
  BY <1>2
<1>5. PICK a, b, d, e, k : file = [shape |-> a, members |-> b, permissions |-> d, hooks |-> e, laid |-> k]
  BY FileParts DEF IInv, Whole
<1> HIDE DEF m, n, hand
<1>6. Whole(Changed(file, m, n, file.hooks, hand))
  BY <1>1, <1>2, <1>3, <1>4, ChangedWhole
<1>7. new = Changed(file, m, n, file.hooks, hand)
  <2> DEFINE f1 == [file EXCEPT !.members = m]
             f2 == [f1 EXCEPT !.permissions = n]
             f3 == [f2 EXCEPT !.hooks = file.hooks]
             f4 == [f3 EXCEPT !.laid = hand]
  <2>1. file.hooks = e /\ hand = k
    BY <1>5 DEF hand
  <2>2. new = f2 /\ Changed(file, m, n, file.hooks, hand) = f4
    BY DEF Changed
  <2>3. f1 = [shape |-> a, members |-> m, permissions |-> d, hooks |-> e, laid |-> k]
    BY <1>5
  <2> HIDE DEF f1, new
  <2>4. f2 = [shape |-> a, members |-> m, permissions |-> n, hooks |-> e, laid |-> k]
    BY <2>3
  <2> HIDE DEF f2
  <2>5. f3 = f2
    BY <2>1, <2>4
  <2> HIDE DEF f3
  <2>6. f4 = f3
    BY <2>1, <2>4, <2>5
  <2> QED BY <2>2, <2>5, <2>6
<1> HIDE DEF new
<1> QED BY <1>1, <1>6, <1>7, EditedKeeps

LEMMA ReshapedWhole ==
    ASSUME NEW f, Whole(f), f.shape \in {"document", "broken"}, NEW s \in {"document", "broken"}
    PROVE  Whole([f EXCEPT !.shape = s])
<1> DEFINE new == [f EXCEPT !.shape = s]
<1>1. f.hooks # <<>> => "hooks" \in ToSet(f.members)
  BY DEF Whole
<1>2. f \in AnyFile /\ s \in Shapes
  BY DEF Whole, Shapes
<1>3. new \in AnyFile
  BY <1>2 DEF AnyFile
<1>4. PICK a, b, d, e, k : f = [shape |-> a, members |-> b, permissions |-> d, hooks |-> e, laid |-> k]
  BY <1>2, FileParts
<1>5. new.shape = s /\ new.members = f.members /\ new.hooks = f.hooks
  BY <1>4
<1> HIDE DEF new
<1>6. new.shape \notin {"absent", "empty"}
  BY <1>5
<1>7. new.hooks # <<>> => "hooks" \in ToSet(new.members)
  BY <1>1, <1>5
<1>8. Whole(new)
  BY <1>3, <1>6, <1>7 DEF Whole
<1> QED BY <1>8 DEF new

LEMMA BreakKeeps == ASSUME IInv, Break PROVE IInv'
<1> DEFINE new == [file EXCEPT !.shape = "broken"]
<1>1. file.shape = "document" /\ Edited(new) /\ Whole(file)
  BY DEF Break, IInv
<1>2. Whole(new)
  BY <1>1, ReshapedWhole
<1> HIDE DEF new
<1> QED BY <1>1, <1>2, EditedKeeps

LEMMA MendKeeps == ASSUME IInv, Mend PROVE IInv'
<1> DEFINE new == [file EXCEPT !.shape = "document"]
<1>1. file.shape = "broken" /\ Edited(new) /\ Whole(file)
  BY DEF Mend, IInv
<1>2. Whole(new)
  BY <1>1, ReshapedWhole
<1> HIDE DEF new
<1> QED BY <1>1, <1>2, EditedKeeps

LEMMA UpgradeKeeps == ASSUME IInv, Upgrade PROVE IInv'
BY DEF Upgrade, IInv, ForeignKept

-----------------------------------------------------------------------------

LEMMA InitHolds == Init => IInv
<1> SUFFICES ASSUME Init PROVE IInv
  OBVIOUS
<1>1. Whole(file) /\ binary \in Binaries /\ ForeignKept
  BY FilesAssumption DEF Init, ForeignKept
<1>2. DOMAIN proc = Cmd /\ \A c \in Cmd : Carries(proc[c])
  BY IdleCarries DEF Init
<1> QED BY <1>1, <1>2 DEF IInv

LEMMA NextHolds == IInv /\ [Next]_vars => IInv'
<1> SUFFICES ASSUME IInv, [Next]_vars PROVE IInv'
  OBVIOUS
<1>1. ASSUME NEW c \in Cmd, PairPlans(c) PROVE IInv'
  BY <1>1, PairPlansKeeps
<1>2. ASSUME NEW c \in Cmd, UnpairPlans(c) PROVE IInv'
  BY <1>2, UnpairPlansKeeps
<1>3. ASSUME NEW c \in Cmd, HooksOnlyLooks(c) PROVE IInv'
  BY <1>3, HooksOnlyLooksKeeps
<1>4. ASSUME NEW c \in Cmd, HooksOnlyPlans(c) PROVE IInv'
  BY <1>4, HooksOnlyPlansKeeps
<1>5. ASSUME NEW c \in Cmd, Apply(c) PROVE IInv'
  BY <1>5, ApplyKeeps
<1>6. ASSUME NEW c \in Cmd, Abandons(c) PROVE IInv'
  BY <1>6, AbandonsKeeps
<1>7. ASSUME NEW name \in ToSet(Events) \cup OtherEvents, AddGroup(name) PROVE IInv'
  BY <1>7, AddGroupKeeps
<1>8. ASSUME NEW name \in ToSet(Events) \cup OtherEvents, Share(name) PROVE IInv'
  BY <1>8, ShareKeeps
<1>9. ASSUME NEW name \in ToSet(Events) \cup OtherEvents, ClearEvent(name) PROVE IInv'
  BY <1>9, ClearEventKeeps
<1>10. CASE EditOther
  BY <1>10, EditOtherKeeps
<1>11. CASE Break
  BY <1>11, BreakKeeps
<1>12. CASE Mend
  BY <1>12, MendKeeps
<1>13. CASE Upgrade
  BY <1>13, UpgradeKeeps
<1>14. CASE UNCHANGED vars
  BY <1>14 DEF vars, IInv, ForeignKept
<1> QED BY <1>1, <1>2, <1>3, <1>4, <1>5, <1>6, <1>7, <1>8, <1>9, <1>10, <1>11, <1>12, <1>13, <1>14
        DEF Next

LEMMA IInvAlways == Spec => []IInv
<1> QED BY InitHolds, NextHolds, PTL DEF Spec

(* BR-07: whatever the bridge, other tools and the operator write, and in  *)
(* whatever order the commands' readings and renames fall between those    *)
(* writes, the file always has the other tools' hooks, in their order and  *)
(* with their matchers, and the other members, as the last edit left them  *)
(* or as the command that wrote last had read them.                        *)
THEOREM SettingsForeignKept == Spec => []ForeignKept
<1>1. IInv => ForeignKept
  BY DEF IInv
<1> QED BY <1>1, IInvAlways, PTL

-----------------------------------------------------------------------------
(* Pairing again and unpairing after it.                                   *)

LEMMA InstallAgain ==
    ASSUME NEW path \in StablePaths, NEW h \in Seq(AnyEvent), Distinct(h),
           NEW names, NamesOnce(names)
    PROVE  LET H == Install(path, h, names)
           IN  Install(path, H, names) = H
<1> DEFINE H == Install(path, h, names)
           f == Fresh(path)
           N == ToSet(names)
           m == [i \in 1..Len(H) |-> MergeEvent(path, H[i], N, f)]
           I == {i \in 1..Len(H) : Stays(m[i], N)}
           b == NewEvents(path, H, names)
           e == <<>>
<1>1. path \in Paths
  BY DEF Paths
<1>2. H \in Seq(AnyEvent)
  BY <1>1, InstallType
<1>3. /\ N \subseteq Names(H)
      /\ \A i \in 1..Len(H) : /\ MergeEvent(path, H[i], N, f) = H[i]
                              /\ H[i].name \in N => H[i].groups # <<>>
  BY InstalledEvents
<1>4. Install(path, H, names) = At(m, I) \o b
  BY DEF Install, MergeEvents
<1>5. b = e
  <2>1. b \in Seq(AnyEvent) /\ \A i \in 1..Len(b) : b[i].name \in N \ Names(H)
    BY <1>1, <1>2, NewEventsType
  <2> HIDE DEF b, H
  <2>2. 1..Len(b) = {}
    BY <1>3, <2>1
  <2>3. Len(b) = 0
    <3>1. Len(b) \in Nat
      BY <2>1, OfAny
    <3>2. Len(b) # 0 => 1 \in 1..Len(b)
      BY <3>1
    <3> QED BY <2>2, <3>2
  <2> QED BY <2>1, <2>3
<1> HIDE DEF H, b, f, N
<1>6. Len(H) \in Nat /\ IsSeq(H)
  BY <1>2, OfAny
<1>7. \A i \in 1..Len(H) : m[i] = H[i]
  BY <1>3
<1>8. Len(m) = Len(H) /\ IsSeq(m)
  <2>1. m \in Seq({MergeEvent(path, H[i], N, f) : i \in 1..Len(H)}) /\ Len(m) = Len(H)
    BY <1>6
  <2> HIDE DEF m
  <2> QED BY <2>1 DEF IsSeq
<1>9. 1..Len(H) \subseteq I
  BY <1>3, <1>7 DEF Stays
<1> HIDE DEF m, I
<1>10. m = H
  BY <1>6, <1>7, <1>8, SameSeq
<1>11. At(H, I) = H
  BY <1>6, <1>9, AtAll
<1>12. H \o e = H
  BY <1>2
<1> QED BY <1>4, <1>5, <1>10, <1>11, <1>12 DEF H

(* Of an event that pair has merged or added.                              *)
LEMMA UninstallAfterInstall ==
    ASSUME NEW path \in StablePaths, NEW h \in Seq(AnyEvent), Distinct(h),
           NEW names, NamesOnce(names)
    PROVE  Uninstall(path, Install(path, h, names)) = Uninstall(path, h)
<1> DEFINE H == Install(path, h, names)
           f == Fresh(path)
           N == ToSet(names)
           m == [i \in 1..Len(h) |-> MergeEvent(path, h[i], N, f)]
           I == {i \in 1..Len(h) : Stays(m[i], N)}
           b == NewEvents(path, h, names)
           e == <<>>
           A == Names(H)
           B == Names(h)
           v == [i \in 1..Len(H) |-> MergeEvent(path, H[i], A, e)]
           K == {i \in 1..Len(H) : Stays(v[i], A)}
           w == [i \in 1..Len(h) |-> MergeEvent(path, h[i], B, e)]
           L == {i \in 1..Len(h) : Stays(w[i], B)}
<1>1. path \in Paths
  BY DEF Paths
<1>2. Len(h) \in Nat /\ \A i \in 1..Len(h) : h[i] \in AnyEvent
  BY OfAny
<1>3. NotTheirs(f) /\ NotTheirs(e)
  BY FreshNotTheirs, NoneNotTheirs
<1>4. H \in Seq(AnyEvent) /\ Len(H) \in Nat /\ \A i \in 1..Len(H) : H[i] \in AnyEvent
  <2>1. H \in Seq(AnyEvent)
    BY <1>1, InstallType
  <2> HIDE DEF H
  <2> QED BY <2>1, OfAny
<1>5. /\ Len(H) = Len(h) + Len(b) /\ Len(b) \in Nat
      /\ \A i \in 1..Len(h) : H[i] = MergeEvent(path, h[i], N, f)
      /\ \A i \in 1..Len(b) : H[Len(h) + i] = b[i]
      /\ \A i \in 1..Len(b) : b[i].groups = f
  <2>1. b \in Seq(AnyEvent) /\ \A i \in 1..Len(b) : b[i].groups = f
    BY <1>1, NewEventsType
  <2>2. H = At(m, I) \o b
    BY DEF Install, MergeEvents
  <2>3. ASSUME NEW i \in 1..Len(h)
        PROVE  m[i] \in AnyEvent /\ Stays(m[i], N)
    <3> DEFINE x == h[i]
               y == m[i]
    <3>1. y = MergeEvent(path, x, N, f) /\ x \in AnyEvent
      BY <1>2
    <3> HIDE DEF x, m, f, N
    <3>2. y \in AnyEvent /\ y.name = x.name
      BY <1>1, <1>3, <3>1, MergedEvent
    <3>3. y.name \in N => y.groups # <<>>
      <4>1. SUFFICES ASSUME y.name \in N PROVE y.groups # <<>>
        OBVIOUS
      <4>2. y = Event(x.name, Kept(path, x.groups) \o f)
        BY <3>1, <3>2, <4>1, NamedMerge
      <4>3. x.groups \in Seq(AnyGroup)
        BY <3>1, EventParts
      <4>4. Kept(path, x.groups) \o f # <<>>
        BY <4>3, FreshGoes DEF f
      <4> HIDE DEF y
      <4> QED BY <4>2, <4>4 DEF Event
    <3> QED BY <3>2, <3>3 DEF Stays
  <2>4. m \in Seq(AnyEvent) /\ Len(m) = Len(h) /\ 1..Len(m) \subseteq I
    BY <1>2, <2>3
  <2>5. \A i \in 1..Len(h) : m[i] = MergeEvent(path, h[i], N, f)
    OBVIOUS
  <2> HIDE DEF m, I, b, H
  <2>6. IsSeq(m) /\ IsSeq(b) /\ Len(b) \in Nat
    BY <2>1, <2>4, OfAny
  <2>7. At(m, I) = m
    BY <2>4, <2>6, AtAll
  <2>8. H = m \o b
    BY <2>2, <2>7
  <2>9. /\ Len(m \o b) = Len(m) + Len(b)
        /\ \A i \in 1..Len(m) : (m \o b)[i] = m[i]
        /\ \A i \in 1..Len(b) : (m \o b)[Len(m) + i] = b[i]
    BY <2>6, ConcatIsSeq
  <2> QED BY <2>1, <2>4, <2>5, <2>6, <2>8, <2>9
<1>6. Uninstall(path, H) = At(v, K) /\ Uninstall(path, h) = At(w, L)
  BY DEF Uninstall, MergeEvents
<1>7. \A i \in 1..Len(H) : H[i].name \in A
  BY DEF Names
<1>8. \A i \in 1..Len(h) : h[i].name \in B
  BY DEF Names
<1> HIDE DEF H, b, A, B, e, N, m, I
<1>9. ASSUME NEW i \in 1..Len(h)
      PROVE  i \in 1..Len(H) /\ v[i] = w[i] /\ w[i].name \in A /\ w[i].name \in B
  <2>1. i \in 1..Len(H)
    BY <1>2, <1>4, <1>5
  <2> DEFINE x == h[i]
             y == H[i]
  <2>2. x \in AnyEvent /\ y = MergeEvent(path, x, N, f) /\ x.name \in B /\ y.name \in A
    BY <1>2, <1>5, <1>7, <1>8, <2>1
  <2>3. v[i] = MergeEvent(path, y, A, e) /\ w[i] = MergeEvent(path, x, B, e)
    BY <2>1
  <2> HIDE DEF x, y, v, w, f
  <2>4. y.name = x.name
    BY <1>1, <1>3, <2>2, MergedEvent
  <2>5. MergeEvent(path, y, A, e) = MergeEvent(path, x, B, e)
    BY <2>2, <2>4, MergedAgain DEF f, e
  <2>6. MergeEvent(path, x, B, e).name = x.name
    BY <1>1, <1>3, <2>2, MergedEvent
  <2> QED BY <2>1, <2>2, <2>3, <2>4, <2>5, <2>6
<1>10. ASSUME NEW i \in 1..Len(b)
       PROVE  Len(h) + i \in 1..Len(H) /\ Len(h) + i \notin K
  <2> DEFINE j == Len(h) + i
             y == H[j]
             k == Kept(path, e)
  <2>1. j \in 1..Len(H)
    BY <1>2, <1>4, <1>5
  <2>2. e \in Seq(AnyGroup)
    BY DEF e
  <2>3. f = k \o f /\ Kept(path, k \o f) = k /\ k = e
    BY <2>2, FreshGoes DEF e
  <2>4. v[j] = MergeEvent(path, y, A, e) /\ (j \in K => Stays(v[j], A)) /\ y.name \in A
    BY <1>7, <2>1
  <2> HIDE DEF k, f, v, K
  <2>5. y.groups = f
    BY <1>5
  <2> HIDE DEF j, y
  <2>6. v[j] = Event(y.name, k \o e)
    <3>1. Kept(path, y.groups) = k
      BY <2>3, <2>5
    <3>2. MergeEvent(path, y, A, e) = Event(y.name, Kept(path, y.groups) \o e)
      BY <2>4, NamedMerge
    <3> QED BY <2>4, <3>1, <3>2
  <2>7. k \o e = <<>>
    BY <2>3 DEF e
  <2>8. v[j].name = y.name /\ v[j].groups = <<>>
    BY <2>6, <2>7 DEF Event
  <2>9. ~Stays(v[j], A)
    BY <2>4, <2>8 DEF Stays
  <2> QED BY <2>1, <2>4, <2>9 DEF j
<1>11. ASSUME NEW i \in K PROVE i \in L
  <2>1. i \in 1..Len(H) /\ Stays(v[i], A)
    OBVIOUS
  <2>2. CASE i <= Len(h)
    <3>1. i \in 1..Len(h)
      BY <1>2, <1>4, <2>1, <2>2
    <3>2. v[i] = w[i] /\ w[i].name \in A /\ w[i].name \in B
      BY <1>9, <3>1
    <3> HIDE DEF v, w
    <3>3. Stays(w[i], B)
      BY <2>1, <3>2 DEF Stays
    <3> QED BY <3>1, <3>3
  <2>3. CASE ~(i <= Len(h))
    <3>1. i - Len(h) \in 1..Len(b) /\ Len(h) + (i - Len(h)) = i
      BY <1>2, <1>4, <1>5, <2>1, <2>3
    <3> HIDE DEF K
    <3> QED BY <1>10, <1>11, <3>1
  <2> QED BY <2>2, <2>3
<1>12. ASSUME NEW i \in L PROVE i \in K
  <2>1. i \in 1..Len(h) /\ Stays(w[i], B)
    OBVIOUS
  <2>2. i \in 1..Len(H) /\ v[i] = w[i] /\ w[i].name \in A /\ w[i].name \in B
    BY <1>9, <2>1
  <2> HIDE DEF v, w
  <2>3. Stays(v[i], A)
    BY <2>1, <2>2 DEF Stays
  <2> QED BY <2>2, <2>3
<1>13. IsSeq(v) /\ Len(v) = Len(H) /\ IsSeq(w) /\ Len(w) = Len(h)
  <2>1. v \in Seq({MergeEvent(path, H[i], A, e) : i \in 1..Len(H)}) /\ Len(v) = Len(H)
    BY <1>4
  <2>2. w \in Seq({MergeEvent(path, h[i], B, e) : i \in 1..Len(h)}) /\ Len(w) = Len(h)
    BY <1>2
  <2> HIDE DEF v, w
  <2> QED BY <2>1, <2>2 DEF IsSeq
<1>14. K \subseteq 1..Len(H) /\ L \subseteq 1..Len(h)
  OBVIOUS
<1> HIDE DEF v, w, K, L
<1>15. Places(v, K) = Places(w, L) /\ \A i \in Places(v, K) : v[i] = w[i]
  BY <1>9, <1>11, <1>12, <1>13, <1>14 DEF Places
<1>16. At(v, K) = At(w, L)
  BY <1>13, <1>15, AtSame
<1> QED BY <1>6, <1>16 DEF H

LEMMA MembershipAgain ==
    ASSUME NEW m \in Seq(MemberName), NEW H, NEW U,
           U # <<>> => H # <<>> /\ "hooks" \in ToSet(m)
    PROVE  /\ Membership(Membership(m, H), H) = Membership(m, H)
           /\ Membership(Membership(m, H), U) = Membership(m, U)
<1> DEFINE X == {"hooks"}
           w == Without(m, X)
           a == Membership(m, H)
           x == "hooks"
<1>1. /\ a \in Seq(MemberName) /\ Without(a, X) = w
      /\ H # <<>> => x \in ToSet(a)
  BY MembershipType
<1>2. IsSeq(m)
  BY OfAny
<1>3. Without(w, X) = w
  BY <1>2, WithoutTwice
<1>4. H = <<>> => a = w
  BY DEF Membership
<1>5. Membership(a, H) = IF H = <<>> THEN Without(a, X) ELSE IF x \in ToSet(a) THEN a ELSE Append(a, x)
  BY DEF Membership
<1>6. Membership(a, U) = IF U = <<>> THEN Without(a, X) ELSE IF x \in ToSet(a) THEN a ELSE Append(a, x)
  BY DEF Membership
<1>7. Membership(m, U) = IF U = <<>> THEN w ELSE IF x \in ToSet(m) THEN m ELSE Append(m, x)
  BY DEF Membership
<1>8. U # <<>> => a = m
  BY DEF Membership
<1>10. U # <<>> => x \in ToSet(m)
  OBVIOUS
<1> HIDE DEF a, w, X, x
<1>11. Membership(a, H) = a
  BY <1>1, <1>3, <1>4, <1>5
<1>12. Membership(a, U) = Membership(m, U)
  BY <1>1, <1>6, <1>7, <1>8, <1>10
<1> QED BY <1>11, <1>12 DEF a

(* What of an event's hooks unpair leaves, it leaves of a nonempty object. *)
LEMMA NothingToLeave == ASSUME NEW path PROVE Uninstall(path, <<>>) = <<>>
<1> DEFINE e == <<>>
           m == [i \in 1..Len(e) |-> MergeEvent(path, e[i], Names(e), <<>>)]
           I == {i \in 1..Len(e) : Stays(m[i], Names(e))}
<1>1. Uninstall(path, e) = At(m, I)
  BY DEF Uninstall, MergeEvents
<1>2. Len(e) = 0 /\ 1..Len(e) = {}
  OBVIOUS
<1>3. I = {} /\ m \in Seq({})
  BY <1>2
<1> HIDE DEF m, I
<1>4. IsSeq(m) /\ I \cap 1..Len(m) = {}
  BY <1>3 DEF IsSeq
<1> QED BY <1>1, <1>4, AtNone

LEMMA PlansAfterPair ==
    ASSUME NEW f, Whole(f), f.shape = "document", NEW path \in StablePaths,
           PlanInstall(f, path, Events).ok, PlanUninstall(f, path).ok
    PROVE  LET a == PlanInstall(f, path, Events).after
           IN  /\ PlanInstall(a, path, Events) = PlanInstall(f, path, Events)
               /\ PlanUninstall(a, path) = PlanUninstall(f, path)
<1> DEFINE h == Decoded(f.hooks)
           N == ToSet(Events)
           H == Install(path, h, Events)
           U == Uninstall(path, h)
           a == SpliceTopLevelKey(f, H)
           m == f.members
<1>1. path \in Paths
  BY DEF Paths
<1>2. f.hooks \in Seq(AnyEvent) /\ m \in Seq(MemberName) /\ f.permissions \in Nat
  BY FileParts DEF Whole
<1>3. h \in Seq(AnyEvent) /\ Distinct(h)
  BY <1>2, DecodedType
<1>4. NamesOnce(Events)
  BY EventsOnce
<1>5. /\ Readable(h, N) /\ PlanInstall(f, path, Events) = [ok |-> TRUE, after |-> a]
  <2>1. PlanInstall(f, path, Events) # Refused
    BY DEF Refused
  <2>2. f.shape \notin {"absent", "empty"}
    OBVIOUS
  <2> QED BY <2>1, <2>2, PlanInstallIs
<1>6. Readable(h, Names(h)) /\ PlanUninstall(f, path) = [ok |-> TRUE, after |-> SpliceTopLevelKey(f, U)]
  <2>1. PlanUninstall(f, path) # Refused
    BY DEF Refused
  <2>2. f.shape \notin {"absent", "empty"}
    OBVIOUS
  <2> QED BY <2>1, <2>2, PlanUninstallIs
<1>7. h = <<>> => U = <<>>
  BY NothingToLeave
<1>8. f.hooks = <<>> => h = <<>>
  BY NoEvents
<1> HIDE DEF h
<1>9. /\ H \in Seq(AnyEvent) /\ Distinct(H) /\ ForeignHooks(H) = ForeignHooks(h)
  BY <1>1, <1>3, <1>4, InstallType
<1>10. Install(path, H, Events) = H /\ Uninstall(path, H) = U
  BY <1>3, <1>4, InstallAgain, UninstallAfterInstall
<1>11. /\ N \subseteq Names(H)
       /\ \A i \in 1..Len(H) :
             /\ H[i].name \in N => H[i].isArray
             /\ H[i].name \notin N => \E j \in 1..Len(h) : H[i] = h[j]
  BY <1>3, <1>4, InstalledEvents
<1>12. H # <<>>
  <2>1. Events \in Seq(STRING) /\ Events # <<>>
    BY EventsAssumption
  <2>2. 1 \in DOMAIN Events
    BY <2>1
  <2>3. Events[1] \in Names(H)
    BY <1>11, <2>2 DEF ToSet
  <2> HIDE DEF H
  <2>4. PICK i \in 1..Len(H) : H[i].name = Events[1]
    BY <2>3 DEF Names
  <2> QED BY <2>4
<1>13. Readable(H, N) /\ Readable(H, Names(H))
  <2>1. ASSUME NEW i \in 1..Len(H) PROVE H[i].isArray
    <3>1. CASE H[i].name \in N
      BY <1>11, <3>1
    <3>2. CASE H[i].name \notin N
      <4>1. PICK j \in 1..Len(h) : H[i] = h[j]
        BY <1>11, <3>2
      <4>2. h[j].isArray
        BY <1>6 DEF Readable, Names
      <4> QED BY <4>1, <4>2
    <3> QED BY <3>1, <3>2
  <2> QED BY <2>1 DEF Readable
<1>14. /\ Whole(a) /\ a.hooks = H /\ a.shape = "document"
       /\ a.members = Membership(m, H) /\ a.permissions = f.permissions
  <2>1. Whole(a) /\ a.hooks = H /\ a.shape = "document"
    BY <1>9, Spliced DEF h
  <2>2. a.members = Membership(m, H) /\ a.permissions = f.permissions
    BY DEF SpliceTopLevelKey, Document
  <2> QED BY <2>1, <2>2
<1> HIDE DEF H, a, N, U
<1>15. Decoded(a.hooks) = H
  BY <1>9, <1>14, DecodedSame
<1>16. U # <<>> => H # <<>> /\ "hooks" \in ToSet(m)
  BY <1>7, <1>8, <1>12 DEF Whole
<1> HIDE DEF m
<1>17. /\ Membership(a.members, H) = Membership(m, H)
       /\ Membership(a.members, U) = Membership(m, U)
  BY <1>2, <1>14, <1>16, MembershipAgain
<1>18. SpliceTopLevelKey(a, H) = a /\ SpliceTopLevelKey(a, U) = SpliceTopLevelKey(f, U)
  <2>1. SpliceTopLevelKey(a, H) = Document(Membership(m, H), f.permissions, H, "ours")
    BY <1>14, <1>17 DEF SpliceTopLevelKey
  <2>2. a = Document(Membership(m, H), f.permissions, H, "ours")
    BY DEF SpliceTopLevelKey, a, m
  <2>3. SpliceTopLevelKey(a, U) = Document(Membership(m, U), f.permissions, U, "ours")
    BY <1>14, <1>17 DEF SpliceTopLevelKey
  <2>4. SpliceTopLevelKey(f, U) = Document(Membership(m, U), f.permissions, U, "ours")
    BY DEF SpliceTopLevelKey, m
  <2> QED BY <2>1, <2>2, <2>3, <2>4
<1>19. a.shape \notin {"absent", "empty"}
  BY <1>14
<1>20. PlanInstall(a, path, Events) = [ok |-> TRUE, after |-> SpliceTopLevelKey(a, Install(path, H, Events))]
  BY <1>13, <1>14, <1>15, <1>19, PlanInstallIs DEF N
<1>21. PlanUninstall(a, path) = [ok |-> TRUE, after |-> SpliceTopLevelKey(a, Uninstall(path, H))]
  BY <1>13, <1>14, <1>15, <1>19, PlanUninstallIs
<1>22. PlanInstall(f, path, Events).after = a
  BY <1>5
<1> QED BY <1>5, <1>6, <1>10, <1>18, <1>20, <1>21, <1>22

(* Whatever has been done to the file: pairing a second time plans what is *)
(* already there, and unpairing after a pair plans exactly what unpairing  *)
(* would have planned without it.                                          *)
THEOREM SettingsPairUndone == Spec => []PairUndone
<1>1. ASSUME IInv PROVE PairUndone
  <2> DEFINE path == StableBinaryPath(binary)
             i == PlanInstall(file, path, Events)
             r == PlanUninstall(file, path)
  <2>1. path \in StablePaths /\ Whole(file)
    BY <1>1, KnownPaths DEF IInv
  <2> HIDE DEF path
  <2>2. file.shape = "document" /\ i.ok /\ r.ok =>
            PlanInstall(i.after, path, Events) = i /\ PlanUninstall(i.after, path) = r
    BY <2>1, PlansAfterPair
  <2> QED BY <2>2 DEF PairUndone, path
<1> QED BY <1>1, IInvAlways, PTL

(* Every write of "pair" leaves each event it registers with the bridge's  *)
(* command exactly once and no older one; so does every write of "pair     *)
(* --hooks-only", except that when others changed the file between its two *)
(* readings, that is only so of the events it had found missing.           *)
THEOREM SettingsRegistersAll == Spec => RegistersAll
<1>1. ASSUME IInv, NEW c \in Cmd, Apply(c), proc[c].op # "unpair"
      PROVE  \A name \in Promised(proc[c]) :
                 IsOnly(Bridges(file', proc[c].path, name), CommandOf[proc[c].path])
  <2>1. Registers(proc[c].after, proc[c].path, Promised(proc[c]))
    BY <1>1 DEF IInv, Carries, Apply
  <2>2. file' = proc[c].after
    BY <1>1 DEF Apply
  <2> QED BY <2>1, <2>2 DEF Registers
<1>2. IInv /\ [Next]_vars =>
          [\A c \in Cmd :
              Apply(c) /\ proc[c].op # "unpair" =>
                  \A name \in Promised(proc[c]) :
                      IsOnly(Bridges(file', proc[c].path, name), CommandOf[proc[c].path])]_vars
  BY <1>1
<1> QED BY <1>2, IInvAlways, PTL DEF Spec, RegistersAll

(* BR-09: every write of "unpair", whether or not it knows its own path,   *)
(* leaves none of the bridge's hooks in any event.                         *)
THEOREM SettingsUnpairRemovesAll == Spec => UnpairRemovesAll
<1>1. ASSUME IInv, NEW c \in Cmd, Apply(c), proc[c].op = "unpair"
      PROVE  \A i \in DOMAIN file'.hooks :
                 DOMAIN Bridges(file', proc[c].path, file'.hooks[i].name) = {}
  <2>1. Clears(proc[c].after, proc[c].path)
    BY <1>1 DEF IInv, Carries, Apply
  <2>2. file' = proc[c].after
    BY <1>1 DEF Apply
  <2> QED BY <2>1, <2>2 DEF Clears
<1>2. IInv /\ [Next]_vars =>
          [\A c \in Cmd :
              Apply(c) /\ proc[c].op = "unpair" =>
                  \A i \in DOMAIN file'.hooks :
                      DOMAIN Bridges(file', proc[c].path, file'.hooks[i].name) = {}]_vars
  BY <1>1
<1> QED BY <1>2, IInvAlways, PTL DEF Spec, UnpairRemovesAll

(* Type correctness: whatever the bridge or others write has a shape,      *)
(* members and groups that the bridge can read back.                       *)
THEOREM SettingsTypeOK == Spec => []TypeOK
<1>1. IInv => TypeOK
  BY DEF IInv, Carries, TypeOK
<1> QED BY <1>1, IInvAlways, PTL

-----------------------------------------------------------------------------
(* Doctor's checks.                                                        *)

LEMMA CheckBinaryIs ==
    ASSUME NEW f, NEW path, NEW found
    PROVE  LET v == CheckBinaryOnPath(f, path, found)
               broken == BrokenRegisteredBinaries(f, path)
               same == found # <<>> /\ RegisteredBinaries(f, path) = {ResolvePath(found)}
           IN  /\ v = "FAIL" <=> Legible(f) /\ broken # {}
               /\ Legible(f) /\ broken = {} => v = IF same THEN "PASS" ELSE "WARN"
<1> DEFINE l == Legible(f)
           b == BrokenRegisteredBinaries(f, path) = {}
           s == found # <<>> /\ RegisteredBinaries(f, path) = {ResolvePath(found)}
           v == CheckBinaryOnPath(f, path, found)
<1>1. v = CASE l /\ ~b -> "FAIL" [] l /\ b /\ s -> "PASS" [] OTHER -> "WARN"
  BY DEF CheckBinaryOnPath
<1> HIDE DEF l, b, s, v
<1>2. l /\ ~b => v = "FAIL"
  BY <1>1
<1>3. l /\ b /\ s => v = "PASS"
  BY <1>1
<1>4. ~(l /\ ~b) /\ ~(l /\ b /\ s) => v = "WARN"
  BY <1>1
<1> QED BY <1>2, <1>3, <1>4 DEF l, b, s, v

LEMMA CheckSettingsIs ==
    ASSUME NEW f, NEW path
    PROVE  LET v == CheckSettingsFile(f, path)
               missing == MissingEvents(f, path)
           IN  /\ v = "PASS" <=> Legible(f) /\ missing = {}
               /\ v = "FAIL" <=> ~(Legible(f) /\ missing \subseteq Optional)
<1> DEFINE l == Legible(f)
           m == MissingEvents(f, path)
           n == m = {}
           o == OnlyOptionalEvents(m)
           v == CheckSettingsFile(f, path)
<1>1. v = CASE ~l -> "FAIL" [] l /\ n -> "PASS" [] l /\ ~n /\ o -> "WARN" [] OTHER -> "FAIL"
  BY DEF CheckSettingsFile
<1>2. o <=> m \subseteq Optional
  BY DEF OnlyOptionalEvents
<1> HIDE DEF l, m, o, v
<1>3. n => o
  BY <1>2
<1> HIDE DEF n
<1>4. ~l => v = "FAIL"
  BY <1>1
<1>5. l /\ n => v = "PASS"
  BY <1>1
<1>6. l /\ ~n /\ o => v = "WARN"
  BY <1>1
<1>7. ~(~l) /\ ~(l /\ n) /\ ~(l /\ ~n /\ o) => v = "FAIL"
  BY <1>1
<1> QED BY <1>2, <1>3, <1>4, <1>5, <1>6, <1>7 DEF l, m, n, o, v

(* Doctor looks at commands of the bridge.                                 *)
LEMMA RegisteredAre ==
    ASSUME NEW f, NEW path \in Paths
    PROVE  /\ Registered(f, path) =
                  UNION {Range(InstalledCommands(f, path, name)) : name \in ToSet(Events)}
           /\ Registered(f, path) \subseteq OwnCommands
<1>1. Registered(f, path) = UNION {Range(InstalledCommands(f, path, name)) : name \in ToSet(Events)}
  BY DEF Registered, InstalledCommands
<1>2. ASSUME NEW g, NEW c \in Range(OwnedCommands(path, g)) PROVE c \in OwnedBy[path]
  <2> DEFINE C == CommandsIn(g, OwnedBy[path])
  <2>1. PICK at \in DOMAIN C : c = C[at]
    BY <1>2 DEF OwnedCommands, Range
  <2>2. C[at] = g[at[1]].hooks[at[2]]
    BY <2>1, CommandsInIs
  <2>3. PICK i \in 1..Len(g) : \E k \in 1..Len(g[i].hooks) :
            at = <<i, k>> /\ g[i].hooks[k] \in OwnedBy[path]
    BY <2>1, CommandsInIs
  <2> HIDE DEF C
  <2> QED BY <2>1, <2>2, <2>3
<1>3. OwnedBy[path] \subseteq OwnCommands
  <2>1. OwnedBy[path] \in Range(OwnedBy)
    BY DEF OwnedBy, Range
  <2> QED BY <2>1 DEF OwnCommands
<1> QED BY <1>1, <1>2, <1>3 DEF InstalledCommands

(* When neither check 1 nor check 2 FAILs, each event that is not optional *)
(* has a command of the bridge, and what a shell runs for one in the form  *)
(* that the bridge writes is on disk; and check 1 FAILs only if some       *)
(* registered command would run a file that is not there.                  *)
THEOREM SettingsDoctorTruth == Spec => []DoctorTruth
<1>1. ASSUME IInv PROVE DoctorTruth
  <2> SUFFICES ASSUME NEW path \in {StableBinaryPath(binary), <<>>}, NEW found \in CouldBeFound
               PROVE  /\ CheckBinaryOnPath(file, path, found) # "FAIL"
                         /\ CheckSettingsFile(file, path) # "FAIL" =>
                            \A name \in ToSet(Events) \ Optional :
                                LET commands == Range(InstalledCommands(file, path, name))
                                IN  /\ commands # {}
                                    /\ \A c \in commands : c \in WrittenForm => OnDisk(ShellRuns[c])
                      /\ CheckBinaryOnPath(file, path, found) = "FAIL" =>
                            \E c \in Registered(file, path) : ~OnDisk(ShellRuns[c])
    BY DEF DoctorTruth
  <2>1. path \in Paths
    BY <1>1, KnownPaths DEF IInv
  <2>2. Registered(file, path) \subseteq OwnCommands
    BY <2>1, RegisteredAre
  <2>3. ASSUME CheckBinaryOnPath(file, path, found) # "FAIL",
               CheckSettingsFile(file, path) # "FAIL",
               NEW name \in ToSet(Events) \ Optional
        PROVE  LET commands == Range(InstalledCommands(file, path, name))
               IN  /\ commands # {}
                   /\ \A c \in commands : c \in WrittenForm => OnDisk(ShellRuns[c])
    <3> DEFINE C == InstalledCommands(file, path, name)
    <3>1. Legible(file) /\ MissingEvents(file, path) \subseteq Optional
      BY <2>3, CheckSettingsIs
    <3>2. DOMAIN C # {}
      BY <2>3, <3>1 DEF MissingEvents
    <3>3. BrokenRegisteredBinaries(file, path) = {}
      BY <2>3, <3>1, CheckBinaryIs
    <3>4. ASSUME NEW c \in Range(C), c \in WrittenForm PROVE OnDisk(ShellRuns[c])
      <4>1. c \in Registered(file, path)
        BY <2>1, <2>3, <3>4, RegisteredAre
      <4>2. IsAbs(CommandBinary[c])
        BY <3>4 DEF WrittenForm
      <4>3. OnDisk(CommandBinary[c])
        BY <3>3, <4>1, <4>2 DEF BrokenRegisteredBinaries
      <4> QED BY <2>2, <4>1, <4>2, <4>3, ReadingAssumption
    <3> HIDE DEF C
    <3> QED BY <3>2, <3>4 DEF Range, C
  <2>4. ASSUME CheckBinaryOnPath(file, path, found) = "FAIL"
        PROVE  \E c \in Registered(file, path) : ~OnDisk(ShellRuns[c])
    <3>1. BrokenRegisteredBinaries(file, path) # {}
      BY <2>4, CheckBinaryIs
    <3>2. PICK c \in Registered(file, path) : IsAbs(CommandBinary[c]) /\ ~OnDisk(CommandBinary[c])
      BY <3>1 DEF BrokenRegisteredBinaries
    <3> QED BY <2>2, <3>2, ReadingAssumption
  <2> QED BY <2>3, <2>4
<1> QED BY <1>1, IInvAlways, PTL

(* Version numbers are compared part by part.                              *)
LEMMA BelowIs ==
    ASSUME NEW a \in Version, NEW b \in Version
    PROVE  Below(a, b) <=> \/ a[1] < b[1]
                           \/ a[1] = b[1] /\ a[2] < b[2]
                           \/ a[1] = b[1] /\ a[2] = b[2] /\ a[3] < b[3]
<1> DEFINE Lower(i) == a[i] < b[i] /\ \A j \in 1..i - 1 : a[j] = b[j]
<1>1. DOMAIN b = 1..3
  BY DEF Version
<1>2. Below(a, b) <=> \E i \in 1..3 : Lower(i)
  BY <1>1 DEF Below
<1>3. Lower(1) <=> a[1] < b[1]
  OBVIOUS
<1>4. Lower(2) <=> a[1] = b[1] /\ a[2] < b[2]
  OBVIOUS
<1>5. Lower(3) <=> a[1] = b[1] /\ a[2] = b[2] /\ a[3] < b[3]
  OBVIOUS
<1> HIDE DEF Lower
<1>6. (\E i \in 1..3 : Lower(i)) <=> Lower(1) \/ Lower(2) \/ Lower(3)
  OBVIOUS
<1> QED BY <1>2, <1>3, <1>4, <1>5, <1>6

LEMMA NotBelowIsTransitive ==
    ASSUME NEW v \in Version, NEW b \in Version, NEW m \in Version, ~Below(v, b), ~Below(b, m)
    PROVE  ~Below(v, m)
<1>1. \A i \in 1..3 : v[i] \in Nat /\ b[i] \in Nat /\ m[i] \in Nat
  BY DEF Version
<1>2. v[1] \in Nat /\ v[2] \in Nat /\ v[3] \in Nat /\ b[1] \in Nat /\ b[2] \in Nat /\ b[3] \in Nat
      /\ m[1] \in Nat /\ m[2] \in Nat /\ m[3] \in Nat
  BY <1>1
<1> QED BY <1>2, BelowIs

LEMMA NewerHasEvents == UpgradeHelps
<1> SUFFICES ASSUME NEW v \in ClaudeVersions \ {Unknown}, ~Below(v, BaselineVersion)
             PROVE  CheckClaudeVersion(v) = "PASS"
  BY DEF UpgradeHelps
<1>1. ASSUME NEW name \in DOMAIN MinVersion PROVE ~Below(v, MinVersion[name])
  <2>1. v \in Version /\ BaselineVersion \in Version /\ MinVersion[name] \in Version
    BY VersionsAssumption
  <2>2. ~Below(BaselineVersion, MinVersion[name])
    BY VersionsAssumption DEF UnsupportedEvents
  <2> QED BY <2>1, <2>2, NotBelowIsTransitive
<1>2. UnsupportedEvents(v) = {}
  BY <1>1 DEF UnsupportedEvents
<1> QED BY <1>2 DEF CheckClaudeVersion

(* What pair writes can be read again, and every event in it has the       *)
(* bridge's command and no other that the bridge takes for its own.        *)
LEMMA InstalledIsListed ==
    ASSUME NEW f, Whole(f), Legible(f), f.shape # "blank", NEW path \in StablePaths,
           NEW names, NamesOnce(names), Suffices(f, path, names)
    PROVE  LET plan == PlanInstall(f, path, names)
           IN  /\ plan.ok /\ Legible(plan.after)
               /\ Registered(plan.after, path) = {CommandOf[path]}
               /\ MissingEvents(plan.after, path) = {}
<1> DEFINE h == Decoded(f.hooks)
           H == Install(path, h, names)
           plan == PlanInstall(f, path, names)
           a == plan.after
           c == CommandOf[path]
<1>1. f.hooks \in Seq(AnyEvent)
  BY FileParts DEF Whole
<1>2. h \in Seq(AnyEvent) /\ Distinct(h) /\ Names(h) \subseteq Names(f.hooks)
  BY <1>1, DecodedType
<1>3. \/ f.shape \in {"absent", "empty"}
      \/ f.shape = "document" /\ \A i \in 1..Len(h) : h[i].name \in Names(f.hooks) => h[i].isArray
  BY DEF Legible, Inspectable, Readable
<1>4. \A i \in 1..Len(h) : h[i].isArray
  <2>1. CASE f.shape \in {"absent", "empty"}
    <3>1. h = <<>>
      BY <2>1, EmptyFile, NoEvents
    <3>2. Len(h) = 0
      BY <3>1
    <3> HIDE DEF h
    <3> QED BY <3>2
  <2>2. CASE f.shape = "document" /\ \A i \in 1..Len(h) : h[i].name \in Names(f.hooks) => h[i].isArray
    <3>1. \A i \in 1..Len(h) : h[i].name \in Names(h)
      BY DEF Names
    <3> QED BY <1>2, <2>2, <3>1
  <2> QED BY <1>3, <2>1, <2>2
<1>5. plan.ok
  <2>1. \/ f.shape \in {"absent", "empty"}
        \/ f.shape = "document" /\ Readable(h, ToSet(names))
    BY <1>3, <1>4 DEF Readable
  <2>2. plan = [ok |-> TRUE, after |-> BuildFromScratch(path, names)]
        \/ plan = [ok |-> TRUE, after |-> SpliceTopLevelKey(f, H)]
    BY <2>1, PlanInstallIs
  <2> HIDE DEF plan, H
  <2> QED BY <2>2
<1>6. a.shape = "document" /\ a.hooks = H /\ Decoded(a.hooks) = H
  BY <1>5, Written
<1>7. \A i \in 1..Len(H) : H[i].isArray
  BY <1>2, <1>4, InstalledEvents
<1>8. ListsOnly(a, path)
  BY <1>5, InstallRegistersAll
<1>9. path \in Paths
  BY DEF Paths
<1> HIDE DEF h, H, plan, a, c
<1>10. Legible(a)
  BY <1>6, <1>7 DEF Legible, Inspectable, Readable
<1>11. ASSUME NEW name \in ToSet(Events)
       PROVE  /\ DOMAIN InstalledCommands(a, path, name) # {}
              /\ Range(InstalledCommands(a, path, name)) = {c}
  <2> DEFINE C == InstalledCommands(a, path, name)
  <2>1. IsOnly(C, c)
    BY <1>8 DEF ListsOnly, c
  <2> HIDE DEF C
  <2>2. PICK at \in DOMAIN C : DOMAIN C = {at} /\ C[at] = c
    BY <2>1 DEF IsOnly
  <2>3. Range(C) = {C[x] : x \in {at}}
    BY <2>2 DEF Range
  <2>4. Range(C) = {c}
    BY <2>2, <2>3
  <2> QED BY <2>2, <2>4 DEF C
<1>12. MissingEvents(a, path) = {}
  BY <1>11 DEF MissingEvents
<1>13. Registered(a, path) = {c}
  <2>1. Registered(a, path) = UNION {Range(InstalledCommands(a, path, name)) : name \in ToSet(Events)}
    BY <1>9, RegisteredAre
  <2>2. PICK name \in ToSet(Events) : TRUE
    <3>1. 1 \in DOMAIN Events
      BY EventsAssumption
    <3> QED BY <3>1 DEF ToSet
  <2> QED BY <1>11, <2>1, <2>2
<1> QED BY <1>5, <1>10, <1>12, <1>13 DEF a, plan, c

(* What doctor advises helps: after the pair or the "--hooks-only" that    *)
(* check 1 or 2 names, both are content with any file they could read      *)
(* (check 1 short of a bridge that is not on PATH); and Claude Code at the *)
(* baseline version or above contents check 3.                             *)
THEOREM SettingsRemedyWorks == Spec => []RemedyWorks
<1>1. ASSUME IInv, Legible(file), file.shape # "blank",
             NEW names, NamesOnce(names), NEW found \in CouldBeFound,
             Suffices(file, StableBinaryPath(binary), names)
      PROVE  LET path == StableBinaryPath(binary)
                 plan == PlanInstall(file, path, names)
             IN  /\ plan.ok
                 /\ CheckSettingsFile(plan.after, path) = "PASS"
                 /\ CheckBinaryOnPath(plan.after, path, found) =
                        (IF found = <<>> THEN "WARN" ELSE "PASS")
  <2> DEFINE path == StableBinaryPath(binary)
             plan == PlanInstall(file, path, names)
             a == plan.after
  <2>1. path \in StablePaths /\ Whole(file)
    BY <1>1, KnownPaths DEF IInv
  <2>2. path \in binary.links \cup {binary.resolved}
    <3>1. binary.invoked \in binary.links \cup {binary.resolved}
      BY <1>1, BinariesAssumption DEF IInv
    <3> QED BY <3>1 DEF StableBinaryPath
  <2>3. Suffices(file, path, names)
    BY <1>1
  <2> HIDE DEF path
  <2>4. /\ plan.ok /\ Legible(a) /\ Registered(a, path) = {CommandOf[path]}
        /\ MissingEvents(a, path) = {}
    BY <1>1, <2>1, <2>3, InstalledIsListed
  <2> HIDE DEF plan
  <2>5. CommandBinary[CommandOf[path]] = path
    BY <2>1, ReadingAssumption
  <2>6. BrokenRegisteredBinaries(a, path) = {}
    BY <2>2, <2>4, <2>5 DEF BrokenRegisteredBinaries, OnDisk
  <2>7. RegisteredBinaries(a, path) = {binary.resolved}
    <3>1. RegisteredBinaries(a, path) = {ResolvePath(path)}
      BY <2>4, <2>5 DEF RegisteredBinaries
    <3>2. ResolvePath(path) = binary.resolved
      BY <2>2 DEF ResolvePath
    <3> QED BY <3>1, <3>2
  <2>8. found # <<>> => ResolvePath(found) = binary.resolved
    BY <1>1 DEF CouldBeFound, ResolvePath
  <2>9. CheckSettingsFile(a, path) = "PASS"
    BY <2>4, CheckSettingsIs
  <2>10. CheckBinaryOnPath(a, path, found) = (IF found = <<>> THEN "WARN" ELSE "PASS")
    BY <2>4, <2>6, <2>7, <2>8, CheckBinaryIs
  <2> QED BY <2>4, <2>9, <2>10 DEF path, plan
<1>2. ASSUME IInv PROVE RemedyWorks
  <2> DEFINE path == StableBinaryPath(binary)
  <2>1. /\ NamesOnce(Missing(file, path)) /\ Suffices(file, path, Missing(file, path))
        /\ NamesOnce(Events) /\ Suffices(file, path, Events)
    BY EventsOnce, MissingSuffices
  <2>2. ASSUME Legible(file), file.shape # "blank", NEW found \in CouldBeFound,
               NEW names \in {Missing(file, path), Events}
        PROVE  LET plan == PlanInstall(file, path, names)
               IN  /\ plan.ok
                   /\ CheckSettingsFile(plan.after, path) = "PASS"
                   /\ CheckBinaryOnPath(plan.after, path, found) =
                          (IF found = <<>> THEN "WARN" ELSE "PASS")
    BY <1>1, <1>2, <2>1, <2>2
  <2> QED BY <2>2, NewerHasEvents DEF RemedyWorks
<1> QED BY <1>2, IInvAlways, PTL
=============================================================================
