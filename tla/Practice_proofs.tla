---------------------------- MODULE Practice_proofs ----------------------------
(***************************************************************************)
(* Proofs about the practice pages and the catalogue, for every content of *)
(* the files, any number of runs of the scripts, of visits and failures.   *)
(***************************************************************************)
EXTENDS Practice, FiniteSetTheorems, SequenceTheorems, NaturalsInduction, WellFoundedInduction, TLAPS

-----------------------------------------------------------------------------
(* Numbers, bags of records and lists: what is read off a list of rows.     *)

\* Of the numbers in a set one is the least.
LEMMA LeastNumber == ASSUME NEW T \in SUBSET Nat, T # {} PROVE \E n \in T : \A m \in T : n <= m
<1>1. PICK n \in T : \A m \in T : ~ (<<m, n>> \in OpToRel(<, Nat))
  BY NatLessThanWellFounded, WFMin, Zenon
<1>2. \A m \in T : ~ (m < n)
  BY <1>1 DEF OpToRel
<1> QED
  BY <1>2

\* Induction: a set that has 0, and with a number the next, has them all.
LEMMA AllNumbers == ASSUME NEW T \in SUBSET Nat, 0 \in T, \A n \in T : n + 1 \in T PROVE T = Nat
<1> SUFFICES ASSUME Nat \ T # {} PROVE FALSE
  OBVIOUS
<1>1. PICK n \in Nat \ T : \A m \in Nat \ T : n <= m
  BY LeastNumber, Zenon
<1>2. n # 0 /\ n - 1 \in Nat
  BY <1>1
<1>3. n - 1 \in T
  BY <1>1, <1>2
<1> QED
  BY <1>1, <1>2, <1>3

\* A list is made from the empty one by appending.
LEMMA AllLists ==
    ASSUME NEW T, NEW P, <<>> \in P, \A s \in P : s \in Seq(T) => \A x \in T : Append(s, x) \in P
    PROVE  Seq(T) \subseteq P
<1> DEFINE N == {n \in Nat : \A s \in Seq(T) : Len(s) = n => s \in P}
<1>1. 0 \in N
  <2>1. \A s \in Seq(T) : Len(s) = 0 => s = <<>>
    BY EmptySeq
  <2> QED
    BY <2>1
<1>2. ASSUME NEW n \in N PROVE n + 1 \in N
  <2> SUFFICES ASSUME NEW s \in Seq(T), Len(s) = n + 1 PROVE s \in P
    OBVIOUS
  <2> DEFINE f == SubSeq(s, 1, n)
  <2>1. f \in Seq(T) /\ Len(f) = n /\ s[n + 1] \in T
    BY SMT
  <2>2. s = Append(f, s[n + 1])
    BY <2>1, SMT
  <2> HIDE DEF f
  <2> QED
    BY <2>1, <2>2
<1>3. N = Nat
  <2>1. N \in SUBSET Nat
    OBVIOUS
  <2> HIDE DEF N
  <2> QED
    BY <1>1, <1>2, <2>1, AllNumbers
<1> QED
  BY <1>3

\* The lists that FlattenSeq makes on its way through ss.
Flattens(g, ss, n) == g = [i \in 1 .. n |-> IF i = 1 THEN ss[i] ELSE g[i - 1] \o ss[i]]

LEMMA FlattensAt ==
    ASSUME NEW g, NEW ss, NEW n, Flattens(g, ss, n), NEW i \in 1 .. n
    PROVE  g[i] = IF i = 1 THEN ss[i] ELSE g[i - 1] \o ss[i]
<1> DEFINE f == [j \in 1 .. n |-> IF j = 1 THEN ss[j] ELSE g[j - 1] \o ss[j]]
<1>1. f[i] = IF i = 1 THEN ss[i] ELSE g[i - 1] \o ss[i]
  OBVIOUS
<1>2. g = f
  BY Zenon DEF Flattens
<1> HIDE DEF f
<1> QED
  BY <1>1, <1>2, Zenon

LEMMA FlattensExists == ASSUME NEW ss, NEW m \in Nat PROVE \E g : Flattens(g, ss, m)
<1> DEFINE N == {n \in Nat : \E g : Flattens(g, ss, n)}
<1>1. 0 \in N
  <2>1. Flattens([i \in 1 .. 0 |-> <<>>], ss, 0)
    BY DEF Flattens
  <2> QED
    BY <2>1
<1>2. ASSUME NEW n \in N PROVE n + 1 \in N
  <2>1. PICK g : Flattens(g, ss, n)
    BY <1>2
  <2> DEFINE h == [i \in 1 .. n + 1 |-> IF i = 1 THEN ss[i] ELSE g[i - 1] \o ss[i]]
  <2>2. ASSUME NEW i \in 1 .. n PROVE h[i] = g[i]
    <3>1. i \in 1 .. n + 1
      BY SMT
    <3>2. g[i] = IF i = 1 THEN ss[i] ELSE g[i - 1] \o ss[i]
      BY <2>1, FlattensAt
    <3> QED
      BY <3>1, <3>2, Zenon
  <2>3. ASSUME NEW i \in 1 .. n + 1 PROVE h[i] = IF i = 1 THEN ss[i] ELSE h[i - 1] \o ss[i]
    <3>1. n \in Nat
      OBVIOUS
    <3>2. i # 1 => i - 1 \in 1 .. n
      BY <3>1
    <3> QED
      BY <2>2, <3>2
  <2>4. h = [i \in 1 .. n + 1 |-> h[i]]
    OBVIOUS
  <2> HIDE DEF h
  <2>5. Flattens(h, ss, n + 1)
    BY <2>3, <2>4 DEF Flattens
  <2> QED
    BY <2>5
<1> QED
  <2>1. N \in SUBSET Nat
    OBVIOUS
  <2>2. N = Nat
    <3> HIDE DEF N
    <3> QED
      BY <1>1, <1>2, <2>1, AllNumbers
  <2> QED
    BY <2>2

LEMMA FlattenIs ==
    ASSUME NEW ss, Len(ss) \in Nat, Len(ss) # 0
    PROVE  \E g : Flattens(g, ss, Len(ss)) /\ FlattenSeq(ss) = g[Len(ss)]
<1>1. FlattenSeq(ss) = (CHOOSE g : Flattens(g, ss, Len(ss)))[Len(ss)]
  BY DEF FlattenSeq, Flattens
<1>2. Flattens(CHOOSE g : Flattens(g, ss, Len(ss)), ss, Len(ss))
  BY FlattensExists
<1> QED
  BY <1>1, <1>2

\* Two such functions agree as far as their lists do.
LEMMA FlattensAgree ==
    ASSUME NEW ss, NEW tt, NEW g, NEW h, NEW n \in Nat, NEW m \in Nat,
           m <= n, Flattens(g, ss, n), Flattens(h, tt, m), \A i \in 1 .. m : ss[i] = tt[i]
    PROVE  \A i \in 1 .. m : g[i] = h[i]
<1> DEFINE N == {k \in Nat : k \in 1 .. m => g[k] = h[k]}
<1>1. 0 \in N
  OBVIOUS
<1>2. ASSUME NEW k \in N PROVE k + 1 \in N
  <2> SUFFICES ASSUME k + 1 \in 1 .. m PROVE g[k + 1] = h[k + 1]
    OBVIOUS
  <2>1. k \in Nat /\ k + 1 \in 1 .. n /\ (k + 1) - 1 = k
    OBVIOUS
  <2>2. g[k + 1] = IF k + 1 = 1 THEN ss[k + 1] ELSE g[k] \o ss[k + 1]
    BY <2>1, FlattensAt
  <2>3. h[k + 1] = IF k + 1 = 1 THEN tt[k + 1] ELSE h[k] \o tt[k + 1]
    BY <2>1, FlattensAt
  <2>4. k # 0 => g[k] = h[k]
    BY <1>2
  <2>5. ss[k + 1] = tt[k + 1]
    OBVIOUS
  <2> QED
    BY <2>1, <2>2, <2>3, <2>4, <2>5
<1>3. N = Nat
  <2>1. N \in SUBSET Nat
    OBVIOUS
  <2> HIDE DEF N
  <2> QED
    BY <1>1, <1>2, <2>1, AllNumbers
<1> QED
  BY <1>3

LEMMA FlattenEmpty == FlattenSeq(<<>>) = <<>>
BY DEF FlattenSeq

\* One list more is put behind the others. Types and elements follow from that.
LEMMA FlattenAppendTyped ==
    ASSUME NEW T, NEW ss \in Seq(Seq(T)), NEW t \in Seq(T), FlattenSeq(ss) \in Seq(T)
    PROVE  FlattenSeq(Append(ss, t)) = FlattenSeq(ss) \o t
<1> DEFINE tt == Append(ss, t)
           n == Len(ss)
<1>1. n \in Nat /\ Len(tt) = n + 1 /\ tt[n + 1] = t /\ \A i \in 1 .. n : tt[i] = ss[i]
  OBVIOUS
<1>2. PICK g : Flattens(g, tt, n + 1) /\ FlattenSeq(tt) = g[n + 1]
  <2> HIDE DEF tt, n
  <2> QED
    BY <1>1, FlattenIs
<1>3. CASE n = 0
  <2>1. ss = <<>>
    BY <1>3, EmptySeq
  <2>2. g[1] = t
    BY <1>1, <1>2, <1>3 DEF Flattens
  <2> QED
    BY <1>2, <1>3, <2>1, <2>2, FlattenEmpty
<1>4. CASE n # 0
  <2>1. PICK h : Flattens(h, ss, n) /\ FlattenSeq(ss) = h[n]
    <3> HIDE DEF n
    <3>1. Len(ss) = n
      BY DEF n
    <3> QED
      BY <1>1, <1>4, <3>1, FlattenIs
  <2>2. g[n] = h[n]
    <3> HIDE DEF tt, n
    <3>1. n \in Nat /\ n + 1 \in Nat /\ n <= n + 1
      BY <1>1
    <3>2. \A i \in 1 .. n : tt[i] = ss[i]
      BY <1>1
    <3>3. \A i \in 1 .. n : g[i] = h[i]
      <4>1. Flattens(g, tt, n + 1) /\ Flattens(h, ss, n)
        BY <1>2, <2>1
      <4> HIDE <1>1, <1>2, <2>1
      <4>2. ASSUME NEW k \in Nat, NEW j \in Nat, j <= k, Flattens(g, tt, k), Flattens(h, ss, j), \A i \in 1 .. j : tt[i] = ss[i]
            PROVE  \A i \in 1 .. j : g[i] = h[i]
        BY <4>2, FlattensAgree
      <4>3. \A k, j \in Nat : j <= k /\ Flattens(g, tt, k) /\ Flattens(h, ss, j) /\ (\A i \in 1 .. j : tt[i] = ss[i]) => \A i \in 1 .. j : g[i] = h[i]
        BY <4>2
      <4> QED
        BY <3>1, <3>2, <4>1, <4>3
    <3> QED
      BY <1>1, <1>4, <3>3
  <2>3. g[n + 1] = g[n] \o tt[n + 1]
    <3>1. n + 1 \in 1 .. n + 1 /\ n + 1 # 1 /\ (n + 1) - 1 = n
      BY <1>1, <1>4
    <3> HIDE DEF n, tt
    <3> QED
      BY <1>2, <3>1 DEF Flattens
  <2> QED
    BY <1>1, <1>2, <2>1, <2>2, <2>3
<1> QED
  BY <1>3, <1>4

LEMMA AppendIs ==
    ASSUME NEW T, NEW s \in Seq(T), NEW x \in T
    PROVE  Append(s, x) = [i \in 1 .. Len(s) + 1 |-> IF i = Len(s) + 1 THEN x ELSE s[i]]
<1>1. Append(s, x) \in Seq(T) /\ Len(Append(s, x)) = Len(s) + 1 /\ Len(s) \in Nat
  OBVIOUS
<1>2. \A i \in 1 .. Len(s) + 1 : Append(s, x)[i] = IF i = Len(s) + 1 THEN x ELSE s[i]
  OBVIOUS
<1>3. Append(s, x) = [i \in 1 .. Len(s) + 1 |-> Append(s, x)[i]]
  <2>1. Append(s, x) \in [1 .. Len(Append(s, x)) -> T]
    BY <1>1, LenProperties
  <2> QED
    BY <1>1, <2>1, Zenon
<1> QED
  BY <1>2, <1>3, Zenon

LEMMA FlattenType == ASSUME NEW T, NEW ss \in Seq(Seq(T)) PROVE FlattenSeq(ss) \in Seq(T)
<1> DEFINE P == {s \in Seq(Seq(T)) : FlattenSeq(s) \in Seq(T)}
<1>1. <<>> \in P
  <2>1. <<>> \in Seq(T) /\ <<>> \in Seq(Seq(T))
    BY EmptySeq, Zenon
  <2> QED
    BY <2>1, FlattenEmpty, Zenon
<1>2. ASSUME NEW s \in P, NEW t \in Seq(T) PROVE Append(s, t) \in P
  <2>1. FlattenSeq(Append(s, t)) = FlattenSeq(s) \o t
    BY FlattenAppendTyped
  <2>2. FlattenSeq(s) \o t \in Seq(T)
    BY ConcatProperties, Zenon
  <2>3. Append(s, t) \in Seq(Seq(T))
    BY AppendProperties, Zenon
  <2> QED
    BY <2>1, <2>2, <2>3, Zenon
<1> HIDE DEF P
<1>3. Seq(Seq(T)) \subseteq P
  BY <1>1, <1>2, AllLists
<1> QED
  BY <1>3 DEF P

LEMMA FlattenAppend ==
    ASSUME NEW T, NEW ss \in Seq(Seq(T)), NEW t \in Seq(T)
    PROVE  FlattenSeq(Append(ss, t)) = FlattenSeq(ss) \o t
BY FlattenType, FlattenAppendTyped


\* A list is a list of its elements.
LEMMA OwnType == ASSUME NEW T, NEW s \in Seq(T) PROVE s \in Seq(ToSet(s)) /\ ToSet(s) \subseteq T /\ DOMAIN s = 1 .. Len(s) /\ Len(s) \in Nat
<1>1. Len(s) \in Nat /\ DOMAIN s = 1 .. Len(s) /\ s \in [1 .. Len(s) -> T]
  BY LenProperties
<1>2. s \in [1 .. Len(s) -> ToSet(s)]
  BY <1>1, Zenon DEF ToSet
<1>3. \A U : \A n \in Nat : [1 .. n -> U] \subseteq Seq(U)
  BY SeqDef
<1> QED
  BY <1>1, <1>2, <1>3 DEF ToSet

LEMMA ToSetEmpty == ToSet(<<>>) = {}
BY DEF ToSet

LEMMA ToSetOne == ASSUME NEW x PROVE ToSet(<<x>>) = {x}
BY DEF ToSet

LEMMA ToSetConcat == ASSUME NEW T, NEW s \in Seq(T), NEW t \in Seq(T) PROVE ToSet(s \o t) = ToSet(s) \cup ToSet(t)
<1>1. Len(s) \in Nat /\ Len(t) \in Nat /\ DOMAIN s = 1 .. Len(s) /\ DOMAIN t = 1 .. Len(t) /\ DOMAIN (s \o t) = 1 .. Len(s) + Len(t)
  OBVIOUS
<1>2. ASSUME NEW i \in 1 .. Len(s) PROVE i \in DOMAIN (s \o t) /\ (s \o t)[i] = s[i]
  BY <1>1
<1>3. ASSUME NEW i \in 1 .. Len(t) PROVE i + Len(s) \in DOMAIN (s \o t) /\ (s \o t)[i + Len(s)] = t[i]
  BY <1>1
<1>4. ASSUME NEW i \in DOMAIN (s \o t) PROVE (s \o t)[i] \in ToSet(s) \cup ToSet(t)
  <2>1. CASE i <= Len(s)
    <3>1. i \in 1 .. Len(s)
      BY <1>1, <2>1
    <3> QED
      BY <1>1, <1>2, <3>1 DEF ToSet
  <2>2. CASE i > Len(s)
    <3>1. i - Len(s) \in 1 .. Len(t) /\ (i - Len(s)) + Len(s) = i
      BY <1>1, <2>2
    <3> QED
      BY <1>1, <1>3, <3>1 DEF ToSet
  <2> QED
    BY <1>1, <2>1, <2>2
<1>5. ToSet(s) \subseteq ToSet(s \o t)
  BY <1>1, <1>2, Zenon DEF ToSet
<1>6. ToSet(t) \subseteq ToSet(s \o t)
  BY <1>1, <1>3, Zenon DEF ToSet
<1>7. ToSet(s \o t) \subseteq ToSet(s) \cup ToSet(t)
  <2> SUFFICES ASSUME NEW i \in DOMAIN (s \o t) PROVE (s \o t)[i] \in ToSet(s) \cup ToSet(t)
    BY DEF ToSet
  <2> QED
    BY <1>4
<1> QED
  BY <1>5, <1>6, <1>7

LEMMA ToSetAppend == ASSUME NEW T, NEW s \in Seq(T), NEW x PROVE ToSet(Append(s, x)) = ToSet(s) \cup {x}
<1>1. DOMAIN s = 1 .. Len(s) /\ Len(s) \in Nat /\ DOMAIN Append(s, x) = 1 .. Len(s) + 1
  BY AppendProperties, LenProperties
<1>2. Append(s, x)[Len(s) + 1] = x /\ \A i \in 1 .. Len(s) : Append(s, x)[i] = s[i]
  BY <1>1, AppendProperties
<1>3. 1 .. Len(s) + 1 = (1 .. Len(s)) \cup {Len(s) + 1}
  BY <1>1
<1>4. ASSUME NEW y \in ToSet(Append(s, x)) PROVE y \in ToSet(s) \cup {x}
  <2>1. PICK i \in 1 .. Len(s) + 1 : y = Append(s, x)[i]
    BY <1>1, <1>4, Zenon DEF ToSet
  <2> QED
    BY <1>1, <1>2, <1>3, <2>1 DEF ToSet
<1>5. ASSUME NEW y \in ToSet(s) \cup {x} PROVE y \in ToSet(Append(s, x))
  <2>1. \E i \in 1 .. Len(s) + 1 : y = Append(s, x)[i]
    BY <1>1, <1>2, <1>3, <1>5 DEF ToSet
  <2> QED
    BY <1>1, <2>1, Zenon DEF ToSet
<1> QED
  BY <1>4, <1>5, Zenon

\* What is in the lists is in the one they are put into, and nothing else.
LEMMA FlattenElements ==
    ASSUME NEW T, NEW ss \in Seq(Seq(T))
    PROVE  ToSet(FlattenSeq(ss)) = UNION {ToSet(ss[i]) : i \in DOMAIN ss}
<1> DEFINE P == {s \in Seq(Seq(T)) : ToSet(FlattenSeq(s)) = UNION {ToSet(s[i]) : i \in DOMAIN s}}
<1>1. <<>> \in P
  <2>1. <<>> \in Seq(Seq(T)) /\ DOMAIN <<>> = {}
    BY EmptySeq
  <2> QED
    BY <2>1, FlattenEmpty, ToSetEmpty, Zenon
<1>2. ASSUME NEW s \in P, s \in Seq(Seq(T)), NEW t \in Seq(T) PROVE Append(s, t) \in P
  <2>1. FlattenSeq(Append(s, t)) = FlattenSeq(s) \o t /\ FlattenSeq(s) \in Seq(T) /\ Append(s, t) \in Seq(Seq(T))
    BY FlattenAppend, FlattenType, AppendProperties, Zenon
  <2>0. ToSet(FlattenSeq(s)) = UNION {ToSet(s[i]) : i \in DOMAIN s}
    BY <1>2
  <2>2. ToSet(FlattenSeq(s) \o t) = (UNION {ToSet(s[i]) : i \in DOMAIN s}) \cup ToSet(t)
    BY <2>0, <2>1, ToSetConcat
  <2>3. DOMAIN s = 1 .. Len(s) /\ DOMAIN Append(s, t) = 1 .. Len(s) + 1 /\ Len(s) \in Nat
    BY AppendProperties, LenProperties
  <2>4. Append(s, t)[Len(s) + 1] = t /\ \A i \in 1 .. Len(s) : Append(s, t)[i] = s[i]
    OBVIOUS
  <2>5. 1 .. Len(s) + 1 = (1 .. Len(s)) \cup {Len(s) + 1}
    BY <2>3
  <2>6. {ToSet(Append(s, t)[i]) : i \in DOMAIN Append(s, t)} = {ToSet(s[i]) : i \in DOMAIN s} \cup {ToSet(t)}
    BY <2>3, <2>4, <2>5, Zenon
  <2>7. UNION ({ToSet(s[i]) : i \in DOMAIN s} \cup {ToSet(t)}) = (UNION {ToSet(s[i]) : i \in DOMAIN s}) \cup ToSet(t)
    OBVIOUS
  <2> QED
    BY <2>1, <2>2, <2>6, <2>7, Zenon
<1> HIDE DEF P
<1>3. Seq(Seq(T)) \subseteq P
  BY <1>1, <1>2, AllLists
<1> QED
  BY <1>3 DEF P

\* The elements of a list that are in a set, in their order.
Marked(l, X) == [i \in DOMAIN l |-> IF l[i] \in X THEN <<l[i]>> ELSE <<>>]
Kept(l, X) == FlattenSeq(Marked(l, X))

LEMMA MarkedType == ASSUME NEW T, NEW l \in Seq(T), NEW X PROVE Marked(l, X) \in Seq(Seq(T))
<1>1. Len(l) \in Nat /\ DOMAIN l = 1 .. Len(l) /\ \A i \in 1 .. Len(l) : l[i] \in T
  BY LenProperties
<1>2. ASSUME NEW i \in 1 .. Len(l) PROVE (IF l[i] \in X THEN <<l[i]>> ELSE <<>>) \in Seq(T)
  BY <1>1, EmptySeq
<1>3. Marked(l, X) \in [1 .. Len(l) -> Seq(T)]
  BY <1>1, <1>2 DEF Marked
<1>4. \A U : \A n \in Nat : [1 .. n -> U] \subseteq Seq(U)
  BY SeqDef
<1> QED
  BY <1>1, <1>3, <1>4

LEMMA KeptEmpty == ASSUME NEW X PROVE Kept(<<>>, X) = <<>>
<1>1. Marked(<<>>, X) = <<>>
  BY DEF Marked
<1> QED
  BY <1>1, FlattenEmpty DEF Kept

LEMMA KeptAppend ==
    ASSUME NEW T, NEW l \in Seq(T), NEW x \in T, NEW X
    PROVE  Kept(Append(l, x), X) = IF x \in X THEN Append(Kept(l, X), x) ELSE Kept(l, X)
<1> DEFINE one == IF x \in X THEN <<x>> ELSE <<>>
<1>1. one \in Seq(T)
  BY EmptySeq
<1>2. Marked(l, X) \in Seq(Seq(T)) /\ Kept(l, X) \in Seq(T)
  BY MarkedType, FlattenType DEF Kept
<1>3. Marked(Append(l, x), X) = Append(Marked(l, X), one)
  <2>1. Len(l) \in Nat /\ DOMAIN l = 1 .. Len(l) /\ DOMAIN Append(l, x) = 1 .. Len(l) + 1
    OBVIOUS
  <2>2. Append(l, x)[Len(l) + 1] = x /\ \A i \in 1 .. Len(l) : Append(l, x)[i] = l[i]
    OBVIOUS
  <2>3. Len(Marked(l, X)) = Len(l)
    BY <1>2, <2>1 DEF Marked
  <2>4. Append(Marked(l, X), one) = [i \in 1 .. Len(l) + 1 |-> IF i = Len(l) + 1 THEN one ELSE Marked(l, X)[i]]
    <3> HIDE DEF one
    <3> QED
      BY <1>1, <1>2, <2>3, AppendIs
  <2>5. ASSUME NEW i \in 1 .. Len(l) + 1
        PROVE  (IF Append(l, x)[i] \in X THEN <<Append(l, x)[i]>> ELSE <<>>) = (IF i = Len(l) + 1 THEN one ELSE Marked(l, X)[i])
    <3>1. CASE i = Len(l) + 1
      BY <2>2, <3>1
    <3>2. CASE i # Len(l) + 1
      <4>1. i \in 1 .. Len(l)
        BY <2>1, <3>2
      <4> QED
        BY <2>1, <2>2, <3>2, <4>1 DEF Marked
    <3> QED
      BY <3>1, <3>2
  <2>6. Marked(Append(l, x), X) = [i \in 1 .. Len(l) + 1 |-> IF Append(l, x)[i] \in X THEN <<Append(l, x)[i]>> ELSE <<>>]
    BY <2>1, Zenon DEF Marked
  <2> HIDE DEF one
  <2> QED
    BY <2>4, <2>5, <2>6, Zenon
<1>4. Kept(Append(l, x), X) = Kept(l, X) \o one
  <2> HIDE DEF one
  <2> QED
    BY <1>1, <1>2, <1>3, FlattenAppend DEF Kept
<1>5. CASE x \in X
  BY <1>2, <1>4, <1>5
<1>6. CASE x \notin X
  BY <1>2, <1>4, <1>6
<1> QED
  BY <1>5, <1>6

LEMMA KeptType == ASSUME NEW T, NEW l \in Seq(T), NEW X PROVE Kept(l, X) \in Seq(T) /\ ToSet(Kept(l, X)) = ToSet(l) \cap X
<1>1. Marked(l, X) \in Seq(Seq(T)) /\ Kept(l, X) \in Seq(T)
  BY MarkedType, FlattenType DEF Kept
<1>2. ToSet(Kept(l, X)) = UNION {ToSet(Marked(l, X)[i]) : i \in DOMAIN Marked(l, X)}
  BY <1>1, FlattenElements DEF Kept
<1>3. DOMAIN Marked(l, X) = DOMAIN l /\ \A i \in DOMAIN l : ToSet(Marked(l, X)[i]) = {l[i]} \cap X
  <2>1. \A i \in DOMAIN l : Marked(l, X)[i] = IF l[i] \in X THEN <<l[i]>> ELSE <<>>
    BY DEF Marked
  <2>2. DOMAIN Marked(l, X) = DOMAIN l
    BY DEF Marked
  <2> QED
    BY <2>1, <2>2, ToSetEmpty, ToSetOne
<1>4. UNION {ToSet(Marked(l, X)[i]) : i \in DOMAIN Marked(l, X)} = {l[i] : i \in DOMAIN l} \cap X
  <2>1. ASSUME NEW y PROVE y \in UNION {ToSet(Marked(l, X)[i]) : i \in DOMAIN Marked(l, X)} <=> \E i \in DOMAIN l : y \in {l[i]} \cap X
    BY <1>3
  <2> QED
    BY <2>1
<1>5. ToSet(l) = {l[i] : i \in DOMAIN l}
  BY DEF ToSet
<1> QED
  BY <1>1, <1>2, <1>4, <1>5

\* Only the elements matter of the set.
LEMMA KeptSame == ASSUME NEW l, NEW X, NEW Y, \A x \in ToSet(l) : x \in X <=> x \in Y PROVE Kept(l, X) = Kept(l, Y)
<1>1. Marked(l, X) = Marked(l, Y)
  BY DEF Marked, ToSet
<1> QED
  BY <1>1 DEF Kept

LEMMA KeptConcat ==
    ASSUME NEW T, NEW l \in Seq(T), NEW k \in Seq(T), NEW X
    PROVE  Kept(l \o k, X) = Kept(l, X) \o Kept(k, X)
<1> DEFINE P == {s \in Seq(T) : Kept(l \o s, X) = Kept(l, X) \o Kept(s, X)}
<1>1. <<>> \in P
  <2>1. <<>> \in Seq(T) /\ l \o <<>> = l /\ Kept(l, X) \o <<>> = Kept(l, X)
    BY EmptySeq, KeptType
  <2> QED
    BY <2>1, KeptEmpty, Zenon
<1>2. ASSUME NEW s \in P, s \in Seq(T), NEW x \in T PROVE Append(s, x) \in P
  <2>1. Append(s, x) \in Seq(T) /\ l \o s \in Seq(T) /\ l \o Append(s, x) = Append(l \o s, x)
    BY <1>2
  <2>2. Kept(s, X) \in Seq(T) /\ Kept(l, X) \in Seq(T) /\ Kept(l \o s, X) = Kept(l, X) \o Kept(s, X)
    BY <1>2, KeptType
  <2> HIDE DEF P
  <2>3. Kept(l \o Append(s, x), X) = IF x \in X THEN Append(Kept(l, X) \o Kept(s, X), x) ELSE Kept(l, X) \o Kept(s, X)
    <3>1. Kept(Append(l \o s, x), X) = IF x \in X THEN Append(Kept(l \o s, X), x) ELSE Kept(l \o s, X)
      BY <2>1, KeptAppend, Zenon
    <3> QED
      BY <2>1, <2>2, <3>1, Zenon
  <2>4. Kept(Append(s, x), X) = IF x \in X THEN Append(Kept(s, X), x) ELSE Kept(s, X)
    BY <1>2, KeptAppend
  <2>5. Kept(l, X) \o Append(Kept(s, X), x) = Append(Kept(l, X) \o Kept(s, X), x)
    BY <2>2
  <2>6. Kept(l \o Append(s, x), X) = Kept(l, X) \o Kept(Append(s, x), X)
    BY <2>1, <2>3, <2>4, <2>5, Zenon
  <2> QED
    BY <2>1, <2>6 DEF P
<1> HIDE DEF P
<1>3. Seq(T) \subseteq P
  BY <1>1, <1>2, AllLists
<1> QED
  BY <1>3 DEF P

-----------------------------------------------------------------------------
(* The statements of the six scripts, as sets.                              *)

IsList(l) == l \in Seq(ToSet(l))

LEMMA ListFacts ==
    ASSUME NEW l, IsList(l)
    PROVE  Len(l) \in Nat /\ DOMAIN l = 1 .. Len(l) /\ l = [i \in 1 .. Len(l) |-> l[i]] /\ \A i \in 1 .. Len(l) : l[i] \in ToSet(l)
<1>1. Len(l) \in Nat /\ DOMAIN l = 1 .. Len(l) /\ l \in [1 .. Len(l) -> ToSet(l)]
  BY LenProperties DEF IsList
<1>2. l = [i \in 1 .. Len(l) |-> l[i]]
  BY <1>1, Zenon
<1> QED
  BY <1>1, <1>2

LEMMA ListIs ==
    ASSUME NEW n \in Nat, NEW f, f = [i \in 1 .. n |-> f[i]]
    PROVE  IsList(f) /\ Len(f) = n /\ ToSet(f) = {f[i] : i \in 1 .. n}
<1>1. DOMAIN f = 1 .. n
  OBVIOUS
<1>2. ToSet(f) = {f[i] : i \in 1 .. n}
  BY <1>1 DEF ToSet
<1>3. f \in [1 .. n -> ToSet(f)]
  BY <1>1, <1>2, Zenon
<1>4. \A U : \A k \in Nat : [1 .. k -> U] \subseteq Seq(U)
  BY SeqDef
<1>5. f \in Seq(ToSet(f))
  BY <1>3, <1>4
<1>6. Len(f) = n
  <2>1. 1 .. n = 1 .. Len(f) /\ Len(f) \in Nat
    BY <1>1, <1>5, LenProperties
  <2> QED
    BY <2>1
<1> QED
  BY <1>2, <1>5, <1>6 DEF IsList

LEMMA ListEmpty == IsList(<<>>) /\ ToSet(<<>>) = {}
BY ToSetEmpty, EmptySeq DEF IsList

LEMMA ListOne == ASSUME NEW x PROVE IsList(<<x>>) /\ ToSet(<<x>>) = {x}
<1>1. ToSet(<<x>>) = {x}
  BY ToSetOne
<1>2. <<x>> \in Seq({x})
  OBVIOUS
<1> QED
  BY <1>1, <1>2 DEF IsList

LEMMA ListConcat ==
    ASSUME NEW a, IsList(a), NEW b, IsList(b)
    PROVE  IsList(a \o b) /\ ToSet(a \o b) = ToSet(a) \cup ToSet(b)
<1> DEFINE T == ToSet(a) \cup ToSet(b)
<1>1. a \in Seq(T) /\ b \in Seq(T)
  BY SeqMonotonic DEF IsList
<1> HIDE DEF T
<1>2. a \o b \in Seq(T) /\ ToSet(a \o b) = ToSet(a) \cup ToSet(b)
  BY <1>1, ConcatProperties, ToSetConcat
<1> QED
  BY <1>2, OwnType DEF IsList

LEMMA ListAppend == ASSUME NEW a, IsList(a), NEW x PROVE IsList(Append(a, x)) /\ ToSet(Append(a, x)) = ToSet(a) \cup {x}
<1> DEFINE T == ToSet(a) \cup {x}
<1>1. a \in Seq(T) /\ x \in T
  BY SeqMonotonic DEF IsList
<1> HIDE DEF T
<1>2. Append(a, x) \in Seq(T) /\ ToSet(Append(a, x)) = ToSet(a) \cup {x}
  BY <1>1, AppendProperties, ToSetAppend
<1> QED
  BY <1>2, OwnType DEF IsList

\* What is made from every record of a file: made is the list of the lists.
Made(records, g) == FlattenSeq([i \in DOMAIN records |-> g[records[i]]])
LEMMA ListMade ==
    ASSUME NEW records, IsList(records), NEW g, \A r \in ToSet(records) : IsList(g[r])
    PROVE  IsList(Made(records, g)) /\ ToSet(Made(records, g)) = UNION {ToSet(g[r]) : r \in ToSet(records)}
<1> DEFINE T == UNION {ToSet(g[r]) : r \in ToSet(records)}
           f == [i \in DOMAIN records |-> g[records[i]]]
<1>1. Len(records) \in Nat /\ DOMAIN records = 1 .. Len(records) /\ \A i \in 1 .. Len(records) : records[i] \in ToSet(records)
  BY ListFacts
<1>2. ASSUME NEW i \in 1 .. Len(records) PROVE g[records[i]] \in Seq(T)
  <2>1. IsList(g[records[i]]) /\ ToSet(g[records[i]]) \subseteq T
    BY <1>1
  <2> HIDE DEF T
  <2> QED
    BY <2>1, SeqMonotonic DEF IsList
<1>3. f \in Seq(Seq(T))
  <2> HIDE DEF T
  <2>1. f \in [1 .. Len(records) -> Seq(T)]
    BY <1>1, <1>2
  <2>2. \A U : \A k \in Nat : [1 .. k -> U] \subseteq Seq(U)
    BY SeqDef
  <2> QED
    BY <1>1, <2>1, <2>2
<1>4. {ToSet(f[i]) : i \in DOMAIN f} = {ToSet(g[r]) : r \in ToSet(records)}
  <2>1. DOMAIN f = DOMAIN records /\ \A i \in DOMAIN records : f[i] = g[records[i]]
    OBVIOUS
  <2>2. ToSet(records) = {records[i] : i \in DOMAIN records}
    BY DEF ToSet
  <2> QED
    BY <2>1, <2>2
<1>5. FlattenSeq(f) = Made(records, g)
  BY DEF Made
<1> HIDE DEF T, f
<1>6. FlattenSeq(f) \in Seq(T)
  BY <1>3, FlattenType
<1>7. ToSet(FlattenSeq(f)) = UNION {ToSet(f[i]) : i \in DOMAIN f}
  BY <1>3, FlattenElements
<1>8. IsList(FlattenSeq(f))
  BY <1>6, OwnType DEF IsList
<1> QED
  BY <1>4, <1>5, <1>7, <1>8

Creation(table, of, i, v) == [op |-> "create", table |-> table, key |-> of, parent |-> of, v |-> v, rank |-> i]

Creations(table, of, n, v) == {Creation(table, of, i, v) : i \in 1 .. n}

LEMMA ListCreate ==
    ASSUME NEW table, NEW of, NEW n \in Nat, NEW v
    PROVE  /\ IsList(Create(table, of, n, v)) /\ ToSet(Create(table, of, n, v)) = Creations(table, of, n, v)
           /\ Len(Create(table, of, n, v)) = n /\ \A i \in 1 .. n : Create(table, of, n, v)[i] = Creation(table, of, i, v)
<1> DEFINE f == Create(table, of, n, v)
<1>1. f = [i \in 1 .. n |-> Creation(table, of, i, v)]
  BY DEF Create, Statement, Creation
<1>2. f = [i \in 1 .. n |-> f[i]] /\ \A i \in 1 .. n : f[i] = Creation(table, of, i, v)
  <2> HIDE DEF f
  <2> QED
    BY <1>1
<1>3. {f[i] : i \in 1 .. n} = {Creation(table, of, i, v) : i \in 1 .. n}
  BY <1>2
<1> HIDE DEF f
<1>4. IsList(f) /\ Len(f) = n /\ ToSet(f) = {f[i] : i \in 1 .. n}
  BY <1>2, ListIs
<1>5. ToSet(f) = Creations(table, of, n, v)
  BY <1>3, <1>4 DEF Creations
<1> QED
  BY <1>2, <1>4, <1>5 DEF f

LEMMA ListCreations == \A table, of, v : \A n \in Nat : IsList(Create(table, of, n, v)) /\ ToSet(Create(table, of, n, v)) = Creations(table, of, n, v)
<1> SUFFICES ASSUME NEW table, NEW of, NEW v, NEW n \in Nat
             PROVE  IsList(Create(table, of, n, v)) /\ ToSet(Create(table, of, n, v)) = Creations(table, of, n, v)
  OBVIOUS
<1> QED
  BY ListCreate

\* What the files name is listed.
LEMMA Files ==
    /\ IsList(Fixtures)
    /\ \A v \in Versions : IsList(Modules[v]) /\ IsList(Words[v]) /\ IsList(Points[v]) /\ IsList(Passages[v]) /\ IsList(Questions[v])
    /\ \A m \in AllModules : IsList(m.lessons) /\ \A l \in ToSet(m.lessons) : IsList(l.exerciseIds)
<1>1. IsList(Fixtures) /\ IsList(Modules[1]) /\ IsList(Modules[2])
  BY FilesAssumption DEF Once, IsList
<1>2. \A v \in Versions : IsList(Words[v]) /\ IsList(Points[v]) /\ IsList(Passages[v]) /\ IsList(Questions[v])
  BY FilesAssumption DEF Once, IsList
<1>3. \A m \in AllModules : IsList(m.lessons) /\ \A l \in ToSet(m.lessons) : IsList(l.exerciseIds)
  BY FilesAssumption DEF Once, IsList
<1>4. \A v \in Versions : v = 1 \/ v = 2
  BY DEF Versions
<1> QED
  BY <1>1, <1>2, <1>3, <1>4


\* The statements of each program.
SeedModules == {Insert("module", m.id, None) : m \in ToSet(Fixtures)}
SeedLessons == UNION {{Insert("lesson", l.id, m.id) : l \in ToSet(m.lessons)} : m \in ToSet(Fixtures)}
SeedExercises ==
    UNION {UNION {{Insert("exercise", e, l.id) : e \in ToSet(l.exerciseIds)} : l \in ToSet(m.lessons)} : m \in ToSet(Fixtures)}
SeedSet == (SeedModules \cup SeedLessons) \cup SeedExercises
LessonSet(l, m, v) == {Upsert("lesson", l.id, m.id, v)} \cup {Upsert("exercise", e, l.id, v) : e \in ToSet(l.exerciseIds)}
ModuleSet(m, v) == {Upsert("module", m.id, None, v)} \cup UNION {LessonSet(l, m, v) : l \in ToSet(m.lessons)}
GeneratedSet(v) == UNION {ModuleSet(m, v) : m \in ToSet(Modules[v])}

LEMMA SeedList == IsList(SeedMain) /\ ToSet(SeedMain) = SeedSet
<1>1. IsList(ModuleFixtures) /\ ToSet(ModuleFixtures) = {Insert("module", m.id, None) : m \in ToSet(Fixtures)}
  <2> DEFINE g == [m \in ToSet(Fixtures) |-> <<Insert("module", m.id, None)>>]
  <2>1. ModuleFixtures = Made(Fixtures, g)
    BY Zenon DEF ModuleFixtures, ForEach, Made, ToSet
  <2>2. \A m \in ToSet(Fixtures) : IsList(g[m]) /\ ToSet(g[m]) = {Insert("module", m.id, None)}
    BY ListOne
  <2> HIDE DEF g
  <2>3. IsList(Made(Fixtures, g)) /\ ToSet(Made(Fixtures, g)) = UNION {ToSet(g[m]) : m \in ToSet(Fixtures)}
    BY <2>2, Files, ListMade
  <2> QED
    BY <2>1, <2>2, <2>3
<1>2. IsList(LessonFixtures) /\ ToSet(LessonFixtures) = UNION {{Insert("lesson", l.id, m.id) : l \in ToSet(m.lessons)} : m \in ToSet(Fixtures)}
  <2> DEFINE g == [m \in ToSet(Fixtures) |-> ForEach(m.lessons, LAMBDA l : <<Insert("lesson", l.id, m.id)>>)]
  <2>1. LessonFixtures = Made(Fixtures, g)
    BY Zenon DEF LessonFixtures, ForEach, Made, ToSet
  <2>2. ASSUME NEW m \in ToSet(Fixtures) PROVE IsList(g[m]) /\ ToSet(g[m]) = {Insert("lesson", l.id, m.id) : l \in ToSet(m.lessons)}
    <3> DEFINE h == [l \in ToSet(m.lessons) |-> <<Insert("lesson", l.id, m.id)>>]
    <3>1. g[m] = Made(m.lessons, h)
      BY Zenon DEF ForEach, Made, ToSet
    <3>2. \A l \in ToSet(m.lessons) : IsList(h[l]) /\ ToSet(h[l]) = {Insert("lesson", l.id, m.id)}
      BY ListOne
    <3> HIDE DEF g, h
    <3>3. IsList(m.lessons)
      BY Files DEF AllModules
    <3>4. IsList(Made(m.lessons, h)) /\ ToSet(Made(m.lessons, h)) = UNION {ToSet(h[l]) : l \in ToSet(m.lessons)}
      BY <3>2, <3>3, ListMade
    <3>5. UNION {ToSet(h[l]) : l \in ToSet(m.lessons)} = {Insert("lesson", l.id, m.id) : l \in ToSet(m.lessons)}
      BY <3>2
    <3> QED
      BY <3>1, <3>4, <3>5, Zenon
  <2> HIDE DEF g
  <2>3. IsList(Made(Fixtures, g)) /\ ToSet(Made(Fixtures, g)) = UNION {ToSet(g[m]) : m \in ToSet(Fixtures)}
    BY <2>2, Files, ListMade
  <2>4. {ToSet(g[m]) : m \in ToSet(Fixtures)} = {{Insert("lesson", l.id, m.id) : l \in ToSet(m.lessons)} : m \in ToSet(Fixtures)}
    <3>1. \A m \in ToSet(Fixtures) : ToSet(g[m]) = {Insert("lesson", l.id, m.id) : l \in ToSet(m.lessons)}
      BY <2>2
    <3>2. ASSUME NEW x \in {ToSet(g[m]) : m \in ToSet(Fixtures)} PROVE x \in {{Insert("lesson", l.id, m.id) : l \in ToSet(m.lessons)} : m \in ToSet(Fixtures)}
      <4>1. PICK m \in ToSet(Fixtures) : x = ToSet(g[m])
        OBVIOUS
      <4> QED
        BY <3>1, <4>1
    <3>3. ASSUME NEW x \in {{Insert("lesson", l.id, m.id) : l \in ToSet(m.lessons)} : m \in ToSet(Fixtures)} PROVE x \in {ToSet(g[m]) : m \in ToSet(Fixtures)}
      <4>1. PICK m \in ToSet(Fixtures) : x = {Insert("lesson", l.id, m.id) : l \in ToSet(m.lessons)}
        OBVIOUS
      <4> QED
        BY <3>1, <4>1
    <3> QED
      BY <3>2, <3>3, Zenon
  <2> QED
    BY <2>1, <2>3, <2>4
<1>3. IsList(ExerciseFixtures)
      /\ ToSet(ExerciseFixtures)
         = UNION {UNION {{Insert("exercise", e, l.id) : e \in ToSet(l.exerciseIds)} : l \in ToSet(m.lessons)} : m \in ToSet(Fixtures)}
  <2> DEFINE g == [m \in ToSet(Fixtures) |-> ForEach(m.lessons, LAMBDA l : ForEach(l.exerciseIds, LAMBDA e : <<Insert("exercise", e, l.id)>>))]
  <2>1. ExerciseFixtures = Made(Fixtures, g)
    BY Zenon DEF ExerciseFixtures, ForEach, Made, ToSet
  <2>2. ASSUME NEW m \in ToSet(Fixtures)
        PROVE  IsList(g[m]) /\ ToSet(g[m]) = UNION {{Insert("exercise", e, l.id) : e \in ToSet(l.exerciseIds)} : l \in ToSet(m.lessons)}
    <3> DEFINE h == [l \in ToSet(m.lessons) |-> ForEach(l.exerciseIds, LAMBDA e : <<Insert("exercise", e, l.id)>>)]
    <3>1. g[m] = Made(m.lessons, h)
      BY Zenon DEF ForEach, Made, ToSet
    <3>2. ASSUME NEW l \in ToSet(m.lessons)
          PROVE  IsList(h[l]) /\ ToSet(h[l]) = {Insert("exercise", e, l.id) : e \in ToSet(l.exerciseIds)}
      <4> DEFINE k == [e \in ToSet(l.exerciseIds) |-> <<Insert("exercise", e, l.id)>>]
      <4>1. h[l] = Made(l.exerciseIds, k)
        BY Zenon DEF ForEach, Made, ToSet
      <4>2. \A e \in ToSet(l.exerciseIds) : IsList(k[e]) /\ ToSet(k[e]) = {Insert("exercise", e, l.id)}
        BY ListOne
      <4> HIDE DEF g, h, k
      <4>3. IsList(l.exerciseIds)
        BY Files DEF AllModules
      <4>4. IsList(Made(l.exerciseIds, k)) /\ ToSet(Made(l.exerciseIds, k)) = UNION {ToSet(k[e]) : e \in ToSet(l.exerciseIds)}
        BY <4>2, <4>3, ListMade
      <4>5. UNION {ToSet(k[e]) : e \in ToSet(l.exerciseIds)} = {Insert("exercise", e, l.id) : e \in ToSet(l.exerciseIds)}
        BY <4>2
      <4> QED
        BY <4>1, <4>4, <4>5, Zenon
    <3> HIDE DEF g, h
    <3>3. IsList(m.lessons)
      BY Files DEF AllModules
    <3>4. IsList(Made(m.lessons, h)) /\ ToSet(Made(m.lessons, h)) = UNION {ToSet(h[l]) : l \in ToSet(m.lessons)}
      BY <3>2, <3>3, ListMade
    <3>5. {ToSet(h[l]) : l \in ToSet(m.lessons)} = {{Insert("exercise", e, l.id) : e \in ToSet(l.exerciseIds)} : l \in ToSet(m.lessons)}
      <4>1. \A l \in ToSet(m.lessons) : ToSet(h[l]) = {Insert("exercise", e, l.id) : e \in ToSet(l.exerciseIds)}
        BY <3>2
      <4>2. ASSUME NEW x \in {ToSet(h[l]) : l \in ToSet(m.lessons)} PROVE x \in {{Insert("exercise", e, l.id) : e \in ToSet(l.exerciseIds)} : l \in ToSet(m.lessons)}
        <5>1. PICK l \in ToSet(m.lessons) : x = ToSet(h[l])
          OBVIOUS
        <5> QED
          BY <4>1, <5>1
      <4>3. ASSUME NEW x \in {{Insert("exercise", e, l.id) : e \in ToSet(l.exerciseIds)} : l \in ToSet(m.lessons)} PROVE x \in {ToSet(h[l]) : l \in ToSet(m.lessons)}
        <5>1. PICK l \in ToSet(m.lessons) : x = {Insert("exercise", e, l.id) : e \in ToSet(l.exerciseIds)}
          OBVIOUS
        <5> QED
          BY <4>1, <5>1
      <4> QED
        BY <4>2, <4>3, Zenon
    <3> QED
      BY <3>1, <3>4, <3>5, Zenon
  <2> HIDE DEF g
  <2>3. IsList(Made(Fixtures, g)) /\ ToSet(Made(Fixtures, g)) = UNION {ToSet(g[m]) : m \in ToSet(Fixtures)}
    BY <2>2, Files, ListMade
  <2>4. {ToSet(g[m]) : m \in ToSet(Fixtures)}
        = {UNION {{Insert("exercise", e, l.id) : e \in ToSet(l.exerciseIds)} : l \in ToSet(m.lessons)} : m \in ToSet(Fixtures)}
    BY <2>2
  <2> QED
    BY <2>1, <2>3, <2>4, Zenon
<1>4. ToSet(ModuleFixtures) = SeedModules /\ ToSet(LessonFixtures) = SeedLessons /\ ToSet(ExerciseFixtures) = SeedExercises
  BY <1>1, <1>2, <1>3, Zenon DEF SeedModules, SeedLessons, SeedExercises
<1>5. IsList(ModuleFixtures \o LessonFixtures) /\ ToSet(ModuleFixtures \o LessonFixtures) = ToSet(ModuleFixtures) \cup ToSet(LessonFixtures)
  BY <1>1, <1>2, ListConcat
<1>6. IsList(SeedMain) /\ ToSet(SeedMain) = (ToSet(ModuleFixtures) \cup ToSet(LessonFixtures)) \cup ToSet(ExerciseFixtures)
  <2> DEFINE both == ModuleFixtures \o LessonFixtures
  <2>1. IsList(both) /\ ToSet(both) = ToSet(ModuleFixtures) \cup ToSet(LessonFixtures)
    BY <1>5
  <2>2. SeedMain = both \o ExerciseFixtures
    BY DEF SeedMain
  <2> HIDE DEF both
  <2> QED
    BY <1>3, <2>1, <2>2, ListConcat
<1> QED
  BY <1>4, <1>6 DEF SeedSet

LEMMA LoadModuleList ==
    ASSUME NEW m \in AllModules, NEW v
    PROVE  IsList(LoadModule(m, v)) /\ ToSet(LoadModule(m, v)) = ModuleSet(m, v)
<1> DEFINE g == [l \in ToSet(m.lessons) |-> <<Upsert("lesson", l.id, m.id, v)>> \o ForEach(l.exerciseIds, LAMBDA e : <<Upsert("exercise", e, l.id, v)>>)]
<1>1. LoadModule(m, v) = <<Upsert("module", m.id, None, v)>> \o Made(m.lessons, g)
  BY Zenon DEF LoadModule, ForEach, Made, ToSet
<1>2. ASSUME NEW l \in ToSet(m.lessons) PROVE IsList(g[l]) /\ ToSet(g[l]) = LessonSet(l, m, v)
  <2> DEFINE h == [e \in ToSet(l.exerciseIds) |-> <<Upsert("exercise", e, l.id, v)>>]
  <2>1. g[l] = <<Upsert("lesson", l.id, m.id, v)>> \o Made(l.exerciseIds, h)
    BY Zenon DEF ForEach, Made, ToSet
  <2>2. \A e \in ToSet(l.exerciseIds) : IsList(h[e]) /\ ToSet(h[e]) = {Upsert("exercise", e, l.id, v)}
    BY ListOne
  <2> HIDE DEF g, h
  <2>3. IsList(l.exerciseIds)
    BY Files
  <2>4. IsList(Made(l.exerciseIds, h)) /\ ToSet(Made(l.exerciseIds, h)) = UNION {ToSet(h[e]) : e \in ToSet(l.exerciseIds)}
    BY <2>2, <2>3, ListMade
  <2>5. UNION {ToSet(h[e]) : e \in ToSet(l.exerciseIds)} = {Upsert("exercise", e, l.id, v) : e \in ToSet(l.exerciseIds)}
    BY <2>2
  <2>6. IsList(<<Upsert("lesson", l.id, m.id, v)>>) /\ ToSet(<<Upsert("lesson", l.id, m.id, v)>>) = {Upsert("lesson", l.id, m.id, v)}
    BY ListOne
  <2>7. IsList(g[l]) /\ ToSet(g[l]) = {Upsert("lesson", l.id, m.id, v)} \cup ToSet(Made(l.exerciseIds, h))
    BY <2>1, <2>4, <2>6, ListConcat
  <2> QED
    BY <2>4, <2>5, <2>7 DEF LessonSet
<1> HIDE DEF g
<1>3. IsList(Made(m.lessons, g)) /\ ToSet(Made(m.lessons, g)) = UNION {ToSet(g[l]) : l \in ToSet(m.lessons)}
  BY <1>2, Files, ListMade
<1>4. {ToSet(g[l]) : l \in ToSet(m.lessons)} = {LessonSet(l, m, v) : l \in ToSet(m.lessons)}
  BY <1>2
<1>5. IsList(<<Upsert("module", m.id, None, v)>>) /\ ToSet(<<Upsert("module", m.id, None, v)>>) = {Upsert("module", m.id, None, v)}
  BY ListOne
<1>6. IsList(LoadModule(m, v)) /\ ToSet(LoadModule(m, v)) = {Upsert("module", m.id, None, v)} \cup ToSet(Made(m.lessons, g))
  BY <1>1, <1>3, <1>5, ListConcat
<1> QED
  BY <1>3, <1>4, <1>6 DEF ModuleSet

LEMMA GeneratedList == ASSUME NEW v \in Versions PROVE IsList(GeneratedMain(v)) /\ ToSet(GeneratedMain(v)) = GeneratedSet(v)
<1> DEFINE g == [m \in ToSet(Modules[v]) |-> LoadModule(m, v)]
<1>1. GeneratedMain(v) = Made(Modules[v], g)
  BY Zenon DEF GeneratedMain, ForEach, Made, ToSet
<1>2. \A m \in ToSet(Modules[v]) : IsList(g[m]) /\ ToSet(g[m]) = ModuleSet(m, v)
  BY LoadModuleList DEF AllModules, Versions
<1> HIDE DEF g
<1>3. IsList(Made(Modules[v], g)) /\ ToSet(Made(Modules[v], g)) = UNION {ToSet(g[m]) : m \in ToSet(Modules[v])}
  BY <1>2, Files, ListMade
<1>4. {ToSet(g[m]) : m \in ToSet(Modules[v])} = {ModuleSet(m, v) : m \in ToSet(Modules[v])}
  <2>1. \A m \in ToSet(Modules[v]) : ToSet(g[m]) = ModuleSet(m, v)
    BY <1>2
  <2> QED
    BY <2>1, Zenon
<1> QED
  BY <1>1, <1>3, <1>4 DEF GeneratedSet

Allowed(file) == {r \in ToSet(file) : LicenseAllowed(r)}
EntrySet(w, v) ==
    ({Upsert("entry", w.lemma, None, v), Clear("sense", w.lemma), Clear("pron", w.lemma)}
     \cup Creations("sense", w.lemma, w.senses, v))
    \cup Creations("pron", w.lemma, w.prons, v)
PointSet(p, v) ==
    {Upsert("point", p.title, None, v), Clear("example", p.title)} \cup Creations("example", p.title, p.examples, v)
PassageSet(p, v) == (IF p.media = None THEN {} ELSE {Upsert("media", p.media, None, v)}) \cup {Upsert("passage", p.title, p.media, v)}
VocabSet(v) == UNION {EntrySet(w, v) : w \in Allowed(Words[v])}
GrammarSet(v) == UNION {PointSet(p, v) : p \in Allowed(Points[v])}
PassagesSet(v) == UNION {PassageSet(p, v) : p \in Allowed(Passages[v])}
AssessmentSet(v) == {Upsert("question", q.id, None, v) : q \in ToSet(Questions[v])}

LEMMA ListTwo == ASSUME NEW x, NEW y PROVE IsList(<<x, y>>) /\ ToSet(<<x, y>>) = {x, y}
<1>1. ToSet(<<x, y>>) = {x, y}
  BY DEF ToSet
<1>2. <<x, y>> \in Seq({x, y})
  OBVIOUS
<1> QED
  BY <1>1, <1>2 DEF IsList

LEMMA ListThree == ASSUME NEW x, NEW y, NEW z PROVE IsList(<<x, y, z>>) /\ ToSet(<<x, y, z>>) = {x, y, z}
<1>1. ToSet(<<x, y, z>>) = {x, y, z}
  BY DEF ToSet
<1>2. <<x, y, z>> \in Seq({x, y, z})
  OBVIOUS
<1> QED
  BY <1>1, <1>2 DEF IsList

LEMMA EntryList ==
    ASSUME NEW v \in Versions, NEW w \in ToSet(Words[v])
    PROVE  IsList(LoadEntry(w, v)) /\ ToSet(LoadEntry(w, v)) = EntrySet(w, v)
<1> DEFINE a == <<Upsert("entry", w.lemma, None, v), Clear("sense", w.lemma), Clear("pron", w.lemma)>>
           b == Create("sense", w.lemma, w.senses, v)
           c == Create("pron", w.lemma, w.prons, v)
<1>1. IsList(a) /\ ToSet(a) = {Upsert("entry", w.lemma, None, v), Clear("sense", w.lemma), Clear("pron", w.lemma)}
  BY ListThree
<1>2. w.senses \in Nat /\ w.prons \in Nat
  BY FilesAssumption
<1>3. IsList(b) /\ ToSet(b) = Creations("sense", w.lemma, w.senses, v)
  BY ListCreations, <1>2
<1>4. IsList(c) /\ ToSet(c) = Creations("pron", w.lemma, w.prons, v)
  BY ListCreations, <1>2
<1>5. LoadEntry(w, v) = (a \o b) \o c
  BY DEF LoadEntry
<1> HIDE DEF a, b, c
<1>6. IsList(a \o b) /\ ToSet(a \o b) = ToSet(a) \cup ToSet(b)
  BY <1>1, <1>3, ListConcat
<1>7. IsList((a \o b) \o c) /\ ToSet((a \o b) \o c) = (ToSet(a) \cup ToSet(b)) \cup ToSet(c)
  BY <1>4, <1>6, ListConcat
<1> QED
  BY <1>1, <1>3, <1>4, <1>5, <1>7, Zenon DEF EntrySet

LEMMA PointList ==
    ASSUME NEW v \in Versions, NEW p \in ToSet(Points[v])
    PROVE  IsList(LoadPoint(p, v)) /\ ToSet(LoadPoint(p, v)) = PointSet(p, v)
<1> DEFINE a == <<Upsert("point", p.title, None, v), Clear("example", p.title)>>
           b == Create("example", p.title, p.examples, v)
<1>1. IsList(a) /\ ToSet(a) = {Upsert("point", p.title, None, v), Clear("example", p.title)}
  BY ListTwo
<1>2. p.examples \in Nat
  BY FilesAssumption
<1>3. IsList(b) /\ ToSet(b) = Creations("example", p.title, p.examples, v)
  BY ListCreations, <1>2
<1>4. LoadPoint(p, v) = a \o b
  BY DEF LoadPoint
<1> HIDE DEF a, b
<1>5. IsList(a \o b) /\ ToSet(a \o b) = ToSet(a) \cup ToSet(b)
  BY <1>1, <1>3, ListConcat
<1> QED
  BY <1>1, <1>3, <1>4, <1>5, Zenon DEF PointSet

LEMMA PassageList == ASSUME NEW p, NEW v PROVE IsList(LoadPassage(p, v)) /\ ToSet(LoadPassage(p, v)) = PassageSet(p, v)
<1> DEFINE a == IF p.media = None THEN <<>> ELSE <<Upsert("media", p.media, None, v)>>
           b == <<Upsert("passage", p.title, p.media, v)>>
<1>1. IsList(a) /\ ToSet(a) = IF p.media = None THEN {} ELSE {Upsert("media", p.media, None, v)}
  BY ListOne, ListEmpty
<1>2. IsList(b) /\ ToSet(b) = {Upsert("passage", p.title, p.media, v)}
  BY ListOne
<1>3. LoadPassage(p, v) = a \o b
  BY DEF LoadPassage
<1> HIDE DEF a, b
<1>4. IsList(a \o b) /\ ToSet(a \o b) = ToSet(a) \cup ToSet(b)
  BY <1>1, <1>2, ListConcat
<1> QED
  BY <1>1, <1>2, <1>3, <1>4, Zenon DEF PassageSet

LEMMA VocabList == ASSUME NEW v \in Versions PROVE IsList(VocabMain(v)) /\ ToSet(VocabMain(v)) = VocabSet(v)
<1> DEFINE g == [r \in ToSet(Words[v]) |-> Licensed(r, LoadEntry(r, v))]
<1>1. VocabMain(v) = Made(Words[v], g)
  BY Zenon DEF VocabMain, ForEach, Made, ToSet
<1>2. ASSUME NEW r \in ToSet(Words[v])
      PROVE  IsList(g[r]) /\ ToSet(g[r]) = IF LicenseAllowed(r) THEN EntrySet(r, v) ELSE {}
  <2>1. g[r] = IF LicenseAllowed(r) THEN LoadEntry(r, v) ELSE <<>>
    BY DEF Licensed
  <2> HIDE DEF g
  <2> QED
    BY <2>1, EntryList, ListEmpty
<1> HIDE DEF g
<1>3. IsList(Made(Words[v], g)) /\ ToSet(Made(Words[v], g)) = UNION {ToSet(g[r]) : r \in ToSet(Words[v])}
  BY <1>2, Files, ListMade
<1>4. UNION {ToSet(g[r]) : r \in ToSet(Words[v])} = UNION {EntrySet(r, v) : r \in Allowed(Words[v])}
  BY <1>2 DEF Allowed
<1> QED
  BY <1>1, <1>3, <1>4 DEF VocabSet

LEMMA GrammarList == ASSUME NEW v \in Versions PROVE IsList(GrammarMain(v)) /\ ToSet(GrammarMain(v)) = GrammarSet(v)
<1> DEFINE g == [r \in ToSet(Points[v]) |-> Licensed(r, LoadPoint(r, v))]
<1>1. GrammarMain(v) = Made(Points[v], g)
  BY Zenon DEF GrammarMain, ForEach, Made, ToSet
<1>2. ASSUME NEW r \in ToSet(Points[v])
      PROVE  IsList(g[r]) /\ ToSet(g[r]) = IF LicenseAllowed(r) THEN PointSet(r, v) ELSE {}
  <2>1. g[r] = IF LicenseAllowed(r) THEN LoadPoint(r, v) ELSE <<>>
    BY DEF Licensed
  <2> HIDE DEF g
  <2> QED
    BY <2>1, PointList, ListEmpty
<1> HIDE DEF g
<1>3. IsList(Made(Points[v], g)) /\ ToSet(Made(Points[v], g)) = UNION {ToSet(g[r]) : r \in ToSet(Points[v])}
  BY <1>2, Files, ListMade
<1>4. UNION {ToSet(g[r]) : r \in ToSet(Points[v])} = UNION {PointSet(r, v) : r \in Allowed(Points[v])}
  BY <1>2 DEF Allowed
<1> QED
  BY <1>1, <1>3, <1>4 DEF GrammarSet

LEMMA PassagesList == ASSUME NEW v \in Versions PROVE IsList(PassagesMain(v)) /\ ToSet(PassagesMain(v)) = PassagesSet(v)
<1> DEFINE g == [r \in ToSet(Passages[v]) |-> Licensed(r, LoadPassage(r, v))]
<1>1. PassagesMain(v) = Made(Passages[v], g)
  BY Zenon DEF PassagesMain, ForEach, Made, ToSet
<1>2. ASSUME NEW r \in ToSet(Passages[v])
      PROVE  IsList(g[r]) /\ ToSet(g[r]) = IF LicenseAllowed(r) THEN PassageSet(r, v) ELSE {}
  <2>1. g[r] = IF LicenseAllowed(r) THEN LoadPassage(r, v) ELSE <<>>
    BY DEF Licensed
  <2> HIDE DEF g
  <2> QED
    BY <2>1, PassageList, ListEmpty
<1> HIDE DEF g
<1>3. IsList(Made(Passages[v], g)) /\ ToSet(Made(Passages[v], g)) = UNION {ToSet(g[r]) : r \in ToSet(Passages[v])}
  BY <1>2, Files, ListMade
<1>4. UNION {ToSet(g[r]) : r \in ToSet(Passages[v])} = UNION {PassageSet(r, v) : r \in Allowed(Passages[v])}
  BY <1>2 DEF Allowed
<1> QED
  BY <1>1, <1>3, <1>4 DEF PassagesSet

LEMMA AssessmentList == ASSUME NEW v \in Versions PROVE IsList(AssessmentMain(v)) /\ ToSet(AssessmentMain(v)) = AssessmentSet(v)
<1> DEFINE g == [q \in ToSet(Questions[v]) |-> LoadQuestion(q, v)]
<1>1. AssessmentMain(v) = Made(Questions[v], g)
  BY Zenon DEF AssessmentMain, ForEach, Made, ToSet
<1>2. \A q \in ToSet(Questions[v]) : IsList(g[q]) /\ ToSet(g[q]) = {Upsert("question", q.id, None, v)}
  BY ListOne DEF LoadQuestion
<1> HIDE DEF g
<1>3. IsList(Made(Questions[v], g)) /\ ToSet(Made(Questions[v], g)) = UNION {ToSet(g[q]) : q \in ToSet(Questions[v])}
  BY <1>2, Files, ListMade
<1>4. UNION {ToSet(g[q]) : q \in ToSet(Questions[v])} = {Upsert("question", q.id, None, v) : q \in ToSet(Questions[v])}
  BY <1>2
<1> QED
  BY <1>1, <1>3, <1>4 DEF AssessmentSet

\* The statements of a script.
StatementsOf(script, v) ==
    CASE script = "seed"       -> SeedSet
      [] script = "generated"  -> GeneratedSet(v)
      [] script = "vocab"      -> VocabSet(v)
      [] script = "grammar"    -> GrammarSet(v)
      [] script = "passages"   -> PassagesSet(v)
      [] script = "assessment" -> AssessmentSet(v)

LEMMA ScriptNames == Scripts = {"seed", "generated", "vocab", "grammar", "passages", "assessment"}
BY DEF Scripts, Family

LEMMA ProgramOf == ASSUME NEW script \in Scripts, NEW v \in Versions PROVE Programs[script][v] = Program(script, v)
BY Zenon DEF Programs

LEMMA ProgramList ==
    ASSUME NEW script \in Scripts, NEW v \in Versions
    PROVE  IsList(Programs[script][v]) /\ ToSet(Programs[script][v]) = StatementsOf(script, v)
<1>1. IsList(Program(script, v)) /\ ToSet(Program(script, v)) = StatementsOf(script, v)
  <2>1. CASE script = "seed"
    BY <2>1, SeedList DEF Program, StatementsOf
  <2>2. CASE script = "generated"
    BY <2>2, GeneratedList DEF Program, StatementsOf
  <2>3. CASE script = "vocab"
    BY <2>3, VocabList DEF Program, StatementsOf
  <2>4. CASE script = "grammar"
    BY <2>4, GrammarList DEF Program, StatementsOf
  <2>5. CASE script = "passages"
    BY <2>5, PassagesList DEF Program, StatementsOf
  <2>6. CASE script = "assessment"
    BY <2>6, AssessmentList DEF Program, StatementsOf
  <2> QED
    BY <2>1, <2>2, <2>3, <2>4, <2>5, <2>6, ScriptNames
<1> QED
  BY <1>1, ProgramOf

-----------------------------------------------------------------------------
(* The parts of a statement.                                                *)

\* What each statement is like.
Puts(s) == s.op \in {"insert", "upsert"}
LEMMA StatementForm ==
    ASSUME NEW script \in Scripts, NEW v \in Versions, NEW s \in StatementsOf(script, v)
    PROVE  /\ s = [op |-> s.op, table |-> s.table, key |-> s.key, parent |-> s.parent, v |-> s.v, rank |-> s.rank]
           /\ s.op \in {"insert", "upsert", "clear", "create"}
           /\ Puts(s) => s.v \in Versions /\ s.op = (IF script = "seed" THEN "insert" ELSE "upsert") /\ s.v = (IF script = "seed" THEN 1 ELSE v)
           /\ s.table = "exercise" => Puts(s) /\ s.key \in Exercises \ {None}
<1> DEFINE Goal == /\ s = [op |-> s.op, table |-> s.table, key |-> s.key, parent |-> s.parent, v |-> s.v, rank |-> s.rank]
                   /\ s.op \in {"insert", "upsert", "clear", "create"}
                   /\ Puts(s) => s.v \in Versions /\ s.op = (IF script = "seed" THEN "insert" ELSE "upsert") /\ s.v = (IF script = "seed" THEN 1 ELSE v)
                   /\ s.table = "exercise" => Puts(s) /\ s.key \in Exercises \ {None}
<1>1. \A m \in AllModules : \A l \in ToSet(m.lessons) : \A e \in ToSet(l.exerciseIds) : e \in Exercises \ {None}
  BY PracticeAssumption DEF Exercises
<1>2. CASE script = "seed"
  <2>1. s \in SeedSet
    BY <1>2 DEF StatementsOf
  <2>2. CASE s \in SeedModules
    BY <1>2, <2>2 DEF SeedModules, Insert, Statement, Puts, Versions
  <2>3. CASE s \in SeedLessons
    BY <1>2, <2>3 DEF SeedLessons, Insert, Statement, Puts, Versions
  <2>4. CASE s \in SeedExercises
    <3>3. PICK m \in ToSet(Fixtures) : \E l \in ToSet(m.lessons) : \E e \in ToSet(l.exerciseIds) : s = Insert("exercise", e, l.id)
      BY <2>4 DEF SeedExercises
    <3>4. PICK l \in ToSet(m.lessons) : \E e \in ToSet(l.exerciseIds) : s = Insert("exercise", e, l.id)
      BY <3>3
    <3>1. PICK e \in ToSet(l.exerciseIds) : s = Insert("exercise", e, l.id)
      BY <3>4
    <3>2. e \in Exercises \ {None}
      BY <1>1 DEF AllModules
    <3> QED
      BY <1>2, <3>1, <3>2 DEF Insert, Statement, Puts, Versions
  <2> QED
    BY <2>1, <2>2, <2>3, <2>4 DEF SeedSet
<1>3. CASE script = "generated"
  <2>1. s \in GeneratedSet(v)
    BY <1>3 DEF StatementsOf
  <2>2. PICK m \in ToSet(Modules[v]) : s \in ModuleSet(m, v)
    BY <2>1 DEF GeneratedSet
  <2>3. CASE s = Upsert("module", m.id, None, v)
    BY <1>3, <2>3 DEF Upsert, Statement, Puts
  <2>4. CASE \E l \in ToSet(m.lessons) : s = Upsert("lesson", l.id, m.id, v)
    BY <1>3, <2>4 DEF Upsert, Statement, Puts
  <2>5. CASE \E l \in ToSet(m.lessons) : \E e \in ToSet(l.exerciseIds) : s = Upsert("exercise", e, l.id, v)
    <3>4. PICK l \in ToSet(m.lessons) : \E e \in ToSet(l.exerciseIds) : s = Upsert("exercise", e, l.id, v)
      BY <2>5
    <3>1. PICK e \in ToSet(l.exerciseIds) : s = Upsert("exercise", e, l.id, v)
      BY <3>4
    <3>2. m \in AllModules
      BY DEF AllModules, Versions
    <3>3. e \in Exercises \ {None}
      BY <1>1, <3>2
    <3> QED
      BY <1>3, <3>1, <3>3 DEF Upsert, Statement, Puts
  <2> QED
    BY <2>2, <2>3, <2>4, <2>5 DEF ModuleSet, LessonSet
<1>4. CASE script = "vocab"
  <2>1. PICK w \in Allowed(Words[v]) : s \in EntrySet(w, v)
    BY <1>4 DEF StatementsOf, VocabSet
  <2> QED
    BY <1>4, <2>1 DEF EntrySet, Creations, Upsert, Clear, Creation, Statement, Puts
<1>5. CASE script = "grammar"
  <2>1. PICK w \in Allowed(Points[v]) : s \in PointSet(w, v)
    BY <1>5 DEF StatementsOf, GrammarSet
  <2> QED
    BY <1>5, <2>1 DEF PointSet, Creations, Upsert, Clear, Creation, Statement, Puts
<1>6. CASE script = "passages"
  <2>1. PICK w \in Allowed(Passages[v]) : s \in PassageSet(w, v)
    BY <1>6 DEF StatementsOf, PassagesSet
  <2> QED
    BY <1>6, <2>1 DEF PassageSet, Upsert, Statement, Puts
<1>7. CASE script = "assessment"
  BY <1>7 DEF StatementsOf, AssessmentSet, Upsert, Statement, Puts
<1> QED
  BY <1>2, <1>3, <1>4, <1>5, <1>6, <1>7, ScriptNames

\* The rows of a table, those with a key and those with a parent are those of the list.
At(table, key) == {r \in ToSet(rows) : r.table = table /\ r.key = key}
LEMMA FindKept == ASSUME NEW table, NEW key PROVE Find(table, key) = Kept(rows, At(table, key))
<1>1. \A i \in DOMAIN rows : rows[i] \in At(table, key) <=> rows[i].table = table /\ rows[i].key = key
  BY DEF At, ToSet
<1>2. Marked(rows, At(table, key)) = [i \in DOMAIN rows |-> IF rows[i].table = table /\ rows[i].key = key THEN <<rows[i]>> ELSE <<>>]
  BY <1>1 DEF Marked
<1> QED
  BY <1>2, Zenon DEF Find, Where, ForEach, Kept

LEMMA Found ==
    ASSUME IsList(rows), NEW table, NEW key
    PROVE  /\ IsList(Find(table, key)) /\ ToSet(Find(table, key)) = At(table, key)
           /\ Find(table, key) = <<>> <=> At(table, key) = {}
           /\ At(table, key) # {} => Find(table, key)[1] \in At(table, key) /\ 1 \in DOMAIN Find(table, key)
<1>1. Find(table, key) \in Seq(ToSet(rows)) /\ ToSet(Find(table, key)) = At(table, key)
  <2>1. ToSet(rows) \cap At(table, key) = At(table, key)
    BY DEF At
  <2> QED
    BY <2>1, FindKept, KeptType DEF IsList
<1>2. IsList(Find(table, key))
  BY <1>1, OwnType DEF IsList
<1> HIDE DEF At
<1>3. Find(table, key) = <<>> <=> At(table, key) = {}
  <2>1. Find(table, key) = <<>> => At(table, key) = {}
    BY <1>1, ToSetEmpty
  <2>2. ASSUME Find(table, key) # <<>> PROVE 1 \in DOMAIN Find(table, key) /\ Find(table, key)[1] \in ToSet(Find(table, key))
    <3>1. Len(Find(table, key)) \in Nat \ {0} /\ DOMAIN Find(table, key) = 1 .. Len(Find(table, key))
      BY <1>1, <2>2, EmptySeq, LenProperties
    <3>2. 1 \in DOMAIN Find(table, key)
      BY <3>1
    <3> QED
      BY <3>2 DEF ToSet
  <2> QED
    BY <1>1, <2>1, <2>2
<1>4. At(table, key) # {} => Find(table, key)[1] \in At(table, key) /\ 1 \in DOMAIN Find(table, key)
  <2> SUFFICES ASSUME At(table, key) # {} PROVE Find(table, key)[1] \in At(table, key) /\ 1 \in DOMAIN Find(table, key)
    OBVIOUS
  <2>1. Len(Find(table, key)) \in Nat \ {0} /\ DOMAIN Find(table, key) = 1 .. Len(Find(table, key))
    BY <1>1, <1>3, EmptySeq, LenProperties
  <2>2. 1 \in DOMAIN Find(table, key)
    BY <2>1
  <2> QED
    BY <1>1, <2>2 DEF ToSet
<1> QED
  BY <1>1, <1>2, <1>3, <1>4

-----------------------------------------------------------------------------
(* The rows: whatever the scripts do, each is of the set its table and key say. *)

Same(r, s) == r.table = s.table /\ r.key = s.key
Renewed(r, s) == IF Same(r, s) THEN Updated(r, s) ELSE r

RunSound(r) ==
    /\ r \in [script : Scripts \cup {None, "over"}, v : Versions \cup {0}, at : Nat, alone : BOOLEAN]
    /\ r.at # 0 => /\ r.script \in Scripts /\ r.v \in Versions /\ Family[r.script] = family
                   /\ r.at <= Len(Programs[r.script][r.v])
RowSound(r) ==
    /\ r = [table |-> r.table, key |-> r.key, parent |-> r.parent, v |-> r.v] /\ r.v \in Versions
    /\ \E script \in Scripts : Family[script] = family /\ \E v \in Versions : \E s \in StatementsOf(script, v) :
          Puts(s) /\ Same(r, s) /\ (r.table # "passage" => s.parent = r.parent)
CatalogueSound ==
    /\ family \in {Family[s] : s \in Scripts}
    /\ runs = [i \in 1 .. MaxRuns |-> runs[i]] /\ \A i \in 1 .. MaxRuns : RunSound(runs[i])
    /\ IsList(rows) /\ \A r \in ToSet(rows) : RowSound(r)
    /\ \A r, q \in ToSet(rows) : Same(r, q) => r = q

LEMMA PutList ==
    ASSUME IsList(rows), NEW s
    PROVE  IsList(Put(s)) /\ ToSet(Put(s)) = {Renewed(r, s) : r \in ToSet(rows)}
           /\ Len(Put(s)) = Len(rows) /\ \A i \in 1 .. Len(rows) : Put(s)[i] = Renewed(rows[i], s)
<1> DEFINE f == Put(s)
<1>1. Len(rows) \in Nat /\ DOMAIN rows = 1 .. Len(rows)
  BY ListFacts
<1>2. f = [i \in 1 .. Len(rows) |-> Renewed(rows[i], s)]
  BY <1>1, Zenon DEF Put, Renewed, Same
<1> HIDE DEF f
<1>3. f = [i \in 1 .. Len(rows) |-> f[i]] /\ \A i \in 1 .. Len(rows) : f[i] = Renewed(rows[i], s)
  BY <1>2
<1>4. IsList(f) /\ Len(f) = Len(rows) /\ ToSet(f) = {f[i] : i \in 1 .. Len(rows)}
  BY <1>1, <1>3, ListIs
<1>5. {f[i] : i \in 1 .. Len(rows)} = {Renewed(rows[i], s) : i \in 1 .. Len(rows)}
  BY <1>3
<1>6. {Renewed(rows[i], s) : i \in 1 .. Len(rows)} = {Renewed(r, s) : r \in {rows[i] : i \in 1 .. Len(rows)}}
  BY Zenon
<1>7. ToSet(rows) = {rows[i] : i \in 1 .. Len(rows)}
  BY <1>1 DEF ToSet
<1> QED
  BY <1>3, <1>4, <1>5, <1>6, <1>7, Zenon DEF f

\* What a statement makes of the rows, in four cases.
LEMMA RowsCases ==
    ASSUME IsList(rows), NEW script \in Scripts, NEW v \in Versions, NEW s \in StatementsOf(script, v)
    PROVE  \/ ~Puts(s) /\ RowsAfter(s) = rows
           \/ Puts(s) /\ At(s.table, s.key) = {} /\ RowsAfter(s) = Append(rows, Row(s))
           \/ s.op = "insert" /\ At(s.table, s.key) # {} /\ RowsAfter(s) = rows
           \/ s.op = "upsert" /\ At(s.table, s.key) # {} /\ RowsAfter(s) = Put(s)
<1>1. s.op \in {"insert", "upsert", "clear", "create"}
  BY StatementForm
<1>2. Find(s.table, s.key) = <<>> <=> At(s.table, s.key) = {}
  BY Found
<1>3. CASE s.op \in {"clear", "create"}
  <2>1. RowsAfter(s) = rows
    BY <1>3 DEF RowsAfter
  <2>2. ~Puts(s)
    BY <1>3 DEF Puts
  <2> QED
    BY <2>1, <2>2
<1>4. CASE Puts(s) /\ At(s.table, s.key) = {}
  <2>1. RowsAfter(s) = Append(rows, Row(s))
    BY <1>2, <1>4 DEF RowsAfter, Puts
  <2> QED
    BY <1>4, <2>1
<1>5. CASE s.op = "insert" /\ At(s.table, s.key) # {}
  <2>1. RowsAfter(s) = rows
    BY <1>2, <1>5 DEF RowsAfter
  <2> QED
    BY <1>5, <2>1
<1>6. CASE s.op = "upsert" /\ At(s.table, s.key) # {}
  <2>1. RowsAfter(s) = Put(s)
    BY <1>2, <1>6 DEF RowsAfter
  <2> QED
    BY <1>6, <2>1
<1> QED
  BY <1>1, <1>3, <1>4, <1>5, <1>6 DEF Puts

LEMMA RowsStep ==
    ASSUME CatalogueSound, NEW script \in Scripts, NEW v \in Versions, NEW s \in StatementsOf(script, v),
           Family[script] = family, rows' = RowsAfter(s), family' = family
    PROVE  /\ IsList(rows') /\ \A r \in ToSet(rows') : RowSound(r)'
           /\ \A r, q \in ToSet(rows') : Same(r, q) => r = q
           /\ \A r \in ToSet(rows) : \E q \in ToSet(rows') : Same(r, q)
<1>0. IsList(rows) /\ (\A r \in ToSet(rows) : RowSound(r)) /\ \A r, q \in ToSet(rows) : Same(r, q) => r = q
  BY DEF CatalogueSound
<1>1. ASSUME NEW r PROVE RowSound(r)' <=> RowSound(r)
  BY DEF RowSound
<1>2. \A r : Same(r, r)
  BY DEF Same
<1>3. CASE rows' = rows
  BY <1>0, <1>1, <1>2, <1>3
<1>4. CASE Puts(s) /\ At(s.table, s.key) = {} /\ rows' = Append(rows, Row(s))
  <2>1. IsList(rows') /\ ToSet(rows') = ToSet(rows) \cup {Row(s)}
    BY <1>0, <1>4, ListAppend
  <2>2. Row(s) = [table |-> s.table, key |-> s.key, parent |-> s.parent, v |-> s.v] /\ Same(Row(s), s)
    BY DEF Row, Same
  <2>3. RowSound(Row(s))
    <3>1. s.v \in Versions
      BY <1>4, StatementForm
    <3> QED
      BY <1>4, <2>2, <3>1 DEF RowSound, Same
  <2>4. \A r \in ToSet(rows) : ~Same(r, Row(s)) /\ ~Same(Row(s), r)
    BY <1>4, <2>2 DEF At, Same
  <2> QED
    BY <1>0, <1>1, <1>2, <2>1, <2>3, <2>4
<1>5. CASE s.op = "upsert" /\ At(s.table, s.key) # {} /\ rows' = Put(s)
  <2>1. IsList(rows') /\ ToSet(rows') = {Renewed(r, s) : r \in ToSet(rows)}
    BY <1>0, <1>5, PutList
  <2>2. s.v \in Versions
    BY <1>5, StatementForm DEF Puts
  <2>3. ASSUME NEW r \in ToSet(rows) PROVE RowSound(Renewed(r, s)) /\ Same(Renewed(r, s), r) /\ Same(r, Renewed(r, s))
    <3>1. RowSound(r)
      BY <1>0
    <3>2. CASE Same(r, s)
      <4> DEFINE q == Renewed(r, s)
      <4>1. q = [r EXCEPT !.v = s.v, !.parent = Parent(r, s)]
        BY <3>2 DEF Renewed, Updated
      <4>2. q = [table |-> r.table, key |-> r.key, parent |-> Parent(r, s), v |-> s.v]
        BY <3>1, <4>1 DEF RowSound
      <4>3. r.table # "passage" => Parent(r, s) = r.parent
        BY <3>2 DEF Parent, Same
      <4> HIDE DEF q
      <4>4. q = [table |-> q.table, key |-> q.key, parent |-> q.parent, v |-> q.v] /\ q.v \in Versions
            /\ q.table = r.table /\ q.key = r.key /\ (r.table # "passage" => q.parent = r.parent)
        BY <2>2, <4>2, <4>3
      <4>5. RowSound(q) /\ Same(q, r) /\ Same(r, q)
        BY <3>1, <4>4 DEF RowSound, Same
      <4> QED
        BY <4>5 DEF q
    <3>3. CASE ~Same(r, s)
      BY <1>2, <3>1, <3>3 DEF Renewed
    <3> QED
      BY <3>2, <3>3
  <2>4. ASSUME NEW r \in ToSet(rows), NEW q \in ToSet(rows), Same(Renewed(r, s), Renewed(q, s)) PROVE Renewed(r, s) = Renewed(q, s)
    <3>1. Same(r, q)
      BY <2>3, <2>4 DEF Same
    <3> QED
      BY <1>0, <3>1
  <2> QED
    BY <1>1, <2>1, <2>3, <2>4
<1> QED
  BY <1>0, <1>3, <1>4, <1>5, RowsCases


LEMMA ProgramFacts ==
    ASSUME NEW script \in Scripts, NEW v \in Versions
    PROVE  /\ Len(Programs[script][v]) \in Nat \ {0} /\ DOMAIN Programs[script][v] = 1 .. Len(Programs[script][v])
           /\ \A n \in 1 .. Len(Programs[script][v]) : Programs[script][v][n] \in StatementsOf(script, v)
<1> DEFINE l == Programs[script][v]
<1>1. IsList(l) /\ ToSet(l) = StatementsOf(script, v) /\ l # <<>>
  BY ProgramList, ProgramsAssumption
<1> HIDE DEF l
<1>2. Len(l) \in Nat /\ DOMAIN l = 1 .. Len(l) /\ \A i \in 1 .. Len(l) : l[i] \in ToSet(l)
  BY <1>1, ListFacts
<1>3. Len(l) # 0
  BY <1>1, EmptySeq DEF IsList
<1> QED
  BY <1>1, <1>2, <1>3 DEF l

\* An initial row is that of a statement.
LEMMA DtoRows ==
    ASSUME NEW l, IsList(l)
    PROVE  /\ IsList(Dto(l, Row)) /\ ToSet(Dto(l, Row)) = {Row(s) : s \in ToSet(l)}
           /\ Len(Dto(l, Row)) = Len(l) /\ \A i \in 1 .. Len(l) : Dto(l, Row)[i] = Row(l[i])
<1> DEFINE f == Dto(l, Row)
<1>1. Len(l) \in Nat /\ DOMAIN l = 1 .. Len(l)
  BY ListFacts
<1>2. f = [i \in 1 .. Len(l) |-> Row(l[i])]
  BY <1>1, Zenon DEF Dto
<1> HIDE DEF f
<1>3. f = [i \in 1 .. Len(l) |-> f[i]] /\ \A i \in 1 .. Len(l) : f[i] = Row(l[i])
  BY <1>2
<1>4. IsList(f) /\ Len(f) = Len(l) /\ ToSet(f) = {f[i] : i \in 1 .. Len(l)}
  BY <1>1, <1>3, ListIs
<1>5. {f[i] : i \in 1 .. Len(l)} = {Row(l[i]) : i \in 1 .. Len(l)}
  BY <1>3
<1>6. {Row(l[i]) : i \in 1 .. Len(l)} = {Row(s) : s \in {l[i] : i \in 1 .. Len(l)}}
  BY Zenon
<1>7. ToSet(l) = {l[i] : i \in 1 .. Len(l)}
  BY <1>1 DEF ToSet
<1> QED
  BY <1>3, <1>4, <1>5, <1>6, <1>7, Zenon DEF f

\* A lesson is of one module and an exercise of one lesson, whatever the script.
LEMMA StatementParent ==
    ASSUME NEW script \in Scripts, NEW v \in Versions, NEW s \in StatementsOf(script, v), Puts(s)
    PROVE  \/ s.table \notin {"lesson", "exercise", "passage"} /\ s.parent = None
           \/ s.table = "passage"
           \/ s.table = "lesson" /\ \E m \in AllModules : \E l \in ToSet(m.lessons) : s.key = l.id /\ s.parent = m.id
           \/ s.table = "exercise" /\ \E m \in AllModules : \E l \in ToSet(m.lessons) : s.key \in ToSet(l.exerciseIds) /\ s.parent = l.id
<1>1. CASE script = "seed"
  <2>1. s \in SeedSet
    BY <1>1 DEF StatementsOf
  <2>2. CASE s \in SeedModules
    BY <2>2 DEF SeedModules, Insert, Statement
  <2>3. CASE s \in SeedLessons
    BY <2>3 DEF SeedLessons, Insert, Statement, AllModules
  <2>4. CASE s \in SeedExercises
    BY <2>4 DEF SeedExercises, Insert, Statement, AllModules
  <2> QED
    BY <2>1, <2>2, <2>3, <2>4 DEF SeedSet
<1>2. CASE script = "generated"
  <2>1. PICK m \in ToSet(Modules[v]) : s \in ModuleSet(m, v)
    BY <1>2 DEF StatementsOf, GeneratedSet
  <2>2. m \in AllModules
    BY DEF AllModules, Versions
  <2>3. CASE s = Upsert("module", m.id, None, v)
    BY <2>3 DEF Upsert, Statement
  <2>4. CASE \E l \in ToSet(m.lessons) : s = Upsert("lesson", l.id, m.id, v)
    BY <2>2, <2>4 DEF Upsert, Statement
  <2>5. CASE \E l \in ToSet(m.lessons) : \E e \in ToSet(l.exerciseIds) : s = Upsert("exercise", e, l.id, v)
    BY <2>2, <2>5 DEF Upsert, Statement
  <2> QED
    BY <2>1, <2>3, <2>4, <2>5 DEF ModuleSet, LessonSet
<1>3. CASE script = "vocab"
  <2>1. PICK w \in Allowed(Words[v]) : s \in EntrySet(w, v)
    BY <1>3 DEF StatementsOf, VocabSet
  <2> QED
    BY <2>1 DEF EntrySet, Creations, Upsert, Clear, Creation, Statement, Puts
<1>4. CASE script = "grammar"
  <2>1. PICK w \in Allowed(Points[v]) : s \in PointSet(w, v)
    BY <1>4 DEF StatementsOf, GrammarSet
  <2> QED
    BY <2>1 DEF PointSet, Creations, Upsert, Clear, Creation, Statement, Puts
<1>5. CASE script = "passages"
  <2>1. PICK w \in Allowed(Passages[v]) : s \in PassageSet(w, v)
    BY <1>5 DEF StatementsOf, PassagesSet
  <2> QED
    BY <2>1 DEF PassageSet, Upsert, Statement
<1>6. CASE script = "assessment"
  BY <1>6 DEF StatementsOf, AssessmentSet, Upsert, Statement
<1> QED
  BY <1>1, <1>2, <1>3, <1>4, <1>5, <1>6, ScriptNames

LEMMA OneParent ==
    ASSUME NEW a \in Scripts, NEW v \in Versions, NEW s \in StatementsOf(a, v), Puts(s),
           NEW b \in Scripts, NEW w \in Versions, NEW t \in StatementsOf(b, w), Puts(t),
           Same(s, t), s.table # "passage"
    PROVE  s.parent = t.parent
<1>1. CASE s.table = "lesson"
  <2>1. PICK m \in AllModules : \E l \in ToSet(m.lessons) : s.key = l.id /\ s.parent = m.id
    BY <1>1, StatementParent
  <2>2. PICK n \in AllModules : \E l \in ToSet(n.lessons) : t.key = l.id /\ t.parent = n.id
    BY <1>1, StatementParent DEF Same
  <2>3. \A x, y \in AllModules : \A l \in ToSet(x.lessons), k \in ToSet(y.lessons) : l.id = k.id => x.id = y.id
    BY FilesAssumption
  <2>4. s.key = t.key
    BY DEF Same
  <2> QED
    BY <2>1, <2>2, <2>3, <2>4
<1>2. CASE s.table = "exercise"
  <2>1. PICK m \in AllModules : \E l \in ToSet(m.lessons) : s.key \in ToSet(l.exerciseIds) /\ s.parent = l.id
    BY <1>2, StatementParent
  <2>2. PICK n \in AllModules : \E l \in ToSet(n.lessons) : t.key \in ToSet(l.exerciseIds) /\ t.parent = l.id
    BY <1>2, StatementParent DEF Same
  <2>3. PICK l \in ToSet(m.lessons) : s.key \in ToSet(l.exerciseIds) /\ s.parent = l.id
    BY <2>1
  <2>4. PICK k \in ToSet(n.lessons) : t.key \in ToSet(k.exerciseIds) /\ t.parent = k.id
    BY <2>2
  <2>5. ToSet(l.exerciseIds) \cap ToSet(k.exerciseIds) # {}
    BY <2>3, <2>4 DEF Same
  <2> QED
    BY <2>3, <2>4, <2>5, FilesAssumption
<1>3. CASE s.table \notin {"lesson", "exercise"}
  <2>1. s.parent = None
    BY <1>3, StatementParent
  <2>2. t.parent = None
    BY <1>3, StatementParent DEF Same
  <2> QED
    BY <2>1, <2>2
<1> QED
  BY <1>1, <1>2, <1>3

-----------------------------------------------------------------------------
(* The panel: its parts, and what they have to do with the catalogue.       *)

\* What the seed and the generated content make is in their family.
LEMMA FirstRows ==
    ASSUME rows = Dto(SeedMain \o GeneratedMain(1), Row), family = "modules"
    PROVE  IsList(rows) /\ (\A r \in ToSet(rows) : RowSound(r)) /\ \A r, q \in ToSet(rows) : Same(r, q) => r = q
<1>1. 1 \in Versions /\ "seed" \in Scripts /\ "generated" \in Scripts /\ Family["seed"] = "modules" /\ Family["generated"] = "modules"
  BY DEF Versions, Scripts, Family
<1>2. IsList(SeedMain \o GeneratedMain(1)) /\ ToSet(SeedMain \o GeneratedMain(1)) = SeedSet \cup GeneratedSet(1)
  BY <1>1, SeedList, GeneratedList, ListConcat
<1>3. IsList(rows) /\ ToSet(rows) = {Row(s) : s \in SeedSet \cup GeneratedSet(1)}
  BY <1>2, DtoRows
<1>4. StatementsOf("seed", 1) = SeedSet /\ StatementsOf("generated", 1) = GeneratedSet(1)
  BY DEF StatementsOf
<1>5. ASSUME NEW s \in SeedSet \cup GeneratedSet(1)
      PROVE  \E script \in {"seed", "generated"} : s \in StatementsOf(script, 1) /\ Puts(s) /\ s.v = 1 /\ s.table # "passage"
  <2>1. CASE s \in SeedSet
    <3>1. s.op = "insert" /\ s.v = 1 /\ s.table # "passage"
      BY <2>1 DEF SeedSet, SeedModules, SeedLessons, SeedExercises, Insert, Statement
    <3> QED
      BY <1>4, <2>1, <3>1 DEF Puts
  <2>2. CASE s \in GeneratedSet(1)
    <3>1. s.op = "upsert" /\ s.v = 1 /\ s.table # "passage"
      BY <2>2 DEF GeneratedSet, ModuleSet, LessonSet, Upsert, Statement
    <3> QED
      BY <1>4, <2>2, <3>1 DEF Puts
  <2> QED
    BY <2>1, <2>2
<1>6. ASSUME NEW s \in SeedSet \cup GeneratedSet(1) PROVE RowSound(Row(s))
  <2>1. PICK script \in {"seed", "generated"} : s \in StatementsOf(script, 1) /\ Puts(s) /\ s.v = 1
    BY <1>5
  <2>2. Row(s) = [table |-> s.table, key |-> s.key, parent |-> s.parent, v |-> s.v] /\ Same(Row(s), s)
    BY DEF Row, Same
  <2>3. script \in Scripts /\ Family[script] = family
    BY <1>1
  <2> QED
    BY <1>1, <2>1, <2>2, <2>3 DEF RowSound
<1>7. ASSUME NEW s \in SeedSet \cup GeneratedSet(1), NEW t \in SeedSet \cup GeneratedSet(1), Same(Row(s), Row(t)) PROVE Row(s) = Row(t)
  <2>1. PICK a \in {"seed", "generated"} : s \in StatementsOf(a, 1) /\ Puts(s) /\ s.v = 1 /\ s.table # "passage"
    BY <1>5
  <2>2. PICK b \in {"seed", "generated"} : t \in StatementsOf(b, 1) /\ Puts(t) /\ t.v = 1
    BY <1>5
  <2>3. Same(s, t)
    BY <1>7 DEF Row, Same
  <2>4. s.parent = t.parent
    BY <1>1, <2>1, <2>2, <2>3, OneParent
  <2> QED
    BY <2>1, <2>2, <2>3, <2>4 DEF Row, Same
<1> QED
  BY <1>3, <1>6, <1>7

LEMMA CatalogueSoundInit == CatalogueInit => CatalogueSound
<1> SUFFICES ASSUME CatalogueInit PROVE CatalogueSound
  OBVIOUS
<1>1. family \in {Family[s] : s \in Scripts} /\ runs = [i \in 1 .. MaxRuns |-> NoRun]
  BY DEF CatalogueInit
<1>2. RunSound(NoRun)
  BY DEF RunSound, NoRun
<1>3. IsList(rows) /\ (\A r \in ToSet(rows) : RowSound(r)) /\ \A r, q \in ToSet(rows) : Same(r, q) => r = q
  <2>1. CASE rows = <<>>
    BY <2>1, ListEmpty
  <2>2. CASE rows = Dto(SeedMain \o GeneratedMain(1), Row) /\ family = "modules"
    BY <2>2, FirstRows
  <2> QED
    BY <2>1, <2>2 DEF CatalogueInit
<1> QED
  BY <1>1, <1>2, <1>3 DEF CatalogueSound

Persists == \A r \in ToSet(rows) : \E q \in ToSet(rows') : Same(r, q)

LEMMA CatalogueSoundStep ==
    ASSUME CatalogueSound, CatalogueStep
    PROVE  CatalogueSound' /\ Persists
<1>0. /\ family \in {Family[s] : s \in Scripts}
      /\ runs = [j \in 1 .. MaxRuns |-> runs[j]] /\ \A j \in 1 .. MaxRuns : RunSound(runs[j])
      /\ IsList(rows) /\ \A r \in ToSet(rows) : RowSound(r)
      /\ \A r, q \in ToSet(rows) : Same(r, q) => r = q
  BY DEF CatalogueSound
<1>1. PICK i \in 1 .. MaxRuns : (\E script \in Scripts, v \in Versions : Begin(i, script, v)) \/ Execute(i) \/ Dies(i)
  BY DEF CatalogueStep
<1>2. family' = family
  BY <1>1, Zenon DEF Begin, Execute, Dies
<1>3. ASSUME NEW r PROVE (RowSound(r)' <=> RowSound(r)) /\ (RunSound(r)' <=> RunSound(r))
  BY <1>2 DEF RowSound, RunSound
<1>4. \A r : Same(r, r)
  BY DEF Same
<1>5. ASSUME rows' = rows, runs' = [j \in 1 .. MaxRuns |-> runs'[j]], \A j \in 1 .. MaxRuns : RunSound(runs'[j])
      PROVE  CatalogueSound' /\ Persists
  BY <1>0, <1>2, <1>3, <1>4, <1>5 DEF CatalogueSound, Persists
<1>6. RunSound(Over)
  BY DEF RunSound, Over, NoRun
<1>7. ASSUME NEW script \in Scripts, NEW v \in Versions, Begin(i, script, v) PROVE CatalogueSound' /\ Persists
  <2> DEFINE alone == Rivals(i, script) = {}
             rest  == [j \in DOMAIN runs |-> IF j \in Rivals(i, script) THEN [runs[j] EXCEPT !.alone = FALSE] ELSE runs[j]]
             new   == [script |-> script, v |-> v, at |-> 1, alone |-> alone]
  <2>1. runs' = [rest EXCEPT ![i] = new] /\ rows' = rows /\ Family[script] = family
    BY <1>7 DEF Begin
  <2>2. RunSound(new)
    <3>1. 1 <= Len(Programs[script][v]) /\ alone \in BOOLEAN /\ v \in Versions \cup {0}
      BY ProgramFacts
    <3> HIDE DEF alone
    <3> QED
      BY <2>1, <3>1 DEF RunSound
  <2>3. DOMAIN runs = 1 .. MaxRuns
    BY <1>0
  <2>4. ASSUME NEW j \in 1 .. MaxRuns PROVE RunSound(rest[j])
    <3>1. RunSound(runs[j])
      BY <1>0
    <3>2. RunSound([runs[j] EXCEPT !.alone = FALSE])
      BY <3>1 DEF RunSound
    <3> QED
      BY <2>3, <3>1, <3>2
  <2> HIDE DEF new
  <2>5. rest = [j \in 1 .. MaxRuns |-> rest[j]]
    BY <2>3
  <2> HIDE DEF rest
  <2>6. runs' = [j \in 1 .. MaxRuns |-> runs'[j]] /\ \A j \in 1 .. MaxRuns : runs'[j] = IF j = i THEN new ELSE rest[j]
    BY <2>1, <2>5
  <2>7. \A j \in 1 .. MaxRuns : RunSound(runs'[j])
    BY <2>2, <2>4, <2>6
  <2> QED
    BY <1>5, <2>1, <2>6, <2>7
<1>8. CASE Dies(i)
  <2>1. runs' = [runs EXCEPT ![i] = Over] /\ rows' = rows
    BY <1>8 DEF Dies
  <2>2. runs' = [j \in 1 .. MaxRuns |-> runs'[j]] /\ \A j \in 1 .. MaxRuns : runs'[j] = IF j = i THEN Over ELSE runs[j]
    BY <1>0, <2>1
  <2>3. \A j \in 1 .. MaxRuns : RunSound(runs'[j])
    BY <1>0, <1>6, <2>2
  <2> QED
    BY <1>5, <2>1, <2>2, <2>3
<1>9. CASE Execute(i)
  <2> DEFINE r == runs[i]
             steps == Programs[r.script][r.v]
             s == steps[r.at]
  <2>1. r.at # 0 /\ rows' = RowsAfter(s) /\ runs' = [runs EXCEPT ![i] = IF r.at = Len(steps) THEN Over ELSE [r EXCEPT !.at = r.at + 1]]
    BY <1>9, Zenon DEF Execute, Going
  <2>2. RunSound(r)
    BY <1>0
  <2>3. r.script \in Scripts /\ r.v \in Versions /\ r.at \in 1 .. Len(steps) /\ Family[r.script] = family /\ Len(steps) \in Nat
    <3>1. r.script \in Scripts /\ r.v \in Versions /\ r.at <= Len(steps) /\ r.at \in Nat /\ Family[r.script] = family
      BY <2>1, <2>2 DEF RunSound
    <3>2. Len(steps) \in Nat
      BY <3>1, ProgramFacts
    <3> QED
      BY <2>1, <3>1, <3>2
  <2>4. s \in StatementsOf(r.script, r.v)
    BY <2>3, ProgramFacts
  <2>5. RunSound([r EXCEPT !.at = r.at + 1]) \/ r.at = Len(steps)
    BY <2>2, <2>3 DEF RunSound
  <2> DEFINE next == IF r.at = Len(steps) THEN Over ELSE [r EXCEPT !.at = r.at + 1]
  <2>6. RunSound(next)
    BY <1>6, <2>5
  <2>7. runs' = [runs EXCEPT ![i] = next]
    BY <2>1
  <2> HIDE DEF next
  <2>8. runs' = [j \in 1 .. MaxRuns |-> runs'[j]] /\ \A j \in 1 .. MaxRuns : runs'[j] = IF j = i THEN next ELSE runs[j]
    BY <1>0, <2>7
  <2>9. \A j \in 1 .. MaxRuns : RunSound(runs'[j])
    BY <1>0, <2>6, <2>8
  <2> HIDE DEF r, steps, s
  <2>10. /\ IsList(rows') /\ \A q \in ToSet(rows') : RowSound(q)'
         /\ \A q, p \in ToSet(rows') : Same(q, p) => q = p
         /\ \A q \in ToSet(rows) : \E p \in ToSet(rows') : Same(q, p)
    BY <1>2, <2>1, <2>3, <2>4, RowsStep
  <2> QED
    BY <1>0, <1>2, <1>3, <2>8, <2>9, <2>10 DEF CatalogueSound, Persists
<1> QED
  BY <1>1, <1>7, <1>8, <1>9

-----------------------------------------------------------------------------
(* The steps of the panel and of its audio.                                 *)

LEMMA BagFacts ==
    /\ BagToSet(EmptyBag) = {}
    /\ \A x : BagToSet(One(x)) = {x}
    /\ \A A, B : BagToSet(A (+) B) = BagToSet(A) \cup BagToSet(B) /\ BagToSet(A (-) B) \subseteq BagToSet(A)
BY DEF BagToSet, EmptyBag, SetToBag, One, (+), (-)

Visiting ==
    /\ visit = [at |-> visit.at, skill |-> visit.skill, module |-> visit.module, lesson |-> visit.lesson, want |-> visit.want,
                exercises |-> visit.exercises]
    /\ visit.at \in {"idle", "module", "lessons", "lesson", "exercises", "exercise"}
    /\ visit.at = "exercise" => visit.want \in ToSet(visit.exercises)

Screened ==
    /\ screen.kind \in {"blank", "missing", "empty", "failed", "question"}
    /\ HasQuestion =>
           /\ screen.id \in ToSet(screen.exercises) /\ screen.id # None /\ screen.v \in Versions
           /\ At("exercise", screen.id) # {}

\* The answers on their way are this panel's, and what waits has something to wait for.
Waiting ==
    /\ ~HasQuestion => checks = EmptyBag /\ grading = NoGrade /\ request = NoRequest /\ translation = NoTranslation
    /\ grading.status \in {"idle", "submitting", "success", "error"}
    /\ request.status \in {"idle", "loading", "ready", "error"}
    /\ translation \in [status : {"idle", "loading", "ready", "error"}, v : Versions \cup {0}]
    /\ \A c \in BagToSet(checks) :
          c = [id |-> c.id, answer |-> c.answer, key |-> c.key] /\ c.id = screen.id /\ c.key \in Versions \cup {0}
    /\ grading.status = "submitting" => BagToSet(checks) # {}
    /\ request.status = "loading" => request.key \in BagToSet(loads)

Counted ==
    /\ visible \in BOOLEAN /\ raced \in BOOLEAN
    /\ visits \in 0 .. MaxVisits /\ moves \in 0 .. MaxMoves /\ faults \in 0 .. MaxFaults

\* A panel that nothing raced with: the catalogue still has its exercise, and what it holds or
\* waits for is of that exercise and of its answer.
Steady ==
    /\ \A r \in At("exercise", screen.id) : r.v = screen.v
    /\ \A c \in BagToSet(checks) : c.answer = AttemptedAnswer /\ c.key \in {0, screen.v}
    /\ GradeFits
    /\ translation.status \in {"loading", "ready"} => translation.v = screen.v

PanelInv == CatalogueSound /\ Visiting /\ Screened /\ Waiting /\ Counted /\ (HasQuestion /\ ~raced => Steady)

LEMMA PanelInvSound == PanelInv => PanelSound
<1> SUFFICES ASSUME PanelInv PROVE PanelSound
  OBVIOUS
<1>1. TypeOK
  BY DEF PanelInv, Visiting, Screened, Waiting, Counted, TypeOK
<1>2. HasQuestion => NothingHangs
  <2> SUFFICES ASSUME HasQuestion PROVE NothingHangs
    OBVIOUS
  <2>1. grading.status = "submitting" => \E c \in BagToSet(checks) : c.id = screen.id
    BY DEF PanelInv, Waiting
  <2>2. AudioStatus = "loading" => Question.audioKey \in BagToSet(loads)
    BY DEF PanelInv, Waiting, AudioStatus
  <2> QED
    BY <2>1, <2>2 DEF NothingHangs
<1>3. HasQuestion => raced \/ (GradeFits /\ TranslationFits)
  BY DEF PanelInv, Counted, Steady, TranslationFits
<1> QED
  BY <1>1, <1>2, <1>3 DEF PanelSound

LEMMA PanelInvInit == Init => PanelInv
<1> SUFFICES ASSUME Init PROVE PanelInv
  OBVIOUS
<1>1. CatalogueSound
  BY CatalogueSoundInit DEF Init
<1>2. ~HasQuestion
  BY DEF Init, HasQuestion, Blank
<1>3. Visiting /\ Screened
  BY <1>2 DEF Init, Visiting, Screened, HasQuestion, Idle, Blank
<1>4. Waiting
  BY <1>2, BagFacts DEF Init, Waiting, NoGrade, NoRequest, NoTranslation
<1>5. Counted
  <2>1. MaxVisits \in Nat /\ MaxMoves \in Nat /\ MaxFaults \in Nat
    BY PracticeAssumption
  <2>2. visits = 0 /\ moves = 0 /\ faults = 0
    BY DEF Init
  <2>3. visible \in BOOLEAN /\ raced \in BOOLEAN
    BY DEF Init
  <2> QED
    BY <2>1, <2>2, <2>3 DEF Counted
<1> QED
  BY <1>1, <1>2, <1>3, <1>4, <1>5 DEF PanelInv

\* What stays as it is when the catalogue, the page and the tab do.
LEMMA Framed ==
    ASSUME PanelInv, UNCHANGED <<catalogueVars, visit, screen>>
    PROVE  CatalogueSound' /\ Visiting' /\ Screened'
<1>1. family' = family /\ rows' = rows /\ runs' = runs /\ visit' = visit /\ screen' = screen
  BY DEF catalogueVars
<1>2. CatalogueSound'
  BY <1>1 DEF PanelInv, CatalogueSound, RowSound, RunSound
<1> QED
  BY <1>1, <1>2 DEF PanelInv, Visiting, Screened, HasQuestion, At

\* The step of a panel: it remains to see what it makes of the answers and of what it waits for.
LEMMA PanelStep ==
    ASSUME PanelInv, OfPanel, Waiting', Counted', ~raced' => Steady'
    PROVE  PanelInv'
<1>1. UNCHANGED <<catalogueVars, visit, screen>>
  BY DEF OfPanel
<1> QED
  BY <1>1, Framed DEF PanelInv

\* What holds of the tab before a step of its panel.
LEMMA PanelFacts ==
    ASSUME PanelInv, OfPanel
    PROVE  /\ HasQuestion /\ HasQuestion' /\ screen' = screen /\ rows' = rows /\ visits' = visits /\ Question' = Question
           /\ At("exercise", screen.id)' = At("exercise", screen.id) /\ Waiting /\ Counted /\ (~raced => Steady)
BY DEF PanelInv, OfPanel, HasQuestion, catalogueVars, Question, At

LEMMA SelectOptionKeeps == ASSUME PanelInv, NEW n, SelectOption(n) PROVE PanelInv'
<1>1. OfPanel /\ checks' = checks /\ grading' = NoGrade /\ raced' = (raced \/ checks # EmptyBag)
      /\ UNCHANGED <<request, loads, translation, visible, faults>> /\ moves' = moves + 1 /\ moves < MaxMoves
  BY DEF SelectOption, ClearGrade, Move, AudioKept, TextKept
<1>2. Waiting'
  BY <1>1, PanelFacts DEF Waiting, NoGrade
<1>3. Counted'
  BY <1>1, PanelFacts, PracticeAssumption DEF Counted
<1>4. ASSUME ~raced' PROVE Steady'
  <2>1. BagToSet(checks') = {} /\ ~raced
    BY <1>1, <1>4, BagFacts
  <2> QED
    BY <1>1, <2>1, PanelFacts DEF Steady, GradeFits, NoGrade
<1> QED
  BY <1>1, <1>2, <1>3, <1>4, PanelStep

LEMMA TypeTextKeeps == ASSUME PanelInv, NEW t, TypeText(t) PROVE PanelInv'
<1>1. OfPanel /\ checks' = checks /\ grading' = NoGrade /\ raced' = (raced \/ checks # EmptyBag)
      /\ UNCHANGED <<request, loads, translation, visible, faults>> /\ moves' = moves + 1 /\ moves < MaxMoves
  BY DEF TypeText, ClearGrade, Move, AudioKept, TextKept
<1>2. Waiting'
  BY <1>1, PanelFacts DEF Waiting, NoGrade
<1>3. Counted'
  BY <1>1, PanelFacts, PracticeAssumption DEF Counted
<1>4. ASSUME ~raced' PROVE Steady'
  <2>1. BagToSet(checks') = {} /\ ~raced
    BY <1>1, <1>4, BagFacts
  <2> QED
    BY <1>1, <2>1, PanelFacts DEF Steady, GradeFits, NoGrade
<1> QED
  BY <1>1, <1>2, <1>3, <1>4, PanelStep

LEMMA AnswerStays ==
    ASSUME PanelInv, OfPanel, picked' = picked, text' = text
    PROVE  AttemptedAnswer' = AttemptedAnswer
BY PanelFacts DEF AttemptedAnswer

LEMMA SubmitAnswerKeeps == ASSUME PanelInv, SubmitAnswer PROVE PanelInv'
<1>1. OfPanel /\ UNCHANGED <<picked, text, request, loads, translation, visible, raced, moves, faults>>
  BY DEF SubmitAnswer, AudioKept, TextKept
<1> DEFINE new == [id |-> screen.id, answer |-> AttemptedAnswer, key |-> 0]
<1>2. \/ grading'.status = "error" /\ checks' = checks
      \/ grading'.status = "submitting" /\ checks' = checks (+) One(new)
  BY DEF SubmitAnswer, NoGrade
<1>3. BagToSet(checks') \subseteq BagToSet(checks) \cup {new} /\ (grading'.status = "submitting" => BagToSet(checks') # {})
  BY <1>2, BagFacts
<1>4. Waiting'
  BY <1>1, <1>2, <1>3, PanelFacts DEF Waiting
<1>5. Counted'
  BY <1>1, PanelFacts DEF Counted
<1>6. ASSUME ~raced' PROVE Steady'
  BY <1>1, <1>2, <1>3, <1>6, PanelFacts, AnswerStays DEF Steady, GradeFits
<1> QED
  BY <1>1, <1>4, <1>5, <1>6, PanelStep

\* The orchestrator finds the exercise, as some version of the file has it.
LEMMA KeyFound ==
    ASSUME CatalogueSound, NEW id, At("exercise", id) # {}
    PROVE  \E r \in At("exercise", id) : GetExercise(id)[1] = ExerciseDto(r) /\ GetExercise(id) # <<>> /\ r.v \in Versions
<1>1. Find("exercise", id)[1] \in At("exercise", id) /\ 1 \in DOMAIN Find("exercise", id)
  BY Found DEF CatalogueSound
<1>2. GetExercise(id)[1] = ExerciseDto(Find("exercise", id)[1]) /\ GetExercise(id) # <<>>
  <2>1. GetExercise(id) = [i \in DOMAIN Find("exercise", id) |-> ExerciseDto(Find("exercise", id)[i])]
    BY Zenon DEF GetExercise, Dto
  <2>2. DOMAIN GetExercise(id) = DOMAIN Find("exercise", id)
    BY <2>1
  <2>3. DOMAIN <<>> = {}
    OBVIOUS
  <2>4. GetExercise(id)[1] = ExerciseDto(Find("exercise", id)[1])
    BY <1>1, <2>1, Zenon
  <2> QED
    BY <1>1, <2>2, <2>3, <2>4, Zenon
<1>3. \A r \in At("exercise", id) : r.v \in Versions
  BY DEF At, CatalogueSound, RowSound
<1> QED
  BY <1>1, <1>2, <1>3

LEMMA GradeAnswerKeeps == ASSUME PanelInv, NEW c \in BagToSet(checks), GradeAnswer(c) PROVE PanelInv'
<1>1. OfPanel /\ UNCHANGED <<picked, text, grading, request, loads, translation, visible, raced, moves, faults>> /\ c.key = 0
  BY DEF GradeAnswer, AudioKept, TextKept
<1> DEFINE key == GetExerciseInternal(c.id)[1].v
           new == [c EXCEPT !.key = key]
<1>2. checks' = (checks (-) One(c)) (+) One(new)
  BY DEF GradeAnswer
<1>3. c.id = screen.id /\ c = [id |-> c.id, answer |-> c.answer, key |-> c.key]
  BY <1>1, PanelFacts DEF Waiting
<1>4. PICK r \in At("exercise", screen.id) : key = r.v /\ r.v \in Versions
  <2>1. At("exercise", screen.id) # {}
    BY <1>1, PanelFacts DEF PanelInv, Screened
  <2>2. PICK r \in At("exercise", screen.id) : GetExercise(screen.id)[1] = ExerciseDto(r) /\ r.v \in Versions
    BY <2>1, KeyFound DEF PanelInv
  <2> QED
    BY <1>3, <2>2 DEF GetExerciseInternal, ExerciseDto
<1>5. new = [id |-> c.id, answer |-> c.answer, key |-> key]
  BY <1>3
<1> HIDE DEF new, key
<1>6. BagToSet(checks') \subseteq BagToSet(checks) \cup {new} /\ BagToSet(checks') # {}
  BY <1>2, BagFacts
<1>7. Waiting'
  BY <1>1, <1>3, <1>4, <1>5, <1>6, PanelFacts DEF Waiting
<1>8. Counted'
  BY <1>1, PanelFacts DEF Counted
<1>9. ASSUME ~raced' PROVE Steady'
  <2>1. key = screen.v /\ c.answer = AttemptedAnswer /\ Steady
    BY <1>1, <1>4, <1>9, PanelFacts DEF Steady
  <2> QED
    BY <1>1, <1>5, <1>6, <2>1, PanelFacts, AnswerStays DEF Steady, GradeFits
<1> QED
  BY <1>1, <1>7, <1>8, <1>9, PanelStep

LEMMA GradeArrivesKeeps == ASSUME PanelInv, NEW c \in BagToSet(checks), GradeArrives(c) PROVE PanelInv'
<1>1. OfPanel /\ UNCHANGED <<picked, text, request, loads, translation, visible, raced, moves, faults>> /\ c.key # 0
      /\ checks' = checks (-) One(c)
      /\ grading' = [status |-> "success", answer |-> c.answer, correct |-> c.answer = Content[c.id][c.key].answer]
  BY DEF GradeArrives, AudioKept, TextKept
<1>2. BagToSet(checks') \subseteq BagToSet(checks)
  BY <1>1, BagFacts
<1>3. Waiting'
  BY <1>1, <1>2, PanelFacts DEF Waiting
<1>4. Counted'
  BY <1>1, PanelFacts DEF Counted
<1>5. ASSUME ~raced' PROVE Steady'
  <2>1. Steady /\ c.id = screen.id
    BY <1>1, <1>5, PanelFacts DEF Waiting
  <2>2. c.key = screen.v /\ c.answer = AttemptedAnswer
    BY <1>1, <2>1 DEF Steady
  <2>3. grading'.answer = c.answer /\ grading'.correct = (c.answer = Content[screen.id][screen.v].answer)
    BY <1>1, <2>1, <2>2
  <2>4. GradeFits'
    BY <1>1, <2>2, <2>3, PanelFacts, AnswerStays DEF GradeFits
  <2> QED
    BY <1>1, <1>2, <2>1, <2>4, PanelFacts, AnswerStays DEF Steady
<1> QED
  BY <1>1, <1>3, <1>4, <1>5, PanelStep

LEMMA GradingFailsKeeps == ASSUME PanelInv, NEW c \in BagToSet(checks), GradingFails(c) PROVE PanelInv'
<1>1. OfPanel /\ UNCHANGED <<picked, text, request, loads, translation, visible, raced, moves>>
      /\ checks' = checks (-) One(c) /\ grading'.status = "error" /\ faults' = faults + 1 /\ faults < MaxFaults
  BY DEF GradingFails, AudioKept, TextKept, Fault, NoGrade
<1>2. BagToSet(checks') \subseteq BagToSet(checks)
  BY <1>1, BagFacts
<1>3. Waiting'
  BY <1>1, <1>2, PanelFacts DEF Waiting
<1>4. Counted'
  BY <1>1, PanelFacts, PracticeAssumption DEF Counted
<1>5. ASSUME ~raced' PROVE Steady'
  BY <1>1, <1>2, <1>5, PanelFacts, AnswerStays DEF Steady, GradeFits
<1> QED
  BY <1>1, <1>3, <1>4, <1>5, PanelStep

\* Neither the translation nor the audio touches the answer.
LEMMA AnswerSteady ==
    ASSUME PanelInv, OfPanel, AnswerKept, ~raced',
           translation'.status \in {"loading", "ready"} =>
               \/ translation'.v = screen.v
               \/ translation.status \in {"loading", "ready"} /\ translation'.v = translation.v
    PROVE  Steady'
<1>1. UNCHANGED <<picked, text, grading, checks, raced>>
  BY DEF AnswerKept
<1>2. Steady
  BY <1>1, PanelFacts
<1>3. AttemptedAnswer' = AttemptedAnswer
  BY <1>1, AnswerStays
<1>4. GradeFits'
  BY <1>1, <1>2, <1>3, PanelFacts DEF Steady, GradeFits
<1> QED
  BY <1>1, <1>2, <1>3, <1>4, PanelFacts DEF Steady

LEMMA ToggleTranslationKeeps == ASSUME PanelInv, ToggleTranslation PROVE PanelInv'
<1>1. OfPanel /\ AnswerKept /\ UNCHANGED <<grading, checks, raced, request, loads, moves, faults>> /\ visible' = ~visible
      /\ translation' = IF visible \/ translation.status = "ready" THEN translation ELSE [status |-> "loading", v |-> screen.v]
  BY DEF ToggleTranslation, AnswerKept, AudioKept
<1>2. screen.v \in Versions
  BY <1>1, PanelFacts DEF PanelInv, Screened
<1>3. Waiting'
  BY <1>1, <1>2, PanelFacts DEF Waiting
<1>4. Counted'
  BY <1>1, PanelFacts DEF Counted
<1>5. ~raced' => Steady'
  BY <1>1, AnswerSteady
<1> QED
  BY <1>1, <1>3, <1>4, <1>5, PanelStep

LEMMA TranslationArrivesKeeps == ASSUME PanelInv, TranslationArrives PROVE PanelInv'
<1>1. OfPanel /\ AnswerKept /\ UNCHANGED <<grading, checks, raced, request, loads, moves, faults, visible>>
      /\ translation.status = "loading" /\ translation' = [translation EXCEPT !.status = "ready"]
  BY DEF TranslationArrives, AnswerKept, AudioKept
<1>2. translation'.status = "ready" /\ translation'.v = translation.v /\ Waiting'
  BY <1>1, PanelFacts DEF Waiting
<1>3. Counted'
  BY <1>1, PanelFacts DEF Counted
<1>4. ~raced' => Steady'
  BY <1>1, <1>2, AnswerSteady
<1> QED
  BY <1>1, <1>2, <1>3, <1>4, PanelStep

LEMMA TranslationFailsKeeps == ASSUME PanelInv, TranslationFails PROVE PanelInv'
<1>1. OfPanel /\ AnswerKept /\ UNCHANGED <<grading, checks, raced, request, loads, moves, visible>>
      /\ translation' = [status |-> "error", v |-> 0] /\ faults' = faults + 1 /\ faults < MaxFaults
  BY DEF TranslationFails, AnswerKept, AudioKept, Fault, NoTranslation
<1>2. translation'.status = "error" /\ Waiting'
  BY <1>1, PanelFacts DEF Waiting
<1>3. Counted'
  BY <1>1, PanelFacts, PracticeAssumption DEF Counted
<1>4. ~raced' => Steady'
  BY <1>1, <1>2, AnswerSteady
<1> QED
  BY <1>1, <1>2, <1>3, <1>4, PanelStep

\* A request of the panel, with the load it waits for.
LEMMA AudioKeeps ==
    ASSUME PanelInv, OfPanel, AnswerKept, TextKept, request'.status \in {"idle", "loading", "ready", "error"},
           request'.status = "loading" => request'.key \in BagToSet(loads'),
           moves' = moves, faults' \in 0 .. MaxFaults
    PROVE  PanelInv'
<1>1. UNCHANGED <<grading, checks, raced, visible, translation>>
  BY DEF AnswerKept, TextKept
<1>2. Waiting'
  BY <1>1, PanelFacts DEF Waiting
<1>3. Counted'
  BY <1>1, PanelFacts DEF Counted
<1>4. ~raced' => Steady'
  BY <1>1, AnswerSteady
<1> QED
  BY <1>2, <1>3, <1>4, PanelStep

LEMMA LoadAudioKeeps == ASSUME PanelInv, LoadAudio PROVE PanelInv'
<1>1. OfPanel /\ AnswerKept /\ TextKept /\ moves' = moves /\ faults' = faults
  BY DEF LoadAudio
<1>2. \/ request'.status = "ready"
      \/ request'.status = "loading" /\ loads' = loads (+) One(request'.key)
  BY DEF LoadAudio
<1>3. request'.status = "loading" => request'.key \in BagToSet(loads')
  BY <1>2, BagFacts
<1>4. faults' \in 0 .. MaxFaults
  BY <1>1, PanelFacts DEF Counted
<1> QED
  BY <1>1, <1>2, <1>3, <1>4, AudioKeeps

LEMMA LoadEndsKeeps ==
    ASSUME PanelInv, NEW key, NEW status \in {"ready", "error"}, LoadEnds(key, status), UNCHANGED faults \/ Fault
    PROVE  PanelInv'
<1>1. OfPanel /\ AnswerKept /\ TextKept /\ moves' = moves /\ request'.status = status
  BY DEF LoadEnds
<1>2. faults' \in 0 .. MaxFaults
  BY <1>1, PanelFacts, PracticeAssumption DEF Counted, Fault
<1> QED
  BY <1>1, <1>2, AudioKeeps

LEMMA MarkPlaybackFailedKeeps == ASSUME PanelInv, MarkPlaybackFailed PROVE PanelInv'
<1>1. OfPanel /\ AnswerKept /\ TextKept /\ moves' = moves /\ request'.status = "error" /\ Fault
  BY DEF MarkPlaybackFailed
<1>2. faults' \in 0 .. MaxFaults
  BY <1>1, PanelFacts, PracticeAssumption DEF Counted, Fault
<1> QED
  BY <1>1, <1>2, AudioKeeps

\* The cache is no part of the panel.
LEMMA CacheKeeps ==
    ASSUME PanelInv, AnswerKept, TextKept, UNCHANGED <<catalogueVars, visit, screen, visits, request, loads>>,
           moves' \in 0 .. MaxMoves, faults' \in 0 .. MaxFaults
    PROVE  PanelInv'
<1>1. UNCHANGED <<catalogueVars, visit, screen>>
  OBVIOUS
<1>2. UNCHANGED <<picked, text, grading, checks, raced, visible, translation, screen, visits, request, loads>> /\ rows' = rows
  BY DEF AnswerKept, TextKept, catalogueVars
<1>3. Waiting'
  BY <1>2 DEF PanelInv, Waiting, HasQuestion
<1>4. Counted'
  BY <1>2 DEF PanelInv, Counted
<1>5. (HasQuestion /\ ~raced => Steady)'
  BY <1>2 DEF PanelInv, HasQuestion, Steady, At, AttemptedAnswer, Question, GradeFits
<1> QED
  BY <1>1, <1>3, <1>4, <1>5, Framed DEF PanelInv

LEMMA LostLoadEndsKeeps == ASSUME PanelInv, NEW key, LostLoadEnds(key), UNCHANGED faults \/ Fault PROVE PanelInv'
<1>1. AnswerKept /\ TextKept /\ UNCHANGED <<catalogueVars, visit, screen, visits, request, loads>> /\ moves' = moves
  BY DEF LostLoadEnds
<1>2. faults' \in 0 .. MaxFaults /\ moves' \in 0 .. MaxMoves
  BY <1>1, PracticeAssumption DEF PanelInv, Counted, Fault
<1> QED
  BY <1>1, <1>2, CacheKeeps

LEMMA UrlExpiresKeeps == ASSUME PanelInv, NEW key, UrlExpires(key) PROVE PanelInv'
<1>1. AnswerKept /\ TextKept /\ UNCHANGED <<catalogueVars, visit, screen, visits, request, loads>> /\ Move /\ faults' = faults
  BY DEF UrlExpires
<1>2. faults' \in 0 .. MaxFaults /\ moves' \in 0 .. MaxMoves
  BY <1>1, PracticeAssumption DEF PanelInv, Counted, Move
<1> QED
  BY <1>1, <1>2, CacheKeeps

\* A new panel holds nothing.
LEMMA NewPanelFacts ==
    ASSUME NewPanel
    PROVE  /\ BagToSet(checks') = {} /\ checks' = EmptyBag /\ grading' = NoGrade /\ request' = NoRequest /\ translation' = NoTranslation
           /\ grading'.status = "idle" /\ request'.status = "idle" /\ translation'.status = "idle"
           /\ translation' \in [status : {"idle", "loading", "ready", "error"}, v : Versions \cup {0}]
           /\ visible' \in BOOLEAN
<1>1. checks' = EmptyBag /\ grading' = NoGrade /\ request' = NoRequest /\ translation' = NoTranslation /\ visible' = FALSE
  BY DEF NewPanel
<1>2. BagToSet(checks') = {}
  BY <1>1, BagFacts
<1>3. grading'.status = "idle" /\ request'.status = "idle" /\ translation'.status = "idle"
  BY <1>1 DEF NoGrade, NoRequest, NoTranslation
<1>4. translation' \in [status : {"idle", "loading", "ready", "error"}, v : Versions \cup {0}]
  BY <1>1 DEF NoTranslation
<1>5. visible' \in BOOLEAN
  BY <1>1
<1> QED
  BY <1>1, <1>2, <1>3, <1>4, <1>5

LEMMA NewPanelKeeps ==
    ASSUME PanelInv, NewPanel, raced' = FALSE, Visiting', Screened', CatalogueSound', visits' \in 0 .. MaxVisits, moves' = moves, faults' \in 0 .. MaxFaults,
           HasQuestion' => (\A r \in At("exercise", screen.id) : r.v = screen.v)'
    PROVE  PanelInv'
<1>1. Waiting'
  BY NewPanelFacts DEF Waiting
<1>2. Counted'
  BY NewPanelFacts DEF Counted, PanelInv
<1>3. HasQuestion' => Steady'
  BY NewPanelFacts DEF Steady, GradeFits
<1> QED
  BY <1>1, <1>2, <1>3 DEF PanelInv

\* A page that has come: a message without a question, or an exercise the catalogue has.
Comes(s) ==
    /\ s.kind \in {"blank", "missing", "empty", "failed", "question"}
    /\ s.kind # "question" => s.id = None
    /\ s.kind = "question" =>
           /\ s.id \in ToSet(s.exercises) /\ s.id # None /\ s.v \in Versions
           /\ At("exercise", s.id) # {} /\ \A r \in At("exercise", s.id) : r.v = s.v

LEMMA ArriveKeeps ==
    ASSUME PanelInv, NEW s, Comes(s), Arrive(s), UNCHANGED <<catalogueVars, visits, moves>>, faults' \in 0 .. MaxFaults
    PROVE  PanelInv'
<1>1. visit' = Idle /\ screen' = s /\ family' = family /\ rows' = rows /\ runs' = runs
  BY DEF Arrive, catalogueVars
<1>2. Visiting'
  BY <1>1 DEF Visiting, Idle
<1>3. CatalogueSound'
  BY <1>1 DEF PanelInv, CatalogueSound, RowSound, RunSound
<1>4. \A k : At("exercise", k)' = At("exercise", k)
  BY <1>1 DEF At
<1>5. Screened'
  BY <1>1, <1>4 DEF Comes, Screened, HasQuestion
<1>6. visits' \in 0 .. MaxVisits
  BY DEF PanelInv, Counted
<1>7. CASE HasQuestion /\ s.id = screen.id
  <2>1. UNCHANGED panelVars /\ raced' = (raced \/ s.v # screen.v)
    BY <1>7 DEF Arrive
  <2>2. UNCHANGED <<picked, text, grading, checks, visible, translation, request, loads>>
    BY <2>1 DEF panelVars
  <2>3. s.kind = "question"
    BY <1>7 DEF Comes, PanelInv, Screened
  <2>4. Waiting'
    BY <1>1, <1>7, <2>2, <2>3 DEF PanelInv, Waiting, HasQuestion
  <2>5. Counted'
    BY <1>6, <2>1, <2>2 DEF PanelInv, Counted
  <2>6. ASSUME ~raced' PROVE Steady'
    <3>1. ~raced /\ s.v = screen.v /\ Steady
      BY <1>7, <2>1, <2>6 DEF PanelInv
    <3>2. Question' = Question /\ screen'.id = screen.id /\ screen'.v = screen.v
      BY <1>1, <1>7, <3>1 DEF Question
    <3>3. AttemptedAnswer' = AttemptedAnswer
      BY <2>2, <3>2 DEF AttemptedAnswer
    <3>4. GradeFits'
      BY <2>2, <3>1, <3>2, <3>3 DEF Steady, GradeFits
    <3> QED
      BY <1>4, <2>2, <3>1, <3>2, <3>3, <3>4 DEF Steady
  <2> QED
    BY <1>2, <1>3, <1>5, <2>4, <2>5, <2>6 DEF PanelInv
<1>8. CASE ~(HasQuestion /\ s.id = screen.id)
  <2>1. NewPanel /\ raced' = FALSE
    BY <1>8 DEF Arrive
  <2>2. HasQuestion' => (\A r \in At("exercise", screen.id) : r.v = screen.v)'
    BY <1>1, <1>4 DEF Comes, HasQuestion
  <2> QED
    BY <1>2, <1>3, <1>5, <1>6, <2>1, <2>2, NewPanelKeeps
<1> QED
  BY <1>7, <1>8

LEMMA ShowKeeps ==
    ASSUME PanelInv, NEW kind \in {"missing", "empty", "failed"}, Show(kind), UNCHANGED <<catalogueVars, visits, moves>>, faults' \in 0 .. MaxFaults
    PROVE  PanelInv'
<1>1. Comes([Blank EXCEPT !.kind = kind])
  BY DEF Comes, Blank
<1> QED
  BY <1>1, ArriveKeeps DEF Show

\* The next call of a page: only the visit goes on.
LEMMA ProceedKeeps ==
    ASSUME PanelInv, NEW to, Proceed(to), Visiting', Keep
    PROVE  PanelInv'
<1>1. UNCHANGED <<screen, panelVars, raced, catalogueVars, visits, moves, faults>>
  BY DEF Proceed, Keep
<1>2. UNCHANGED <<screen, raced, picked, text, grading, checks, visible, translation, request, loads, rows, family, runs>>
  BY <1>1 DEF panelVars, catalogueVars
<1>3. CatalogueSound'
  BY <1>2 DEF PanelInv, CatalogueSound, RowSound, RunSound
<1>4. Screened'
  BY <1>2 DEF PanelInv, Screened, HasQuestion, At
<1>5. Waiting' /\ Counted'
  BY <1>1, <1>2 DEF PanelInv, Waiting, Counted, HasQuestion
<1>6. (HasQuestion /\ ~raced => Steady)'
  BY <1>2 DEF PanelInv, HasQuestion, Steady, At, AttemptedAnswer, Question, GradeFits
<1> QED
  BY <1>3, <1>4, <1>5, <1>6 DEF PanelInv

-----------------------------------------------------------------------------
(* The steps of the page, and the theorem about the panel.                  *)

LEMMA OpenKeeps == ASSUME PanelInv, NEW skill, NEW module, NEW want, Open(skill, module, want) PROVE PanelInv'
<1>1. /\ visit' = [Idle EXCEPT !.at = "module", !.skill = skill, !.module = module, !.lesson = None, !.want = want]
      /\ visits < MaxVisits /\ visits' = visits + 1 /\ screen' = Blank /\ NewPanel /\ raced' = FALSE
      /\ UNCHANGED <<catalogueVars, cache, moves, faults>>
  BY DEF Open, Asked
<1>2. UNCHANGED <<family, rows, runs, moves, faults>>
  BY <1>1 DEF catalogueVars
<1>3. Visiting'
  BY <1>1 DEF Visiting, Idle
<1>4. ~HasQuestion' /\ Screened'
  BY <1>1 DEF Screened, HasQuestion, Blank
<1>5. CatalogueSound'
  BY <1>2 DEF PanelInv, CatalogueSound, RowSound, RunSound
<1>6. visits' \in 0 .. MaxVisits /\ faults' \in 0 .. MaxFaults
  BY <1>1, <1>2, PracticeAssumption DEF PanelInv, Counted
<1> QED
  BY <1>1, <1>2, <1>3, <1>4, <1>5, <1>6, NewPanelKeeps

LEMMA FollowLinkKeeps == ASSUME PanelInv, NEW want, FollowLink(want) PROVE PanelInv'
<1>1. /\ visit' = [Idle EXCEPT !.at = "module", !.skill = screen.skill, !.module = screen.module, !.lesson = screen.lesson, !.want = want]
      /\ visits < MaxVisits /\ visits' = visits + 1
      /\ UNCHANGED <<screen, panelVars, raced, catalogueVars, cache, moves, faults>>
  BY DEF FollowLink, Asked
<1>2. UNCHANGED <<screen, raced, picked, text, grading, checks, visible, translation, request, loads, rows, family, runs, moves, faults>>
  BY <1>1 DEF panelVars, catalogueVars
<1>3. Visiting'
  BY <1>1 DEF Visiting, Idle
<1>4. CatalogueSound'
  BY <1>2 DEF PanelInv, CatalogueSound, RowSound, RunSound
<1>5. Screened'
  BY <1>2 DEF PanelInv, Screened, HasQuestion, At
<1>6. Waiting'
  BY <1>2 DEF PanelInv, Waiting, HasQuestion
<1>7. Counted'
  BY <1>1, <1>2, PracticeAssumption DEF PanelInv, Counted
<1>8. (HasQuestion /\ ~raced => Steady)'
  BY <1>2 DEF PanelInv, HasQuestion, Steady, At, AttemptedAnswer, Question, GradeFits
<1> QED
  BY <1>3, <1>4, <1>5, <1>6, <1>7, <1>8 DEF PanelInv

LEMMA Faultless == ASSUME PanelInv, Keep PROVE UNCHANGED <<catalogueVars, visits, moves>> /\ faults' \in 0 .. MaxFaults
BY DEF PanelInv, Counted, Keep

LEMMA GetModulePageKeeps == ASSUME PanelInv, GetModulePage PROVE PanelInv'
<1>1. Keep /\ (Proceed([visit EXCEPT !.at = "lessons"]) \/ Show("missing"))
  BY DEF GetModulePage
<1>2. CASE Proceed([visit EXCEPT !.at = "lessons"])
  <2>1. Visiting'
    BY <1>2 DEF PanelInv, Visiting, Proceed
  <2> QED
    BY <1>1, <1>2, <2>1, ProceedKeeps
<1> QED
  BY <1>1, <1>2, ShowKeeps, Faultless

LEMMA GetLessonsPageKeeps == ASSUME PanelInv, GetLessonsPage PROVE PanelInv'
<1>1. Keep /\ (Show("empty") \/ \E lesson : Proceed([visit EXCEPT !.at = "lesson", !.lesson = lesson]))
  BY DEF GetLessonsPage
<1>2. ASSUME NEW lesson, Proceed([visit EXCEPT !.at = "lesson", !.lesson = lesson]) PROVE PanelInv'
  <2>1. Visiting'
    BY <1>2 DEF PanelInv, Visiting, Proceed
  <2> QED
    BY <1>1, <1>2, <2>1, ProceedKeeps
<1> QED
  BY <1>1, <1>2, ShowKeeps, Faultless

LEMMA GetLessonPageKeeps == ASSUME PanelInv, GetLessonPage PROVE PanelInv'
<1>1. Keep /\ (Proceed([visit EXCEPT !.at = "exercises"]) \/ Show("missing"))
  BY DEF GetLessonPage
<1>2. CASE Proceed([visit EXCEPT !.at = "exercises"])
  <2>1. Visiting'
    BY <1>2 DEF PanelInv, Visiting, Proceed
  <2> QED
    BY <1>1, <1>2, <2>1, ProceedKeeps
<1> QED
  BY <1>1, <1>2, ShowKeeps, Faultless

UnderRows(table, parent) == {r \in ToSet(rows) : r.table = table /\ r.parent = parent}
LEMMA UnderKept == ASSUME NEW table, NEW parent PROVE Under(table, parent) = Kept(rows, UnderRows(table, parent))
<1>1. \A i \in DOMAIN rows : rows[i] \in UnderRows(table, parent) <=> rows[i].table = table /\ rows[i].parent = parent
  BY DEF UnderRows, ToSet
<1>2. Marked(rows, UnderRows(table, parent))
      = [i \in DOMAIN rows |-> IF rows[i].table = table /\ rows[i].parent = parent THEN <<rows[i]>> ELSE <<>>]
  BY <1>1 DEF Marked
<1> QED
  BY <1>2, Zenon DEF Under, Where, ForEach, Kept

LEMMA ExercisesListed ==
    ASSUME CatalogueSound, NEW lesson, GetExercises(lesson) # <<>>
    PROVE  1 \in DOMAIN GetExercises(lesson)
<1>1. IsList(Under("exercise", lesson))
  BY UnderKept, KeptType, OwnType DEF IsList, CatalogueSound
<1>2. GetExercises(lesson) = [i \in DOMAIN Under("exercise", lesson) |-> ExerciseDto(Under("exercise", lesson)[i])]
  BY Zenon DEF GetExercises, Dto
<1>3. Len(Under("exercise", lesson)) \in Nat /\ DOMAIN Under("exercise", lesson) = 1 .. Len(Under("exercise", lesson))
  BY <1>1, ListFacts
<1>4. Len(Under("exercise", lesson)) # 0
  <2> SUFFICES ASSUME Len(Under("exercise", lesson)) = 0 PROVE FALSE
    OBVIOUS
  <2>1. DOMAIN Under("exercise", lesson) = {}
    BY <1>3
  <2>2. GetExercises(lesson) = <<>>
    BY <1>2, <2>1
  <2> QED
    BY <2>2
<1>5. DOMAIN GetExercises(lesson) = DOMAIN Under("exercise", lesson)
  BY <1>2
<1> QED
  BY <1>3, <1>4, <1>5

LEMMA GetExercisesPageKeeps == ASSUME PanelInv, GetExercisesPage PROVE PanelInv'
<1> DEFINE exercises == GetExercises(visit.lesson)
           ids == [i \in DOMAIN exercises |-> exercises[i].id]
           to == [visit EXCEPT !.at = "exercise", !.want = Chosen(visit.want, exercises), !.exercises = ids]
<1>1. Keep /\ IF exercises = <<>> THEN Show("empty") ELSE Proceed(to)
  BY DEF GetExercisesPage
<1>2. CASE exercises # <<>>
  <2>1. 1 \in DOMAIN exercises
    BY <1>2, ExercisesListed DEF PanelInv
  <2> HIDE DEF exercises
  <2>2. Chosen(visit.want, exercises) \in {exercises[i].id : i \in DOMAIN exercises}
    BY <2>1 DEF Chosen
  <2>3. ToSet(ids) = {exercises[i].id : i \in DOMAIN exercises}
    BY DEF ToSet
  <2> DEFINE chosen == Chosen(visit.want, exercises)
  <2> HIDE DEF chosen, ids
  <2>6. visit = [at |-> visit.at, skill |-> visit.skill, module |-> visit.module, lesson |-> visit.lesson, want |-> visit.want,
                 exercises |-> visit.exercises]
    BY DEF PanelInv, Visiting
  <2>7. to = [visit EXCEPT !.at = "exercise", !.want = chosen, !.exercises = ids]
    BY DEF chosen
  <2> HIDE DEF to
  <2>4. to = [at |-> "exercise", skill |-> visit.skill, module |-> visit.module, lesson |-> visit.lesson, want |-> chosen, exercises |-> ids]
    BY <2>6, <2>7
  <2>8. chosen \in ToSet(ids)
    BY <2>2, <2>3 DEF chosen
  <2>5. Visiting'
    BY <1>1, <1>2, <2>4, <2>8 DEF Visiting, Proceed
  <2> QED
    BY <1>1, <1>2, <2>5, ProceedKeeps
<1> QED
  BY <1>1, <1>2, ShowKeeps, Faultless

LEMMA ExerciseNamed == ASSUME CatalogueSound, NEW id, At("exercise", id) # {} PROVE id # None
<1>1. PICK r \in ToSet(rows) : r.table = "exercise" /\ r.key = id /\ RowSound(r)
  BY DEF At, CatalogueSound
<1>2. PICK script \in Scripts, v \in Versions : \E s \in StatementsOf(script, v) : Same(r, s)
  BY <1>1 DEF RowSound
<1> QED
  BY <1>1, <1>2, StatementForm DEF Same

LEMMA GetExercisePageKeeps == ASSUME PanelInv, GetExercisePage PROVE PanelInv'
<1> DEFINE exercise == GetExercise(visit.want)
           s == [kind |-> "question", skill |-> visit.skill, module |-> visit.module, lesson |-> visit.lesson,
                 exercises |-> visit.exercises, id |-> visit.want, v |-> exercise[1].v]
<1>1. Keep /\ visit.at = "exercise" /\ ((exercise # <<>> /\ Arrive(s)) \/ Show("missing"))
  BY DEF GetExercisePage
<1>2. CASE exercise # <<>> /\ Arrive(s)
  <2>1. At("exercise", visit.want) # {}
    <3> SUFFICES ASSUME At("exercise", visit.want) = {} PROVE FALSE
      OBVIOUS
    <3>1. Find("exercise", visit.want) = <<>>
      BY Found DEF PanelInv, CatalogueSound
    <3>2. exercise = [i \in DOMAIN <<>> |-> ExerciseDto(<<>>[i])]
      BY <3>1 DEF GetExercise, Dto
    <3>3. exercise = <<>>
      BY <3>2
    <3> QED
      BY <1>2, <3>3
  <2>2. PICK r \in At("exercise", visit.want) : exercise[1] = ExerciseDto(r) /\ r.v \in Versions
    BY <2>1, KeyFound DEF PanelInv
  <2>3. exercise[1].v = r.v
    BY <2>2 DEF ExerciseDto
  <2>4. visit.want # None
    BY <2>1, ExerciseNamed DEF PanelInv
  <2>5. visit.want \in ToSet(visit.exercises)
    BY <1>1 DEF PanelInv, Visiting
  <2>6. \A q \in At("exercise", visit.want) : q.v = r.v
    BY <2>2 DEF At, Same, PanelInv, CatalogueSound
  <2> HIDE DEF exercise
  <2>7. Comes(s)
    BY <2>1, <2>2, <2>3, <2>4, <2>5, <2>6 DEF Comes
  <2> HIDE DEF s
  <2> QED
    BY <1>1, <1>2, <2>7, ArriveKeeps, Faultless
<1> QED
  BY <1>1, <1>2, ShowKeeps, Faultless

LEMMA PageFailsKeeps == ASSUME PanelInv, PageFails PROVE PanelInv'
<1>1. Show("failed") /\ UNCHANGED <<catalogueVars, visits, moves>> /\ Fault
  BY DEF PageFails
<1>2. faults' \in 0 .. MaxFaults
  BY <1>1, PracticeAssumption DEF PanelInv, Counted, Fault
<1> QED
  BY <1>1, <1>2, ShowKeeps

\* A statement of a script may rewrite the exercise that is shown, which raced then tells, and never removes it.
LEMMA LoadKeeps == ASSUME PanelInv, Load PROVE PanelInv'
<1>1. CatalogueStep /\ UNCHANGED <<visit, screen, panelVars, visits, moves, faults>>
      /\ raced' = (raced \/ (HasQuestion /\ \E i \in DOMAIN rows' : rows'[i].key = screen.id /\ rows'[i].v # screen.v))
  BY DEF Load
<1>2. UNCHANGED <<visit, screen, picked, text, grading, checks, visible, translation, request, loads, visits, moves, faults>>
  BY <1>1 DEF panelVars
<1>3. CatalogueSound' /\ Persists
  BY <1>1, CatalogueSoundStep DEF PanelInv
<1>4. Visiting'
  BY <1>2 DEF PanelInv, Visiting
<1>5. Screened'
  <2>1. HasQuestion => At("exercise", screen.id)' # {}
    <3> SUFFICES ASSUME HasQuestion PROVE At("exercise", screen.id)' # {}
      OBVIOUS
    <3>1. PICK r \in ToSet(rows) : r.table = "exercise" /\ r.key = screen.id
      BY DEF PanelInv, Screened, At
    <3>2. PICK q \in ToSet(rows') : Same(r, q)
      BY <1>3 DEF Persists
    <3> QED
      BY <1>2, <3>1, <3>2 DEF At, Same
  <2> QED
    BY <1>2, <2>1 DEF PanelInv, Screened, HasQuestion
<1>6. Waiting'
  BY <1>2 DEF PanelInv, Waiting, HasQuestion
<1>7. Counted'
  BY <1>1, <1>2 DEF PanelInv, Counted
<1>8. ASSUME HasQuestion', ~raced' PROVE Steady'
  <2>1. HasQuestion /\ ~raced /\ Steady
    BY <1>1, <1>2, <1>8 DEF PanelInv, HasQuestion
  <2>2. \A r \in ToSet(rows') : r.key = screen.id => r.v = screen.v
    BY <1>1, <1>8, <2>1 DEF ToSet
  <2>3. AttemptedAnswer' = AttemptedAnswer
    BY <1>2 DEF AttemptedAnswer, Question
  <2> QED
    BY <1>2, <2>1, <2>2, <2>3 DEF Steady, GradeFits, At
<1> QED
  BY <1>3, <1>4, <1>5, <1>6, <1>7, <1>8 DEF PanelInv

LEMMA StutterKeeps == ASSUME PanelInv, UNCHANGED vars PROVE PanelInv'
<1>1. AnswerKept /\ TextKept /\ UNCHANGED <<catalogueVars, visit, screen, visits, request, loads>> /\ moves' = moves /\ faults' = faults
  BY DEF vars, practiceVars, panelVars, AnswerKept, TextKept
<1>2. moves' \in 0 .. MaxMoves /\ faults' \in 0 .. MaxFaults
  BY <1>1 DEF PanelInv, Counted
<1> QED
  BY <1>1, <1>2, CacheKeeps

LEMMA PanelInvNext == PanelInv /\ [Next]_vars => PanelInv'
<1> SUFFICES ASSUME PanelInv, [Next]_vars PROVE PanelInv'
  OBVIOUS
<1>1. CASE Load
  BY <1>1, LoadKeeps
<1>2. ASSUME NEW skill, NEW module, NEW want, Open(skill, module, want) \/ FollowLink(want) PROVE PanelInv'
  BY <1>2, OpenKeeps, FollowLinkKeeps
<1>3. CASE PageStep
  BY <1>3, GetModulePageKeeps, GetLessonsPageKeeps, GetLessonPageKeeps, GetExercisesPageKeeps, GetExercisePageKeeps, PageFailsKeeps
     DEF PageStep
<1>4. ASSUME NEW n, SelectOption(n) PROVE PanelInv'
  BY <1>4, SelectOptionKeeps
<1>5. ASSUME NEW t, TypeText(t) PROVE PanelInv'
  BY <1>5, TypeTextKeeps
<1>6. CASE SubmitAnswer
  BY <1>6, SubmitAnswerKeeps
<1>7. ASSUME NEW c \in BagToSet(checks), GradeAnswer(c) \/ GradeArrives(c) \/ GradingFails(c) PROVE PanelInv'
  BY <1>7, GradeAnswerKeeps, GradeArrivesKeeps, GradingFailsKeeps
<1>8. CASE ToggleTranslation \/ TranslationArrives \/ TranslationFails
  BY <1>8, ToggleTranslationKeeps, TranslationArrivesKeeps, TranslationFailsKeeps
<1>9. CASE LoadAudio \/ MarkPlaybackFailed
  BY <1>9, LoadAudioKeeps, MarkPlaybackFailedKeeps
<1>10. ASSUME NEW key, \/ LoadEnds(key, "ready") /\ AudioLoaded(key)
                       \/ LoadEnds(key, "error") /\ AudioFails
       PROVE  PanelInv'
  BY <1>10, LoadEndsKeeps DEF AudioLoaded, AudioFails
<1>11. ASSUME NEW key, LostLoadEnds(key) /\ (AudioLoaded(key) \/ AudioFails) PROVE PanelInv'
  BY <1>11, LostLoadEndsKeeps DEF AudioLoaded, AudioFails
<1>12. ASSUME NEW key, UrlExpires(key) PROVE PanelInv'
  BY <1>12, UrlExpiresKeeps
<1>13. CASE UNCHANGED vars
  BY <1>13, StutterKeeps
<1> QED
  BY <1>1, <1>2, <1>3, <1>4, <1>5, <1>6, <1>7, <1>8, <1>9, <1>10, <1>11, <1>12, <1>13, Zenon DEF Next

\* PanelSound, for every catalogue, number of runs, of learner's moves and of faults.
THEOREM PanelIsSound == Spec => []PanelSound
<1>1. PanelInv /\ [Next]_vars => PanelInv'
  BY PanelInvNext
<1> QED
  BY <1>1, PanelInvInit, PanelInvSound, PTL DEF Spec

-----------------------------------------------------------------------------
(* Lists: what is kept of a list, and of a list of lists.                   *)

LEMMA ListKept == ASSUME NEW l, IsList(l), NEW X PROVE IsList(Kept(l, X)) /\ ToSet(Kept(l, X)) = ToSet(l) \cap X
<1>1. Kept(l, X) \in Seq(ToSet(l)) /\ ToSet(Kept(l, X)) = ToSet(l) \cap X
  BY KeptType DEF IsList
<1> QED
  BY <1>1, OwnType DEF IsList

\* Induction over a list, in the terms of its elements.
LEMMA ListInduction ==
    ASSUME NEW l, IsList(l), NEW P, <<>> \in P,
           \A s \in P : IsList(s) => \A x \in ToSet(l) : Append(s, x) \in P
    PROVE  l \in P
<1>1. \A s \in P : s \in Seq(ToSet(l)) => \A x \in ToSet(l) : Append(s, x) \in P
  BY OwnType DEF IsList
<1>2. Seq(ToSet(l)) \subseteq P
  BY <1>1, AllLists
<1> QED
  BY <1>2 DEF IsList

LEMMA KeptAppended ==
    ASSUME NEW l, IsList(l), NEW x, NEW X
    PROVE  Kept(Append(l, x), X) = IF x \in X THEN Append(Kept(l, X), x) ELSE Kept(l, X)
<1> DEFINE T == ToSet(l) \cup {x}
<1>1. l \in Seq(T) /\ x \in T
  BY SeqMonotonic DEF IsList
<1> HIDE DEF T
<1> QED
  BY <1>1, KeptAppend

LEMMA KeptJoined ==
    ASSUME NEW l, IsList(l), NEW k, IsList(k), NEW X
    PROVE  Kept(l \o k, X) = Kept(l, X) \o Kept(k, X)
<1> DEFINE T == ToSet(l) \cup ToSet(k)
<1>1. l \in Seq(T) /\ k \in Seq(T)
  BY SeqMonotonic DEF IsList
<1> HIDE DEF T
<1> QED
  BY <1>1, KeptConcat

LEMMA KeptAll == ASSUME NEW l, IsList(l), NEW X, ToSet(l) \subseteq X PROVE Kept(l, X) = l
<1> DEFINE P == {s \in Seq(ToSet(l)) : Kept(s, X) = s}
<1>1. <<>> \in P
  BY KeptEmpty, EmptySeq
<1>2. ASSUME NEW s \in P, IsList(s), NEW x \in ToSet(l) PROVE Append(s, x) \in P
  <2>1. Kept(Append(s, x), X) = Append(Kept(s, X), x)
    BY <1>2, KeptAppended
  <2>2. Append(s, x) \in Seq(ToSet(l))
    BY AppendProperties
  <2> QED
    BY <2>1, <2>2
<1> HIDE DEF P
<1>3. l \in P
  BY <1>1, <1>2, ListInduction
<1> QED
  BY <1>3 DEF P

LEMMA KeptNone == ASSUME NEW l, IsList(l), NEW X, ToSet(l) \cap X = {} PROVE Kept(l, X) = <<>>
<1>1. \A x \in ToSet(l) : x \in X <=> x \in {}
  OBVIOUS
<1>2. Kept(l, X) \in Seq(ToSet(l)) /\ ToSet(Kept(l, X)) = {}
  BY KeptType DEF IsList
<1>3. Kept(l, X) # <<>> => 1 \in DOMAIN Kept(l, X)
  BY <1>2, EmptySeq, LenProperties
<1> QED
  BY <1>2, <1>3 DEF ToSet

LEMMA KeptTwice == ASSUME NEW l, IsList(l), NEW X, NEW Y PROVE Kept(Kept(l, X), Y) = Kept(l, X \cap Y)
<1> DEFINE P == {s \in Seq(ToSet(l)) : Kept(Kept(s, X), Y) = Kept(s, X \cap Y)}
<1>1. <<>> \in P
  BY KeptEmpty, EmptySeq
<1>2. ASSUME NEW s \in P, IsList(s), NEW x \in ToSet(l) PROVE Append(s, x) \in P
  <2>1. IsList(Kept(s, X))
    BY <1>2, ListKept
  <2>2. Kept(Append(s, x), X) = IF x \in X THEN Append(Kept(s, X), x) ELSE Kept(s, X)
    BY <1>2, KeptAppended
  <2>3. Kept(Append(s, x), X \cap Y) = IF x \in X \cap Y THEN Append(Kept(s, X \cap Y), x) ELSE Kept(s, X \cap Y)
    BY <1>2, KeptAppended
  <2>4. Kept(Append(Kept(s, X), x), Y) = IF x \in Y THEN Append(Kept(Kept(s, X), Y), x) ELSE Kept(Kept(s, X), Y)
    BY <2>1, KeptAppended
  <2>5. Append(s, x) \in Seq(ToSet(l)) /\ Kept(Kept(s, X), Y) = Kept(s, X \cap Y)
    BY AppendProperties
  <2> HIDE DEF P
  <2>6. Kept(Kept(Append(s, x), X), Y) = Kept(Append(s, x), X \cap Y)
    <3>1. CASE x \in X /\ x \in Y
      BY <2>2, <2>3, <2>4, <2>5, <3>1
    <3>2. CASE x \in X /\ x \notin Y
      BY <2>2, <2>3, <2>4, <2>5, <3>2
    <3>3. CASE x \notin X
      BY <2>2, <2>3, <2>5, <3>3
    <3> QED
      BY <3>1, <3>2, <3>3
  <2> QED
    BY <2>5, <2>6 DEF P
<1> HIDE DEF P
<1>3. l \in P
  BY <1>1, <1>2, ListInduction
<1> QED
  BY <1>3 DEF P

LEMMA MadeEmpty == ASSUME NEW g PROVE Made(<<>>, g) = <<>>
<1>1. [i \in DOMAIN <<>> |-> g[<<>>[i]]] = <<>>
  OBVIOUS
<1> QED
  BY <1>1, FlattenEmpty, Zenon DEF Made

LEMMA MadeAppend ==
    ASSUME NEW T, NEW g, \A r \in T : IsList(g[r]), NEW s \in Seq(T), NEW x \in T
    PROVE  Made(Append(s, x), g) = Made(s, g) \o g[x]
<1> DEFINE U == UNION {ToSet(g[r]) : r \in T}
           f == [i \in DOMAIN s |-> g[s[i]]]
           h == [i \in DOMAIN Append(s, x) |-> g[Append(s, x)[i]]]
<1>1. \A r \in T : g[r] \in Seq(U)
  <2> SUFFICES ASSUME NEW r \in T PROVE g[r] \in Seq(U)
    OBVIOUS
  <2>1. IsList(g[r]) /\ ToSet(g[r]) \subseteq U
    OBVIOUS
  <2> HIDE DEF U
  <2> QED
    BY <2>1, SeqMonotonic DEF IsList
<1> HIDE DEF U
<1>2. Len(s) \in Nat /\ DOMAIN s = 1 .. Len(s) /\ DOMAIN Append(s, x) = 1 .. Len(s) + 1 /\ \A i \in 1 .. Len(s) : s[i] \in T
  BY LenProperties, AppendProperties
<1>3. \A i \in 1 .. Len(s) + 1 : Append(s, x)[i] = IF i = Len(s) + 1 THEN x ELSE s[i]
  OBVIOUS
<1>4. f \in Seq(Seq(U)) /\ Len(f) = Len(s)
  <2>1. f \in [1 .. Len(s) -> Seq(U)]
    BY <1>1, <1>2
  <2>2. \A V : \A k \in Nat : [1 .. k -> V] \subseteq Seq(V)
    BY SeqDef
  <2>3. f \in Seq(Seq(U))
    BY <1>2, <2>1, <2>2
  <2>4. DOMAIN f = 1 .. Len(s)
    BY <1>2
  <2> HIDE DEF f
  <2>5. DOMAIN f = 1 .. Len(f) /\ Len(f) \in Nat
    BY <2>3, LenProperties
  <2>6. 1 .. Len(f) = 1 .. Len(s) /\ Len(f) \in Nat /\ Len(s) \in Nat
    BY <1>2, <2>4, <2>5
  <2>7. Len(f) = Len(s)
    BY <2>6
  <2> QED
    BY <2>3, <2>7
<1>5. h = Append(f, g[x])
  <2>1. Append(f, g[x]) = [i \in 1 .. Len(s) + 1 |-> IF i = Len(s) + 1 THEN g[x] ELSE f[i]]
    <3>1. g[x] \in Seq(U)
      BY <1>1
    <3> HIDE DEF f
    <3> QED
      BY <1>4, <3>1, AppendIs
  <2>2. ASSUME NEW i \in 1 .. Len(s) + 1 PROVE h[i] = IF i = Len(s) + 1 THEN g[x] ELSE f[i]
    <3>1. i # Len(s) + 1 => i \in DOMAIN s
      BY <1>2
    <3> QED
      BY <1>2, <1>3, <3>1
  <2>3. h = [i \in 1 .. Len(s) + 1 |-> h[i]]
    BY <1>2
  <2> HIDE DEF h, f
  <2> QED
    BY <2>1, <2>2, <2>3, Zenon
<1>6. Made(s, g) = FlattenSeq(f) /\ Made(Append(s, x), g) = FlattenSeq(h)
  BY Zenon DEF Made
<1>7. g[x] \in Seq(U)
  BY <1>1
<1> HIDE DEF f, h
<1>8. FlattenSeq(Append(f, g[x])) = FlattenSeq(f) \o g[x]
  BY <1>4, <1>7, FlattenAppend
<1> QED
  BY <1>5, <1>6, <1>8, Zenon

LEMMA KeptMade ==
    ASSUME NEW records, IsList(records), NEW g, \A r \in ToSet(records) : IsList(g[r]),
           NEW X, NEW h, \A r \in ToSet(records) : h[r] = Kept(g[r], X)
    PROVE  Kept(Made(records, g), X) = Made(records, h)
<1> DEFINE T == ToSet(records)
           P == {s \in Seq(T) : Kept(Made(s, g), X) = Made(s, h)}
<1>1. <<>> \in P
  BY KeptEmpty, MadeEmpty, EmptySeq
<1>0. \A r \in T : IsList(h[r])
  BY ListKept
<1>2. ASSUME NEW s \in P, IsList(s), NEW x \in T PROVE Append(s, x) \in P
  <2>1. s \in Seq(T) /\ Append(s, x) \in Seq(T) /\ Kept(Made(s, g), X) = Made(s, h)
    BY AppendProperties
  <2>2. ToSet(s) \subseteq T
    BY <2>1, OwnType
  <2> HIDE DEF P, T
  <2>3. Made(Append(s, x), g) = Made(s, g) \o g[x]
    <3>1. \A r \in T : IsList(g[r])
      BY DEF T
    <3> QED
      BY <2>1, <3>1, MadeAppend
  <2>4. Made(Append(s, x), h) = Made(s, h) \o h[x]
    BY <1>0, <2>1, MadeAppend
  <2>5. IsList(Made(s, g))
    <3>1. \A r \in ToSet(s) : IsList(g[r])
      BY <2>2 DEF T
    <3> QED
      BY <1>2, <3>1, ListMade
  <2>6. Kept(Made(s, g) \o g[x], X) = Kept(Made(s, g), X) \o Kept(g[x], X)
    BY <2>5, KeptJoined DEF T
  <2>7. h[x] = Kept(g[x], X)
    BY DEF T
  <2>8. Kept(Made(Append(s, x), g), X) = Made(Append(s, x), h)
    BY <2>1, <2>3, <2>4, <2>6, <2>7, Zenon
  <2> QED
    BY <2>1, <2>8 DEF P
<1> HIDE DEF P
<1>3. records \in P
  BY <1>1, <1>2, ListInduction
<1> QED
  BY <1>3 DEF P

\* When one record alone makes something, that is what is made.
LEMMA MadeOne ==
    ASSUME NEW records, IsList(records), NEW g, NEW one \in ToSet(records), IsList(g[one]),
           \A r \in ToSet(records) : r # one => g[r] = <<>>,
           \A i, j \in DOMAIN records : records[i] = one /\ records[j] = one => i = j
    PROVE  Made(records, g) = g[one]
<1> DEFINE T == ToSet(records)
           Single(s) == \A i, j \in DOMAIN s : s[i] = one /\ s[j] = one => i = j
           P == {s \in Seq(T) : (one \notin ToSet(s) => Made(s, g) = <<>>) /\ (one \in ToSet(s) /\ Single(s) => Made(s, g) = g[one])}
<1>0. \A r \in T : IsList(g[r])
  BY ListEmpty
<1>1. <<>> \in P
  BY MadeEmpty, EmptySeq, ToSetEmpty
<1>2. ASSUME NEW s \in P, IsList(s), NEW x \in T PROVE Append(s, x) \in P
  <2>1. s \in Seq(T) /\ Append(s, x) \in Seq(T) /\ (one \notin ToSet(s) => Made(s, g) = <<>>) /\ (one \in ToSet(s) /\ Single(s) => Made(s, g) = g[one])
    BY AppendProperties
  <2>2. ToSet(Append(s, x)) = ToSet(s) \cup {x}
    BY <1>2, ListAppend
  <2>3. Len(s) \in Nat /\ DOMAIN s = 1 .. Len(s) /\ DOMAIN Append(s, x) = 1 .. Len(s) + 1
        /\ Append(s, x)[Len(s) + 1] = x /\ \A i \in 1 .. Len(s) : Append(s, x)[i] = s[i]
    BY <2>1
  <2>4. Single(Append(s, x)) => Single(s) /\ (x = one => one \notin ToSet(s))
    BY <2>3 DEF ToSet
  <2>5. x # one => g[x] = <<>>
    OBVIOUS
  <2> HIDE DEF P, T, Single
  <2>6. Made(Append(s, x), g) = Made(s, g) \o g[x]
    BY <1>0, <2>1, MadeAppend
  <2>7. IsList(g[one]) /\ g[one] \o <<>> = g[one] /\ <<>> \o g[one] = g[one] /\ <<>> \o <<>> = <<>>
    BY ConcatEmptySeq DEF IsList
  <2>8. one \notin ToSet(Append(s, x)) => Made(Append(s, x), g) = <<>>
    BY <2>1, <2>2, <2>5, <2>6, <2>7
  <2>9. one \in ToSet(Append(s, x)) /\ Single(Append(s, x)) => Made(Append(s, x), g) = g[one]
    <3> SUFFICES ASSUME one \in ToSet(Append(s, x)), Single(Append(s, x)) PROVE Made(Append(s, x), g) = g[one]
      OBVIOUS
    <3>1. CASE x = one
      BY <2>1, <2>4, <2>6, <2>7, <3>1
    <3>2. CASE x # one
      BY <2>1, <2>2, <2>4, <2>5, <2>6, <2>7, <3>2
    <3> QED
      BY <3>1, <3>2
  <2> QED
    BY <2>1, <2>8, <2>9 DEF P
<1>4. Single(records)
  OBVIOUS
<1> HIDE DEF P
<1>3. records \in P
  BY <1>1, <1>2, ListInduction
<1> QED
  BY <1>3, <1>4 DEF P

-----------------------------------------------------------------------------
(* Lists: the order of their elements, and the first n.                     *)

\* Of two elements of a list the earlier and the later one are a pair of R.
Before(l, R) == \A i, j \in DOMAIN l : i < j => <<l[i], l[j]>> \in R

LEMMA ConcatAt ==
    ASSUME NEW a, IsList(a), NEW b, IsList(b)
    PROVE  /\ Len(a) \in Nat /\ Len(b) \in Nat /\ DOMAIN (a \o b) = 1 .. Len(a) + Len(b) /\ Len(a \o b) = Len(a) + Len(b)
           /\ \A i \in 1 .. Len(a) : (a \o b)[i] = a[i] /\ a[i] \in ToSet(a) /\ i \in DOMAIN a
           /\ \A i \in Len(a) + 1 .. Len(a) + Len(b) :
                 (a \o b)[i] = b[i - Len(a)] /\ b[i - Len(a)] \in ToSet(b) /\ i - Len(a) \in DOMAIN b
<1> DEFINE T == ToSet(a) \cup ToSet(b)
<1>1. a \in Seq(T) /\ b \in Seq(T)
  BY SeqMonotonic DEF IsList
<1>2. /\ Len(a) \in Nat /\ DOMAIN a = 1 .. Len(a) /\ \A i \in 1 .. Len(a) : a[i] \in ToSet(a)
      /\ Len(b) \in Nat /\ DOMAIN b = 1 .. Len(b) /\ \A i \in 1 .. Len(b) : b[i] \in ToSet(b)
  BY ListFacts
<1> HIDE DEF T
<1>3. a \o b \in Seq(T) /\ Len(a \o b) = Len(a) + Len(b)
      /\ \A i \in 1 .. Len(a) + Len(b) : (a \o b)[i] = IF i <= Len(a) THEN a[i] ELSE b[i - Len(a)]
  BY <1>1, ConcatProperties
<1>4. DOMAIN (a \o b) = 1 .. Len(a \o b)
  BY <1>3, LenProperties
<1> HIDE DEF IsList
<1> QED
  BY <1>2, <1>3, <1>4

LEMMA BeforeConcat ==
    ASSUME NEW a, IsList(a), NEW b, IsList(b), NEW R, Before(a, R), Before(b, R), \A x \in ToSet(a), y \in ToSet(b) : <<x, y>> \in R
    PROVE  Before(a \o b, R)
<1> DEFINE n == Len(a)  m == Len(b)  c == a \o b
<1>1. /\ n \in Nat /\ m \in Nat /\ DOMAIN c = 1 .. n + m
      /\ \A i \in 1 .. n : c[i] = a[i] /\ a[i] \in ToSet(a) /\ i \in DOMAIN a
      /\ \A i \in n + 1 .. n + m : c[i] = b[i - n] /\ b[i - n] \in ToSet(b) /\ i - n \in DOMAIN b
  BY ConcatAt, Zenon
<1> HIDE DEF n, m, c
<1> SUFFICES ASSUME NEW i \in 1 .. n + m, NEW j \in 1 .. n + m, i < j PROVE <<c[i], c[j]>> \in R
  BY <1>1, Zenon DEF Before, c
<1>2. CASE j <= n
  <2>1. i \in 1 .. n /\ j \in 1 .. n
    BY <1>1, <1>2
  <2> QED
    BY <1>1, <2>1 DEF Before
<1>3. CASE i <= n /\ j > n
  <2>1. i \in 1 .. n /\ j \in n + 1 .. n + m
    BY <1>1, <1>3
  <2> QED
    BY <1>1, <2>1
<1>4. CASE i > n
  <2>1. i \in n + 1 .. n + m /\ j \in n + 1 .. n + m /\ i - n < j - n
    BY <1>1, <1>4
  <2> QED
    BY <1>1, <2>1 DEF Before
<1> QED
  BY <1>1, <1>2, <1>3, <1>4

\* What the records of a file are made into is in order when that of each is, and that of any two.
LEMMA BeforeMade ==
    ASSUME NEW records, IsList(records), NEW g, \A r \in ToSet(records) : IsList(g[r]), NEW R,
           \A r \in ToSet(records) : Before(g[r], R),
           \A i, j \in DOMAIN records : records[i] = records[j] => i = j,
           \A r, q \in ToSet(records) : r # q => \A x \in ToSet(g[r]), y \in ToSet(g[q]) : <<x, y>> \in R
    PROVE  Before(Made(records, g), R)
<1> DEFINE T == ToSet(records)
           Single(s) == \A i, j \in DOMAIN s : s[i] = s[j] => i = j
           P == {s \in Seq(T) : Single(s) => Before(Made(s, g), R)}
<1>1. <<>> \in P
  BY MadeEmpty, EmptySeq DEF Before
<1>2. ASSUME NEW s \in P, IsList(s), NEW x \in T PROVE Append(s, x) \in P
  <2>1. s \in Seq(T) /\ Append(s, x) \in Seq(T) /\ (Single(s) => Before(Made(s, g), R))
    BY AppendProperties
  <2>2. Len(s) \in Nat /\ DOMAIN s = 1 .. Len(s) /\ DOMAIN Append(s, x) = 1 .. Len(s) + 1
        /\ Append(s, x)[Len(s) + 1] = x /\ \A i \in 1 .. Len(s) : Append(s, x)[i] = s[i]
    BY <2>1
  <2>3. Single(Append(s, x)) => Single(s) /\ x \notin ToSet(s)
    BY <2>2 DEF ToSet
  <2>4. ToSet(s) \subseteq T
    BY <2>1, OwnType
  <2>5. \A r \in T : IsList(g[r]) /\ Before(g[r], R)
    OBVIOUS
  <2>6. \A r, q \in T : r # q => \A a \in ToSet(g[r]), b \in ToSet(g[q]) : <<a, b>> \in R
    OBVIOUS
  <2> HIDE DEF P, T, Single
  <2>7. Made(Append(s, x), g) = Made(s, g) \o g[x]
    BY <2>1, <2>5, MadeAppend
  <2>8. IsList(Made(s, g)) /\ ToSet(Made(s, g)) = UNION {ToSet(g[r]) : r \in ToSet(s)}
    BY <1>2, <2>4, <2>5, ListMade
  <2>9. ASSUME Single(Append(s, x)) PROVE Before(Made(Append(s, x), g), R)
    <3>1. Single(s) /\ x \notin ToSet(s)
      BY <2>3, <2>9
    <3>2. Before(Made(s, g), R)
      BY <2>1, <3>1
    <3>3. \A a \in ToSet(Made(s, g)), b \in ToSet(g[x]) : <<a, b>> \in R
      BY <2>4, <2>6, <2>8, <3>1
    <3>4. Before(Made(s, g) \o g[x], R)
      BY <2>5, <2>8, <3>2, <3>3, BeforeConcat
    <3> QED
      BY <2>7, <3>4, Zenon
  <2> QED
    BY <2>1, <2>9 DEF P
<1>4. Single(records)
  OBVIOUS
<1> HIDE DEF P
<1>3. records \in P
  BY <1>1, <1>2, ListInduction
<1> QED
  BY <1>3, <1>4 DEF P

LEMMA BeforeOne == ASSUME NEW x, NEW R PROVE Before(<<x>>, R) /\ Before(<<>>, R)
BY DEF Before

\* The first n of a list, and one more.
LEMMA Beginning ==
    ASSUME NEW l, IsList(l), NEW n \in 0 .. Len(l)
    PROVE  /\ IsList(SubSeq(l, 1, n)) /\ Len(SubSeq(l, 1, n)) = n /\ DOMAIN SubSeq(l, 1, n) = 1 .. n
           /\ \A i \in 1 .. n : SubSeq(l, 1, n)[i] = l[i]
           /\ ToSet(SubSeq(l, 1, n)) = {l[i] : i \in 1 .. n} /\ ToSet(SubSeq(l, 1, n)) \subseteq ToSet(l)
           /\ n < Len(l) => SubSeq(l, 1, n + 1) = Append(SubSeq(l, 1, n), l[n + 1])
           /\ SubSeq(l, 1, Len(l)) = l
<1> DEFINE f == SubSeq(l, 1, n)
<1>1. Len(l) \in Nat /\ DOMAIN l = 1 .. Len(l) /\ l = [i \in 1 .. Len(l) |-> l[i]] /\ \A i \in 1 .. Len(l) : l[i] \in ToSet(l)
  BY ListFacts
<1>0. ASSUME NEW m \in 0 .. Len(l) PROVE SubSeq(l, 1, m) = [i \in 1 .. m |-> l[i]]
  <2> DEFINE q == SubSeq(l, 1, m)
  <2>1. m \in Nat /\ \A i \in 1 .. m : l[i] \in ToSet(l)
    BY <1>1
  <2>2. q \in Seq(ToSet(l)) /\ Len(q) = (IF 1 <= m THEN m - 1 + 1 ELSE 0) /\ \A i \in 1 .. m - 1 + 1 : q[i] = l[1 + i - 1]
    BY <2>1, SubSeqProperties
  <2> HIDE DEF q
  <2>3. Len(q) = m /\ \A i \in 1 .. m : q[i] = l[i]
    BY <2>1, <2>2
  <2>4. q = [i \in 1 .. m |-> q[i]]
    BY <2>2, <2>3
  <2>5. q = [i \in 1 .. m |-> l[i]]
    BY <2>3, <2>4, Zenon
  <2> QED
    BY <2>5 DEF q
<1>2. f = [i \in 1 .. n |-> l[i]]
  BY <1>0
<1> HIDE DEF f
<1>3. f = [i \in 1 .. n |-> f[i]] /\ (\A i \in 1 .. n : f[i] = l[i]) /\ n \in Nat /\ DOMAIN f = 1 .. n
  BY <1>1, <1>2
<1>4. IsList(f) /\ Len(f) = n /\ ToSet(f) = {f[i] : i \in 1 .. n}
  BY <1>3, ListIs
<1>5. ToSet(f) = {l[i] : i \in 1 .. n}
  BY <1>3, <1>4
<1>6. ToSet(f) \subseteq ToSet(l)
  BY <1>1, <1>5
<1>7. ASSUME n < Len(l) PROVE SubSeq(l, 1, n + 1) = Append(f, l[n + 1])
  <2>1. l[n + 1] \in ToSet(l) /\ f \in Seq(ToSet(l))
    BY <1>1, <1>4, <1>6, <1>7, SeqMonotonic DEF IsList
  <2>2. Append(f, l[n + 1]) = [i \in 1 .. n + 1 |-> IF i = n + 1 THEN l[n + 1] ELSE f[i]]
    BY <1>4, <2>1, AppendIs
  <2>3. SubSeq(l, 1, n + 1) = [i \in 1 .. n + 1 |-> l[i]]
    BY <1>0
  <2>4. \A i \in 1 .. n + 1 : l[i] = IF i = n + 1 THEN l[n + 1] ELSE f[i]
    BY <1>1, <1>3
  <2> QED
    BY <2>2, <2>3, <2>4, Zenon
<1>8. SubSeq(l, 1, Len(l)) = l
  <2>1. Len(l) \in 0 .. Len(l)
    BY <1>1
  <2> QED
    BY <1>0, <1>1, <2>1, Zenon
<1> QED
  BY <1>3, <1>4, <1>5, <1>6, <1>7, <1>8 DEF f

-----------------------------------------------------------------------------
(* The scripts: what a file names once, and in which order a program goes.  *)

\* A file names a thing once.
LEMMA NamedOnce ==
    ASSUME NEW v \in Versions
    PROVE  /\ \A i, j \in DOMAIN Words[v] : Words[v][i] = Words[v][j] => i = j
           /\ \A r, q \in ToSet(Words[v]) : r.lemma = q.lemma => r = q
           /\ \A i, j \in DOMAIN Points[v] : Points[v][i] = Points[v][j] => i = j
           /\ \A r, q \in ToSet(Points[v]) : r.title = q.title => r = q
           /\ \A r, q \in ToSet(Passages[v]) : r.title = q.title => r = q
           /\ \A r, q \in ToSet(Questions[v]) : r.id = q.id => r = q
<1>1. \A i, j \in DOMAIN Words[v] : Words[v][i].lemma = Words[v][j].lemma => i = j
  BY FilesAssumption DEF Once
<1>2. \A i, j \in DOMAIN Points[v] : Points[v][i].title = Points[v][j].title => i = j
  BY FilesAssumption DEF Once
<1>3. \A i, j \in DOMAIN Passages[v] : Passages[v][i].title = Passages[v][j].title => i = j
  BY FilesAssumption DEF Once
<1>4. \A i, j \in DOMAIN Questions[v] : Questions[v][i].id = Questions[v][j].id => i = j
  BY FilesAssumption DEF Once
<1>5. (\A i, j \in DOMAIN Words[v] : Words[v][i] = Words[v][j] => i = j) /\ \A i, j \in DOMAIN Points[v] : Points[v][i] = Points[v][j] => i = j
  BY <1>1, <1>2
<1>6. \A r, q \in ToSet(Words[v]) : r.lemma = q.lemma => r = q
  BY <1>1 DEF ToSet
<1>7. \A r, q \in ToSet(Points[v]) : r.title = q.title => r = q
  BY <1>2 DEF ToSet
<1>8. \A r, q \in ToSet(Passages[v]) : r.title = q.title => r = q
  BY <1>3 DEF ToSet
<1>9. \A r, q \in ToSet(Questions[v]) : r.id = q.id => r = q
  BY <1>4 DEF ToSet
<1> QED
  BY <1>5, <1>6, <1>7, <1>8, <1>9

\* Only the seed writes to the tables of another script.
LEMMA OtherScript == ASSUME NEW a \in Scripts, NEW b \in Scripts, a # "seed", b # a, Family[a] = Family[b] PROVE b = "seed"
BY DEF Scripts, Family

LEMMA SeedStatement == ASSUME NEW v, NEW s \in StatementsOf("seed", v) PROVE s.op = "insert" /\ s.v = 1 /\ s.rank = 0 /\ s.table # "passage"
<1>1. s \in SeedSet
  BY DEF StatementsOf
<1> QED
  BY <1>1 DEF SeedSet, SeedModules, SeedLessons, SeedExercises, Insert, Statement

\* A statement of a script but the seed is one of these.
LEMMA OtherStatement ==
    ASSUME NEW a \in Scripts, a # "seed", NEW v \in Versions, NEW s \in StatementsOf(a, v)
    PROVE  \/ s.op = "upsert" /\ s.table # "passage"
           \/ s.op = "upsert" /\ a = "passages" /\ \E p \in Allowed(Passages[v]) : s = Upsert("passage", p.title, p.media, v)
           \/ s.op \in {"clear", "create"} /\ a \in {"vocab", "grammar"}
<1>2. CASE a = "generated"
  <2>1. PICK m \in ToSet(Modules[v]) : s \in ModuleSet(m, v)
    BY <1>2 DEF StatementsOf, GeneratedSet
  <2> QED
    BY <2>1 DEF ModuleSet, LessonSet, Upsert, Statement
<1>3. CASE a = "vocab"
  <2>1. PICK w \in Allowed(Words[v]) : s \in EntrySet(w, v)
    BY <1>3 DEF StatementsOf, VocabSet
  <2> QED
    BY <1>3, <2>1 DEF EntrySet, Creations, Upsert, Clear, Creation, Statement
<1>4. CASE a = "grammar"
  <2>1. PICK w \in Allowed(Points[v]) : s \in PointSet(w, v)
    BY <1>4 DEF StatementsOf, GrammarSet
  <2> QED
    BY <1>4, <2>1 DEF PointSet, Creations, Upsert, Clear, Creation, Statement
<1>5. CASE a = "passages"
  <2>1. PICK p \in Allowed(Passages[v]) : s \in PassageSet(p, v)
    BY <1>5 DEF StatementsOf, PassagesSet
  <2>2. CASE s = Upsert("passage", p.title, p.media, v)
    <3>1. s.op = "upsert"
      BY <2>2 DEF Upsert, Statement
    <3> QED
      BY <1>5, <2>2, <3>1
  <2>3. CASE s = Upsert("media", p.media, None, v)
    BY <2>3 DEF Upsert, Statement
  <2> QED
    BY <2>1, <2>2, <2>3 DEF PassageSet
<1>6. CASE a = "assessment"
  BY <1>6 DEF StatementsOf, AssessmentSet, Upsert, Statement
<1> QED
  BY <1>2, <1>3, <1>4, <1>5, <1>6, ScriptNames

\* A file gives a passage one audio.
LEMMA OneAudio ==
    ASSUME NEW a \in Scripts, a # "seed", NEW v \in Versions, NEW s \in StatementsOf(a, v), NEW t \in StatementsOf(a, v),
           Puts(s), Puts(t), Same(s, t), s.table = "passage"
    PROVE  s.parent = t.parent
<1>1. PICK p \in Allowed(Passages[v]) : s = Upsert("passage", p.title, p.media, v)
  BY OtherStatement DEF Puts
<1>2. PICK q \in Allowed(Passages[v]) : t = Upsert("passage", q.title, q.media, v)
  BY OtherStatement DEF Puts, Same
<1>3. p.title = q.title
  BY <1>1, <1>2 DEF Same, Upsert, Statement
<1>4. p \in ToSet(Passages[v]) /\ q \in ToSet(Passages[v])
  BY DEF Allowed
<1>5. \A x, y \in ToSet(Passages[v]) : x.title = y.title => x = y
  BY NamedOnce
<1> QED
  BY <1>1, <1>2, <1>3, <1>4, <1>5

\* Nothing of the fixtures is generated.
LEMMA FixturesApart ==
    ASSUME NEW s \in SeedSet, NEW v \in Versions, NEW t \in GeneratedSet(v)
    PROVE  ~Same(s, t)
<1>1. PICK n \in ToSet(Modules[v]) : t \in ModuleSet(n, v)
  BY DEF GeneratedSet
<1>2. n \in ToSet(Modules[1]) \cup ToSet(Modules[2]) /\ n \in AllModules
  BY DEF Versions, AllModules
<1>3. \A m \in ToSet(Fixtures) : m \in AllModules /\ m.id # n.id
  BY <1>2, FilesAssumption DEF AllModules
<1>4. \A m \in ToSet(Fixtures) : \A l \in ToSet(m.lessons), k \in ToSet(n.lessons) :
         l.id # k.id /\ ToSet(l.exerciseIds) \cap ToSet(k.exerciseIds) = {}
  BY <1>2, <1>3, FilesAssumption
<1>5. CASE s \in SeedModules
  <2>1. PICK m \in ToSet(Fixtures) : s = Insert("module", m.id, None)
    BY <1>5 DEF SeedModules
  <2>2. s.table = "module" /\ s.key = m.id
    BY <2>1 DEF Insert, Statement
  <2>3. t.table = "module" => t.key = n.id
    BY <1>1 DEF ModuleSet, LessonSet, Upsert, Statement
  <2> QED
    BY <1>3, <2>2, <2>3 DEF Same
<1>6. CASE s \in SeedLessons
  <2>1. PICK m \in ToSet(Fixtures) : \E l \in ToSet(m.lessons) : s = Insert("lesson", l.id, m.id)
    BY <1>6 DEF SeedLessons
  <2>2. PICK l \in ToSet(m.lessons) : s.table = "lesson" /\ s.key = l.id
    BY <2>1 DEF Insert, Statement
  <2>3. t.table = "lesson" => \E k \in ToSet(n.lessons) : t.key = k.id
    BY <1>1 DEF ModuleSet, LessonSet, Upsert, Statement
  <2> QED
    BY <1>4, <2>2, <2>3 DEF Same
<1>7. CASE s \in SeedExercises
  <2>1. PICK m \in ToSet(Fixtures) : \E l \in ToSet(m.lessons) : \E e \in ToSet(l.exerciseIds) : s = Insert("exercise", e, l.id)
    BY <1>7 DEF SeedExercises
  <2>2. PICK l \in ToSet(m.lessons) : s.table = "exercise" /\ s.key \in ToSet(l.exerciseIds)
    BY <2>1 DEF Insert, Statement
  <2>3. t.table = "exercise" => \E k \in ToSet(n.lessons) : t.key \in ToSet(k.exerciseIds)
    BY <1>1 DEF ModuleSet, LessonSet, Upsert, Statement
  <2>4. ASSUME Same(s, t) PROVE FALSE
    <3>1. PICK k \in ToSet(n.lessons) : t.key \in ToSet(k.exerciseIds)
      BY <2>2, <2>3, <2>4 DEF Same
    <3>2. s.key \in ToSet(l.exerciseIds) \cap ToSet(k.exerciseIds)
      BY <2>2, <2>4, <3>1 DEF Same
    <3> QED
      BY <1>4, <3>2
  <2> QED
    BY <2>4
<1> QED
  BY <1>5, <1>6, <1>7 DEF SeedSet

\* The parts of a thing are deleted before they are made.
Apart(a, v) == {p \in StatementsOf(a, v) \X StatementsOf(a, v) :
                   ~(p[1].op = "create" /\ p[2].op = "clear" /\ Same(p[1], p[2]))}

LEMMA ApartIs ==
    ASSUME NEW a, NEW v, NEW x \in StatementsOf(a, v), NEW y \in StatementsOf(a, v)
    PROVE  <<x, y>> \in Apart(a, v) <=> ~(x.op = "create" /\ y.op = "clear" /\ Same(x, y))
BY DEF Apart

\* A record whose statements clear first and create afterwards.
LEMMA ClearsFirst ==
    ASSUME NEW a, NEW v, NEW x, IsList(x), NEW y, IsList(y), ToSet(x) \subseteq StatementsOf(a, v), ToSet(y) \subseteq StatementsOf(a, v),
           \A s \in ToSet(x) : s.op # "create", \A s \in ToSet(y) : s.op # "clear"
    PROVE  Before(x \o y, Apart(a, v))
<1>1. Before(x, Apart(a, v))
  <2> SUFFICES ASSUME NEW i \in DOMAIN x, NEW j \in DOMAIN x PROVE <<x[i], x[j]>> \in Apart(a, v)
    BY DEF Before
  <2>1. x[i] \in ToSet(x) /\ x[j] \in ToSet(x)
    BY DEF ToSet
  <2> QED
    BY <2>1, ApartIs
<1>2. Before(y, Apart(a, v))
  <2> SUFFICES ASSUME NEW i \in DOMAIN y, NEW j \in DOMAIN y PROVE <<y[i], y[j]>> \in Apart(a, v)
    BY DEF Before
  <2>1. y[i] \in ToSet(y) /\ y[j] \in ToSet(y)
    BY DEF ToSet
  <2> QED
    BY <2>1, ApartIs
<1>3. ASSUME NEW s \in ToSet(x), NEW t \in ToSet(y) PROVE <<s, t>> \in Apart(a, v)
  BY ApartIs
<1> QED
  BY <1>1, <1>2, <1>3, BeforeConcat

LEMMA VocabOrder == ASSUME NEW v \in Versions PROVE Before(VocabMain(v), Apart("vocab", v))
<1> DEFINE g == [r \in ToSet(Words[v]) |-> Licensed(r, LoadEntry(r, v))]
<1>1. VocabMain(v) = Made(Words[v], g)
  BY Zenon DEF VocabMain, ForEach, Made, ToSet
<1>2. \A r \in ToSet(Words[v]) : g[r] = IF LicenseAllowed(r) THEN LoadEntry(r, v) ELSE <<>>
  BY DEF Licensed
<1> HIDE DEF g
<1>3. StatementsOf("vocab", v) = VocabSet(v)
  BY DEF StatementsOf
<1>4. ASSUME NEW r \in ToSet(Words[v]), LicenseAllowed(r)
      PROVE  IsList(LoadEntry(r, v)) /\ (\A s \in ToSet(LoadEntry(r, v)) : s.op \in {"clear", "create"} => s.key = r.lemma)
             /\ ToSet(LoadEntry(r, v)) \subseteq StatementsOf("vocab", v) /\ Before(LoadEntry(r, v), Apart("vocab", v))
  <2> DEFINE x == <<Upsert("entry", r.lemma, None, v), Clear("sense", r.lemma), Clear("pron", r.lemma)>>
             b == Create("sense", r.lemma, r.senses, v)
             c == Create("pron", r.lemma, r.prons, v)
  <2>1. IsList(LoadEntry(r, v)) /\ ToSet(LoadEntry(r, v)) = EntrySet(r, v)
    BY EntryList
  <2>2. \A s \in EntrySet(r, v) : s.op \in {"clear", "create"} => s.key = r.lemma
    BY DEF EntrySet, Creations, Upsert, Clear, Creation, Statement
  <2>3. EntrySet(r, v) \subseteq VocabSet(v)
    BY <1>4 DEF VocabSet, Allowed
  <2>4. IsList(x) /\ ToSet(x) = {Upsert("entry", r.lemma, None, v), Clear("sense", r.lemma), Clear("pron", r.lemma)}
    BY ListThree
  <2>5. r.senses \in Nat /\ r.prons \in Nat
    BY FilesAssumption
  <2>7. IsList(b) /\ IsList(c) /\ ToSet(b) = Creations("sense", r.lemma, r.senses, v)
        /\ ToSet(c) = Creations("pron", r.lemma, r.prons, v)
    BY <2>5, ListCreations
  <2>8. LoadEntry(r, v) = (x \o b) \o c
    BY DEF LoadEntry
  <2>9. \A s \in ToSet(x) : s.op # "create"
    BY <2>4 DEF Upsert, Clear, Statement
  <2>10. \A s \in ToSet(b) \cup ToSet(c) : s.op # "clear"
    BY <2>7 DEF Creations, Creation
  <2> HIDE DEF x, b, c
  <2>11. x \o (b \o c) = (x \o b) \o c
    <3> DEFINE T == (ToSet(x) \cup ToSet(b)) \cup ToSet(c)
    <3>1. x \in Seq(T) /\ b \in Seq(T) /\ c \in Seq(T)
      BY <2>4, <2>7, SeqMonotonic DEF IsList
    <3> HIDE DEF T
    <3> QED
      BY <3>1, ConcatAssociative
  <2>12. IsList(b \o c) /\ ToSet(b \o c) = ToSet(b) \cup ToSet(c)
    BY <2>7, ListConcat
  <2>13. ToSet(LoadEntry(r, v)) = ToSet(x) \cup ToSet(b \o c)
    <3>1. ToSet(x \o (b \o c)) = ToSet(x) \cup ToSet(b \o c)
      BY <2>4, <2>12, ListConcat
    <3> QED
      BY <2>8, <2>11, <3>1, Zenon
  <2>14. ToSet(x) \subseteq StatementsOf("vocab", v) /\ ToSet(b \o c) \subseteq StatementsOf("vocab", v)
    BY <1>3, <2>1, <2>3, <2>13
  <2>15. Before(x \o (b \o c), Apart("vocab", v))
    BY <2>4, <2>9, <2>10, <2>12, <2>14, ClearsFirst
  <2> QED
    BY <1>3, <2>1, <2>2, <2>3, <2>8, <2>11, <2>15
<1>5. \A r \in ToSet(Words[v]) : IsList(g[r]) /\ Before(g[r], Apart("vocab", v)) /\ ToSet(g[r]) \subseteq StatementsOf("vocab", v)
         /\ \A s \in ToSet(g[r]) : s.op \in {"clear", "create"} => s.key = r.lemma
  BY <1>2, <1>4, ListEmpty, BeforeOne
<1>6. (\A i, j \in DOMAIN Words[v] : Words[v][i] = Words[v][j] => i = j) /\ \A r, q \in ToSet(Words[v]) : r.lemma = q.lemma => r = q
  BY NamedOnce
<1>7. ASSUME NEW r \in ToSet(Words[v]), NEW q \in ToSet(Words[v]), r # q, NEW s \in ToSet(g[r]), NEW t \in ToSet(g[q])
      PROVE  <<s, t>> \in Apart("vocab", v)
  BY <1>5, <1>6, <1>7, ApartIs DEF Same
<1>8. Before(Made(Words[v], g), Apart("vocab", v))
  BY <1>5, <1>6, <1>7, Files, BeforeMade
<1> QED
  BY <1>1, <1>8

LEMMA GrammarOrder == ASSUME NEW v \in Versions PROVE Before(GrammarMain(v), Apart("grammar", v))
<1> DEFINE g == [r \in ToSet(Points[v]) |-> Licensed(r, LoadPoint(r, v))]
<1>1. GrammarMain(v) = Made(Points[v], g)
  BY Zenon DEF GrammarMain, ForEach, Made, ToSet
<1>2. \A r \in ToSet(Points[v]) : g[r] = IF LicenseAllowed(r) THEN LoadPoint(r, v) ELSE <<>>
  BY DEF Licensed
<1> HIDE DEF g
<1>3. StatementsOf("grammar", v) = GrammarSet(v)
  BY DEF StatementsOf
<1>4. ASSUME NEW r \in ToSet(Points[v]), LicenseAllowed(r)
      PROVE  IsList(LoadPoint(r, v)) /\ (\A s \in ToSet(LoadPoint(r, v)) : s.op \in {"clear", "create"} => s.key = r.title)
             /\ ToSet(LoadPoint(r, v)) \subseteq StatementsOf("grammar", v) /\ Before(LoadPoint(r, v), Apart("grammar", v))
  <2> DEFINE x == <<Upsert("point", r.title, None, v), Clear("example", r.title)>>
             b == Create("example", r.title, r.examples, v)
  <2>1. IsList(LoadPoint(r, v)) /\ ToSet(LoadPoint(r, v)) = PointSet(r, v)
    BY PointList
  <2>2. \A s \in PointSet(r, v) : s.op \in {"clear", "create"} => s.key = r.title
    BY DEF PointSet, Creations, Upsert, Clear, Creation, Statement
  <2>3. PointSet(r, v) \subseteq GrammarSet(v)
    BY <1>4 DEF GrammarSet, Allowed
  <2>4. IsList(x) /\ ToSet(x) = {Upsert("point", r.title, None, v), Clear("example", r.title)}
    BY ListTwo
  <2>5. r.examples \in Nat
    BY FilesAssumption
  <2>7. IsList(b) /\ ToSet(b) = Creations("example", r.title, r.examples, v)
    BY <2>5, ListCreations
  <2>8. LoadPoint(r, v) = x \o b
    BY DEF LoadPoint
  <2>9. \A s \in ToSet(x) : s.op # "create"
    BY <2>4 DEF Upsert, Clear, Statement
  <2>10. \A s \in ToSet(b) : s.op # "clear"
    BY <2>7 DEF Creations, Creation
  <2> HIDE DEF x, b
  <2>13. ToSet(LoadPoint(r, v)) = ToSet(x) \cup ToSet(b)
    BY <2>4, <2>7, <2>8, ListConcat
  <2>14. ToSet(x) \subseteq StatementsOf("grammar", v) /\ ToSet(b) \subseteq StatementsOf("grammar", v)
    BY <1>3, <2>1, <2>3, <2>13
  <2>15. Before(x \o b, Apart("grammar", v))
    BY <2>4, <2>7, <2>9, <2>10, <2>14, ClearsFirst
  <2> QED
    BY <1>3, <2>1, <2>2, <2>3, <2>8, <2>15
<1>5. \A r \in ToSet(Points[v]) : IsList(g[r]) /\ Before(g[r], Apart("grammar", v)) /\ ToSet(g[r]) \subseteq StatementsOf("grammar", v)
         /\ \A s \in ToSet(g[r]) : s.op \in {"clear", "create"} => s.key = r.title
  BY <1>2, <1>4, ListEmpty, BeforeOne
<1>6. (\A i, j \in DOMAIN Points[v] : Points[v][i] = Points[v][j] => i = j) /\ \A r, q \in ToSet(Points[v]) : r.title = q.title => r = q
  BY NamedOnce
<1>7. ASSUME NEW r \in ToSet(Points[v]), NEW q \in ToSet(Points[v]), r # q, NEW s \in ToSet(g[r]), NEW t \in ToSet(g[q])
      PROVE  <<s, t>> \in Apart("grammar", v)
  BY <1>5, <1>6, <1>7, ApartIs DEF Same
<1>8. Before(Made(Points[v], g), Apart("grammar", v))
  BY <1>5, <1>6, <1>7, Files, BeforeMade
<1> QED
  BY <1>1, <1>8

LEMMA ProgramOrder ==
    ASSUME NEW a \in Scripts, NEW v \in Versions, NEW i \in 1 .. Len(Programs[a][v]), NEW j \in 1 .. Len(Programs[a][v]), i < j
    PROVE  ~(Programs[a][v][i].op = "create" /\ Programs[a][v][j].op = "clear" /\ Same(Programs[a][v][i], Programs[a][v][j]))
<1> DEFINE P == Programs[a][v]
<1>1. P = Program(a, v) /\ DOMAIN P = 1 .. Len(P) /\ P[i] \in StatementsOf(a, v) /\ P[j] \in StatementsOf(a, v)
  BY ProgramOf, ProgramFacts
<1> HIDE DEF P
<1>2. CASE a = "seed"
  BY <1>1, <1>2, SeedStatement DEF P
<1>3. CASE a \notin {"seed", "vocab", "grammar"}
  BY <1>1, <1>3, OtherStatement DEF P
<1>4. CASE a = "vocab"
  <2>1. Before(P, Apart(a, v))
    BY <1>1, <1>4, VocabOrder DEF Program
  <2> QED
    BY <1>1, <2>1, ApartIs DEF Before, P
<1>5. CASE a = "grammar"
  <2>1. Before(P, Apart(a, v))
    BY <1>1, <1>5, GrammarOrder DEF Program
  <2> QED
    BY <1>1, <2>1, ApartIs DEF Before, P
<1> QED
  BY <1>2, <1>3, <1>4, <1>5

-----------------------------------------------------------------------------
(* What stands of a script's statements, one statement later.               *)

Child(s) == [table |-> s.table, key |-> s.key, rank |-> s.rank, v |-> s.v]
Creates(a, v, s) == {t \in StatementsOf(a, v) : t.op = "create" /\ Same(t, s)}
Created(a, v, s, k) == Kept(SubSeq(Programs[a][v], 1, k), Creates(a, v, s))
Parted(l, t, o) == Where(l, LAMBDA c : c.table = t /\ c.key = o)
Without(l, t, o) == Where(l, LAMBDA c : ~(c.table = t /\ c.key = o))

\* A row is as a statement left it, the parts of a thing as those after its clear did, and both
\* for all statements up to the k-th of a script.
Standing(s) == \E r \in ToSet(rows) : Same(r, s) /\ r.v = s.v /\ (s.table = "passage" /\ s.parent # None => r.parent = s.parent)
Restored(a, v, s, k) == ChildrenOf(s.table, s.key) = Dto(Created(a, v, s, k), Child)
Stands(a, v, k) ==
    \A j \in 1 .. k :
        /\ Puts(Programs[a][v][j]) => Standing(Programs[a][v][j])
        /\ Programs[a][v][j].op = "clear" => Restored(a, v, Programs[a][v][j], k)

LEMMA PartsKept ==
    ASSUME NEW l, IsList(l), NEW S, ToSet(l) \subseteq S, NEW t, NEW o
    PROVE  Parted(l, t, o) = Kept(l, {c \in S : c.table = t /\ c.key = o})
<1> DEFINE X == {c \in S : c.table = t /\ c.key = o}
<1>1. \A i \in DOMAIN l : l[i] \in X <=> l[i].table = t /\ l[i].key = o
  BY DEF ToSet
<1>2. Marked(l, X) = [i \in DOMAIN l |-> IF l[i].table = t /\ l[i].key = o THEN <<l[i]>> ELSE <<>>]
  BY <1>1 DEF Marked
<1> HIDE DEF X
<1>3. Parted(l, t, o) = Kept(l, X)
  BY <1>2, Zenon DEF Parted, Where, ForEach, Kept
<1> QED
  BY <1>3 DEF X

LEMMA LeftKept ==
    ASSUME NEW l, IsList(l), NEW t, NEW o
    PROVE  Without(l, t, o) = Kept(l, {c \in ToSet(l) : ~(c.table = t /\ c.key = o)})
<1> DEFINE X == {c \in ToSet(l) : ~(c.table = t /\ c.key = o)}
<1>1. \A i \in DOMAIN l : l[i] \in X <=> ~(l[i].table = t /\ l[i].key = o)
  BY DEF ToSet
<1>2. Marked(l, X) = [i \in DOMAIN l |-> IF ~(l[i].table = t /\ l[i].key = o) THEN <<l[i]>> ELSE <<>>]
  BY <1>1 DEF Marked
<1> HIDE DEF X
<1>3. Without(l, t, o) = Kept(l, X)
  BY <1>2, Zenon DEF Without, Where, ForEach, Kept
<1> QED
  BY <1>3 DEF X

LEMMA PartsList == ASSUME NEW l, IsList(l), NEW t, NEW o PROVE IsList(Parted(l, t, o))
<1> DEFINE X == {c \in ToSet(l) : c.table = t /\ c.key = o}
<1>1. Parted(l, t, o) = Kept(l, X)
  BY PartsKept
<1> HIDE DEF X
<1> QED
  BY <1>1, ListKept

LEMMA PartsAppended ==
    ASSUME NEW l, IsList(l), NEW x, NEW t, NEW o
    PROVE  Parted(Append(l, x), t, o) = IF x.table = t /\ x.key = o THEN Append(Parted(l, t, o), x) ELSE Parted(l, t, o)
<1> DEFINE S == ToSet(l) \cup {x}
           X == {c \in S : c.table = t /\ c.key = o}
<1>1. IsList(Append(l, x)) /\ ToSet(Append(l, x)) = S
  BY ListAppend
<1>2. x \in X <=> x.table = t /\ x.key = o
  OBVIOUS
<1> HIDE DEF S
<1>3. Parted(Append(l, x), t, o) = Kept(Append(l, x), X)
  BY <1>1, PartsKept
<1>4. ToSet(l) \subseteq S
  BY DEF S
<1>5. Parted(l, t, o) = Kept(l, X)
  BY <1>4, PartsKept
<1> HIDE DEF X
<1>6. Kept(Append(l, x), X) = IF x \in X THEN Append(Kept(l, X), x) ELSE Kept(l, X)
  BY KeptAppended
<1> QED
  BY <1>2, <1>3, <1>5, <1>6

LEMMA PartsLeft ==
    ASSUME NEW l, IsList(l), NEW t, NEW o, NEW p, NEW q
    PROVE  /\ IsList(Without(l, p, q))
           /\ Parted(Without(l, p, q), t, o) = IF t = p /\ o = q THEN <<>> ELSE Parted(l, t, o)
<1> DEFINE S == ToSet(l)
           Y == {c \in S : ~(c.table = p /\ c.key = q)}
           X == {c \in S : c.table = t /\ c.key = o}
           k == Without(l, p, q)
<1>1. k = Kept(l, Y)
  BY LeftKept
<1>2. X \cap Y = IF t = p /\ o = q THEN {} ELSE X
  OBVIOUS
<1>3. Parted(l, t, o) = Kept(l, X)
  BY PartsKept
<1> HIDE DEF k, Y
<1>4. IsList(k) /\ ToSet(k) = S \cap Y
  BY <1>1, ListKept
<1>5. ToSet(k) \subseteq S
  BY <1>4
<1>a. IsList(k)
  BY <1>4
<1> HIDE DEF S
<1>6. Parted(k, t, o) = Kept(k, X)
  BY <1>a, <1>5, PartsKept
<1> HIDE DEF X
<1>7. Kept(Kept(l, Y), X) = Kept(l, Y \cap X)
  BY KeptTwice
<1>8. Kept(l, {}) = <<>>
  <2>1. ToSet(l) \cap {} = {}
    OBVIOUS
  <2> QED
    BY <2>1, KeptNone
<1>9. Y \cap X = X \cap Y
  OBVIOUS
<1>10. Parted(k, t, o) = IF t = p /\ o = q THEN <<>> ELSE Parted(l, t, o)
  BY <1>1, <1>2, <1>3, <1>6, <1>7, <1>8, <1>9
<1> QED
  BY <1>4, <1>10 DEF k

\* What a statement makes of the parts.
LEMMA ChildrenStep ==
    ASSUME IsList(children), NEW s, s.op \in {"insert", "upsert", "clear", "create"}, children' = ChildrenAfter(s)
    PROVE  /\ IsList(children')
           /\ \A t, o : ChildrenOf(t, o)' =
                 IF s.op \in {"clear", "create"} /\ s.table = t /\ s.key = o
                 THEN IF s.op = "clear" THEN <<>> ELSE Append(ChildrenOf(t, o), Child(s))
                 ELSE ChildrenOf(t, o)
<1>1. \A t, o : ChildrenOf(t, o) = Parted(children, t, o) /\ ChildrenOf(t, o)' = Parted(children', t, o)
  BY Zenon DEF ChildrenOf, Parted, Where, ForEach
<1>2. CASE s.op = "clear"
  <2>0. ChildrenAfter(s) = Without(children, s.table, s.key)
    BY <1>2 DEF ChildrenAfter, Without, Where, ForEach
  <2>1. children' = Without(children, s.table, s.key)
    BY <2>0
  <2>2. IsList(children')
    BY <2>1, PartsLeft, Zenon
  <2>4. \A p, q, t, o : Parted(Without(children, p, q), t, o) = IF t = p /\ o = q THEN <<>> ELSE Parted(children, t, o)
    BY PartsLeft
  <2>3. ASSUME NEW t, NEW o PROVE Parted(children', t, o) = IF t = s.table /\ o = s.key THEN <<>> ELSE Parted(children, t, o)
    <3>1. Parted(Without(children, s.table, s.key), t, o) = IF t = s.table /\ o = s.key THEN <<>> ELSE Parted(children, t, o)
      BY <2>4
    <3> QED
      BY <2>1, <3>1
  <2> QED
    BY <1>1, <1>2, <2>2, <2>3
<1>3. CASE s.op = "create"
  <2>1. children' = Append(children, Child(s))
    BY <1>3 DEF ChildrenAfter, Child
  <2>2. IsList(children')
    BY <2>1, ListAppend
  <2>3. Child(s).table = s.table /\ Child(s).key = s.key
    BY DEF Child
  <2>4. ASSUME NEW t, NEW o
        PROVE  Parted(children', t, o) = IF s.table = t /\ s.key = o THEN Append(Parted(children, t, o), Child(s)) ELSE Parted(children, t, o)
    BY <2>1, <2>3, PartsAppended
  <2> QED
    BY <1>1, <1>3, <2>2, <2>4
<1>4. CASE s.op \in {"insert", "upsert"}
  <2>1. children' = children
    BY <1>4 DEF ChildrenAfter
  <2> QED
    BY <1>1, <1>4, <2>1
<1> QED
  BY <1>2, <1>3, <1>4

LEMMA DtoChildren ==
    ASSUME NEW l, IsList(l), NEW x
    PROVE  Dto(Append(l, x), Child) = Append(Dto(l, Child), Child(x)) /\ IsList(Dto(l, Child))
<1> DEFINE f == Dto(l, Child)
           h == Dto(Append(l, x), Child)
           n == Len(l)
<1>1. n \in Nat /\ DOMAIN l = 1 .. n /\ l \in Seq(ToSet(l))
  BY ListFacts DEF IsList
<1>2. DOMAIN Append(l, x) = 1 .. n + 1 /\ \A i \in 1 .. n + 1 : Append(l, x)[i] = IF i = n + 1 THEN x ELSE l[i]
  BY <1>1
<1>3. f = [i \in 1 .. n |-> Child(l[i])]
  BY <1>1, Zenon DEF Dto
<1>4. h = [i \in 1 .. n + 1 |-> Child(Append(l, x)[i])]
  BY <1>2, Zenon DEF Dto
<1> HIDE DEF f, h
<1>5. f = [i \in 1 .. n |-> f[i]] /\ \A i \in 1 .. n : f[i] = Child(l[i])
  BY <1>3
<1>6. IsList(f) /\ Len(f) = n
  BY <1>1, <1>5, ListIs
<1>7. Append(f, Child(x)) = [i \in 1 .. n + 1 |-> IF i = n + 1 THEN Child(x) ELSE f[i]]
  <2> DEFINE T == ToSet(f) \cup {Child(x)}
             y == Child(x)
  <2>1. f \in Seq(T) /\ y \in T
    BY <1>6, SeqMonotonic DEF IsList
  <2> HIDE DEF T, y
  <2>2. Append(f, y) = [i \in 1 .. Len(f) + 1 |-> IF i = Len(f) + 1 THEN y ELSE f[i]]
    BY <2>1, AppendIs
  <2> QED
    BY <1>6, <2>2 DEF y
<1>8. \A i \in 1 .. n + 1 : Child(Append(l, x)[i]) = IF i = n + 1 THEN Child(x) ELSE f[i]
  <2> SUFFICES ASSUME NEW i \in 1 .. n + 1 PROVE Child(Append(l, x)[i]) = IF i = n + 1 THEN Child(x) ELSE f[i]
    OBVIOUS
  <2>1. CASE i = n + 1
    BY <1>2, <2>1
  <2>2. CASE i # n + 1
    <3>1. i \in 1 .. n
      BY <1>1, <2>2
    <3> QED
      BY <1>2, <1>5, <2>2, <3>1
  <2> QED
    BY <2>1, <2>2
<1> HIDE DEF n
<1>9. h = Append(f, Child(x))
  BY <1>4, <1>7, <1>8, Zenon
<1> QED
  BY <1>6, <1>9 DEF f, h

LEMMA DtoNone == Dto(<<>>, Child) = <<>>
BY DEF Dto

\* What is created so far, one statement later.
LEMMA CreatedStep ==
    ASSUME NEW a \in Scripts, NEW v \in Versions, NEW s, NEW k \in Nat, k < Len(Programs[a][v])
    PROVE  /\ IsList(Created(a, v, s, k))
           /\ Created(a, v, s, k + 1) = IF Programs[a][v][k + 1].op = "create" /\ Same(Programs[a][v][k + 1], s)
                                        THEN Append(Created(a, v, s, k), Programs[a][v][k + 1]) ELSE Created(a, v, s, k)
<1> DEFINE P == Programs[a][v]
           X == Creates(a, v, s)
           l == SubSeq(P, 1, k)
<1>1. IsList(P) /\ Len(P) \in Nat /\ P[k + 1] \in StatementsOf(a, v)
  BY ProgramList, ProgramFacts
<1>2. P[k + 1] \in X <=> P[k + 1].op = "create" /\ Same(P[k + 1], s)
  BY <1>1 DEF Creates
<1> HIDE DEF P, X
<1>3. k < Len(P) /\ k \in 0 .. Len(P)
  BY <1>1 DEF P
<1>4. IsList(l) /\ SubSeq(P, 1, k + 1) = Append(l, P[k + 1])
  BY <1>1, <1>3, Beginning
<1> HIDE DEF l
<1>5. \A x : Kept(Append(l, x), X) = IF x \in X THEN Append(Kept(l, X), x) ELSE Kept(l, X)
  BY <1>4, KeptAppended
<1>6. IsList(Kept(l, X))
  BY <1>4, ListKept
<1>7. Created(a, v, s, k) = Kept(l, X) /\ Created(a, v, s, k + 1) = Kept(SubSeq(P, 1, k + 1), X)
  BY DEF Created, P, X, l
<1> QED
  BY <1>2, <1>4, <1>5, <1>6, <1>7 DEF P

\* A statement that a later one of the same script puts over still stands, and the later one does.
LEMMA StandingStays ==
    ASSUME CatalogueSound, NEW a \in Scripts, a # "seed", NEW v \in Versions,
           NEW s \in StatementsOf(a, v), NEW t \in StatementsOf(a, v), Puts(s), Standing(s), rows' = RowsAfter(t)
    PROVE  Standing(s)'
<1>1. IsList(rows) /\ \A r \in ToSet(rows) : r = [table |-> r.table, key |-> r.key, parent |-> r.parent, v |-> r.v]
  BY DEF CatalogueSound, RowSound
<1>2. PICK r \in ToSet(rows) : Same(r, s) /\ r.v = s.v /\ (s.table = "passage" /\ s.parent # None => r.parent = s.parent)
  BY DEF Standing
<1>3. CASE rows' = rows
  BY <1>2, <1>3 DEF Standing
<1>4. CASE rows' = Append(rows, Row(t))
  <2>1. ToSet(rows') = ToSet(rows) \cup {Row(t)}
    BY <1>1, <1>4, ListAppend
  <2> QED
    BY <1>2, <2>1 DEF Standing
<1>5. CASE rows' = Put(t) /\ t.op = "upsert"
  <2>1. ToSet(rows') = {Renewed(q, t) : q \in ToSet(rows)}
    BY <1>1, <1>5, PutList
  <2>2. Renewed(r, t) \in ToSet(rows')
    BY <2>1
  <2>3. CASE ~Same(r, t)
    <3>1. Renewed(r, t) = r
      BY <2>3 DEF Renewed
    <3> QED
      BY <1>2, <2>2, <3>1 DEF Standing
  <2>4. CASE Same(r, t)
    <3> DEFINE q == Renewed(r, t)
    <3>1. q = [r EXCEPT !.v = t.v, !.parent = Parent(r, t)]
      BY <2>4 DEF Renewed, Updated
    <3>2. q = [table |-> r.table, key |-> r.key, parent |-> Parent(r, t), v |-> t.v]
      BY <1>1, <3>1
    <3>3. Puts(t) /\ t.v = s.v
      <4>1. Puts(t)
        BY <1>5 DEF Puts
      <4>2. t.v = v /\ s.v = v
        BY <4>1, StatementForm
      <4> QED
        BY <4>1, <4>2
    <3>4. Same(s, t)
      BY <1>2, <2>4 DEF Same
    <3>5. s.table = "passage" => s.parent = t.parent
      BY <3>3, <3>4, OneAudio
    <3>6. s.table = "passage" /\ s.parent # None => Parent(r, t) = s.parent
      BY <3>4, <3>5 DEF Parent, Same
    <3> HIDE DEF q
    <3>7. Same(q, s) /\ q.v = s.v /\ (s.table = "passage" /\ s.parent # None => q.parent = s.parent)
      BY <1>2, <3>2, <3>3, <3>6 DEF Same
    <3>8. q \in ToSet(rows')
      BY <2>2 DEF q
    <3> QED
      BY <3>7, <3>8 DEF Standing
  <2> QED
    BY <2>3, <2>4
<1> QED
  BY <1>1, <1>3, <1>4, <1>5, RowsCases

LEMMA StandingNew ==
    ASSUME CatalogueSound, NEW a \in Scripts, a # "seed", NEW v \in Versions, NEW s \in StatementsOf(a, v), Puts(s), rows' = RowsAfter(s)
    PROVE  Standing(s)'
<1>1. IsList(rows) /\ \A r \in ToSet(rows) : r = [table |-> r.table, key |-> r.key, parent |-> r.parent, v |-> r.v]
  BY DEF CatalogueSound, RowSound
<1>2. s.op = "upsert"
  BY StatementForm
<1>3. CASE rows' = Append(rows, Row(s))
  <2>1. ToSet(rows') = ToSet(rows) \cup {Row(s)}
    BY <1>1, <1>3, ListAppend
  <2>2. Same(Row(s), s) /\ Row(s).v = s.v /\ Row(s).parent = s.parent
    BY DEF Row, Same
  <2> QED
    BY <2>1, <2>2 DEF Standing
<1>4. CASE At(s.table, s.key) # {} /\ rows' = Put(s)
  <2>1. PICK r \in ToSet(rows) : Same(r, s)
    BY <1>4 DEF At, Same
  <2>2. ToSet(rows') = {Renewed(q, s) : q \in ToSet(rows)}
    BY <1>1, <1>4, PutList
  <2> DEFINE q == Renewed(r, s)
  <2>3. q \in ToSet(rows')
    BY <2>2
  <2>4. q = [r EXCEPT !.v = s.v, !.parent = Parent(r, s)]
    BY <2>1 DEF Renewed, Updated
  <2>5. q = [table |-> r.table, key |-> r.key, parent |-> Parent(r, s), v |-> s.v]
    BY <1>1, <2>4
  <2>6. s.table = "passage" /\ s.parent # None => Parent(r, s) = s.parent
    BY DEF Parent
  <2> HIDE DEF q
  <2>7. Same(q, s) /\ q.v = s.v /\ (s.table = "passage" /\ s.parent # None => q.parent = s.parent)
    BY <2>1, <2>5, <2>6 DEF Same
  <2> QED
    BY <2>3, <2>7 DEF Standing
<1>5. (At(s.table, s.key) = {} /\ rows' = Append(rows, Row(s))) \/ (At(s.table, s.key) # {} /\ rows' = Put(s))
  BY <1>1, <1>2, RowsCases
<1> QED
  BY <1>3, <1>4, <1>5

\* A run that is alone takes its own next step.
LEMMA StandsStep ==
    ASSUME CatalogueSound, IsList(children), NEW a \in Scripts, a # "seed", NEW v \in Versions,
           NEW k \in Nat, k < Len(Programs[a][v]), Stands(a, v, k),
           rows' = RowsAfter(Programs[a][v][k + 1]), children' = ChildrenAfter(Programs[a][v][k + 1])
    PROVE  Stands(a, v, k + 1)'
<1> DEFINE P == Programs[a][v]
           t == P[k + 1]
<1>1. Len(P) \in Nat /\ \A n \in 1 .. Len(P) : P[n] \in StatementsOf(a, v)
  BY ProgramFacts
<1>2. k + 1 \in 1 .. Len(P) /\ \A j \in 1 .. k + 1 : j \in 1 .. Len(P) /\ (j = k + 1 \/ j \in 1 .. k)
  BY <1>1
<1>3. t \in StatementsOf(a, v) /\ t.op \in {"insert", "upsert", "clear", "create"}
  BY <1>1, <1>2, StatementForm
<1>4. rows' = RowsAfter(t) /\ children' = ChildrenAfter(t)
  OBVIOUS
<1>5. \A j \in 1 .. k : (Puts(P[j]) => Standing(P[j])) /\ (P[j].op = "clear" => Restored(a, v, P[j], k))
  BY DEF Stands
<1>6. \A p, o : ChildrenOf(p, o)' =
         IF t.op \in {"clear", "create"} /\ t.table = p /\ t.key = o
         THEN IF t.op = "clear" THEN <<>> ELSE Append(ChildrenOf(p, o), Child(t))
         ELSE ChildrenOf(p, o)
  BY <1>3, <1>4, ChildrenStep
<1>7. ASSUME NEW s
      PROVE  IsList(Created(a, v, s, k))
             /\ Created(a, v, s, k + 1) = IF t.op = "create" /\ Same(t, s) THEN Append(Created(a, v, s, k), t) ELSE Created(a, v, s, k)
  BY CreatedStep
<1>8. \A j \in 1 .. k : ~(P[j].op = "create" /\ t.op = "clear" /\ Same(P[j], t))
  <2> SUFFICES ASSUME NEW j \in 1 .. k PROVE ~(P[j].op = "create" /\ P[k + 1].op = "clear" /\ Same(P[j], P[k + 1]))
    OBVIOUS
  <2>1. j \in 1 .. Len(P) /\ j < k + 1
    BY <1>2
  <2> QED
    BY <1>2, <2>1, ProgramOrder
<1>0. P = Programs[a][v]
  OBVIOUS
<1> HIDE DEF P, t
<1>9. ASSUME t.op = "clear", NEW s, Same(s, t) PROVE Created(a, v, s, k + 1) = <<>>
  <2>1. \A j \in 1 .. k : P[j] \notin Creates(a, v, s)
    BY <1>8, <1>9 DEF Creates, Same
  <2>2. IsList(P) /\ k \in 0 .. Len(P)
    BY <1>0, <1>1, <1>2, ProgramList
  <2>3. IsList(SubSeq(P, 1, k)) /\ ToSet(SubSeq(P, 1, k)) = {P[j] : j \in 1 .. k}
    BY <2>2, Beginning
  <2>4. ToSet(SubSeq(P, 1, k)) \cap Creates(a, v, s) = {}
    BY <2>1, <2>3
  <2>5. Kept(SubSeq(P, 1, k), Creates(a, v, s)) = <<>>
    BY <2>3, <2>4, KeptNone
  <2> QED
    BY <1>0, <1>7, <1>9, <2>5 DEF Created
<1>10. ASSUME NEW j \in 1 .. k + 1, Puts(P[j]) PROVE Standing(P[j])'
  <2>1. P[j] \in StatementsOf(a, v)
    BY <1>1, <1>2
  <2>2. CASE j \in 1 .. k
    BY <1>3, <1>4, <1>5, <1>10, <2>1, <2>2, StandingStays
  <2>3. CASE j = k + 1
    BY <1>3, <1>4, <1>10, <2>3, StandingNew DEF t
  <2> QED
    BY <1>2, <2>2, <2>3
<1>11. ASSUME NEW j \in 1 .. k + 1, P[j].op = "clear" PROVE Restored(a, v, P[j], k + 1)'
  <2> DEFINE s == P[j]
             now == Created(a, v, s, k + 1)
  <2> SUFFICES ChildrenOf(s.table, s.key)' = Dto(now, Child)
    BY DEF Restored, Dto, Child, Created, Programs
  <2> HIDE DEF now
  <2>1. CASE t.op = "clear" /\ Same(s, t)
    <3>1. now = <<>>
      BY <1>9, <2>1 DEF now
    <3>2. ChildrenOf(s.table, s.key)' = <<>>
      BY <1>6, <2>1 DEF Same
    <3> QED
      BY <3>1, <3>2, DtoNone
  <2>2. CASE ~(t.op = "clear" /\ Same(s, t))
    <3>1. j \in 1 .. k
      BY <1>2, <1>11, <2>2 DEF Same, t
    <3>2. ChildrenOf(s.table, s.key) = Dto(Created(a, v, s, k), Child)
      BY <1>5, <1>11, <3>1 DEF Restored
    <3>3. CASE t.op = "create" /\ Same(t, s)
      <4>1. now = Append(Created(a, v, s, k), t)
        BY <1>7, <3>3 DEF now
      <4>2. ChildrenOf(s.table, s.key)' = Append(ChildrenOf(s.table, s.key), Child(t))
        BY <1>6, <3>3 DEF Same
      <4>3. IsList(Created(a, v, s, k))
        BY <1>7
      <4>4. Dto(Append(Created(a, v, s, k), t), Child) = Append(Dto(Created(a, v, s, k), Child), Child(t))
        BY <4>3, DtoChildren
      <4> QED
        BY <3>2, <4>1, <4>2, <4>4
    <3>4. CASE ~(t.op = "create" /\ Same(t, s))
      <4>1. now = Created(a, v, s, k)
        BY <1>7, <3>4 DEF now
      <4>2. ChildrenOf(s.table, s.key)' = ChildrenOf(s.table, s.key)
        BY <1>6, <2>2, <3>4 DEF Same
      <4> QED
        BY <3>2, <4>1, <4>2
    <3> QED
      BY <3>3, <3>4
  <2> QED
    BY <2>1, <2>2
<1> QED
  BY <1>0, <1>10, <1>11 DEF Stands

-----------------------------------------------------------------------------
(* The seed: no two of its statements make the same row.                    *)

\* The fixtures and what is in them are named once.
LEMMA FixturesOnce ==
    /\ \A i, j \in DOMAIN Fixtures : Fixtures[i] = Fixtures[j] => i = j
    /\ \A m, n \in ToSet(Fixtures) : m.id = n.id => m = n
    /\ \A m \in ToSet(Fixtures) : m \in AllModules
<1>1. \A i, j \in DOMAIN Fixtures : Fixtures[i].id = Fixtures[j].id => i = j
  BY FilesAssumption DEF Once
<1>2. \A m, n \in ToSet(Fixtures) : m.id = n.id => m = n
  BY <1>1 DEF ToSet
<1> QED
  BY <1>1, <1>2 DEF AllModules

LEMMA LessonsOnce ==
    ASSUME NEW m \in AllModules
    PROVE  /\ \A i, j \in DOMAIN m.lessons : m.lessons[i] = m.lessons[j] => i = j
           /\ \A k, l \in ToSet(m.lessons) : k.id = l.id => k = l
           /\ \A l \in ToSet(m.lessons) : \A i, j \in DOMAIN l.exerciseIds : l.exerciseIds[i] = l.exerciseIds[j] => i = j
<1>1. \A i, j \in DOMAIN m.lessons : m.lessons[i].id = m.lessons[j].id => i = j
  BY FilesAssumption DEF Once
<1>2. \A k, l \in ToSet(m.lessons) : k.id = l.id => k = l
  BY <1>1 DEF ToSet
<1>3. \A l \in ToSet(m.lessons) : \A i, j \in DOMAIN l.exerciseIds : l.exerciseIds[i] = l.exerciseIds[j] => i = j
  BY FilesAssumption DEF Once
<1> QED
  BY <1>1, <1>2, <1>3

\* No two statements of the seed make the same row.
Different == {p \in SeedSet \X SeedSet : ~Same(p[1], p[2])}

LEMMA DifferentIs == ASSUME NEW x \in SeedSet, NEW y \in SeedSet PROVE <<x, y>> \in Different <=> ~Same(x, y)
BY DEF Different

LEMMA ModuleFixturesDiffer == Before(ModuleFixtures, Different) /\ IsList(ModuleFixtures) /\ ToSet(ModuleFixtures) = SeedModules
<1> DEFINE g == [m \in ToSet(Fixtures) |-> <<Insert("module", m.id, None)>>]
<1>1. ModuleFixtures = Made(Fixtures, g)
  BY Zenon DEF ModuleFixtures, ForEach, Made, ToSet
<1>2. \A m \in ToSet(Fixtures) : IsList(g[m]) /\ ToSet(g[m]) = {Insert("module", m.id, None)}
  BY ListOne
<1>3. \A m \in ToSet(Fixtures) : Before(g[m], Different)
  BY BeforeOne
<1> HIDE DEF g
<1>4. \A m \in ToSet(Fixtures) : Insert("module", m.id, None) \in SeedSet
  BY DEF SeedSet, SeedModules
<1>5. ASSUME NEW m \in ToSet(Fixtures), NEW n \in ToSet(Fixtures), m # n, NEW x \in ToSet(g[m]), NEW y \in ToSet(g[n]) PROVE <<x, y>> \in Different
  <2>1. x = Insert("module", m.id, None) /\ y = Insert("module", n.id, None)
    BY <1>2
  <2>2. m.id # n.id
    BY <1>5, FixturesOnce
  <2>3. x.key # y.key
    BY <2>1, <2>2 DEF Insert, Statement
  <2> QED
    BY <1>4, <2>1, <2>3, DifferentIs DEF Same
<1>6. Before(Made(Fixtures, g), Different)
  BY <1>2, <1>3, <1>5, FixturesOnce, Files, BeforeMade
<1>7. IsList(Made(Fixtures, g)) /\ ToSet(Made(Fixtures, g)) = UNION {ToSet(g[m]) : m \in ToSet(Fixtures)}
  BY <1>2, Files, ListMade
<1>8. UNION {ToSet(g[m]) : m \in ToSet(Fixtures)} = SeedModules
  BY <1>2 DEF SeedModules
<1> QED
  BY <1>1, <1>6, <1>7, <1>8

LEMMA LessonFixturesDiffer == Before(LessonFixtures, Different) /\ IsList(LessonFixtures) /\ ToSet(LessonFixtures) = SeedLessons
<1> DEFINE g == [m \in ToSet(Fixtures) |-> ForEach(m.lessons, LAMBDA l : <<Insert("lesson", l.id, m.id)>>)]
<1>1. LessonFixtures = Made(Fixtures, g)
  BY Zenon DEF LessonFixtures, ForEach, Made, ToSet
<1>4. \A m \in ToSet(Fixtures) : \A l \in ToSet(m.lessons) : Insert("lesson", l.id, m.id) \in SeedSet
  BY DEF SeedSet, SeedLessons
<1>2. ASSUME NEW m \in ToSet(Fixtures)
      PROVE  IsList(g[m]) /\ ToSet(g[m]) = {Insert("lesson", l.id, m.id) : l \in ToSet(m.lessons)} /\ Before(g[m], Different)
  <2> DEFINE h == [l \in ToSet(m.lessons) |-> <<Insert("lesson", l.id, m.id)>>]
  <2>1. g[m] = Made(m.lessons, h)
    BY Zenon DEF ForEach, Made, ToSet
  <2>2. \A l \in ToSet(m.lessons) : IsList(h[l]) /\ ToSet(h[l]) = {Insert("lesson", l.id, m.id)}
    BY ListOne
  <2>3. \A l \in ToSet(m.lessons) : Before(h[l], Different)
    BY BeforeOne
  <2> HIDE DEF g, h
  <2>4. m \in AllModules /\ IsList(m.lessons)
    BY Files, FixturesOnce
  <2>5. ASSUME NEW k \in ToSet(m.lessons), NEW l \in ToSet(m.lessons), k # l, NEW x \in ToSet(h[k]), NEW y \in ToSet(h[l]) PROVE <<x, y>> \in Different
    <3>1. x = Insert("lesson", k.id, m.id) /\ y = Insert("lesson", l.id, m.id)
      BY <2>2
    <3>2. k.id # l.id
      BY <2>4, <2>5, LessonsOnce
    <3>3. x.key # y.key
      BY <3>1, <3>2 DEF Insert, Statement
    <3> QED
      BY <1>4, <3>1, <3>3, DifferentIs DEF Same
  <2>6. \A i, j \in DOMAIN m.lessons : m.lessons[i] = m.lessons[j] => i = j
    BY <2>4, LessonsOnce
  <2>7. Before(Made(m.lessons, h), Different)
    BY <2>2, <2>3, <2>4, <2>5, <2>6, BeforeMade
  <2>8. IsList(Made(m.lessons, h)) /\ ToSet(Made(m.lessons, h)) = UNION {ToSet(h[l]) : l \in ToSet(m.lessons)}
    BY <2>2, <2>4, ListMade
  <2>9. UNION {ToSet(h[l]) : l \in ToSet(m.lessons)} = {Insert("lesson", l.id, m.id) : l \in ToSet(m.lessons)}
    BY <2>2
  <2> QED
    BY <2>1, <2>7, <2>8, <2>9, Zenon
<1> HIDE DEF g
<1>5. ASSUME NEW m \in ToSet(Fixtures), NEW n \in ToSet(Fixtures), m # n, NEW x \in ToSet(g[m]), NEW y \in ToSet(g[n]) PROVE <<x, y>> \in Different
  <2>1. PICK k \in ToSet(m.lessons) : x = Insert("lesson", k.id, m.id)
    BY <1>2
  <2>2. PICK l \in ToSet(n.lessons) : y = Insert("lesson", l.id, n.id)
    BY <1>2
  <2>3. m.id # n.id /\ m \in AllModules /\ n \in AllModules
    BY <1>5, FixturesOnce
  <2>4. k.id # l.id
    BY <2>3, FilesAssumption
  <2>5. x.key # y.key
    BY <2>1, <2>2, <2>4 DEF Insert, Statement
  <2> QED
    BY <1>4, <2>1, <2>2, <2>5, DifferentIs DEF Same
<1>6. Before(Made(Fixtures, g), Different)
  BY <1>2, <1>5, FixturesOnce, Files, BeforeMade
<1>7. IsList(Made(Fixtures, g)) /\ ToSet(Made(Fixtures, g)) = UNION {ToSet(g[m]) : m \in ToSet(Fixtures)}
  BY <1>2, Files, ListMade
<1>9. {ToSet(g[m]) : m \in ToSet(Fixtures)} = {{Insert("lesson", l.id, m.id) : l \in ToSet(m.lessons)} : m \in ToSet(Fixtures)}
  <2>1. \A m \in ToSet(Fixtures) : ToSet(g[m]) = {Insert("lesson", l.id, m.id) : l \in ToSet(m.lessons)}
    BY <1>2
  <2>2. ASSUME NEW x \in {ToSet(g[m]) : m \in ToSet(Fixtures)} PROVE x \in {{Insert("lesson", l.id, m.id) : l \in ToSet(m.lessons)} : m \in ToSet(Fixtures)}
    <3>1. PICK m \in ToSet(Fixtures) : x = ToSet(g[m])
      OBVIOUS
    <3> QED
      BY <2>1, <3>1
  <2>3. ASSUME NEW x \in {{Insert("lesson", l.id, m.id) : l \in ToSet(m.lessons)} : m \in ToSet(Fixtures)} PROVE x \in {ToSet(g[m]) : m \in ToSet(Fixtures)}
    <3>1. PICK m \in ToSet(Fixtures) : x = {Insert("lesson", l.id, m.id) : l \in ToSet(m.lessons)}
      OBVIOUS
    <3> QED
      BY <2>1, <3>1
  <2> QED
    BY <2>2, <2>3, Zenon
<1>8. UNION {ToSet(g[m]) : m \in ToSet(Fixtures)} = SeedLessons
  BY <1>9 DEF SeedLessons
<1> QED
  BY <1>1, <1>6, <1>7, <1>8

LEMMA ExerciseFixturesDiffer == Before(ExerciseFixtures, Different) /\ IsList(ExerciseFixtures) /\ ToSet(ExerciseFixtures) = SeedExercises
<1> DEFINE g == [m \in ToSet(Fixtures) |-> ForEach(m.lessons, LAMBDA l : ForEach(l.exerciseIds, LAMBDA e : <<Insert("exercise", e, l.id)>>))]
<1>1. ExerciseFixtures = Made(Fixtures, g)
  BY Zenon DEF ExerciseFixtures, ForEach, Made, ToSet
<1>4. \A m \in ToSet(Fixtures) : \A l \in ToSet(m.lessons) : \A e \in ToSet(l.exerciseIds) : Insert("exercise", e, l.id) \in SeedSet
  BY DEF SeedSet, SeedExercises
<1>2. ASSUME NEW m \in ToSet(Fixtures)
      PROVE  /\ IsList(g[m]) /\ ToSet(g[m]) = UNION {{Insert("exercise", e, l.id) : e \in ToSet(l.exerciseIds)} : l \in ToSet(m.lessons)}
             /\ Before(g[m], Different)
  <2> DEFINE h == [l \in ToSet(m.lessons) |-> ForEach(l.exerciseIds, LAMBDA e : <<Insert("exercise", e, l.id)>>)]
  <2>1. g[m] = Made(m.lessons, h)
    BY Zenon DEF ForEach, Made, ToSet
  <2>4. m \in AllModules /\ IsList(m.lessons)
    BY Files, FixturesOnce
  <2>2. ASSUME NEW l \in ToSet(m.lessons)
        PROVE  IsList(h[l]) /\ ToSet(h[l]) = {Insert("exercise", e, l.id) : e \in ToSet(l.exerciseIds)} /\ Before(h[l], Different)
    <3> DEFINE k == [e \in ToSet(l.exerciseIds) |-> <<Insert("exercise", e, l.id)>>]
    <3>1. h[l] = Made(l.exerciseIds, k)
      BY Zenon DEF ForEach, Made, ToSet
    <3>2. \A e \in ToSet(l.exerciseIds) : IsList(k[e]) /\ ToSet(k[e]) = {Insert("exercise", e, l.id)}
      BY ListOne
    <3>3. \A e \in ToSet(l.exerciseIds) : Before(k[e], Different)
      BY BeforeOne
    <3> HIDE DEF g, h, k
    <3>4. IsList(l.exerciseIds)
      BY <2>4, Files
    <3>5. ASSUME NEW d \in ToSet(l.exerciseIds), NEW e \in ToSet(l.exerciseIds), d # e, NEW x \in ToSet(k[d]), NEW y \in ToSet(k[e])
          PROVE  <<x, y>> \in Different
      <4>1. x = Insert("exercise", d, l.id) /\ y = Insert("exercise", e, l.id)
        BY <3>2
      <4>2. x.key # y.key
        BY <3>5, <4>1 DEF Insert, Statement
      <4> QED
        BY <1>4, <4>1, <4>2, DifferentIs DEF Same
    <3>6. \A i, j \in DOMAIN l.exerciseIds : l.exerciseIds[i] = l.exerciseIds[j] => i = j
      BY <2>4, LessonsOnce
    <3>7. Before(Made(l.exerciseIds, k), Different)
      BY <3>2, <3>3, <3>4, <3>5, <3>6, BeforeMade
    <3>8. IsList(Made(l.exerciseIds, k)) /\ ToSet(Made(l.exerciseIds, k)) = UNION {ToSet(k[e]) : e \in ToSet(l.exerciseIds)}
      BY <3>2, <3>4, ListMade
    <3>9. UNION {ToSet(k[e]) : e \in ToSet(l.exerciseIds)} = {Insert("exercise", e, l.id) : e \in ToSet(l.exerciseIds)}
      BY <3>2
    <3> QED
      BY <3>1, <3>7, <3>8, <3>9, Zenon
  <2> HIDE DEF g, h
  <2>5. ASSUME NEW k \in ToSet(m.lessons), NEW l \in ToSet(m.lessons), k # l, NEW x \in ToSet(h[k]), NEW y \in ToSet(h[l]) PROVE <<x, y>> \in Different
    <3>1. PICK d \in ToSet(k.exerciseIds) : x = Insert("exercise", d, k.id)
      BY <2>2
    <3>2. PICK e \in ToSet(l.exerciseIds) : y = Insert("exercise", e, l.id)
      BY <2>2
    <3>3. k.id # l.id
      BY <2>4, <2>5, LessonsOnce
    <3>4. ToSet(k.exerciseIds) \cap ToSet(l.exerciseIds) = {}
      BY <2>4, <3>3, FilesAssumption
    <3>5. x.key # y.key
      BY <3>1, <3>2, <3>4 DEF Insert, Statement
    <3> QED
      BY <1>4, <3>1, <3>2, <3>5, DifferentIs DEF Same
  <2>6. \A i, j \in DOMAIN m.lessons : m.lessons[i] = m.lessons[j] => i = j
    BY <2>4, LessonsOnce
  <2>7. Before(Made(m.lessons, h), Different)
    BY <2>2, <2>4, <2>5, <2>6, BeforeMade
  <2>8. IsList(Made(m.lessons, h)) /\ ToSet(Made(m.lessons, h)) = UNION {ToSet(h[l]) : l \in ToSet(m.lessons)}
    BY <2>2, <2>4, ListMade
  <2>9. {ToSet(h[l]) : l \in ToSet(m.lessons)} = {{Insert("exercise", e, l.id) : e \in ToSet(l.exerciseIds)} : l \in ToSet(m.lessons)}
    <3>1. \A l \in ToSet(m.lessons) : ToSet(h[l]) = {Insert("exercise", e, l.id) : e \in ToSet(l.exerciseIds)}
      BY <2>2
    <3>2. ASSUME NEW x \in {ToSet(h[l]) : l \in ToSet(m.lessons)} PROVE x \in {{Insert("exercise", e, l.id) : e \in ToSet(l.exerciseIds)} : l \in ToSet(m.lessons)}
      <4>1. PICK l \in ToSet(m.lessons) : x = ToSet(h[l])
        OBVIOUS
      <4> QED
        BY <3>1, <4>1
    <3>3. ASSUME NEW x \in {{Insert("exercise", e, l.id) : e \in ToSet(l.exerciseIds)} : l \in ToSet(m.lessons)} PROVE x \in {ToSet(h[l]) : l \in ToSet(m.lessons)}
      <4>1. PICK l \in ToSet(m.lessons) : x = {Insert("exercise", e, l.id) : e \in ToSet(l.exerciseIds)}
        OBVIOUS
      <4> QED
        BY <3>1, <4>1
    <3> QED
      BY <3>2, <3>3, Zenon
  <2> QED
    BY <2>1, <2>7, <2>8, <2>9, Zenon
<1> HIDE DEF g
<1>5. ASSUME NEW m \in ToSet(Fixtures), NEW n \in ToSet(Fixtures), m # n, NEW x \in ToSet(g[m]), NEW y \in ToSet(g[n]) PROVE <<x, y>> \in Different
  <2>1. PICK k \in ToSet(m.lessons) : \E d \in ToSet(k.exerciseIds) : x = Insert("exercise", d, k.id)
    BY <1>2
  <2>2. PICK l \in ToSet(n.lessons) : \E e \in ToSet(l.exerciseIds) : y = Insert("exercise", e, l.id)
    BY <1>2
  <2>3. m.id # n.id /\ m \in AllModules /\ n \in AllModules
    BY <1>5, FixturesOnce
  <2>4. k.id # l.id
    BY <2>3, FilesAssumption
  <2>5. ToSet(k.exerciseIds) \cap ToSet(l.exerciseIds) = {}
    BY <2>3, <2>4, FilesAssumption
  <2>6. PICK d \in ToSet(k.exerciseIds) : x = Insert("exercise", d, k.id)
    BY <2>1
  <2>7. PICK e \in ToSet(l.exerciseIds) : y = Insert("exercise", e, l.id)
    BY <2>2
  <2>8. x.key # y.key
    BY <2>5, <2>6, <2>7 DEF Insert, Statement
  <2> QED
    BY <1>4, <2>6, <2>7, <2>8, DifferentIs DEF Same
<1>6. Before(Made(Fixtures, g), Different)
  BY <1>2, <1>5, FixturesOnce, Files, BeforeMade
<1>7. IsList(Made(Fixtures, g)) /\ ToSet(Made(Fixtures, g)) = UNION {ToSet(g[m]) : m \in ToSet(Fixtures)}
  BY <1>2, Files, ListMade
<1>9. {ToSet(g[m]) : m \in ToSet(Fixtures)}
      = {UNION {{Insert("exercise", e, l.id) : e \in ToSet(l.exerciseIds)} : l \in ToSet(m.lessons)} : m \in ToSet(Fixtures)}
  BY <1>2
<1>8. UNION {ToSet(g[m]) : m \in ToSet(Fixtures)} = SeedExercises
  BY <1>9, Zenon DEF SeedExercises
<1> QED
  BY <1>1, <1>6, <1>7, <1>8

LEMMA SeedDiffers == \A i, j \in 1 .. Len(SeedMain) : i < j => ~Same(SeedMain[i], SeedMain[j])
<1> DEFINE x == ModuleFixtures  y == LessonFixtures  z == ExerciseFixtures
<1>1. Before(x, Different) /\ IsList(x) /\ ToSet(x) = SeedModules
  BY ModuleFixturesDiffer
<1>2. Before(y, Different) /\ IsList(y) /\ ToSet(y) = SeedLessons
  BY LessonFixturesDiffer
<1>3. Before(z, Different) /\ IsList(z) /\ ToSet(z) = SeedExercises
  BY ExerciseFixturesDiffer
<1>4. /\ \A s \in SeedModules : s.table = "module" /\ s \in SeedSet
      /\ \A s \in SeedLessons : s.table = "lesson" /\ s \in SeedSet
      /\ \A s \in SeedExercises : s.table = "exercise" /\ s \in SeedSet
  BY DEF SeedSet, SeedModules, SeedLessons, SeedExercises, Insert, Statement
<1>5. SeedMain = (x \o y) \o z
  BY DEF SeedMain
<1> HIDE DEF x, y, z
<1>6. \A s \in ToSet(x), t \in ToSet(y) : <<s, t>> \in Different
  BY <1>1, <1>2, <1>4, DifferentIs DEF Same
<1>7. Before(x \o y, Different) /\ IsList(x \o y) /\ ToSet(x \o y) = ToSet(x) \cup ToSet(y)
  BY <1>1, <1>2, <1>6, BeforeConcat, ListConcat
<1>8. \A s \in ToSet(x \o y), t \in ToSet(z) : <<s, t>> \in Different
  BY <1>1, <1>2, <1>3, <1>4, <1>7, DifferentIs DEF Same
<1>9. Before((x \o y) \o z, Different)
  BY <1>3, <1>7, <1>8, BeforeConcat
<1>10. DOMAIN SeedMain = 1 .. Len(SeedMain) /\ \A i \in 1 .. Len(SeedMain) : SeedMain[i] \in SeedSet
  BY SeedList, ListFacts
<1>11. Before(SeedMain, Different)
  BY <1>5, <1>9
<1> QED
  BY <1>10, <1>11, DifferentIs DEF Before

-----------------------------------------------------------------------------
(* The rows of the fixtures, which nobody touches once they are there.      *)

\* The rows of the fixtures are those of the first n statements of the seed, in their order.
FixtureRows == {Row(s) : s \in SeedSet}
Prefix(n) == [i \in 1 .. n |-> Row(SeedMain[i])]
Exact(n) ==
    /\ \A r \in ToSet(rows) : \A s \in SeedSet : Same(r, s) => r = Row(s)
    /\ n \in 0 .. Len(SeedMain) /\ Kept(rows, FixtureRows) = Prefix(n)

LEMMA SeedFacts ==
    /\ IsList(SeedMain) /\ Len(SeedMain) \in Nat /\ ToSet(SeedMain) = SeedSet
    /\ DOMAIN SeedMain = 1 .. Len(SeedMain) /\ \A i \in 1 .. Len(SeedMain) : SeedMain[i] \in SeedSet
BY SeedList, ListFacts

LEMMA RowIs == ASSUME NEW s PROVE Same(Row(s), s) /\ Row(s).table = s.table /\ Row(s).key = s.key /\ Row(s).v = s.v /\ Row(s).parent = s.parent
BY DEF Same, Row

\* Two statements of the seed that make the same row say the same.
LEMMA SameSeed == ASSUME NEW s \in SeedSet, NEW t \in SeedSet, Same(s, t) PROVE Row(s) = Row(t)
<1>1. s \in StatementsOf("seed", 1) /\ t \in StatementsOf("seed", 1) /\ 1 \in Versions /\ "seed" \in Scripts
  BY ScriptNames DEF StatementsOf, Versions
<1>2. s.op = "insert" /\ t.op = "insert" /\ s.v = 1 /\ t.v = 1 /\ s.table # "passage"
  BY <1>1, SeedStatement
<1>3. s.parent = t.parent
  BY <1>1, <1>2, OneParent DEF Puts
<1> QED
  BY <1>2, <1>3 DEF Same, Row

LEMMA PrefixList ==
    ASSUME NEW n \in 0 .. Len(SeedMain)
    PROVE  /\ IsList(Prefix(n)) /\ Len(Prefix(n)) = n /\ ToSet(Prefix(n)) = {Row(SeedMain[i]) : i \in 1 .. n}
           /\ Append(Prefix(n), Row(SeedMain[n + 1])) = Prefix(n + 1)
<1> DEFINE f == Prefix(n)
<1>1. n \in Nat
  BY SeedFacts
<1>2. f = [i \in 1 .. n |-> f[i]] /\ (\A i \in 1 .. n : f[i] = Row(SeedMain[i])) /\ n \in Nat
  BY <1>1 DEF Prefix
<1> HIDE DEF f
<1>3. IsList(f) /\ Len(f) = n /\ ToSet(f) = {f[i] : i \in 1 .. n}
  BY <1>2, ListIs
<1>4. ToSet(f) = {Row(SeedMain[i]) : i \in 1 .. n}
  BY <1>2, <1>3
<1> DEFINE x == Row(SeedMain[n + 1])
<1>5. Append(f, x) = [i \in 1 .. n + 1 |-> IF i = n + 1 THEN x ELSE f[i]]
  <2> DEFINE T == ToSet(f) \cup {x}
  <2>1. f \in Seq(T) /\ x \in T
    BY <1>3, SeqMonotonic DEF IsList
  <2> HIDE DEF T, x
  <2>2. Append(f, x) = [i \in 1 .. Len(f) + 1 |-> IF i = Len(f) + 1 THEN x ELSE f[i]]
    BY <2>1, AppendIs
  <2> QED
    BY <1>3, <2>2
<1>6. \A i \in 1 .. n + 1 : Row(SeedMain[i]) = IF i = n + 1 THEN x ELSE f[i]
  <2> SUFFICES ASSUME NEW i \in 1 .. n + 1 PROVE Row(SeedMain[i]) = IF i = n + 1 THEN x ELSE f[i]
    OBVIOUS
  <2>1. i = n + 1 \/ i \in 1 .. n
    BY <1>1
  <2> HIDE DEF x
  <2>2. CASE i = n + 1
    BY <2>2 DEF x
  <2>3. CASE i # n + 1
    BY <1>2, <2>1, <2>3
  <2> QED
    BY <2>2, <2>3
<1> HIDE DEF x
<1>7. Prefix(n + 1) = [i \in 1 .. n + 1 |-> Row(SeedMain[i])]
  BY DEF Prefix
<1>8. Append(f, x) = Prefix(n + 1)
  BY <1>5, <1>6, <1>7, Zenon
<1> QED
  BY <1>3, <1>4, <1>8 DEF f, x

\* A statement of a run of the seed that is at most one further than the rows.
LEMMA SeedSteps ==
    ASSUME IsList(rows), NEW n, Exact(n), NEW k \in 1 .. n + 1, k <= Len(SeedMain), rows' = RowsAfter(SeedMain[k])
    PROVE  \E m \in {n, n + 1} : k <= m /\ m <= Len(SeedMain) /\ Exact(m)'
<1> DEFINE s == SeedMain[k]
           X == FixtureRows
<1>1. /\ \A r \in ToSet(rows) : \A t \in SeedSet : Same(r, t) => r = Row(t)
      /\ n \in 0 .. Len(SeedMain) /\ Kept(rows, X) = Prefix(n)
  BY DEF Exact
<1>2. Len(SeedMain) \in Nat /\ k \in 1 .. Len(SeedMain) /\ s \in SeedSet
  BY <1>1, SeedFacts
<1>3. "seed" \in Scripts /\ 1 \in Versions /\ s \in StatementsOf("seed", 1)
  BY <1>2, ScriptNames DEF Versions, StatementsOf
<1>4. s.op = "insert" /\ Puts(s)
  BY <1>3, SeedStatement DEF Puts
<1>5. Row(s) \in X
  BY <1>2 DEF FixtureRows
<1>6. ToSet(rows) \cap X = {Row(SeedMain[i]) : i \in 1 .. n}
  <2>1. ToSet(Kept(rows, X)) = ToSet(rows) \cap X
    BY ListKept
  <2> QED
    BY <1>1, <2>1, PrefixList
<1>7. rows' = RowsAfter(s)
  OBVIOUS
<1> HIDE DEF s, X
<1>8. CASE At(s.table, s.key) # {} /\ rows' = rows
  <2>1. PICK r \in ToSet(rows) : Same(r, s)
    BY <1>8 DEF At, Same
  <2>2. r = Row(s) /\ r \in ToSet(rows) \cap X
    BY <1>1, <1>2, <1>5, <2>1
  <2>3. PICK i \in 1 .. n : Row(s) = Row(SeedMain[i])
    BY <1>6, <2>2
  <2>4. Same(SeedMain[i], s)
    BY <2>3, RowIs DEF Same
  <2>5. i \in 1 .. Len(SeedMain) /\ (i < k => ~Same(SeedMain[i], SeedMain[k]))
    BY <1>1, <1>2, SeedDiffers
  <2>6. k <= n
    BY <1>1, <1>2, <2>4, <2>5 DEF s
  <2>7. Exact(n)'
    BY <1>1, <1>8 DEF Exact, X, FixtureRows, Prefix
  <2> QED
    BY <1>1, <2>6, <2>7
<1>9. CASE At(s.table, s.key) = {} /\ rows' = Append(rows, Row(s))
  <2>1. k = n + 1
    <3>1. ASSUME k \in 1 .. n PROVE FALSE
      <4>1. Row(s) \in ToSet(rows)
        BY <1>6, <3>1 DEF s
      <4> QED
        BY <1>9, <4>1, RowIs DEF At
    <3> QED
      BY <1>1, <1>2, <3>1
  <2>2. ToSet(rows') = ToSet(rows) \cup {Row(s)}
    BY <1>9, ListAppend
  <2>3. Kept(rows', X) = Append(Kept(rows, X), Row(s))
    BY <1>5, <1>9, KeptAppended
  <2>4. Kept(rows', X) = Prefix(n + 1)
    BY <1>1, <2>1, <2>3, PrefixList DEF s
  <2>5. ASSUME NEW r \in ToSet(rows'), NEW t \in SeedSet, Same(r, t) PROVE r = Row(t)
    <3>1. CASE r \in ToSet(rows)
      BY <1>1, <2>5, <3>1
    <3>2. CASE r = Row(s)
      <4>1. Same(s, t)
        BY <2>5, <3>2, RowIs DEF Same
      <4> QED
        BY <1>2, <3>2, <4>1, SameSeed
    <3> QED
      BY <2>2, <3>1, <3>2
  <2>6. n + 1 \in 0 .. Len(SeedMain)
    BY <1>1, <1>2, <2>1
  <2>7. Exact(n + 1)'
    BY <2>4, <2>5, <2>6 DEF Exact, X, FixtureRows, Prefix
  <2> QED
    BY <1>1, <1>2, <2>1, <2>6, <2>7
<1> QED
  BY <1>3, <1>4, <1>7, <1>8, <1>9, RowsCases

\* The generated content leaves the fixtures alone.
LEMMA OthersStep ==
    ASSUME IsList(rows), \A r \in ToSet(rows) : RowSound(r), NEW n, Exact(n), NEW v \in Versions, NEW s \in GeneratedSet(v), rows' = RowsAfter(s)
    PROVE  Exact(n)'
<1> DEFINE X == FixtureRows
<1>1. /\ \A r \in ToSet(rows) : \A t \in SeedSet : Same(r, t) => r = Row(t)
      /\ n \in 0 .. Len(SeedMain) /\ Kept(rows, X) = Prefix(n)
  BY DEF Exact
<1>2. "generated" \in Scripts /\ s \in StatementsOf("generated", v)
  BY ScriptNames DEF StatementsOf
<1>3. \A t \in SeedSet : ~Same(s, t) /\ ~Same(t, s)
  BY FixturesApart DEF Same
<1>4. \A r : Same(r, s) => r \notin X /\ \A t \in SeedSet : ~Same(r, t)
  BY <1>3, RowIs DEF FixtureRows, Same
<1> HIDE DEF X
<1>5. CASE rows' = rows
  BY <1>1, <1>5 DEF Exact, X, FixtureRows, Prefix
<1>6. CASE rows' = Append(rows, Row(s))
  <2>1. ToSet(rows') = ToSet(rows) \cup {Row(s)}
    BY <1>6, ListAppend
  <2>2. Row(s) \notin X /\ \A t \in SeedSet : ~Same(Row(s), t)
    BY <1>4, RowIs
  <2>3. Kept(rows', X) = Kept(rows, X)
    BY <1>6, <2>2, KeptAppended
  <2> QED
    BY <1>1, <2>1, <2>2, <2>3 DEF Exact, X, FixtureRows, Prefix
<1>7. CASE rows' = Put(s)
  <2>1. /\ ToSet(rows') = {Renewed(r, s) : r \in ToSet(rows)} /\ IsList(rows')
        /\ Len(rows') = Len(rows) /\ \A i \in 1 .. Len(rows) : rows'[i] = Renewed(rows[i], s)
    BY <1>7, PutList
  <2>2. ASSUME NEW r \in ToSet(rows)
        PROVE  (Renewed(r, s) = r \/ (Same(r, s) /\ Same(Renewed(r, s), s)))
    <3>1. CASE Same(r, s)
      <4> DEFINE q == Renewed(r, s)
      <4>1. q = [r EXCEPT !.v = s.v, !.parent = Parent(r, s)]
        BY <3>1 DEF Renewed, Updated
      <4>2. r = [table |-> r.table, key |-> r.key, parent |-> r.parent, v |-> r.v]
        BY DEF RowSound
      <4>3. q.table = r.table /\ q.key = r.key
        BY <4>1, <4>2
      <4> HIDE DEF q
      <4>4. Same(q, s)
        BY <3>1, <4>3 DEF Same
      <4> QED
        BY <3>1, <4>4 DEF q
    <3>2. CASE ~Same(r, s)
      BY <3>2 DEF Renewed
    <3> QED
      BY <3>1, <3>2
  <2>3. \A r \in ToSet(rows') : \A t \in SeedSet : Same(r, t) => r = Row(t)
    BY <1>1, <1>4, <2>1, <2>2
  <2>4. Len(rows) \in Nat /\ DOMAIN rows = 1 .. Len(rows) /\ DOMAIN rows' = 1 .. Len(rows) /\ \A i \in 1 .. Len(rows) : rows[i] \in ToSet(rows)
    BY <2>1, ListFacts
  <2>5. ASSUME NEW i \in 1 .. Len(rows) PROVE (rows'[i] \in X <=> rows[i] \in X) /\ (rows'[i] \in X => rows'[i] = rows[i])
    <3>1. rows'[i] = rows[i] \/ (rows[i] \notin X /\ rows'[i] \notin X)
      BY <1>4, <2>1, <2>2, <2>4
    <3> QED
      BY <3>1
  <2>6. Kept(rows', X) = Kept(rows, X)
    <3>1. \A i \in 1 .. Len(rows) : (IF rows'[i] \in X THEN <<rows'[i]>> ELSE <<>>) = (IF rows[i] \in X THEN <<rows[i]>> ELSE <<>>)
      BY <2>5
    <3>2. [i \in 1 .. Len(rows) |-> IF rows'[i] \in X THEN <<rows'[i]>> ELSE <<>>] = [i \in 1 .. Len(rows) |-> IF rows[i] \in X THEN <<rows[i]>> ELSE <<>>]
      BY <3>1, Zenon
    <3>3. Marked(rows', X) = Marked(rows, X)
      BY <2>4, <3>2, Zenon DEF Marked
    <3> QED
      BY <3>3, Zenon DEF Kept
  <2> QED
    BY <1>1, <2>3, <2>6 DEF Exact, X, FixtureRows, Prefix
<1> QED
  BY <1>2, <1>5, <1>6, <1>7, RowsCases

LEMMA DtoConcat ==
    ASSUME NEW a, IsList(a), NEW b, IsList(b)
    PROVE  Dto(a \o b, Row) = Dto(a, Row) \o Dto(b, Row)
<1> DEFINE n == Len(a)  m == Len(b)  f == Dto(a, Row)  g == Dto(b, Row)  h == Dto(a \o b, Row)
<1>1. /\ n \in Nat /\ m \in Nat /\ DOMAIN (a \o b) = 1 .. n + m
      /\ \A i \in 1 .. n : (a \o b)[i] = a[i]
      /\ \A i \in n + 1 .. n + m : (a \o b)[i] = b[i - n]
  BY ConcatAt, Zenon
<1>2. h = [i \in 1 .. n + m |-> Row((a \o b)[i])]
  BY <1>1, Zenon DEF Dto
<1>3. IsList(f) /\ Len(f) = n /\ \A i \in 1 .. n : f[i] = Row(a[i])
  BY DtoRows
<1>4. IsList(g) /\ Len(g) = m /\ \A i \in 1 .. m : g[i] = Row(b[i])
  BY DtoRows
<1> HIDE DEF f, g, h
<1>5. /\ DOMAIN (f \o g) = 1 .. n + m /\ IsList(f \o g)
      /\ \A i \in 1 .. n : (f \o g)[i] = f[i]
      /\ \A i \in n + 1 .. n + m : (f \o g)[i] = g[i - n]
  <2>1. Len(f) = n /\ Len(g) = m
    BY <1>3, <1>4
  <2> HIDE DEF n, m
  <2> QED
    BY <1>3, <1>4, <2>1, ConcatAt, ListConcat
<1>6. f \o g = [i \in 1 .. n + m |-> (f \o g)[i]]
  <2>1. f \o g = [i \in 1 .. Len(f \o g) |-> (f \o g)[i]] /\ DOMAIN (f \o g) = 1 .. Len(f \o g)
    BY <1>5, ListFacts
  <2> HIDE DEF n, m
  <2> QED
    BY <1>5, <2>1, Zenon
<1> HIDE DEF n, m
<1>7. ASSUME NEW i \in 1 .. n + m PROVE Row((a \o b)[i]) = (f \o g)[i]
  <2>1. CASE i \in 1 .. n
    BY <1>1, <1>3, <1>5, <2>1, Zenon
  <2>2. CASE i \in n + 1 .. n + m
    <3>1. i - n \in 1 .. m
      BY <1>1, <2>2
    <3>2. g[i - n] = Row(b[i - n])
      BY <1>4, <3>1, Zenon
    <3> QED
      BY <1>1, <1>5, <2>2, <3>2, Zenon
  <2>3. i \in 1 .. n \/ i \in n + 1 .. n + m
    BY <1>1
  <2> QED
    BY <2>1, <2>2, <2>3
<1>8. h = f \o g
  BY <1>2, <1>6, <1>7, Zenon
<1> QED
  BY <1>8 DEF f, g, h

\* What has been loaded at the start.
LEMMA ExactInit ==
    ASSUME CatalogueInit
    PROVE  \E n : Exact(n) /\ (settled["seed"] # 0 => n = Len(SeedMain))
<1> DEFINE X == FixtureRows
<1>0. Len(SeedMain) \in Nat /\ "seed" \in Scripts
  BY SeedFacts, ScriptNames
<1>1. CASE rows = <<>> /\ settled = [s \in Scripts |-> 0]
  <2>1. Kept(rows, X) = <<>> /\ ToSet(rows) = {}
    BY <1>1, KeptEmpty, ToSetEmpty
  <2>2. Prefix(0) = <<>>
    BY DEF Prefix
  <2>3. Exact(0)
    BY <1>0, <2>1, <2>2 DEF Exact
  <2>4. settled["seed"] = 0
    BY <1>0, <1>1
  <2> QED
    BY <2>3, <2>4
<1>2. CASE rows = Dto(SeedMain \o GeneratedMain(1), Row)
  <2> DEFINE a == Dto(SeedMain, Row)  b == Dto(GeneratedMain(1), Row)
  <2>1. 1 \in Versions /\ IsList(SeedMain) /\ ToSet(SeedMain) = SeedSet /\ IsList(GeneratedMain(1)) /\ ToSet(GeneratedMain(1)) = GeneratedSet(1)
    BY SeedList, GeneratedList DEF Versions
  <2>2. rows = a \o b
    BY <1>2, <2>1, DtoConcat
  <2>3. IsList(a) /\ ToSet(a) = {Row(s) : s \in SeedSet} /\ Len(a) = Len(SeedMain) /\ \A i \in 1 .. Len(SeedMain) : a[i] = Row(SeedMain[i])
    BY <2>1, DtoRows
  <2>4. IsList(b) /\ ToSet(b) = {Row(s) : s \in GeneratedSet(1)}
    BY <2>1, DtoRows
  <2> HIDE DEF a, b, X
  <2>5. a = Prefix(Len(SeedMain))
    <3>1. a = [i \in 1 .. Len(a) |-> a[i]]
      BY <2>3, ListFacts
    <3> QED
      BY <2>3, <3>1 DEF Prefix
  <2>6. ToSet(rows) = ToSet(a) \cup ToSet(b)
    BY <2>2, <2>3, <2>4, ListConcat
  <2>7. Kept(a, X) = a
    BY <2>3, KeptAll DEF X, FixtureRows
  <2>8. \A r \in ToSet(b) : \A t \in SeedSet : ~Same(r, t)
    <3> SUFFICES ASSUME NEW s \in GeneratedSet(1), NEW t \in SeedSet, Same(Row(s), t) PROVE FALSE
      BY <2>4
    <3>1. ~Same(t, s)
      BY <2>1, FixturesApart
    <3> QED
      BY <3>1, RowIs DEF Same
  <2>9. ToSet(b) \cap X = {}
    BY <2>8, RowIs DEF X, FixtureRows
  <2>10. Kept(b, X) = <<>>
    BY <2>4, <2>9, KeptNone
  <2>11. Kept(rows, X) = a
    <3>1. Kept(a \o b, X) = Kept(a, X) \o Kept(b, X)
      BY <2>3, <2>4, KeptJoined
    <3>2. a \o <<>> = a
      BY <2>3, ConcatEmptySeq DEF IsList
    <3> QED
      BY <2>2, <2>7, <2>10, <3>1, <3>2
  <2>12. ASSUME NEW r \in ToSet(rows), NEW t \in SeedSet, Same(r, t) PROVE r = Row(t)
    <3>1. PICK s \in SeedSet : r = Row(s)
      BY <2>3, <2>6, <2>8, <2>12
    <3>2. Same(s, t)
      BY <2>12, <3>1, RowIs DEF Same
    <3> QED
      BY <3>1, <3>2, SameSeed
  <2>13. Exact(Len(SeedMain))
    BY <1>0, <2>5, <2>11, <2>12 DEF Exact, X
  <2> QED
    BY <2>13
<1> QED
  BY <1>1, <1>2 DEF CatalogueInit

-----------------------------------------------------------------------------
(* The invariant of the runs: what one that is alone has done stands.       *)

\* What a run that is alone has done stands, what a script has settled does, and the fixtures are in order.
AloneStands(i) ==
    \A a \in Scripts \ {"seed"}, v \in Versions, k \in Nat :
        runs[i] = [script |-> a, v |-> v, at |-> k + 1, alone |-> TRUE] => Rivals(i, a) = {} /\ Stands(a, v, k)
SettledStands(s) ==
    /\ settled[s] # 0 => Family[s] = family
    /\ \A v \in Versions : settled[s] = v /\ s # "seed" =>
          /\ \A i \in 1 .. MaxRuns : Going(i) => runs[i].script # s
          /\ Stands(s, v, Len(Programs[s][v]))
SeededTo(n) ==
    /\ \A i \in 1 .. MaxRuns : Going(i) /\ runs[i].script = "seed" => runs[i].at <= n + 1
    /\ settled["seed"] # 0 => n = Len(SeedMain)
LoadInv ==
    /\ CatalogueSound
    /\ IsList(children) /\ settled \in [Scripts -> 0 .. 2]
    /\ \A i \in 1 .. MaxRuns : AloneStands(i)
    /\ \A s \in Scripts : SettledStands(s)
    /\ family = "modules" => \E n : Exact(n) /\ SeededTo(n)

LEMMA StandsFrame ==
    ASSUME NEW a, NEW v, NEW k, rows' = rows, children' = children
    PROVE  Stands(a, v, k)' <=> Stands(a, v, k)
<1>1. ASSUME NEW s PROVE Standing(s)' <=> Standing(s)
  BY DEF Standing
<1>2. ASSUME NEW s PROVE Restored(a, v, s, k)' <=> Restored(a, v, s, k)
  BY DEF Restored, Created, ChildrenOf, Where, ForEach
<1> QED
  BY <1>1, <1>2 DEF Stands, Programs

LEMMA ExactFrame == ASSUME NEW n, rows' = rows PROVE Exact(n)' <=> Exact(n)
BY DEF Exact, Prefix, FixtureRows

\* The seed does nothing to what another script has left.
LEMMA SeedLeaves ==
    ASSUME IsList(rows), NEW v \in Versions, NEW s \in StatementsOf("seed", v), rows' = RowsAfter(s), children' = ChildrenAfter(s),
           NEW b, NEW w, NEW k, Stands(b, w, k)
    PROVE  Stands(b, w, k)'
<1>1. s.op = "insert" /\ "seed" \in Scripts
  BY SeedStatement, ScriptNames
<1>2. children' = children
  BY <1>1 DEF ChildrenAfter
<1>3. ToSet(rows) \subseteq ToSet(rows')
  <2>1. rows' = rows \/ rows' = Append(rows, Row(s))
    BY <1>1, RowsCases
  <2>2. CASE rows' = rows
    BY <2>2
  <2>3. CASE rows' = Append(rows, Row(s))
    BY <2>3, ListAppend
  <2> QED
    BY <2>1, <2>2, <2>3
<1>4. ASSUME NEW t, Standing(t) PROVE Standing(t)'
  BY <1>3, <1>4 DEF Standing
<1>5. ASSUME NEW t PROVE Restored(b, w, t, k)' <=> Restored(b, w, t, k)
  BY <1>2 DEF Restored, Created, ChildrenOf, Where, ForEach
<1> QED
  BY <1>4, <1>5 DEF Stands, Programs

LEMMA LoadInvInit == CatalogueInit => LoadInv
<1> SUFFICES ASSUME CatalogueInit PROVE LoadInv
  OBVIOUS
<1>1. CatalogueSound
  BY CatalogueSoundInit
<1>2. children = <<>> /\ runs = [i \in 1 .. MaxRuns |-> NoRun]
  BY DEF CatalogueInit
<1>3. IsList(children) /\ \A i \in 1 .. MaxRuns : ~Going(i)
  BY <1>2, ListEmpty DEF Going, NoRun
<1>4. settled \in [Scripts -> 0 .. 2]
  BY DEF CatalogueInit
<1>5. PICK n : Exact(n) /\ (settled["seed"] # 0 => n = Len(SeedMain))
  BY ExactInit
<1>6. SeededTo(n)
  BY <1>3, <1>5 DEF SeededTo
<1>7. ASSUME NEW s \in Scripts, settled[s] # 0 PROVE SettledStands(s)
  <2>1. family = "modules" /\ rows = Dto(SeedMain \o GeneratedMain(1), Row) /\ settled[s] = 1 /\ Family[s] = family
    BY <1>7 DEF CatalogueInit
  <2>2. s # "seed" => s = "generated"
    BY <2>1, OtherScript, ScriptNames DEF Family
  <2>3. 1 \in Versions /\ IsList(SeedMain) /\ IsList(GeneratedMain(1)) /\ ToSet(GeneratedMain(1)) = GeneratedSet(1)
    BY SeedList, GeneratedList DEF Versions
  <2>4. ToSet(rows) = {Row(t) : t \in ToSet(SeedMain) \cup GeneratedSet(1)}
    <3>1. IsList(SeedMain \o GeneratedMain(1)) /\ ToSet(SeedMain \o GeneratedMain(1)) = ToSet(SeedMain) \cup GeneratedSet(1)
      BY <2>3, ListConcat
    <3> QED
      BY <2>1, <3>1, DtoRows
  <2>5. ASSUME s = "generated" PROVE Stands(s, 1, Len(Programs[s][1]))
    <3>1. \A j \in 1 .. Len(Programs[s][1]) : Programs[s][1][j] \in StatementsOf(s, 1)
      BY <2>3, ProgramFacts
    <3>2. StatementsOf(s, 1) = GeneratedSet(1)
      BY <2>5 DEF StatementsOf
    <3>3. \A t \in GeneratedSet(1) : Standing(t)
      <4> SUFFICES ASSUME NEW t \in GeneratedSet(1) PROVE Standing(t)
        OBVIOUS
      <4>1. Row(t) \in ToSet(rows)
        BY <2>4
      <4> QED
        BY <4>1, RowIs DEF Standing
    <3>4. \A t \in GeneratedSet(1) : t.op # "clear"
      BY DEF GeneratedSet, ModuleSet, LessonSet, Upsert, Statement
    <3> QED
      BY <3>1, <3>2, <3>3, <3>4 DEF Stands
  <2> QED
    BY <1>3, <2>1, <2>2, <2>5 DEF SettledStands, Versions
<1>8. \A s \in Scripts : SettledStands(s)
  BY <1>7 DEF SettledStands, Versions
<1>9. \A i \in 1 .. MaxRuns : AloneStands(i)
  BY <1>3 DEF AloneStands, Going
<1> QED
  BY <1>1, <1>3, <1>4, <1>5, <1>6, <1>8, <1>9 DEF LoadInv

\* A step that leaves the rows and the parts: a run begins, or dies.
LEMMA BeginKeepsLoad == ASSUME LoadInv, CatalogueSound', NEW i \in 1 .. MaxRuns, NEW a \in Scripts, NEW v \in Versions, Begin(i, a, v) PROVE LoadInv'
<1> DEFINE alone == Rivals(i, a) = {}
           rest  == [j \in DOMAIN runs |-> IF j \in Rivals(i, a) THEN [runs[j] EXCEPT !.alone = FALSE] ELSE runs[j]]
           new   == [script |-> a, v |-> v, at |-> 1, alone |-> alone]
<1>1. /\ runs' = [rest EXCEPT ![i] = new] /\ settled' = [settled EXCEPT ![a] = 0] /\ family' = family /\ rows' = rows /\ children' = children
      /\ Family[a] = family
  BY DEF Begin
<1>2. DOMAIN runs = 1 .. MaxRuns /\ \A j \in 1 .. MaxRuns : RunSound(runs[j])
  BY DEF LoadInv, CatalogueSound
<1>3. \A j \in 1 .. MaxRuns : j \in Rivals(i, a) <=> j # i /\ Going(j) /\ runs[j].script = a
  BY <1>2 DEF Rivals
<1>4. \A j \in 1 .. MaxRuns : runs'[j] = IF j = i THEN new ELSE rest[j]
  BY <1>1, <1>2
<1>5. ASSUME NEW j \in 1 .. MaxRuns, j # i
      PROVE  /\ runs'[j].script = runs[j].script /\ runs'[j].at = runs[j].at
             /\ (runs'[j] = runs[j] /\ j \notin Rivals(i, a)) \/ ~runs'[j].alone
  <2>1. runs[j] \in [script : Scripts \cup {None, "over"}, v : Versions \cup {0}, at : Nat, alone : BOOLEAN]
    BY <1>2 DEF RunSound
  <2>2. runs'[j] = IF j \in Rivals(i, a) THEN [runs[j] EXCEPT !.alone = FALSE] ELSE runs[j]
    BY <1>2, <1>4, <1>5
  <2> QED
    BY <2>1, <2>2
<1>6. runs'[i] = new /\ new.script = a /\ new.at = 1 /\ new.v = v /\ (new.alone <=> alone)
  BY <1>4
<1>7. DOMAIN runs' = 1 .. MaxRuns
  BY <1>1, <1>2
<1> HIDE DEF rest, new
<1>8. \A j \in 1 .. MaxRuns : \A b : Rivals(j, b)' = {k \in 1 .. MaxRuns \ {j} : runs'[k].at # 0 /\ runs'[k].script = b}
  BY <1>7 DEF Rivals, Going
<1>a. \A j \in 1 .. MaxRuns : \A b : Rivals(j, b) = {k \in 1 .. MaxRuns \ {j} : runs[k].at # 0 /\ runs[k].script = b}
  BY <1>2 DEF Rivals, Going
<1>9. ASSUME NEW j \in 1 .. MaxRuns PROVE AloneStands(j)'
  <2> SUFFICES ASSUME NEW b \in Scripts \ {"seed"}, NEW w \in Versions, NEW k \in Nat,
                      runs'[j] = [script |-> b, v |-> w, at |-> k + 1, alone |-> TRUE]
               PROVE  Rivals(j, b)' = {} /\ Stands(b, w, k)'
    BY DEF AloneStands, Scripts, Versions
  <2>0. runs'[j].script = b /\ runs'[j].v = w /\ runs'[j].at = k + 1 /\ runs'[j].alone = TRUE
    OBVIOUS
  <2>1. CASE j = i
    <3>1. b = a /\ w = v /\ k = 0 /\ alone
      BY <1>6, <2>0, <2>1
    <3>2. Rivals(j, b)' = {}
      BY <1>3, <1>5, <1>8, <2>1, <3>1 DEF Going
    <3>3. Stands(b, w, 0)'
      BY DEF Stands
    <3> QED
      BY <3>1, <3>2, <3>3
  <2>2. CASE j # i
    <3>1. runs[j] = [script |-> b, v |-> w, at |-> k + 1, alone |-> TRUE] /\ j \notin Rivals(i, a)
      BY <1>5, <2>0, <2>2
    <3>2. Going(j) /\ runs[j].script = b
      BY <3>1 DEF Going
    <3>3. Rivals(j, b) = {} /\ Stands(b, w, k)
      BY <3>1 DEF LoadInv, AloneStands
    <3>4. Stands(b, w, k)'
      BY <1>1, <3>3, StandsFrame
    <3>5. b # a
      BY <1>3, <2>2, <3>1, <3>2
    <3>6. Rivals(j, b)' = {}
      BY <1>5, <1>6, <1>8, <1>a, <3>3, <3>5
    <3> QED
      BY <3>4, <3>6
  <2> QED
    BY <2>1, <2>2
<1>10. ASSUME NEW s \in Scripts PROVE SettledStands(s)'
  <2>1. SettledStands(s) /\ settled \in [Scripts -> 0 .. 2]
    BY DEF LoadInv
  <2>2. CASE s = a
    <3>1. settled'[s] = 0
      BY <1>1, <2>1, <2>2
    <3> QED
      BY <3>1 DEF SettledStands, Versions
  <2>3. CASE s # a
    <3>1. settled'[s] = settled[s]
      BY <1>1, <2>1, <2>3
    <3>2. settled'[s] # 0 => Family[s] = family'
      BY <1>1, <2>1, <3>1 DEF SettledStands
    <3>3. ASSUME NEW w \in Versions, settled'[s] = w, s # "seed"
          PROVE  (\A j \in 1 .. MaxRuns : runs'[j].at # 0 => runs'[j].script # s) /\ Stands(s, w, Len(Programs[s][w]))'
      <4>1. (\A j \in 1 .. MaxRuns : runs[j].at # 0 => runs[j].script # s) /\ Stands(s, w, Len(Programs[s][w]))
        BY <2>1, <3>1, <3>3 DEF SettledStands, Going
      <4>2. \A j \in 1 .. MaxRuns : runs'[j].at # 0 => runs'[j].script # s
        BY <1>5, <1>6, <2>3, <4>1
      <4>3. \A k : Stands(s, w, k) => Stands(s, w, k)'
        BY <1>1, StandsFrame
      <4>4. ASSUME NEW k, k = Len(Programs[s][w]) PROVE Stands(s, w, k)'
        BY <4>1, <4>3, <4>4
      <4> QED
        BY <4>2, <4>4 DEF Programs, Stands
    <3> QED
      BY <3>2, <3>3 DEF SettledStands, Going, Versions, Programs, Family
  <2> QED
    BY <2>2, <2>3
<1>11. ASSUME family' = "modules" PROVE (\E n : Exact(n) /\ SeededTo(n))'
  <2>1. PICK n : Exact(n) /\ SeededTo(n)
    BY <1>1, <1>11 DEF LoadInv
  <2>2. Exact(n)'
    BY <1>1, <2>1, ExactFrame
  <2>3. n \in Nat
    BY <2>1, SeedFacts DEF Exact
  <2>4. \A j \in 1 .. MaxRuns : runs'[j].at # 0 /\ runs'[j].script = "seed" => runs'[j].at <= n + 1
    BY <1>5, <1>6, <2>1, <2>3 DEF SeededTo, Going
  <2>5. settled'["seed"] # 0 => settled["seed"] # 0
    BY <1>1, ScriptNames DEF LoadInv
  <2>6. SeededTo(n)'
    BY <2>1, <2>4, <2>5 DEF SeededTo, Going
  <2> QED
    BY <2>2, <2>6
<1>12. IsList(children') /\ settled' \in [Scripts -> 0 .. 2]
  BY <1>1 DEF LoadInv
<1> QED
  BY <1>9, <1>10, <1>11, <1>12 DEF LoadInv

-----------------------------------------------------------------------------
(* Its steps.                                                               *)

LEMMA DiesKeepsLoad == ASSUME LoadInv, CatalogueSound', NEW i \in 1 .. MaxRuns, Dies(i) PROVE LoadInv'
<1>1. runs' = [runs EXCEPT ![i] = Over] /\ settled' = settled /\ family' = family /\ rows' = rows /\ children' = children
  BY DEF Dies
<1>2. DOMAIN runs = 1 .. MaxRuns /\ DOMAIN runs' = 1 .. MaxRuns /\ \A j \in 1 .. MaxRuns : runs'[j] = IF j = i THEN Over ELSE runs[j]
  BY <1>1 DEF LoadInv, CatalogueSound
<1>3. Over.at = 0
  BY DEF Over, NoRun
<1>4. \A j \in 1 .. MaxRuns : \A b : Rivals(j, b)' \subseteq Rivals(j, b)
  BY <1>2, <1>3 DEF Rivals, Going
<1>5. ASSUME NEW j \in 1 .. MaxRuns PROVE AloneStands(j)'
  <2> SUFFICES ASSUME NEW b \in Scripts \ {"seed"}, NEW w \in Versions, NEW k \in Nat,
                      runs'[j] = [script |-> b, v |-> w, at |-> k + 1, alone |-> TRUE]
               PROVE  Rivals(j, b)' = {} /\ Stands(b, w, k)'
    BY DEF AloneStands, Scripts, Versions
  <2>1. runs'[j].at = k + 1
    OBVIOUS
  <2>2. runs[j] = [script |-> b, v |-> w, at |-> k + 1, alone |-> TRUE]
    BY <1>2, <1>3, <2>1
  <2>3. Rivals(j, b) = {} /\ Stands(b, w, k)
    BY <2>2 DEF LoadInv, AloneStands
  <2>4. Stands(b, w, k)'
    BY <1>1, <2>3, StandsFrame
  <2> QED
    BY <1>4, <2>3, <2>4
<1>6. ASSUME NEW s \in Scripts PROVE SettledStands(s)'
  <2>1. SettledStands(s)
    BY DEF LoadInv
  <2>2. ASSUME NEW w \in Versions, settled'[s] = w, s # "seed"
        PROVE  (\A j \in 1 .. MaxRuns : runs'[j].at # 0 => runs'[j].script # s) /\ Stands(s, w, Len(Programs[s][w]))'
    <3>1. (\A j \in 1 .. MaxRuns : runs[j].at # 0 => runs[j].script # s) /\ Stands(s, w, Len(Programs[s][w]))
      BY <1>1, <2>1, <2>2 DEF SettledStands, Going
    <3>2. \A k : Stands(s, w, k) => Stands(s, w, k)'
      BY <1>1, StandsFrame
    <3>3. ASSUME NEW k, k = Len(Programs[s][w]) PROVE Stands(s, w, k)'
      BY <3>1, <3>2, <3>3
    <3> QED
      BY <1>2, <1>3, <3>1, <3>3 DEF Programs, Stands
  <2> QED
    BY <1>1, <2>1, <2>2 DEF SettledStands, Going, Versions, Programs, Family
<1>7. ASSUME family' = "modules" PROVE (\E n : Exact(n) /\ SeededTo(n))'
  <2>1. PICK n : Exact(n) /\ SeededTo(n)
    BY <1>1, <1>7 DEF LoadInv
  <2>2. Exact(n)'
    BY <1>1, <2>1, ExactFrame
  <2>3. SeededTo(n)'
    BY <1>1, <1>2, <1>3, <2>1 DEF SeededTo, Going
  <2> QED
    BY <2>2, <2>3
<1> QED
  BY <1>1, <1>5, <1>6, <1>7 DEF LoadInv

LEMMA ExecuteKeepsLoad == ASSUME LoadInv, CatalogueSound', NEW i \in 1 .. MaxRuns, Execute(i) PROVE LoadInv'
<1>0. DOMAIN runs = 1 .. MaxRuns /\ \A j \in 1 .. MaxRuns : RunSound(runs[j])
  BY DEF LoadInv, CatalogueSound
<1>1. PICK a \in Scripts, v \in Versions, k \in Nat, alone \in BOOLEAN :
         runs[i] = [script |-> a, v |-> v, at |-> k + 1, alone |-> alone] /\ Family[a] = family /\ k + 1 <= Len(Programs[a][v])
  <2>1. RunSound(runs[i]) /\ runs[i].at # 0
    BY <1>0 DEF Execute, Going
  <2>2. /\ runs[i] \in [script : Scripts \cup {None, "over"}, v : Versions \cup {0}, at : Nat, alone : BOOLEAN]
        /\ runs[i].script \in Scripts /\ runs[i].v \in Versions /\ Family[runs[i].script] = family
        /\ runs[i].at <= Len(Programs[runs[i].script][runs[i].v])
    BY <2>1 DEF RunSound
  <2>3. runs[i].at - 1 \in Nat /\ runs[i].at = (runs[i].at - 1) + 1 /\ runs[i].alone \in BOOLEAN
    BY <2>1, <2>2
  <2>4. runs[i] = [script |-> runs[i].script, v |-> runs[i].v, at |-> (runs[i].at - 1) + 1, alone |-> runs[i].alone]
    BY <2>2, <2>3
  <2> QED
    BY <2>2, <2>3, <2>4
<1> DEFINE P == Programs[a][v]
           s == P[k + 1]
           last == k + 1 = Len(P)
           next == IF last THEN Over ELSE [script |-> a, v |-> v, at |-> k + 2, alone |-> alone]
<1>2. Len(P) \in Nat /\ s \in StatementsOf(a, v)
  <2>1. Len(P) \in Nat /\ \A n \in 1 .. Len(P) : P[n] \in StatementsOf(a, v)
    BY ProgramFacts
  <2>2. k + 1 \in 1 .. Len(P)
    BY <1>1, <2>1
  <2> QED
    BY <2>1, <2>2
<1>3. /\ rows' = RowsAfter(s) /\ children' = ChildrenAfter(s) /\ family' = family
      /\ runs' = [runs EXCEPT ![i] = next]
      /\ settled' = IF last /\ alone THEN [settled EXCEPT ![a] = v] ELSE settled
  <2>1. runs[i].script = a /\ runs[i].v = v /\ runs[i].at = k + 1 /\ runs[i].alone = alone
    BY <1>1
  <2>2. runs[i].at + 1 = k + 2
    BY <2>1
  <2>3. [runs[i] EXCEPT !.at = runs[i].at + 1] = [script |-> a, v |-> v, at |-> k + 2, alone |-> alone]
    BY <1>1, <2>2
  <2>4. /\ rows' = RowsAfter(s) /\ children' = ChildrenAfter(s) /\ family' = family
        /\ runs' = [runs EXCEPT ![i] = IF last THEN Over ELSE [runs[i] EXCEPT !.at = runs[i].at + 1]]
        /\ settled' = IF last /\ runs[i].alone THEN [settled EXCEPT ![a] = v] ELSE settled
    BY <2>1, Zenon DEF Execute
  <2> QED
    BY <2>1, <2>3, <2>4
<1>4. Over.at = 0
  BY DEF Over, NoRun
<1>5. \A j \in 1 .. MaxRuns : runs'[j] = IF j = i THEN next ELSE runs[j]
  BY <1>0, <1>3
<1>6. DOMAIN runs' = 1 .. MaxRuns
  BY <1>0, <1>3
<1>7. runs[i].at # 0 /\ runs[i].script = a /\ runs[i].at = k + 1
  BY <1>1
<1>8. runs'[i].at # 0 => runs'[i].script = a /\ runs'[i].at = k + 2 /\ ~last
  BY <1>4, <1>5
<1>9. \A j \in 1 .. MaxRuns : \A b : Rivals(j, b)' \subseteq Rivals(j, b)
  BY <1>0, <1>5, <1>6, <1>7, <1>8 DEF Rivals, Going
<1>10. s.op \in {"insert", "upsert", "clear", "create"}
  BY <1>2, StatementForm
<1>11. IsList(children')
  BY <1>3, <1>10, ChildrenStep DEF LoadInv
<1>12. settled' \in [Scripts -> 0 .. 2]
  <2>1. settled \in [Scripts -> 0 .. 2] /\ v \in 0 .. 2
    BY DEF LoadInv, Versions
  <2> HIDE DEF last
  <2> QED
    BY <1>3, <2>1
<1>t. s = Programs[a][v][k + 1] /\ P = Programs[a][v]
  OBVIOUS
<1>n. next = IF last THEN Over ELSE [script |-> a, v |-> v, at |-> k + 2, alone |-> alone]
  OBVIOUS
<1> HIDE DEF P, s, next
\* What a run that is alone has done stands once more.
<1>13. ASSUME alone, a # "seed" PROVE Rivals(i, a) = {} /\ Stands(a, v, k + 1)'
  <2>1. Rivals(i, a) = {} /\ Stands(a, v, k)
    BY <1>1, <1>13 DEF LoadInv, AloneStands
  <2>2. k < Len(P)
    BY <1>1, <1>2, <1>t
  <2> QED
    BY <1>3, <1>13, <1>t, <2>1, <2>2, StandsStep DEF LoadInv
\* Another script that is loading the same tables is the seed.
<1>14. ASSUME NEW b \in Scripts, b # "seed", b # a, Family[b] = family, NEW w, NEW n, Stands(b, w, n) PROVE Stands(b, w, n)'
  <2>1. a = "seed"
    BY <1>1, <1>14, OtherScript
  <2> QED
    BY <1>2, <1>3, <1>14, <2>1, SeedLeaves DEF LoadInv, CatalogueSound
<1>15. ASSUME NEW j \in 1 .. MaxRuns PROVE AloneStands(j)'
  <2> SUFFICES ASSUME NEW b \in Scripts \ {"seed"}, NEW w \in Versions, NEW n \in Nat,
                      runs'[j] = [script |-> b, v |-> w, at |-> n + 1, alone |-> TRUE]
               PROVE  Rivals(j, b)' = {} /\ Stands(b, w, n)'
    BY DEF AloneStands, Scripts, Versions
  <2>0. runs'[j].script = b /\ runs'[j].v = w /\ runs'[j].at = n + 1 /\ runs'[j].alone = TRUE
    OBVIOUS
  <2>1. CASE j = i
    <3>1. ~last /\ next = [script |-> a, v |-> v, at |-> k + 2, alone |-> alone]
      BY <1>4, <1>5, <1>n, <2>0, <2>1
    <3>2. b = a /\ w = v /\ n = k + 1 /\ alone
      BY <1>5, <2>0, <2>1, <3>1
    <3> QED
      BY <1>9, <1>13, <2>1, <3>2
  <2>2. CASE j # i
    <3>1. runs[j] = [script |-> b, v |-> w, at |-> n + 1, alone |-> TRUE]
      BY <1>5, <2>2
    <3>2. Rivals(j, b) = {} /\ Stands(b, w, n)
      BY <3>1 DEF LoadInv, AloneStands
    <3>3. b # a
      BY <1>0, <1>7, <2>2, <3>2 DEF Rivals, Going
    <3>4. Family[b] = family
      <4>1. RunSound(runs[j])
        BY <1>0
      <4>2. runs[j].at = n + 1 /\ runs[j].script = b
        BY <3>1
      <4>3. n + 1 # 0
        OBVIOUS
      <4> QED
        BY <4>1, <4>2, <4>3 DEF RunSound
    <3> QED
      BY <1>9, <1>14, <3>2, <3>3, <3>4
  <2> QED
    BY <2>1, <2>2
<1>16. ASSUME NEW b \in Scripts PROVE SettledStands(b)'
  <2>1. SettledStands(b) /\ settled \in [Scripts -> 0 .. 2]
    BY DEF LoadInv
  <2>2. CASE last /\ alone /\ b = a
    <3>1. settled'[b] = v
      BY <1>3, <2>1, <2>2
    <3>2. ASSUME b # "seed" PROVE (\A j \in 1 .. MaxRuns : runs'[j].at # 0 => runs'[j].script # b) /\ Stands(b, v, Len(Programs[b][v]))'
      <4>1. Rivals(i, a) = {} /\ Stands(a, v, k + 1)'
        BY <1>13, <2>2, <3>2
      <4>2. \A j \in 1 .. MaxRuns : runs'[j].at # 0 => runs'[j].script # b
        BY <1>0, <1>5, <1>8, <2>2, <4>1 DEF Rivals, Going
      <4>3. k + 1 = Len(Programs[b][v])
        BY <1>t, <2>2
      <4> QED
        BY <2>2, <4>1, <4>2, <4>3
    <3> QED
      BY <1>1, <1>3, <2>2, <3>1, <3>2 DEF SettledStands, Going, Versions, Programs, Family
  <2>3. CASE ~(last /\ alone /\ b = a)
    <3>1. settled'[b] = settled[b]
      BY <1>3, <2>1, <2>3
    <3>2. settled'[b] # 0 => Family[b] = family'
      BY <1>3, <2>1, <3>1 DEF SettledStands
    <3>3. ASSUME NEW w \in Versions, settled'[b] = w, b # "seed"
          PROVE  (\A j \in 1 .. MaxRuns : runs'[j].at # 0 => runs'[j].script # b) /\ Stands(b, w, Len(Programs[b][w]))'
      <4>1. (\A j \in 1 .. MaxRuns : runs[j].at # 0 => runs[j].script # b) /\ Stands(b, w, Len(Programs[b][w])) /\ Family[b] = family
        BY <2>1, <3>1, <3>3 DEF SettledStands, Going, Versions
      <4>2. b # a
        BY <1>7, <4>1
      <4>3. \A j \in 1 .. MaxRuns : runs'[j].at # 0 => runs'[j].script # b
        BY <1>5, <1>8, <4>1, <4>2
      <4>4. \A n : Stands(b, w, n) => Stands(b, w, n)'
        BY <1>14, <3>3, <4>1, <4>2
      <4>5. ASSUME NEW n, n = Len(Programs[b][w]) PROVE Stands(b, w, n)'
        BY <4>1, <4>4, <4>5
      <4> QED
        BY <4>3, <4>5 DEF Programs, Stands
    <3> QED
      BY <3>2, <3>3 DEF SettledStands, Going, Versions, Programs, Family
  <2> QED
    BY <2>2, <2>3
<1>17. ASSUME family' = "modules" PROVE (\E n : Exact(n) /\ SeededTo(n))'
  <2>1. PICK n : Exact(n) /\ SeededTo(n)
    BY <1>3, <1>17 DEF LoadInv
  <2>2. n \in Nat /\ n <= Len(SeedMain) /\ Len(SeedMain) \in Nat
    BY <2>1, SeedFacts DEF Exact
  <2>3. IsList(rows) /\ \A r \in ToSet(rows) : RowSound(r)
    BY DEF LoadInv, CatalogueSound
  <2>4. settled \in [Scripts -> 0 .. 2]
    BY DEF LoadInv
  <2>5. CASE a = "seed"
    <3>1. P = SeedMain
      BY <1>t, <2>5, ProgramOf DEF Program
    <3>2. k + 1 \in 1 .. n + 1 /\ k + 1 <= Len(SeedMain)
      BY <1>1, <1>7, <1>t, <2>1, <2>2, <2>5, <3>1 DEF SeededTo, Going
    <3>3. rows' = RowsAfter(SeedMain[k + 1])
      BY <1>3, <1>t, <3>1
    <3>4. PICK m \in {n, n + 1} : k + 1 <= m /\ m <= Len(SeedMain) /\ Exact(m)'
      BY <2>1, <2>3, <3>2, <3>3, SeedSteps
    <3>5. \A j \in 1 .. MaxRuns : runs[j].at # 0 /\ runs[j].script = "seed" => runs[j].at <= n + 1
      BY <2>1 DEF SeededTo, Going
    <3>6. \A j \in 1 .. MaxRuns : runs[j].at \in Nat
      BY <1>0 DEF RunSound
    <3>7. \A j \in 1 .. MaxRuns : runs'[j].at # 0 /\ runs'[j].script = "seed" => runs'[j].at <= m + 1
      <4> SUFFICES ASSUME NEW j \in 1 .. MaxRuns, runs'[j].at # 0, runs'[j].script = "seed" PROVE runs'[j].at <= m + 1
        OBVIOUS
      <4>1. CASE j = i
        BY <1>8, <2>2, <3>4, <4>1
      <4>2. CASE j # i
        <5>1. runs'[j] = runs[j]
          BY <1>5, <4>2
        <5>2. runs[j].at <= n + 1 /\ runs[j].at \in Nat
          BY <3>5, <3>6, <5>1
        <5> QED
          BY <2>2, <3>4, <5>1, <5>2
      <4> QED
        BY <4>1, <4>2
    <3>8. settled'["seed"] # 0 => m = Len(SeedMain)
      <4>1. CASE last /\ alone
        BY <1>t, <2>2, <3>1, <3>4, <4>1
      <4>2. CASE ~(last /\ alone)
        BY <1>3, <2>1, <2>2, <3>4, <4>2 DEF SeededTo
      <4> QED
        BY <4>1, <4>2
    <3>9. SeededTo(m)'
      BY <3>7, <3>8 DEF SeededTo, Going
    <3> QED
      BY <3>4, <3>9
  <2>6. CASE a # "seed"
    <3>1. a = "generated"
      BY <1>1, <1>3, <1>17, <2>6, ScriptNames DEF Family
    <3>2. s \in GeneratedSet(v)
      BY <1>2, <3>1 DEF StatementsOf
    <3>3. Exact(n)'
      BY <1>3, <2>1, <2>3, <3>2, OthersStep
    <3>4. settled'["seed"] = settled["seed"]
      BY <1>3, <2>4, <2>6, ScriptNames
    <3>5. SeededTo(n)'
      BY <1>5, <1>8, <2>1, <2>6, <3>4 DEF SeededTo, Going
    <3> QED
      BY <3>3, <3>5
  <2> QED
    BY <2>5, <2>6
<1> QED
  BY <1>11, <1>12, <1>15, <1>16, <1>17 DEF LoadInv

LEMMA LoadInvStep == ASSUME LoadInv, CatalogueStep \/ UNCHANGED catalogueVars PROVE LoadInv'
<1>1. CASE CatalogueStep
  <2>1. CatalogueSound'
    BY <1>1, CatalogueSoundStep DEF LoadInv
  <2>2. PICK i \in 1 .. MaxRuns : (\E script \in Scripts, v \in Versions : Begin(i, script, v)) \/ Execute(i) \/ Dies(i)
    BY <1>1 DEF CatalogueStep
  <2> QED
    BY <2>1, <2>2, BeginKeepsLoad, ExecuteKeepsLoad, DiesKeepsLoad
<1>2. CASE UNCHANGED catalogueVars
  <2>1. family' = family /\ rows' = rows /\ children' = children /\ runs' = runs /\ settled' = settled
    BY <1>2 DEF catalogueVars
  <2>2. CatalogueSound'
    BY <2>1 DEF LoadInv, CatalogueSound, RowSound, RunSound
  <2>3. \A n : (Exact(n)' <=> Exact(n)) /\ (SeededTo(n)' <=> SeededTo(n))
    BY <2>1, ExactFrame DEF SeededTo, Going
  <2>4. \A a, v, k : Stands(a, v, k)' <=> Stands(a, v, k)
    BY <2>1, StandsFrame
  <2>5. ASSUME NEW i \in 1 .. MaxRuns PROVE AloneStands(i)'
    <3>1. AloneStands(i)
      BY DEF LoadInv
    <3>2. \A a : Rivals(i, a)' = Rivals(i, a)
      BY <2>1 DEF Rivals, Going
    <3> QED
      BY <2>1, <2>4, <3>1, <3>2 DEF AloneStands, Scripts, Versions
  <2>6. ASSUME NEW s \in Scripts PROVE SettledStands(s)'
    <3>1. SettledStands(s)
      BY DEF LoadInv
    <3>2. ASSUME NEW w \in Versions, settled[s] = w, s # "seed" PROVE Stands(s, w, Len(Programs[s][w]))'
      <4>1. Stands(s, w, Len(Programs[s][w]))
        BY <3>1, <3>2 DEF SettledStands
      <4>2. ASSUME NEW n, n = Len(Programs[s][w]) PROVE Stands(s, w, n)'
        BY <2>4, <4>1, <4>2
      <4> QED
        BY <4>2 DEF Programs, Stands
    <3> QED
      BY <2>1, <3>1, <3>2 DEF SettledStands, Going, Versions, Programs, Family
  <2> QED
    BY <2>1, <2>2, <2>3, <2>5, <2>6 DEF LoadInv
<1> QED
  BY <1>1, <1>2

-----------------------------------------------------------------------------
(* The rows of a list that a request gets.                                  *)

LEMMA FiniteList ==
    ASSUME NEW l, IsList(l)
    PROVE  IsFiniteSet(ToSet(l)) /\ Cardinality(ToSet(l)) \in Nat /\ Cardinality(ToSet(l)) <= Len(l)
<1>1. Len(l) \in Nat /\ DOMAIN l = 1 .. Len(l) /\ l \in [1 .. Len(l) -> ToSet(l)]
  BY LenProperties DEF IsList
<1>2. \A x \in ToSet(l) : \E i \in 1 .. Len(l) : l[i] = x
  BY <1>1, Zenon DEF ToSet
<1>3. ExistsSurjection(1 .. Len(l), ToSet(l))
  BY <1>1, <1>2, Zenon DEF ExistsSurjection, Surjection
<1>4. IsFiniteSet(ToSet(l))
  BY <1>1, <1>3, FS_NatSurjection
<1> QED
  BY <1>1, <1>3, <1>4, FS_SurjCardinalityBound, FS_CardinalityType

LEMMA MinOfTwo == ASSUME NEW a \in Nat, NEW b \in Nat PROVE Min({a, b}) = IF a <= b THEN a ELSE b
BY DEF Min

LEMMA LimitIs == ASSUME NEW raw \in Requests PROVE ParseLimit(raw) \in Nat
<1>1. raw \in Nat /\ MAX_LIMIT \in Nat /\ DEFAULT_LIMIT \in Nat
  BY ListsAssumption DEF Requests
<1> QED
  BY <1>1, MinOfTwo DEF ParseLimit

\* So many of T, each before all others.
TakeBy(T, R, n) == {S \in SUBSET T : Cardinality(S) = n /\ \A r \in S : \A q \in T \ S : <<r, q>> \in R}
\* Of any rows one comes first.
Leads(R, T) == \A U \in SUBSET T : U # {} => \E x \in U : \A y \in U \ {x} : <<x, y>> \in R

\* There are so many rows that come before all others.
LEMMA TakeThere ==
    ASSUME NEW T, IsFiniteSet(T), NEW R, Leads(R, T), NEW n \in Nat, n <= Cardinality(T)
    PROVE  TakeBy(T, R, n) # {}
<1> DEFINE N == {k \in Nat : k <= Cardinality(T) => TakeBy(T, R, k) # {}}
<1>0. Cardinality(T) \in Nat
  BY FS_CardinalityType
<1>1. 0 \in N
  <2>1. {} \in TakeBy(T, R, 0)
    BY FS_EmptySet DEF TakeBy
  <2> QED
    BY <2>1
<1>2. ASSUME NEW k \in N PROVE k + 1 \in N
  <2> SUFFICES ASSUME k + 1 <= Cardinality(T) PROVE TakeBy(T, R, k + 1) # {}
    OBVIOUS
  <2>1. PICK S \in SUBSET T : Cardinality(S) = k /\ \A r \in S : \A q \in T \ S : <<r, q>> \in R
    BY <1>0 DEF TakeBy
  <2>2. T \ S # {}
    BY <1>0, <2>1
  <2>3. PICK x \in T \ S : \A y \in (T \ S) \ {x} : <<x, y>> \in R
    BY <2>2 DEF Leads
  <2>4. Cardinality(S \cup {x}) = k + 1
    <3>1. IsFiniteSet(S)
      BY FS_Subset
    <3> QED
      BY <2>1, <2>3, <3>1, FS_AddElement
  <2>5. S \cup {x} \in TakeBy(T, R, k + 1)
    BY <2>1, <2>3, <2>4 DEF TakeBy
  <2> QED
    BY <2>5
<1>3. N = Nat
  <2>1. N \in SUBSET Nat
    OBVIOUS
  <2> HIDE DEF N
  <2> QED
    BY <1>1, <1>2, <2>1, AllNumbers
<1> QED
  BY <1>3

\* A request gets some rows, all of a list that is not too long, and of a longer one as many as it may.
LEMMA Takes ==
    ASSUME NEW l, IsList(l), NEW R, Leads(R, ToSet(l)), NEW raw \in Requests,
           NEW takes, takes = TakeBy(ToSet(l), R, Min({ParseLimit(raw), Cardinality(ToSet(l))}))
    PROVE  /\ takes # {}
           /\ \A S \in takes : /\ S \subseteq ToSet(l)
                               /\ Len(l) <= ParseLimit(raw) => S = ToSet(l)
                               /\ S # ToSet(l) => Cardinality(S) = ParseLimit(raw)
                               /\ \A r \in S : \A q \in ToSet(l) \ S : <<r, q>> \in R
<1> DEFINE T == ToSet(l)
           c == Cardinality(T)
           n == ParseLimit(raw)
<1>1. IsFiniteSet(T) /\ c \in Nat /\ c <= Len(l) /\ n \in Nat /\ Len(l) \in Nat
  BY FiniteList, LimitIs, ListFacts
<1>2. Min({n, c}) = IF n <= c THEN n ELSE c
  <2> HIDE DEF n, c
  <2> QED
    BY <1>1, MinOfTwo
<1> HIDE DEF n
<1>3. TakeBy(T, R, Min({n, c})) # {}
  <2> HIDE DEF T
  <2>1. (IF n <= c THEN n ELSE c) \in Nat /\ (IF n <= c THEN n ELSE c) <= Cardinality(T)
    BY <1>1
  <2>2. Leads(R, T)
    BY DEF T
  <2> QED
    BY <1>1, <1>2, <2>1, <2>2, TakeThere
<1>4. takes = TakeBy(T, R, Min({n, c}))
  BY DEF n
<1>5. ASSUME NEW S \in takes
      PROVE  /\ S \subseteq T /\ (Len(l) <= n => S = T) /\ (S # T => Cardinality(S) = n)
             /\ \A r \in S : \A q \in T \ S : <<r, q>> \in R
  <2> HIDE DEF T
  <2>1. S \in SUBSET T /\ Cardinality(S) = Min({n, c}) /\ \A r \in S : \A q \in T \ S : <<r, q>> \in R
    BY <1>4 DEF TakeBy
  <2>2. Cardinality(T) = Cardinality(S) => S = T
    BY <1>1, <2>1, FS_Subset
  <2>3. Len(l) <= n => Cardinality(S) = c
    BY <1>1, <1>2, <2>1
  <2>4. n > c \/ Cardinality(S) = n
    BY <1>1, <1>2, <2>1
  <2>5. n > c => Cardinality(S) = c
    BY <1>1, <1>2, <2>1
  <2> QED
    BY <2>1, <2>2, <2>3, <2>4, <2>5
<1> QED
  BY <1>3, <1>4, <1>5 DEF n

LEMMA TakenUnordered ==
    ASSUME NEW l, IsList(l), NEW raw \in Requests
    PROVE  /\ Take(ToSet(l), Unordered, raw) # {}
           /\ \A S \in Take(ToSet(l), Unordered, raw) : S \subseteq ToSet(l) /\ (Len(l) <= ParseLimit(raw) => S = ToSet(l))
<1> DEFINE R == ToSet(l) \X ToSet(l)
<1>1. Leads(R, ToSet(l))
  BY DEF Leads
<1>2. Take(ToSet(l), Unordered, raw) = TakeBy(ToSet(l), R, Min({ParseLimit(raw), Cardinality(ToSet(l))}))
  BY DEF Take, TakeBy, Unordered, kSubset
<1> HIDE DEF R
<1> QED
  BY <1>1, <1>2, Takes

\* A word's row is of a word of the file that wrote it.
WordsKnown == \A r \in ToSet(rows) : r.table = "entry" => \E w \in ToSet(Words[r.v]) : w.lemma = r.key
\* The rows of words, no key twice.
WordRows(T) ==
    /\ T \subseteq {r \in ToSet(rows) : r.table = "entry"}
    /\ \A r \in T : r.key \in Lemmas /\ WordOf(r).level \in Nat
    /\ \A r, q \in T : r.key = q.key => r = q

LEMMA RowsOfWords ==
    ASSUME CatalogueSound, WordsKnown, NEW T, T \subseteq {r \in ToSet(rows) : r.table = "entry"}
    PROVE  WordRows(T)
<1>1. ASSUME NEW r \in T PROVE r.key \in Lemmas /\ WordOf(r).level \in Nat
  <2>1. r \in ToSet(rows) /\ r.table = "entry"
    OBVIOUS
  <2>2. r.v \in Versions
    BY <2>1 DEF CatalogueSound, RowSound
  <2>3. \E w \in ToSet(Words[r.v]) : w.lemma = r.key
    BY <2>1 DEF WordsKnown
  <2>4. WordOf(r) \in ToSet(Words[r.v]) /\ WordOf(r).lemma = r.key
    BY <2>3, Zenon DEF WordOf
  <2>5. WordOf(r).level \in Nat
    BY <2>2, <2>4, ListsAssumption
  <2>6. ToSet(Words[r.v]) \subseteq ToSet(Words[1]) \cup ToSet(Words[2])
    BY <2>2 DEF Versions
  <2> QED
    BY <2>4, <2>5, <2>6 DEF Lemmas
<1>2. \A r, q \in T : r.key = q.key => r = q
  BY DEF CatalogueSound, Same
<1> QED
  BY <1>1, <1>2 DEF WordRows

LEMMA LemmaLeads == ASSUME NEW T, WordRows(T) PROVE Leads({p \in T \X T : ByLemma(p[1], p[2])}, T)
<1> DEFINE R == {p \in T \X T : ByLemma(p[1], p[2])}
<1> SUFFICES ASSUME NEW U \in SUBSET T, U # {} PROVE \E x \in U : \A y \in U \ {x} : <<x, y>> \in R
  BY DEF Leads
<1>1. \A r \in T : Alphabet[r.key] \in Nat
  BY ListsAssumption DEF WordRows
<1> DEFINE A == {Alphabet[r.key] : r \in U}
<1>2. A \in SUBSET Nat /\ A # {}
  BY <1>1
<1>3. PICK n \in A : \A m \in A : n <= m
  <2> HIDE DEF A
  <2> QED
    BY <1>2, LeastNumber
<1>4. PICK x \in U : Alphabet[x.key] = n
  BY <1>3
<1>5. ASSUME NEW y \in U \ {x} PROVE <<x, y>> \in R
  <2>1. n <= Alphabet[y.key]
    BY <1>3
  <2>2. Alphabet[y.key] # Alphabet[x.key]
    BY ListsAssumption DEF WordRows
  <2>3. Alphabet[x.key] < Alphabet[y.key]
    BY <1>1, <1>4, <2>1, <2>2
  <2> QED
    BY <2>3 DEF ByLemma
<1> QED
  BY <1>5

LEMMA LevelLeads == ASSUME NEW T, WordRows(T) PROVE Leads({p \in T \X T : ByLevel(p[1], p[2])}, T)
<1> DEFINE R == {p \in T \X T : ByLevel(p[1], p[2])}
<1> SUFFICES ASSUME NEW U \in SUBSET T, U # {} PROVE \E x \in U : \A y \in U \ {x} : <<x, y>> \in R
  BY DEF Leads
<1>1. \A r \in T : WordOf(r).level \in Nat
  BY DEF WordRows
<1> DEFINE A == {WordOf(r).level : r \in U}
<1>2. A \in SUBSET Nat /\ A # {}
  BY <1>1
<1>3. PICK n \in A : \A m \in A : n <= m
  <2> HIDE DEF A
  <2> QED
    BY <1>2, LeastNumber
<1> DEFINE B == {r \in U : WordOf(r).level = n}
<1>4. B \in SUBSET T /\ B # {}
  BY <1>3
<1>5. PICK x \in B : \A y \in B \ {x} : <<x, y>> \in {p \in T \X T : ByLemma(p[1], p[2])}
  <2> HIDE DEF B
  <2>1. Leads({p \in T \X T : ByLemma(p[1], p[2])}, T)
    BY LemmaLeads
  <2> QED
    BY <1>4, <2>1 DEF Leads
<1>6. ASSUME NEW y \in U \ {x} PROVE <<x, y>> \in R
  <2>1. CASE y \in B
    <3>1. ByLemma(x, y)
      BY <1>5, <2>1
    <3> QED
      BY <2>1, <3>1 DEF ByLevel
  <2>2. CASE y \notin B
    <3>1. n <= WordOf(y).level /\ WordOf(y).level # n /\ WordOf(x).level = n
      BY <1>3, <2>2
    <3>2. WordOf(x).level < WordOf(y).level
      BY <1>1, <3>1
    <3> QED
      BY <3>2 DEF ByLevel
  <2> QED
    BY <2>1, <2>2
<1> QED
  BY <1>6

LEMMA TakenWords ==
    ASSUME NEW l, IsList(l), WordRows(ToSet(l)), NEW raw \in Requests
    PROVE  /\ Take(ToSet(l), ByLevel, raw) # {} /\ Take(ToSet(l), ByLemma, raw) # {}
           /\ \A S \in Take(ToSet(l), ByLevel, raw) : S \subseteq ToSet(l) /\ (Len(l) <= ParseLimit(raw) => S = ToSet(l))
           /\ \A S \in Take(ToSet(l), ByLemma, raw) :
                 /\ S \subseteq ToSet(l) /\ (Len(l) <= ParseLimit(raw) => S = ToSet(l))
                 /\ S # ToSet(l) => Cardinality(S) = ParseLimit(raw)
                 /\ \A r \in S : \A q \in ToSet(l) \ S : Alphabet[r.key] < Alphabet[q.key]
<1> DEFINE T == ToSet(l)
           n == Min({ParseLimit(raw), Cardinality(T)})
           E == {p \in T \X T : ByLevel(p[1], p[2])}
           A == {p \in T \X T : ByLemma(p[1], p[2])}
<1>1. Take(T, ByLevel, raw) = TakeBy(T, E, n)
  <2> HIDE DEF T
  <2>1. \A S \in SUBSET T : (\A r \in S, q \in T \ S : ByLevel(r, q)) <=> (\A r \in S : \A q \in T \ S : <<r, q>> \in E)
    OBVIOUS
  <2> QED
    BY <2>1 DEF Take, TakeBy, kSubset
<1>2. Take(T, ByLemma, raw) = TakeBy(T, A, n)
  <2> HIDE DEF T
  <2>1. \A S \in SUBSET T : (\A r \in S, q \in T \ S : ByLemma(r, q)) <=> (\A r \in S : \A q \in T \ S : <<r, q>> \in A)
    OBVIOUS
  <2> QED
    BY <2>1 DEF Take, TakeBy, kSubset
<1>3. Leads(E, T) /\ Leads(A, T)
  BY LevelLeads, LemmaLeads
<1>4. \A r \in T : \A q \in T : <<r, q>> \in A => Alphabet[r.key] < Alphabet[q.key]
  BY DEF ByLemma
<1> HIDE DEF A, E
<1>5. /\ Take(T, ByLevel, raw) # {}
      /\ \A S \in Take(T, ByLevel, raw) : S \subseteq T /\ (Len(l) <= ParseLimit(raw) => S = T)
  BY <1>1, <1>3, Takes
<1>6. /\ Take(T, ByLemma, raw) # {}
      /\ \A S \in Take(T, ByLemma, raw) :
            /\ S \subseteq T /\ (Len(l) <= ParseLimit(raw) => S = T)
            /\ S # T => Cardinality(S) = ParseLimit(raw)
            /\ \A r \in S : \A q \in T \ S : <<r, q>> \in A
  BY <1>2, <1>3, Takes
<1> QED
  BY <1>4, <1>5, <1>6

-----------------------------------------------------------------------------
(* From what stands to what is served: questions, passages, modules.        *)

\* What stands of a whole file: every statement that puts, and the parts of every clear.
LEMMA AllStands ==
    ASSUME NEW a \in Scripts, NEW v \in Versions, Stands(a, v, Len(Programs[a][v])), NEW s \in StatementsOf(a, v)
    PROVE  /\ Puts(s) => Standing(s)
           /\ s.op = "clear" => ChildrenOf(s.table, s.key) = Dto(Kept(Programs[a][v], Creates(a, v, s)), Child)
<1> DEFINE P == Programs[a][v]
<1>1. IsList(P) /\ ToSet(P) = StatementsOf(a, v)
  BY ProgramList
<1>2. Len(P) \in Nat /\ DOMAIN P = 1 .. Len(P)
  BY <1>1, ListFacts
<1>3. PICK j \in 1 .. Len(P) : P[j] = s
  BY <1>1, <1>2 DEF ToSet
<1>4. SubSeq(P, 1, Len(P)) = P
  BY <1>1, <1>2, Beginning
<1> QED
  BY <1>3, <1>4 DEF Stands, Restored, Created

\* The rows of a table and those under a parent.
LEMMA Listed ==
    ASSUME IsList(rows), NEW table
    PROVE  IsList(Table(table)) /\ ToSet(Table(table)) = {r \in ToSet(rows) : r.table = table}
<1> DEFINE X == {r \in ToSet(rows) : r.table = table}
<1>1. DOMAIN rows = 1 .. Len(rows) /\ \A i \in 1 .. Len(rows) : rows[i] \in ToSet(rows)
  BY ListFacts
<1>2. [i \in DOMAIN rows |-> IF rows[i].table = table THEN <<rows[i]>> ELSE <<>>] = Marked(rows, X)
  BY <1>1, Zenon DEF Marked
<1>3. Table(table) = Kept(rows, X)
  BY <1>2, Zenon DEF Table, Where, ForEach, Kept
<1>4. IsList(Kept(rows, X)) /\ ToSet(Kept(rows, X)) = ToSet(rows) \cap X
  BY ListKept
<1> QED
  BY <1>3, <1>4

LEMMA ListedUnder ==
    ASSUME IsList(rows), NEW table, NEW parent
    PROVE  /\ IsList(Under(table, parent))
           /\ ToSet(Under(table, parent)) = {r \in ToSet(rows) : r.table = table /\ r.parent = parent}
           /\ Under(table, parent) = Kept(rows, {r \in ToSet(rows) : r.table = table /\ r.parent = parent})
<1> DEFINE X == {r \in ToSet(rows) : r.table = table /\ r.parent = parent}
<1>1. DOMAIN rows = 1 .. Len(rows) /\ \A i \in 1 .. Len(rows) : rows[i] \in ToSet(rows)
  BY ListFacts
<1>2. [i \in DOMAIN rows |-> IF rows[i].table = table /\ rows[i].parent = parent THEN <<rows[i]>> ELSE <<>>] = Marked(rows, X)
  BY <1>1, Zenon DEF Marked
<1>3. Under(table, parent) = Kept(rows, X)
  BY <1>2, Zenon DEF Under, Where, ForEach, Kept
<1>4. IsList(Kept(rows, X)) /\ ToSet(Kept(rows, X)) = ToSet(rows) \cap X
  BY ListKept
<1> QED
  BY <1>3, <1>4

\* A row that stands has the parent its statement gives it.
LEMMA StandingParent ==
    ASSUME \A r \in ToSet(rows) : RowSound(r), NEW a \in Scripts, NEW v \in Versions, NEW s \in StatementsOf(a, v), Puts(s),
           NEW r \in ToSet(rows), Same(r, s), s.table # "passage"
    PROVE  r.parent = s.parent
<1>1. RowSound(r)
  OBVIOUS
<1>2. PICK b \in Scripts : Family[b] = family /\ \E w \in Versions : \E t \in StatementsOf(b, w) :
          Puts(t) /\ Same(r, t) /\ (r.table # "passage" => t.parent = r.parent)
  BY <1>1 DEF RowSound
<1>3. PICK w \in Versions : \E t \in StatementsOf(b, w) : Puts(t) /\ Same(r, t) /\ (r.table # "passage" => t.parent = r.parent)
  BY <1>2
<1>a. PICK t \in StatementsOf(b, w) : Puts(t) /\ Same(r, t) /\ (r.table # "passage" => t.parent = r.parent)
  BY <1>3
<1>4. Same(t, s) /\ t.parent = r.parent /\ t.table # "passage"
  BY <1>a DEF Same
<1>5. t.parent = s.parent
  BY <1>a, <1>4, OneParent
<1> QED
  BY <1>4, <1>5

LEMMA QuestionsAreServed ==
    ASSUME IsList(rows), NEW v \in Versions, Stands("assessment", v, Len(Programs["assessment"][v]))
    PROVE  QuestionsServed(v)
<1> SUFFICES ASSUME NEW q \in ToSet(Questions[v])
             PROVE  /\ [id |-> q.id, v |-> v] \in ToSet(GetQuestions)
                    /\ [item_id |-> q.id, difficulty |-> CefrToTheta(q.level)] \in ToSet(GetItemBank)
  BY DEF QuestionsServed
<1> DEFINE s == Upsert("question", q.id, None, v)
           l == Table("question")
<1>1. s \in StatementsOf("assessment", v) /\ Puts(s) /\ s.table = "question" /\ s.key = q.id /\ s.v = v
  BY DEF StatementsOf, AssessmentSet, Upsert, Statement, Puts
<1>2. Standing(s)
  BY <1>1, AllStands, ScriptNames
<1>3. PICK r \in ToSet(rows) : r.table = "question" /\ r.key = q.id /\ r.v = v
  BY <1>1, <1>2 DEF Standing, Same
<1>t. r \in ToSet(l)
  BY <1>3, Listed
<1>4. PICK i \in DOMAIN l : l[i] = r
  BY <1>t DEF ToSet
<1>5. (CHOOSE p \in ToSet(Questions[r.v]) : p.id = r.key) = q
  BY <1>3, NamedOnce
<1>6. GetQuestions[i] = [id |-> q.id, v |-> v] /\ i \in DOMAIN GetQuestions
  BY <1>3, <1>4 DEF GetQuestions, Dto, QuestionDto
<1>7. GetItemBank[i] = [item_id |-> q.id, difficulty |-> CefrToTheta(q.level)] /\ i \in DOMAIN GetItemBank
  BY <1>3, <1>4, <1>5, Zenon DEF GetItemBank, Dto
<1> QED
  BY <1>6, <1>7 DEF ToSet

LEMMA PassagesAreServed ==
    ASSUME CatalogueSound, NEW v \in Versions, Stands("passages", v, Len(Programs["passages"][v]))
    PROVE  PassagesServed(v)
<1> SUFFICES ASSUME NEW p \in Allowed(Passages[v]), NEW raw \in Requests
             PROVE  Tells(GetPassages(raw), LAMBDA d : d.title = p.title,
                          LAMBDA d : d.v = v /\ (p.media # None => d.audioKey = p.media), Table("passage"), raw)
  BY Zenon DEF PassagesServed, Allowed
<1>0. IsList(rows)
  BY DEF CatalogueSound
<1> DEFINE s == Upsert("passage", p.title, p.media, v)
           l == Table("passage")
           takes == Take(ToSet(l), Unordered, raw)
<1>1. s \in StatementsOf("passages", v) /\ Puts(s) /\ s.table = "passage" /\ s.key = p.title /\ s.parent = p.media /\ s.v = v
  <2>1. s \in PassageSet(p, v)
    BY DEF PassageSet
  <2>2. s \in PassagesSet(v)
    BY <2>1 DEF PassagesSet
  <2> QED
    BY <2>2 DEF StatementsOf, Upsert, Statement, Puts
<1>2. Standing(s)
  BY <1>1, AllStands, ScriptNames
<1>3. PICK r \in ToSet(rows) : r.table = "passage" /\ r.key = p.title /\ r.v = v /\ (p.media # None => r.parent = p.media)
  BY <1>1, <1>2 DEF Standing, Same
<1>4. IsList(l) /\ ToSet(l) = {q \in ToSet(rows) : q.table = "passage"}
  BY <1>0, Listed
<1>5. r \in ToSet(l) /\ \A q \in ToSet(l) : q.key = p.title => q = r
  BY <1>3, <1>4 DEF CatalogueSound, Same
<1>6. takes # {} /\ \A S \in takes : S \subseteq ToSet(l) /\ (Len(l) <= ParseLimit(raw) => S = ToSet(l))
  BY <1>4, TakenUnordered
<1>7. \A q : PassageDto(q).title = q.key /\ PassageDto(q).v = q.v /\ PassageDto(q).audioKey = q.parent
  BY DEF PassageDto
<1> HIDE DEF takes, l
<1>8. ASSUME NEW S \in takes
      PROVE  /\ \A d \in {PassageDto(q) : q \in S} : d.title = p.title => d.v = v /\ (p.media # None => d.audioKey = p.media)
             /\ Len(l) <= ParseLimit(raw) => \E d \in {PassageDto(q) : q \in S} : d.title = p.title
  BY <1>3, <1>5, <1>6, <1>7
<1>9. GetPassages(raw) = {{PassageDto(q) : q \in S} : S \in takes}
  BY Zenon DEF GetPassages, Answers, takes, l
<1> QED
  BY <1>6, <1>8, <1>9 DEF Tells, l

LEMMA GeneratedIsServed ==
    ASSUME CatalogueSound, NEW v \in Versions, Stands("generated", v, Len(Programs["generated"][v]))
    PROVE  GeneratedServed(v)
<1>0. IsList(rows) /\ \A r \in ToSet(rows) : RowSound(r)
  BY DEF CatalogueSound
<1> SUFFICES ASSUME NEW m \in ToSet(Modules[v])
             PROVE  /\ \E served \in ToSet(GetModules) : served.id = m.id /\ served.v = v
                    /\ \A l \in ToSet(m.lessons) :
                          /\ [id |-> l.id, moduleId |-> m.id, v |-> v] \in ToSet(GetLessons(m.id))
                          /\ \A e \in ToSet(l.exerciseIds) : [id |-> e, lessonId |-> l.id, v |-> v] \in ToSet(GetExercises(l.id))
  BY DEF GeneratedServed
<1>1. ASSUME NEW s \in ModuleSet(m, v)
      PROVE  \E r \in ToSet(rows) : r.table = s.table /\ r.key = s.key /\ r.v = v /\ r.parent = s.parent
  <2>1. s \in StatementsOf("generated", v)
    BY DEF StatementsOf, GeneratedSet
  <2>2. Puts(s) /\ s.v = v /\ s.table # "passage"
    BY DEF ModuleSet, LessonSet, Upsert, Statement, Puts
  <2>3. Standing(s)
    BY <2>1, <2>2, AllStands, ScriptNames
  <2>4. PICK r \in ToSet(rows) : Same(r, s) /\ r.v = v
    BY <2>2, <2>3 DEF Standing
  <2>5. r.parent = s.parent
    BY <1>0, <2>1, <2>2, <2>4, StandingParent, ScriptNames
  <2> QED
    BY <2>4, <2>5 DEF Same
<1>2. \E served \in ToSet(GetModules) : served.id = m.id /\ served.v = v
  <2>1. PICK r \in ToSet(rows) : r.table = "module" /\ r.key = m.id /\ r.v = v
    <3>1. Upsert("module", m.id, None, v) \in ModuleSet(m, v)
      BY DEF ModuleSet
    <3> QED
      BY <1>1, <3>1 DEF Upsert, Statement
  <2>t. r \in ToSet(Table("module"))
    BY <1>0, <2>1, Listed
  <2>2. PICK i \in DOMAIN Table("module") : Table("module")[i] = r
    BY <2>t DEF ToSet
  <2>3. GetModules[i] = [id |-> m.id, v |-> v] /\ i \in DOMAIN GetModules
    BY <2>1, <2>2 DEF GetModules, Dto, ModuleDto
  <2> QED
    BY <2>3 DEF ToSet
<1>3. ASSUME NEW l \in ToSet(m.lessons)
      PROVE  [id |-> l.id, moduleId |-> m.id, v |-> v] \in ToSet(GetLessons(m.id))
  <2>1. Upsert("lesson", l.id, m.id, v) \in ModuleSet(m, v)
    BY DEF ModuleSet, LessonSet
  <2>2. PICK r \in ToSet(rows) : r.table = "lesson" /\ r.key = l.id /\ r.v = v /\ r.parent = m.id
    BY <1>1, <2>1 DEF Upsert, Statement
  <2>u. ToSet(Under("lesson", m.id)) = {q \in ToSet(rows) : q.table = "lesson" /\ q.parent = m.id}
    BY <1>0, ListedUnder
  <2>t. r \in ToSet(Under("lesson", m.id))
    BY <2>2, <2>u
  <2>3. PICK i \in DOMAIN Under("lesson", m.id) : Under("lesson", m.id)[i] = r
    BY <2>t DEF ToSet
  <2>4. GetLessons(m.id)[i] = [id |-> l.id, moduleId |-> m.id, v |-> v] /\ i \in DOMAIN GetLessons(m.id)
    BY <2>2, <2>3 DEF GetLessons, Dto, LessonDto
  <2> QED
    BY <2>4 DEF ToSet
<1>4. ASSUME NEW l \in ToSet(m.lessons), NEW e \in ToSet(l.exerciseIds)
      PROVE  [id |-> e, lessonId |-> l.id, v |-> v] \in ToSet(GetExercises(l.id))
  <2>1. Upsert("exercise", e, l.id, v) \in ModuleSet(m, v)
    <3>1. Upsert("exercise", e, l.id, v) \in LessonSet(l, m, v)
      BY <1>4, Zenon DEF LessonSet
    <3> QED
      BY <1>4, <3>1, Zenon DEF ModuleSet
  <2>2. PICK r \in ToSet(rows) : r.table = "exercise" /\ r.key = e /\ r.v = v /\ r.parent = l.id
    BY <1>1, <2>1 DEF Upsert, Statement
  <2>u. ToSet(Under("exercise", l.id)) = {q \in ToSet(rows) : q.table = "exercise" /\ q.parent = l.id}
    BY <1>0, ListedUnder
  <2>t. r \in ToSet(Under("exercise", l.id))
    BY <2>2, <2>u
  <2>3. PICK i \in DOMAIN Under("exercise", l.id) : Under("exercise", l.id)[i] = r
    BY <2>t DEF ToSet
  <2>4. GetExercises(l.id)[i] = [id |-> e, lessonId |-> l.id, v |-> v] /\ i \in DOMAIN GetExercises(l.id)
    BY <2>2, <2>3 DEF GetExercises, Dto, ExerciseDto
  <2> QED
    BY <2>4 DEF ToSet
<1> QED
  BY <1>2, <1>3, <1>4

-----------------------------------------------------------------------------
(* The parts of a word and of a point of grammar.                           *)

\* Of three lists only the one that is in X is kept.
LEMMA KeptMiddle ==
    ASSUME NEW a, IsList(a), NEW b, IsList(b), NEW c, IsList(c), NEW X, ToSet(a) \cap X = {}
    PROVE  /\ ToSet(b) \subseteq X /\ ToSet(c) \cap X = {} => Kept((a \o b) \o c, X) = b
           /\ ToSet(b) \cap X = {} /\ ToSet(c) \subseteq X => Kept((a \o b) \o c, X) = c
<1>1. IsList(a \o b)
  BY ListConcat
<1>2. Kept(a \o b, X) = Kept(a, X) \o Kept(b, X)
  BY KeptJoined
<1>3. Kept((a \o b) \o c, X) = Kept(a \o b, X) \o Kept(c, X)
  BY <1>1, KeptJoined
<1>4. Kept(a, X) = <<>>
  BY KeptNone
<1>5. b \o <<>> = b /\ <<>> \o b = b /\ <<>> \o c = c
  BY ConcatEmptySeq DEF IsList
<1>6. <<>> \o <<>> = <<>>
  BY ConcatEmptySeq, EmptySeq
<1>7. ASSUME ToSet(b) \subseteq X, ToSet(c) \cap X = {} PROVE Kept((a \o b) \o c, X) = b
  <2>1. Kept(b, X) = b
    BY <1>7, KeptAll
  <2>2. Kept(c, X) = <<>>
    BY <1>7, KeptNone
  <2> QED
    BY <1>2, <1>3, <1>4, <1>5, <2>1, <2>2
<1>8. ASSUME ToSet(b) \cap X = {}, ToSet(c) \subseteq X PROVE Kept((a \o b) \o c, X) = c
  <2>1. Kept(b, X) = <<>>
    BY <1>8, KeptNone
  <2>2. Kept(c, X) = c
    BY <1>8, KeptAll
  <2> QED
    BY <1>2, <1>3, <1>4, <1>5, <1>6, <2>1, <2>2
<1> QED
  BY <1>7, <1>8

LEMMA CreatesIs ==
    ASSUME NEW a, NEW v, NEW t, NEW o, NEW x
    PROVE  x \in Creates(a, v, Clear(t, o)) <=> x \in StatementsOf(a, v) /\ x.op = "create" /\ x.table = t /\ x.key = o
BY DEF Creates, Same, Clear, Statement

\* The parts of a word that the file creates are those of its one record.
LEMMA EntryParts ==
    ASSUME NEW v \in Versions, NEW w \in Allowed(Words[v])
    PROVE  /\ Kept(LoadEntry(w, v), Creates("vocab", v, Clear("sense", w.lemma))) = Create("sense", w.lemma, w.senses, v)
           /\ Kept(LoadEntry(w, v), Creates("vocab", v, Clear("pron", w.lemma))) = Create("pron", w.lemma, w.prons, v)
<1> DEFINE a == <<Upsert("entry", w.lemma, None, v), Clear("sense", w.lemma), Clear("pron", w.lemma)>>
           b == Create("sense", w.lemma, w.senses, v)
           c == Create("pron", w.lemma, w.prons, v)
           X == Creates("vocab", v, Clear("sense", w.lemma))
           Y == Creates("vocab", v, Clear("pron", w.lemma))
<1>0. w \in ToSet(Words[v])
  BY DEF Allowed
<1>1. IsList(a) /\ ToSet(a) = {Upsert("entry", w.lemma, None, v), Clear("sense", w.lemma), Clear("pron", w.lemma)}
  BY ListThree
<1>2. w.senses \in Nat /\ w.prons \in Nat
  BY <1>0, FilesAssumption
<1>3. IsList(b) /\ ToSet(b) = Creations("sense", w.lemma, w.senses, v)
  BY ListCreations, <1>2
<1>4. IsList(c) /\ ToSet(c) = Creations("pron", w.lemma, w.prons, v)
  BY ListCreations, <1>2
<1>5. LoadEntry(w, v) = (a \o b) \o c
  BY DEF LoadEntry
<1>6. \A x \in ToSet(a) : x.op # "create"
  BY <1>1 DEF Upsert, Clear, Statement
<1>7. \A x \in ToSet(b) \cup ToSet(c) : x \in StatementsOf("vocab", v)
  <2>1. ToSet(b) \cup ToSet(c) \subseteq EntrySet(w, v)
    BY <1>3, <1>4 DEF EntrySet
  <2>2. EntrySet(w, v) \subseteq VocabSet(v)
    BY DEF VocabSet
  <2> QED
    BY <2>1, <2>2 DEF StatementsOf
<1>8. \A x \in ToSet(b) : x.op = "create" /\ x.table = "sense" /\ x.key = w.lemma
  BY <1>3 DEF Creations, Creation
<1>9. \A x \in ToSet(c) : x.op = "create" /\ x.table = "pron" /\ x.key = w.lemma
  BY <1>4 DEF Creations, Creation
<1> HIDE DEF a, b, c
<1>10. ToSet(a) \cap X = {} /\ ToSet(b) \subseteq X /\ ToSet(c) \cap X = {}
  BY <1>6, <1>7, <1>8, <1>9, CreatesIs
<1>11. ToSet(a) \cap Y = {} /\ ToSet(b) \cap Y = {} /\ ToSet(c) \subseteq Y
  BY <1>6, <1>7, <1>8, <1>9, CreatesIs
<1> HIDE DEF X, Y
<1>12. Kept((a \o b) \o c, X) = b
  BY <1>1, <1>3, <1>4, <1>10, KeptMiddle
<1>13. Kept((a \o b) \o c, Y) = c
  BY <1>1, <1>3, <1>4, <1>11, KeptMiddle
<1> QED
  BY <1>5, <1>12, <1>13 DEF b, c, X, Y

LEMMA WordParts ==
    ASSUME NEW v \in Versions, NEW w \in Allowed(Words[v])
    PROVE  /\ Kept(VocabMain(v), Creates("vocab", v, Clear("sense", w.lemma))) = Create("sense", w.lemma, w.senses, v)
           /\ Kept(VocabMain(v), Creates("vocab", v, Clear("pron", w.lemma))) = Create("pron", w.lemma, w.prons, v)
<1> SUFFICES ASSUME NEW t \in {"sense", "pron"}
             PROVE  Kept(VocabMain(v), Creates("vocab", v, Clear(t, w.lemma))) = Kept(LoadEntry(w, v), Creates("vocab", v, Clear(t, w.lemma)))
  BY EntryParts
<1> DEFINE g == [r \in ToSet(Words[v]) |-> Licensed(r, LoadEntry(r, v))]
           X == Creates("vocab", v, Clear(t, w.lemma))
           h == [r \in ToSet(Words[v]) |-> Kept(g[r], X)]
<1>1. VocabMain(v) = Made(Words[v], g)
  BY Zenon DEF VocabMain, ForEach, Made, ToSet
<1>2. ASSUME NEW r \in ToSet(Words[v])
      PROVE  g[r] = (IF LicenseAllowed(r) THEN LoadEntry(r, v) ELSE <<>>) /\ IsList(g[r]) /\ h[r] = Kept(g[r], X)
  <2>1. g[r] = IF LicenseAllowed(r) THEN LoadEntry(r, v) ELSE <<>>
    BY DEF Licensed
  <2>2. h[r] = Kept(g[r], X)
    OBVIOUS
  <2> HIDE DEF g, h
  <2> QED
    BY <2>1, <2>2, EntryList, ListEmpty
<1> HIDE DEF g, h
<1>3. Kept(Made(Words[v], g), X) = Made(Words[v], h)
  BY <1>2, Files, KeptMade
<1>4. w \in ToSet(Words[v]) /\ LicenseAllowed(w)
  BY DEF Allowed
<1>5. ASSUME NEW r \in ToSet(Words[v]), r # w PROVE h[r] = <<>>
  <2>1. r.lemma # w.lemma
    BY <1>4, <1>5, NamedOnce
  <2>2. ASSUME NEW x \in ToSet(LoadEntry(r, v)) PROVE x.key = r.lemma
    <3>1. x \in EntrySet(r, v)
      BY EntryList
    <3> QED
      BY <3>1 DEF EntrySet, Creations, Creation, Upsert, Clear, Statement
  <2>3. \A x \in ToSet(LoadEntry(r, v)) : x \notin X
    BY <2>1, <2>2, CreatesIs
  <2>4. ToSet(g[r]) \cap X = {}
    BY <1>2, <2>3, ListEmpty
  <2> QED
    BY <1>2, <2>4, KeptNone
<1>6. IsList(h[w])
  BY <1>2, <1>4, ListKept
<1>7. \A i, j \in DOMAIN Words[v] : Words[v][i] = w /\ Words[v][j] = w => i = j
  BY NamedOnce
<1>8. Made(Words[v], h) = h[w]
  BY <1>4, <1>5, <1>6, <1>7, Files, MadeOne
<1> QED
  BY <1>1, <1>2, <1>3, <1>4, <1>8

\* And those of a point of grammar.
LEMMA PointParts ==
    ASSUME NEW v \in Versions, NEW p \in Allowed(Points[v])
    PROVE  Kept(GrammarMain(v), Creates("grammar", v, Clear("example", p.title))) = Create("example", p.title, p.examples, v)
<1> DEFINE g == [r \in ToSet(Points[v]) |-> Licensed(r, LoadPoint(r, v))]
           X == Creates("grammar", v, Clear("example", p.title))
           h == [r \in ToSet(Points[v]) |-> Kept(g[r], X)]
           a == <<Upsert("point", p.title, None, v), Clear("example", p.title)>>
           b == Create("example", p.title, p.examples, v)
<1>1. GrammarMain(v) = Made(Points[v], g)
  BY Zenon DEF GrammarMain, ForEach, Made, ToSet
<1>2. ASSUME NEW r \in ToSet(Points[v])
      PROVE  g[r] = (IF LicenseAllowed(r) THEN LoadPoint(r, v) ELSE <<>>) /\ IsList(g[r]) /\ h[r] = Kept(g[r], X)
  <2>1. g[r] = IF LicenseAllowed(r) THEN LoadPoint(r, v) ELSE <<>>
    BY DEF Licensed
  <2>2. h[r] = Kept(g[r], X)
    OBVIOUS
  <2> HIDE DEF g, h
  <2> QED
    BY <2>1, <2>2, PointList, ListEmpty
<1> HIDE DEF g, h
<1>3. Kept(Made(Points[v], g), X) = Made(Points[v], h)
  BY <1>2, Files, KeptMade
<1>4. p \in ToSet(Points[v]) /\ LicenseAllowed(p)
  BY DEF Allowed
<1>5. ASSUME NEW r \in ToSet(Points[v]), r # p PROVE h[r] = <<>>
  <2>1. r.title # p.title
    BY <1>4, <1>5, NamedOnce
  <2>2. ASSUME NEW x \in ToSet(LoadPoint(r, v)) PROVE x.key = r.title
    <3>1. x \in PointSet(r, v)
      BY PointList
    <3> QED
      BY <3>1 DEF PointSet, Creations, Creation, Upsert, Clear, Statement
  <2>3. \A x \in ToSet(LoadPoint(r, v)) : x \notin X
    BY <2>1, <2>2, CreatesIs
  <2>4. ToSet(g[r]) \cap X = {}
    BY <1>2, <2>3, ListEmpty
  <2> QED
    BY <1>2, <2>4, KeptNone
<1>6. IsList(h[p])
  BY <1>2, <1>4, ListKept
<1>7. \A i, j \in DOMAIN Points[v] : Points[v][i] = p /\ Points[v][j] = p => i = j
  BY NamedOnce
<1>8. Made(Points[v], h) = h[p]
  BY <1>4, <1>5, <1>6, <1>7, Files, MadeOne
<1>9. Kept(LoadPoint(p, v), X) = b
  <2>1. IsList(a) /\ ToSet(a) = {Upsert("point", p.title, None, v), Clear("example", p.title)}
    BY ListTwo
  <2>2. p.examples \in Nat
    BY <1>4, FilesAssumption
  <2>3. IsList(b) /\ ToSet(b) = Creations("example", p.title, p.examples, v)
    BY ListCreations, <2>2
  <2>4. LoadPoint(p, v) = a \o b
    BY DEF LoadPoint
  <2>5. \A x \in ToSet(a) : x.op # "create"
    BY <2>1 DEF Upsert, Clear, Statement
  <2>6. ToSet(b) \subseteq StatementsOf("grammar", v)
    BY <2>3 DEF PointSet, GrammarSet, StatementsOf
  <2>7. \A x \in ToSet(b) : x.op = "create" /\ x.table = "example" /\ x.key = p.title
    BY <2>3 DEF Creations, Creation
  <2> HIDE DEF a, b
  <2>8. ToSet(a) \cap X = {} /\ ToSet(b) \subseteq X
    BY <2>5, <2>6, <2>7, CreatesIs
  <2> HIDE DEF X
  <2>9. Kept(a \o b, X) = Kept(a, X) \o Kept(b, X)
    BY <2>1, <2>3, KeptJoined
  <2>10. Kept(a, X) = <<>> /\ Kept(b, X) = b
    BY <2>1, <2>3, <2>8, KeptNone, KeptAll
  <2>11. <<>> \o b = b
    BY <2>3, ConcatEmptySeq DEF IsList
  <2> QED
    BY <2>4, <2>9, <2>10, <2>11
<1> QED
  BY <1>1, <1>2, <1>3, <1>4, <1>8, <1>9

-----------------------------------------------------------------------------
(* They are served as they are numbered.                                    *)

LEMMA PartsFacts ==
    ASSUME NEW n \in Nat, NEW v
    PROVE  /\ IsList(Parts(n, v)) /\ Len(Parts(n, v)) = n /\ DOMAIN Parts(n, v) = 1 .. n
           /\ \A i \in 1 .. n : Parts(n, v)[i] = [rank |-> i, v |-> v] /\ Parts(n, v)[i].rank = i
<1> DEFINE f == Parts(n, v)
<1>1. f = [i \in 1 .. n |-> [rank |-> i, v |-> v]]
  BY DEF Parts
<1> HIDE DEF f
<1>2. f = [i \in 1 .. n |-> f[i]] /\ \A i \in 1 .. n : f[i] = [rank |-> i, v |-> v]
  BY <1>1
<1>3. IsList(f) /\ Len(f) = n /\ DOMAIN f = 1 .. n
  BY <1>2, ListIs
<1> QED
  BY <1>2, <1>3 DEF f

\* The parts a file gives a thing are served as they are numbered.
LEMMA CreatedParts ==
    ASSUME NEW t, NEW o, NEW n \in Nat, NEW v
    PROVE  Dto(Dto(Create(t, o, n, v), Child), ChildDto) = Parts(n, v)
<1> DEFINE c == Create(t, o, n, v)
           d == Dto(c, Child)
<1>1. DOMAIN c = 1 .. n /\ \A i \in 1 .. n : c[i] = Creation(t, o, i, v)
  <2>1. IsList(c) /\ Len(c) = n /\ \A i \in 1 .. n : c[i] = Creation(t, o, i, v)
    BY ListCreate
  <2> QED
    BY <2>1, ListFacts
<1> HIDE DEF c
<1>2. d = [i \in 1 .. n |-> Child(c[i])]
  BY <1>1, Zenon DEF Dto
<1>3. \A i \in 1 .. n : d[i].rank = i /\ d[i].v = v
  <2>1. \A i \in 1 .. n : c[i].rank = i /\ c[i].v = v
    BY <1>1 DEF Creation
  <2>2. \A i \in 1 .. n : d[i] = Child(c[i])
    BY <1>2
  <2>3. \A i \in 1 .. n : Child(c[i]).rank = i /\ Child(c[i]).v = v
    BY <2>1 DEF Child
  <2> HIDE DEF d
  <2> QED
    BY <2>2, <2>3
<1>4. DOMAIN d = 1 .. n
  BY <1>2
<1> HIDE DEF d
<1>5. Dto(d, ChildDto) = [i \in 1 .. n |-> ChildDto(d[i])]
  BY <1>4, Zenon DEF Dto
<1>6. \A i \in 1 .. n : ChildDto(d[i]) = [rank |-> i, v |-> v]
  BY <1>3 DEF ChildDto
<1> QED
  BY <1>5, <1>6, Zenon DEF Parts, c, d

LEMMA ByRankParts == ASSUME NEW n \in Nat, NEW v PROVE ByRank(Parts(n, v)) = Parts(n, v)
<1> DEFINE l == Parts(n, v)
           T == {c.rank : c \in ToSet(l)} \cup {0}
           m == Max(T)
<1>1. /\ IsList(l) /\ Len(l) = n /\ DOMAIN l = 1 .. n
      /\ \A i \in 1 .. n : l[i] = [rank |-> i, v |-> v] /\ l[i].rank = i
  BY PartsFacts
<1> HIDE DEF l
<1>2. ToSet(l) = {l[i] : i \in 1 .. n}
  BY <1>1 DEF ToSet
<1>3. T = 0 .. n
  BY <1>1, <1>2
<1>4. m = n
  <2>1. Max(0 .. n) = n
    BY DEF Max
  <2> QED
    BY <1>3, <2>1
<1>5. ASSUME NEW k \in 1 .. n PROVE Where(l, LAMBDA c : c.rank = k) = <<l[k]>>
  <2> DEFINE g == [c \in ToSet(l) |-> IF c.rank = k THEN <<c>> ELSE <<>>]
  <2>1. Where(l, LAMBDA c : c.rank = k) = Made(l, g)
    BY Zenon DEF Where, ForEach, Made, ToSet
  <2>2. l[k] \in ToSet(l) /\ g[l[k]] = <<l[k]>>
    BY <1>1 DEF ToSet
  <2>3. \A r \in ToSet(l) : r # l[k] => g[r] = <<>>
    BY <1>1, <1>2
  <2>4. \A i, j \in DOMAIN l : l[i] = l[k] /\ l[j] = l[k] => i = j
    BY <1>1
  <2>5. IsList(g[l[k]])
    BY <2>2, ListOne
  <2> HIDE DEF g
  <2>6. Made(l, g) = g[l[k]]
    BY <1>1, <2>2, <2>3, <2>4, <2>5, MadeOne
  <2> QED
    BY <2>1, <2>2, <2>6
<1>6. [k \in 1 .. n |-> Where(l, LAMBDA c : c.rank = k)] = Marked(l, ToSet(l))
  <2>1. Marked(l, ToSet(l)) = [k \in 1 .. n |-> IF l[k] \in ToSet(l) THEN <<l[k]>> ELSE <<>>]
    BY <1>1, Zenon DEF Marked
  <2>2. \A k \in 1 .. n : l[k] \in ToSet(l)
    BY <1>1 DEF ToSet
  <2> QED
    BY <1>5, <2>1, <2>2, Zenon
<1>7. ByRank(l) = FlattenSeq([k \in 1 .. m |-> Where(l, LAMBDA c : c.rank = k)])
  BY Zenon DEF ByRank
<1> HIDE DEF m
<1>8. ByRank(l) = Kept(l, ToSet(l))
  BY <1>4, <1>6, <1>7, Zenon DEF Kept
<1>9. Kept(l, ToSet(l)) = l
  BY <1>1, KeptAll
<1> QED
  BY <1>8, <1>9 DEF l

\* The senses, pronunciations and examples that are served.
LEMMA WordServed ==
    ASSUME NEW v \in Versions, Stands("vocab", v, Len(Programs["vocab"][v])), NEW w \in Allowed(Words[v])
    PROVE  /\ Dto(ChildrenOf("pron", w.lemma), ChildDto) = Parts(w.prons, v)
           /\ ByRank(Dto(ChildrenOf("sense", w.lemma), ChildDto)) = Parts(w.senses, v)
<1>1. w \in ToSet(Words[v])
  BY DEF Allowed
<1>2. w.senses \in Nat /\ w.prons \in Nat
  BY <1>1, FilesAssumption
<1>3. Programs["vocab"][v] = VocabMain(v)
  BY ProgramOf, ScriptNames DEF Program
<1>4. ASSUME NEW t \in {"sense", "pron"}
      PROVE  ChildrenOf(t, w.lemma) = Dto(Kept(VocabMain(v), Creates("vocab", v, Clear(t, w.lemma))), Child)
  <2>1. Clear(t, w.lemma) \in StatementsOf("vocab", v)
    BY DEF EntrySet, VocabSet, StatementsOf
  <2>2. Clear(t, w.lemma).op = "clear" /\ Clear(t, w.lemma).table = t /\ Clear(t, w.lemma).key = w.lemma
    BY DEF Clear, Statement
  <2> QED
    BY <1>3, <2>1, <2>2, AllStands, ScriptNames
<1>5. ChildrenOf("sense", w.lemma) = Dto(Create("sense", w.lemma, w.senses, v), Child)
  BY <1>4, WordParts
<1>6. ChildrenOf("pron", w.lemma) = Dto(Create("pron", w.lemma, w.prons, v), Child)
  BY <1>4, WordParts
<1> QED
  BY <1>2, <1>5, <1>6, CreatedParts, ByRankParts

LEMMA PointServed ==
    ASSUME NEW v \in Versions, Stands("grammar", v, Len(Programs["grammar"][v])), NEW p \in Allowed(Points[v])
    PROVE  Dto(ChildrenOf("example", p.title), ChildDto) = Parts(p.examples, v) /\ Len(ChildrenOf("example", p.title)) = p.examples
<1>1. p \in ToSet(Points[v])
  BY DEF Allowed
<1>2. p.examples \in Nat
  BY <1>1, FilesAssumption
<1>3. Programs["grammar"][v] = GrammarMain(v)
  BY ProgramOf, ScriptNames DEF Program
<1>4. ChildrenOf("example", p.title) = Dto(Create("example", p.title, p.examples, v), Child)
  <2>1. Clear("example", p.title) \in StatementsOf("grammar", v)
    BY DEF PointSet, GrammarSet, StatementsOf
  <2>2. Clear("example", p.title).op = "clear" /\ Clear("example", p.title).table = "example" /\ Clear("example", p.title).key = p.title
    BY DEF Clear, Statement
  <2> QED
    BY <1>3, <2>1, <2>2, AllStands, ScriptNames, PointParts
<1>5. Len(ChildrenOf("example", p.title)) = p.examples
  <2> DEFINE c == Create("example", p.title, p.examples, v)
             d == Dto(c, Child)
  <2>1. IsList(c) /\ Len(c) = p.examples
    BY <1>2, ListCreate
  <2>2. DOMAIN c = 1 .. p.examples
    BY <2>1, ListFacts
  <2> HIDE DEF c
  <2>3. d = [i \in 1 .. p.examples |-> Child(c[i])]
    BY <2>2, Zenon DEF Dto
  <2>4. d = [i \in 1 .. p.examples |-> d[i]]
    BY <2>3
  <2> HIDE DEF d
  <2>5. Len(d) = p.examples
    BY <1>2, <2>4, ListIs
  <2> QED
    BY <1>4, <2>5 DEF c, d
<1> QED
  BY <1>2, <1>4, <1>5, CreatedParts

-----------------------------------------------------------------------------
(* The words, and the topics of the flashcards.                             *)

LEMMA TopicList ==
    ASSUME IsList(rows), NEW level
    PROVE  /\ IsList(InTopic(level))
           /\ ToSet(InTopic(level)) = {r \in ToSet(rows) : r.table = "entry" /\ WordOf(r).level = level}
<1> DEFINE l == Table("entry")
           X == {r \in ToSet(l) : WordOf(r).level = level}
<1>1. IsList(l) /\ ToSet(l) = {r \in ToSet(rows) : r.table = "entry"}
  BY Listed
<1> HIDE DEF l
<1>2. DOMAIN l = 1 .. Len(l) /\ \A i \in 1 .. Len(l) : l[i] \in ToSet(l)
  BY <1>1, ListFacts
<1>3. [i \in DOMAIN l |-> IF WordOf(l[i]).level = level THEN <<l[i]>> ELSE <<>>] = Marked(l, X)
  BY <1>2, Zenon DEF Marked
<1>4. InTopic(level) = Kept(l, X)
  BY <1>3, Zenon DEF InTopic, Where, ForEach, Kept, l
<1>5. IsList(Kept(l, X)) /\ ToSet(Kept(l, X)) = ToSet(l) \cap X
  BY <1>1, ListKept
<1> QED
  BY <1>1, <1>4, <1>5

\* The row of a word that is served.
LEMMA WordRow ==
    ASSUME IsList(rows), NEW v \in Versions, Stands("vocab", v, Len(Programs["vocab"][v])), NEW w \in Allowed(Words[v])
    PROVE  \E r \in ToSet(rows) : r.table = "entry" /\ r.key = w.lemma /\ r.v = v /\ WordOf(r) = w
<1> DEFINE s == Upsert("entry", w.lemma, None, v)
<1>1. s \in StatementsOf("vocab", v) /\ Puts(s) /\ s.table = "entry" /\ s.key = w.lemma /\ s.v = v
  <2>1. s \in EntrySet(w, v)
    BY DEF EntrySet
  <2>2. s \in VocabSet(v)
    BY <2>1 DEF VocabSet
  <2> QED
    BY <2>2 DEF StatementsOf, Upsert, Statement, Puts
<1>2. Standing(s)
  BY <1>1, AllStands, ScriptNames
<1>3. PICK r \in ToSet(rows) : r.table = "entry" /\ r.key = w.lemma /\ r.v = v
  BY <1>1, <1>2 DEF Standing, Same
<1>4. WordOf(r) = w
  BY <1>3, NamedOnce DEF WordOf, Allowed
<1> QED
  BY <1>3, <1>4

LEMMA TopicsCount ==
    ASSUME IsList(rows), NEW v \in Versions, Stands("vocab", v, Len(Programs["vocab"][v])), NEW level
    PROVE  Cardinality({w \in Allowed(Words[v]) : w.level = level}) <= Len(InTopic(level))
<1> DEFINE W == {w \in Allowed(Words[v]) : w.level = level}
           l == InTopic(level)
           n == Len(l)
<1>1. IsList(l) /\ ToSet(l) = {r \in ToSet(rows) : r.table = "entry" /\ WordOf(r).level = level}
  BY TopicList
<1>2. n \in Nat /\ DOMAIN l = 1 .. n
  BY <1>1, ListFacts
<1>3. ASSUME NEW w \in W PROVE \E i \in 1 .. n : l[i].key = w.lemma
  <2>1. PICK r \in ToSet(rows) : r.table = "entry" /\ r.key = w.lemma /\ WordOf(r) = w
    BY WordRow
  <2>2. r \in ToSet(l)
    BY <1>1, <2>1
  <2> QED
    BY <1>2, <2>1, <2>2 DEF ToSet
<1> DEFINE f == [w \in W |-> CHOOSE i \in 1 .. n : l[i].key = w.lemma]
<1>4. \A w \in W : f[w] \in 1 .. n /\ l[f[w]].key = w.lemma
  BY <1>3
<1>5. f \in [W -> 1 .. n]
  BY <1>4
<1>6. ASSUME NEW w \in W, NEW u \in W, f[w] = f[u] PROVE w = u
  <2>1. w.lemma = u.lemma
    BY <1>4, <1>6
  <2> QED
    BY <2>1, NamedOnce DEF Allowed
<1> HIDE DEF f, W
<1>7. f \in Injection(W, 1 .. n)
  BY <1>5, <1>6 DEF Injection, IsInjective
<1>8. IsFiniteSet(1 .. n) /\ Cardinality(1 .. n) = n
  <2> HIDE DEF n
  <2>1. 1 \in Int /\ n \in Int /\ n \in Nat
    BY <1>2
  <2>2. IsFiniteSet(1 .. n) /\ Cardinality(1 .. n) = IF 1 > n THEN 0 ELSE n - 1 + 1
    BY <2>1, FS_Interval
  <2> QED
    BY <2>1, <2>2
<1>9. Cardinality(W) <= Cardinality(1 .. n)
  BY <1>7, <1>8, FS_Injection
<1> QED
  BY <1>8, <1>9 DEF W

\* What is said of a word, by whatever list the request gets.
LEMMA WordTold ==
    ASSUME CatalogueSound, WordsKnown, NEW v \in Versions, Stands("vocab", v, Len(Programs["vocab"][v])), NEW w \in Allowed(Words[v]),
           NEW raw \in Requests
    PROVE  LET senses == Parts(w.senses, v)
               prons  == Parts(w.prons, v)
               word   == [lemma |-> w.lemma, v |-> v, pronunciations |-> prons, senses |-> senses]
               card   == [term |-> w.lemma, definition |-> FirstOf(senses), ipa |-> FirstOf(prons)]
               topic  == GetTopicFlashcards(w.level, raw)
           IN /\ Tells(GetVocab(raw), LAMBDA d : d.lemma = w.lemma, LAMBDA d : d = word, Table("entry"), raw)
              /\ Tells(GetFlashcards(raw), LAMBDA d : d.term = w.lemma, LAMBDA d : d = card, Table("entry"), raw)
              /\ Tells(topic, LAMBDA d : d.term = w.lemma, LAMBDA d : d = card, InTopic(w.level), raw)
              /\ \A cards \in topic : card \notin cards =>
                    Cardinality(cards) = ParseLimit(raw) /\ \A d \in cards : Alphabet[d.term] < Alphabet[w.lemma]
<1> DEFINE senses == Parts(w.senses, v)
           prons == Parts(w.prons, v)
           word == [lemma |-> w.lemma, v |-> v, pronunciations |-> prons, senses |-> senses]
           card == [term |-> w.lemma, definition |-> FirstOf(senses), ipa |-> FirstOf(prons)]
           l == Table("entry")
           t == InTopic(w.level)
           entries == Take(ToSet(l), Unordered, raw)
           first == Take(ToSet(l), ByLevel, raw)
           topic == Take(ToSet(t), ByLemma, raw)
<1>0. IsList(rows)
  BY DEF CatalogueSound
<1>1. PICK r \in ToSet(rows) : r.table = "entry" /\ r.key = w.lemma /\ r.v = v /\ WordOf(r) = w
  BY <1>0, WordRow
<1>2. Dto(ChildrenOf("pron", w.lemma), ChildDto) = prons /\ ByRank(Dto(ChildrenOf("sense", w.lemma), ChildDto)) = senses
  BY WordServed
<1>3. VocabDto(r) = word
  BY <1>1, <1>2 DEF VocabDto
<1>4. word.lemma = w.lemma /\ word.senses = senses /\ word.pronunciations = prons /\ card.term = w.lemma
  OBVIOUS
<1> HIDE DEF word, senses, prons
<1>5. FlashcardDto(r) = card
  BY <1>3, <1>4 DEF FlashcardDto
<1>6. \A q : VocabDto(q).lemma = q.key /\ FlashcardDto(q).term = q.key
  BY DEF VocabDto, FlashcardDto
<1> HIDE DEF card
<1>7. /\ IsList(l) /\ ToSet(l) = {q \in ToSet(rows) : q.table = "entry"}
      /\ IsList(t) /\ ToSet(t) = {q \in ToSet(rows) : q.table = "entry" /\ WordOf(q).level = w.level}
  BY <1>0, Listed, TopicList
<1>8. r \in ToSet(l) /\ r \in ToSet(t) /\ (\A q \in ToSet(l) : q.key = w.lemma => q = r) /\ \A q \in ToSet(t) : q.key = w.lemma => q = r
  BY <1>1, <1>7 DEF CatalogueSound, Same
<1>9. WordRows(ToSet(l)) /\ WordRows(ToSet(t))
  <2>1. ToSet(l) \subseteq {q \in ToSet(rows) : q.table = "entry"} /\ ToSet(t) \subseteq {q \in ToSet(rows) : q.table = "entry"}
    BY <1>7
  <2> HIDE DEF l, t
  <2> QED
    BY <2>1, RowsOfWords
<1>10. entries # {} /\ \A S \in entries : S \subseteq ToSet(l) /\ (Len(l) <= ParseLimit(raw) => S = ToSet(l))
  BY <1>7, TakenUnordered
<1>11. first # {} /\ \A S \in first : S \subseteq ToSet(l) /\ (Len(l) <= ParseLimit(raw) => S = ToSet(l))
  BY <1>7, <1>9, TakenWords
<1>12. topic # {} /\ \A S \in topic : /\ S \subseteq ToSet(t) /\ (Len(t) <= ParseLimit(raw) => S = ToSet(t))
                                      /\ S # ToSet(t) => Cardinality(S) = ParseLimit(raw)
                                      /\ \A q \in S : \A p \in ToSet(t) \ S : Alphabet[q.key] < Alphabet[p.key]
  BY <1>7, <1>9, TakenWords
<1>13. /\ GetVocab(raw) = {{VocabDto(q) : q \in S} : S \in entries}
       /\ GetFlashcards(raw) = {{FlashcardDto(q) : q \in S} : S \in first}
       /\ GetTopicFlashcards(w.level, raw) = {{FlashcardDto(q) : q \in S} : S \in topic}
  BY Zenon DEF GetVocab, GetFlashcards, GetTopicFlashcards, Answers, entries, first, topic, l, t
<1> HIDE DEF entries, first, topic, l, t
<1>14. ASSUME NEW S \in entries
       PROVE  /\ \A d \in {VocabDto(q) : q \in S} : d.lemma = w.lemma => d = word
              /\ Len(l) <= ParseLimit(raw) => \E d \in {VocabDto(q) : q \in S} : d.lemma = w.lemma
  BY <1>3, <1>4, <1>6, <1>8, <1>10
<1>15. ASSUME NEW S \in first
       PROVE  /\ \A d \in {FlashcardDto(q) : q \in S} : d.term = w.lemma => d = card
              /\ Len(l) <= ParseLimit(raw) => \E d \in {FlashcardDto(q) : q \in S} : d.term = w.lemma
  BY <1>4, <1>5, <1>6, <1>8, <1>11
<1>16. ASSUME NEW S \in topic
       PROVE  /\ \A d \in {FlashcardDto(q) : q \in S} : d.term = w.lemma => d = card
              /\ Len(t) <= ParseLimit(raw) => \E d \in {FlashcardDto(q) : q \in S} : d.term = w.lemma
  BY <1>4, <1>5, <1>6, <1>8, <1>12
<1>17. ASSUME NEW S \in topic, card \notin {FlashcardDto(q) : q \in S}
       PROVE  /\ Cardinality({FlashcardDto(q) : q \in S}) = ParseLimit(raw)
              /\ \A d \in {FlashcardDto(q) : q \in S} : Alphabet[d.term] < Alphabet[w.lemma]
  <2>1. r \in ToSet(t) \ S /\ S \subseteq ToSet(t)
    BY <1>5, <1>8, <1>12, <1>17
  <2>2. Cardinality(S) = ParseLimit(raw) /\ \A q \in S : Alphabet[q.key] < Alphabet[w.lemma]
    BY <1>1, <1>12, <2>1
  <2> DEFINE D == {FlashcardDto(q) : q \in S}
             f == [q \in S |-> FlashcardDto(q)]
  <2>3. IsFiniteSet(S)
    BY <1>7, <2>1, FiniteList, FS_Subset
  <2>4. \A q, p \in S : FlashcardDto(q) = FlashcardDto(p) => q = p
    <3>1. \A q, p \in ToSet(t) : q.key = p.key => q = p
      BY <1>9, Zenon DEF WordRows
    <3>2. ASSUME NEW q \in S, NEW p \in S, FlashcardDto(q) = FlashcardDto(p) PROVE q = p
      <4>1. FlashcardDto(q).term = q.key /\ FlashcardDto(p).term = p.key
        BY <1>6
      <4>2. q.key = p.key
        BY <3>2, <4>1
      <4> QED
        BY <2>1, <3>1, <4>2
    <3> QED
      BY <3>2
  <2>5. f \in Bijection(S, D)
    <3>1. f \in [S -> D] /\ \A d \in D : \E q \in S : f[q] = d
      OBVIOUS
    <3>2. \A q, p \in S : f[q] = f[p] => q = p
      BY <2>4
    <3> HIDE DEF f, D
    <3> QED
      BY <3>1, <3>2 DEF Bijection, Injection, IsInjective, Surjection
  <2>6. Cardinality(D) = Cardinality(S)
    <3> HIDE DEF D, f
    <3> QED
      BY <2>3, <2>5, FS_Bijection DEF ExistsBijection
  <2> QED
    BY <1>6, <2>2, <2>6
<1> QED
  <2>1. Tells(GetVocab(raw), LAMBDA d : d.lemma = w.lemma, LAMBDA d : d = word, Table("entry"), raw)
    <3>1. GetVocab(raw) # {}
      <4>1. PICK S : S \in entries
        BY <1>10
      <4>2. {VocabDto(q) : q \in S} \in {{VocabDto(q) : q \in Z} : Z \in entries}
        BY <4>1, Zenon
      <4>3. {VocabDto(q) : q \in S} \in GetVocab(raw)
        BY <1>13, <4>2, Zenon
      <4> QED
        BY <4>3, Zenon
    <3>2. ASSUME NEW answer \in GetVocab(raw)
          PROVE  /\ \A d \in answer : d.lemma = w.lemma => d = word
                 /\ Len(l) <= ParseLimit(raw) => \E d \in answer : d.lemma = w.lemma
      <4>1. PICK S \in entries : answer = {VocabDto(q) : q \in S}
        BY <1>13
      <4> QED
        BY <1>14, <4>1, Zenon
    <3>3. l = Table("entry")
      BY DEF l
    <3> QED
      BY <3>1, <3>2, <3>3, Zenon DEF Tells
  <2>2. Tells(GetFlashcards(raw), LAMBDA d : d.term = w.lemma, LAMBDA d : d = card, Table("entry"), raw)
    <3>1. GetFlashcards(raw) # {}
      <4>1. PICK S : S \in first
        BY <1>11
      <4>2. {FlashcardDto(q) : q \in S} \in {{FlashcardDto(q) : q \in Z} : Z \in first}
        BY <4>1, Zenon
      <4>3. {FlashcardDto(q) : q \in S} \in GetFlashcards(raw)
        BY <1>13, <4>2, Zenon
      <4> QED
        BY <4>3, Zenon
    <3>2. ASSUME NEW answer \in GetFlashcards(raw)
          PROVE  /\ \A d \in answer : d.term = w.lemma => d = card
                 /\ Len(l) <= ParseLimit(raw) => \E d \in answer : d.term = w.lemma
      <4>1. PICK S \in first : answer = {FlashcardDto(q) : q \in S}
        BY <1>13
      <4> QED
        BY <1>15, <4>1, Zenon
    <3>3. l = Table("entry")
      BY DEF l
    <3> QED
      BY <3>1, <3>2, <3>3, Zenon DEF Tells
  <2>3. Tells(GetTopicFlashcards(w.level, raw), LAMBDA d : d.term = w.lemma, LAMBDA d : d = card, InTopic(w.level), raw)
    <3>1. GetTopicFlashcards(w.level, raw) # {}
      <4>1. PICK S : S \in topic
        BY <1>12
      <4>2. {FlashcardDto(q) : q \in S} \in {{FlashcardDto(q) : q \in Z} : Z \in topic}
        BY <4>1, Zenon
      <4>3. {FlashcardDto(q) : q \in S} \in GetTopicFlashcards(w.level, raw)
        BY <1>13, <4>2, Zenon
      <4> QED
        BY <4>3, Zenon
    <3>2. ASSUME NEW answer \in GetTopicFlashcards(w.level, raw)
          PROVE  /\ \A d \in answer : d.term = w.lemma => d = card
                 /\ Len(t) <= ParseLimit(raw) => \E d \in answer : d.term = w.lemma
      <4>1. PICK S \in topic : answer = {FlashcardDto(q) : q \in S}
        BY <1>13
      <4> QED
        BY <1>16, <4>1, Zenon
    <3>3. t = InTopic(w.level)
      BY DEF t
    <3> QED
      BY <3>1, <3>2, <3>3, Zenon DEF Tells
  <2>4. ASSUME NEW cards \in GetTopicFlashcards(w.level, raw), card \notin cards
        PROVE  Cardinality(cards) = ParseLimit(raw) /\ \A d \in cards : Alphabet[d.term] < Alphabet[w.lemma]
    <3>1. PICK S \in topic : cards = {FlashcardDto(q) : q \in S}
      BY <1>13
    <3> QED
      BY <1>17, <2>4, <3>1
  <2> QED
    BY <2>1, <2>2, <2>3, <2>4 DEF word, card, senses, prons

LEMMA VocabIsServed ==
    ASSUME CatalogueSound, WordsKnown, NEW v \in Versions, Stands("vocab", v, Len(Programs["vocab"][v]))
    PROVE  VocabServed(v)
<1>0. IsList(rows)
  BY DEF CatalogueSound
<1>1. ASSUME NEW topic \in GetFlashcardTopics
      PROVE  Cardinality({w \in Allowed(Words[v]) : w.level = topic.level}) <= topic.totalCards
  <2>1. PICK r \in ToSet(Table("entry")) : topic = FlashcardTopicDto(WordOf(r).level)
    BY <1>1 DEF GetFlashcardTopics
  <2>2. topic.level = WordOf(r).level /\ topic.totalCards = Len(InTopic(topic.level))
    BY <2>1 DEF FlashcardTopicDto
  <2> QED
    BY <1>0, <2>2, TopicsCount
<1> QED
  BY <1>1, WordTold, Zenon DEF VocabServed, Allowed

-----------------------------------------------------------------------------
(* The points of grammar and their sections.                                *)

\* The row of a point of grammar that is served.
LEMMA PointRow ==
    ASSUME IsList(rows), NEW v \in Versions, Stands("grammar", v, Len(Programs["grammar"][v])), NEW p \in Allowed(Points[v])
    PROVE  \E r \in ToSet(rows) :
              /\ r.table = "point" /\ r.key = p.title /\ r.v = v /\ CategoryOf(r) = p.category
              /\ GrammarDto(r) = [title |-> p.title, v |-> v, examples |-> Parts(p.examples, v)]
              /\ GrammarSummaryDto(r) = [title |-> p.title, exampleCount |-> p.examples]
<1> DEFINE s == Upsert("point", p.title, None, v)
<1>1. s \in StatementsOf("grammar", v) /\ Puts(s) /\ s.table = "point" /\ s.key = p.title /\ s.v = v
  <2>1. s \in PointSet(p, v)
    BY DEF PointSet
  <2>2. s \in GrammarSet(v)
    BY <2>1 DEF GrammarSet
  <2> QED
    BY <2>2 DEF StatementsOf, Upsert, Statement, Puts
<1>2. Standing(s)
  BY <1>1, AllStands, ScriptNames
<1>3. PICK r \in ToSet(rows) : r.table = "point" /\ r.key = p.title /\ r.v = v
  BY <1>1, <1>2 DEF Standing, Same
<1>4. (CHOOSE q \in ToSet(Points[v]) : q.title = p.title) = p
  BY NamedOnce DEF Allowed
<1>5. CategoryOf(r) = p.category
  BY <1>3, <1>4 DEF CategoryOf
<1>6. Dto(ChildrenOf("example", p.title), ChildDto) = Parts(p.examples, v) /\ Len(ChildrenOf("example", p.title)) = p.examples
  BY PointServed
<1>7. GrammarDto(r) = [title |-> p.title, v |-> v, examples |-> Parts(p.examples, v)]
  BY <1>3, <1>6 DEF GrammarDto
<1>8. GrammarSummaryDto(r) = [title |-> p.title, exampleCount |-> p.examples]
  BY <1>3, <1>6 DEF GrammarSummaryDto
<1> QED
  BY <1>3, <1>5, <1>7, <1>8

\* The points of a section, and a section with its summaries.
SectionOf(c) == {r \in ToSet(rows) : r.table = "point" /\ CategoryOf(r) = c}
LEMMA SectionList ==
    ASSUME IsList(rows), NEW section \in GetGrammarSections
    PROVE  section.lessons = {GrammarSummaryDto(r) : r \in SectionOf(section.category)}
<1> DEFINE l == Table("point")
           points(c) == Where(l, LAMBDA r : CategoryOf(r) = c)
<1>1. IsList(l) /\ ToSet(l) = {r \in ToSet(rows) : r.table = "point"}
  BY Listed
<1>3. PICK c \in {CategoryOf(r) : r \in ToSet(l)} :
         section = [category |-> c, lessonCount |-> Len(points(c)), lessons |-> ToSet(Dto(points(c), GrammarSummaryDto))]
  BY Zenon DEF GetGrammarSections, GrammarSectionsDto
<1> DEFINE X == {r \in ToSet(l) : CategoryOf(r) = c}
           k == points(c)
<1>4. ToSet(k) = SectionOf(c)
  <2> HIDE DEF l
  <2>1. DOMAIN l = 1 .. Len(l) /\ \A i \in 1 .. Len(l) : l[i] \in ToSet(l)
    BY <1>1, ListFacts
  <2>2. [i \in DOMAIN l |-> IF CategoryOf(l[i]) = c THEN <<l[i]>> ELSE <<>>] = Marked(l, X)
    BY <2>1, Zenon DEF Marked
  <2>3. k = Kept(l, X)
    BY <2>2, Zenon DEF Where, ForEach, Kept
  <2>4. ToSet(Kept(l, X)) = ToSet(l) \cap X
    BY <1>1, ListKept
  <2> QED
    BY <1>1, <2>3, <2>4 DEF SectionOf
<1>5. section.category = c /\ section.lessons = ToSet(Dto(k, GrammarSummaryDto))
  BY <1>3
<1> HIDE DEF k
<1>6. ToSet(Dto(k, GrammarSummaryDto)) = {GrammarSummaryDto(r) : r \in ToSet(k)}
  BY Zenon DEF Dto, ToSet
<1> QED
  BY <1>4, <1>5, <1>6

\* A category has its section.
LEMMA SectionThere ==
    ASSUME IsList(rows), NEW r \in ToSet(rows), r.table = "point"
    PROVE  \E section \in GetGrammarSections : section.category = CategoryOf(r)
<1> DEFINE l == Table("point")
           points(c) == Where(l, LAMBDA q : CategoryOf(q) = c)
           section(c) == [category |-> c, lessonCount |-> Len(points(c)), lessons |-> ToSet(Dto(points(c), GrammarSummaryDto))]
<1>1. r \in ToSet(l)
  BY Listed
<1>2. GetGrammarSections = {section(c) : c \in {CategoryOf(q) : q \in ToSet(l)}}
  BY Zenon DEF GetGrammarSections, GrammarSectionsDto
<1>3. section(CategoryOf(r)).category = CategoryOf(r)
  OBVIOUS
<1> HIDE DEF section
<1> QED
  BY <1>1, <1>2, <1>3

\* No key has two rows.
KeysOnce == \A i, j \in 1 .. Len(rows) : Same(rows[i], rows[j]) => i = j
LEMMA FindOne ==
    ASSUME IsList(rows), KeysOnce, NEW r \in ToSet(rows)
    PROVE  Find(r.table, r.key) = <<r>>
<1> DEFINE X == At(r.table, r.key)
           g == [q \in ToSet(rows) |-> IF q \in X THEN <<q>> ELSE <<>>]
<1>1. DOMAIN rows = 1 .. Len(rows) /\ \A i \in 1 .. Len(rows) : rows[i] \in ToSet(rows)
  BY ListFacts
<1>2. ASSUME NEW q \in ToSet(rows), q \in X PROVE q = r
  <2>1. PICK i \in 1 .. Len(rows) : rows[i] = q
    BY <1>1 DEF ToSet
  <2>2. PICK j \in 1 .. Len(rows) : rows[j] = r
    BY <1>1 DEF ToSet
  <2>3. Same(rows[i], rows[j])
    BY <1>2, <2>1, <2>2 DEF At, Same
  <2> QED
    BY <2>1, <2>2, <2>3 DEF KeysOnce
<1>3. r \in X
  BY DEF At
<1>4. Kept(rows, X) = Made(rows, g)
  <2>1. Marked(rows, X) = [i \in DOMAIN rows |-> g[rows[i]]]
    BY <1>1, Zenon DEF Marked
  <2> QED
    BY <2>1, Zenon DEF Kept, Made
<1>5. g[r] = <<r>> /\ \A q \in ToSet(rows) : q # r => g[q] = <<>>
  BY <1>2, <1>3
<1>6. \A i, j \in DOMAIN rows : rows[i] = r /\ rows[j] = r => i = j
  BY <1>1 DEF KeysOnce, Same
<1>7. IsList(g[r])
  BY <1>5, ListOne
<1> HIDE DEF g, X
<1>8. Made(rows, g) = g[r]
  BY <1>5, <1>6, <1>7, MadeOne
<1> QED
  BY <1>4, <1>5, <1>8, FindKept DEF X

LEMMA GrammarIsServed ==
    ASSUME CatalogueSound, KeysOnce, NEW v \in Versions, Stands("grammar", v, Len(Programs["grammar"][v]))
    PROVE  GrammarServed(v)
<1> SUFFICES ASSUME NEW p \in Allowed(Points[v])
             PROVE  LET served == [title |-> p.title, v |-> v, examples |-> Parts(p.examples, v)]
                        counted == [title |-> p.title, exampleCount |-> p.examples]
                    IN /\ \A raw \in Requests :
                             Tells(GetGrammar(raw), LAMBDA d : d.title = p.title, LAMBDA d : d = served, Table("point"), raw)
                       /\ \A section \in GetGrammarSections : counted \in section.lessons <=> section.category = p.category
                       /\ \E section \in GetGrammarSection(p.category) : counted \in section.lessons
                       /\ GetGrammarLesson(p.title) = <<served @@ counted>>
  BY Zenon DEF GrammarServed, Allowed
<1> DEFINE served == [title |-> p.title, v |-> v, examples |-> Parts(p.examples, v)]
           counted == [title |-> p.title, exampleCount |-> p.examples]
           l == Table("point")
<1>0. IsList(rows)
  BY DEF CatalogueSound
<1>1. PICK r \in ToSet(rows) : /\ r.table = "point" /\ r.key = p.title /\ r.v = v /\ CategoryOf(r) = p.category
                               /\ GrammarDto(r) = served /\ GrammarSummaryDto(r) = counted
  BY <1>0, PointRow
<1>2. counted.title = p.title /\ served.title = p.title
  OBVIOUS
<1> HIDE DEF served, counted
<1>3. ASSUME NEW raw \in Requests
      PROVE  Tells(GetGrammar(raw), LAMBDA d : d.title = p.title, LAMBDA d : d = served, Table("point"), raw)
  <2> DEFINE takes == Take(ToSet(l), Unordered, raw)
  <2>1. IsList(l) /\ ToSet(l) = {q \in ToSet(rows) : q.table = "point"}
    BY <1>0, Listed
  <2>2. r \in ToSet(l) /\ \A q \in ToSet(l) : q.key = p.title => q = r
    BY <1>1, <2>1 DEF CatalogueSound, Same
  <2>3. takes # {} /\ \A S \in takes : S \subseteq ToSet(l) /\ (Len(l) <= ParseLimit(raw) => S = ToSet(l))
    BY <2>1, TakenUnordered
  <2>4. \A q : GrammarDto(q).title = q.key
    BY DEF GrammarDto
  <2> HIDE DEF takes, l
  <2>5. ASSUME NEW S \in takes
        PROVE  /\ \A d \in {GrammarDto(q) : q \in S} : d.title = p.title => d = served
               /\ Len(l) <= ParseLimit(raw) => \E d \in {GrammarDto(q) : q \in S} : d.title = p.title
    BY <1>1, <1>2, <2>2, <2>3, <2>4
  <2>6. GetGrammar(raw) = {{GrammarDto(q) : q \in S} : S \in takes}
    BY Zenon DEF GetGrammar, Answers, takes, l
  <2> QED
    <3>1. GetGrammar(raw) # {}
      BY <2>3, <2>6
    <3>2. ASSUME NEW answer \in GetGrammar(raw)
          PROVE  /\ \A d \in answer : d.title = p.title => d = served
                 /\ Len(l) <= ParseLimit(raw) => \E d \in answer : d.title = p.title
      <4>1. PICK S \in takes : answer = {GrammarDto(q) : q \in S}
        BY <2>6
      <4> QED
        BY <2>5, <4>1, Zenon
    <3>3. l = Table("point")
      BY DEF l
    <3> QED
      BY <3>1, <3>2, <3>3, Zenon DEF Tells
<1>4. ASSUME NEW q \in ToSet(rows), q.table = "point", GrammarSummaryDto(q) = counted PROVE q = r
  <2>1. q.key = p.title
    BY <1>2, <1>4 DEF GrammarSummaryDto
  <2>2. PICK i \in 1 .. Len(rows) : rows[i] = q
    BY <1>0, ListFacts DEF ToSet
  <2>3. PICK j \in 1 .. Len(rows) : rows[j] = r
    BY <1>0, ListFacts DEF ToSet
  <2>4. Same(rows[i], rows[j])
    BY <1>1, <1>4, <2>1, <2>2, <2>3 DEF Same
  <2> QED
    BY <2>2, <2>3, <2>4 DEF KeysOnce
<1>5. ASSUME NEW section \in GetGrammarSections PROVE counted \in section.lessons <=> section.category = p.category
  <2>1. section.lessons = {GrammarSummaryDto(q) : q \in SectionOf(section.category)}
    BY <1>0, SectionList
  <2>2. ASSUME counted \in section.lessons PROVE section.category = p.category
    <3>1. PICK q \in SectionOf(section.category) : GrammarSummaryDto(q) = counted
      BY <2>1, <2>2
    <3> QED
      BY <1>1, <1>4, <3>1 DEF SectionOf
  <2>3. ASSUME section.category = p.category PROVE counted \in section.lessons
    <3>1. r \in SectionOf(section.category)
      BY <1>1, <2>3 DEF SectionOf
    <3> QED
      BY <1>1, <2>1, <3>1
  <2> QED
    BY <2>2, <2>3
<1>6. \E section \in GetGrammarSection(p.category) : counted \in section.lessons
  <2>1. PICK section \in GetGrammarSections : section.category = p.category
    BY <1>0, <1>1, SectionThere
  <2> QED
    BY <1>5, <2>1 DEF GetGrammarSection
<1>7. GetGrammarLesson(p.title) = <<served @@ counted>>
  <2>1. Find("point", p.title) = <<r>>
    BY <1>0, <1>1, FindOne
  <2>2. GetGrammarLesson(p.title) = [i \in DOMAIN <<r>> |-> GrammarLessonDto(<<r>>[i])]
    BY <2>1, Zenon DEF GetGrammarLesson, Dto
  <2>3. GrammarLessonDto(r) = served @@ counted
    BY <1>1, Zenon DEF GrammarLessonDto
  <2> QED
    BY <2>2, <2>3
<1> QED
  BY <1>3, <1>5, <1>6, <1>7 DEF served, counted

-----------------------------------------------------------------------------
(* The lessons of a fixture.                                                *)

\* The statements for the lessons of a module, and for the exercises of a lesson.
LessonInserts(m) == [i \in DOMAIN m.lessons |-> Insert("lesson", m.lessons[i].id, m.id)]
ExerciseInserts(l) == [i \in DOMAIN l.exerciseIds |-> Insert("exercise", l.exerciseIds[i], l.id)]
OfSeed(t, o) == {s \in SeedSet : s.table = t /\ s.parent = o}

LEMMA Singles == ASSUME NEW l, IsList(l) PROVE FlattenSeq([i \in DOMAIN l |-> <<l[i]>>]) = l
<1>1. DOMAIN l = 1 .. Len(l) /\ \A i \in 1 .. Len(l) : l[i] \in ToSet(l)
  BY ListFacts
<1>2. [i \in DOMAIN l |-> <<l[i]>>] = Marked(l, ToSet(l))
  BY <1>1, Zenon DEF Marked
<1>3. Kept(l, ToSet(l)) = l
  BY KeptAll
<1> QED
  BY <1>2, <1>3, Zenon DEF Kept

LEMMA InsertLists ==
    /\ \A m \in AllModules :
          /\ IsList(LessonInserts(m)) /\ ToSet(LessonInserts(m)) = {Insert("lesson", l.id, m.id) : l \in ToSet(m.lessons)}
          /\ ForEach(m.lessons, LAMBDA l : <<Insert("lesson", l.id, m.id)>>) = LessonInserts(m)
    /\ \A m \in AllModules : \A l \in ToSet(m.lessons) :
          /\ IsList(ExerciseInserts(l)) /\ ToSet(ExerciseInserts(l)) = {Insert("exercise", e, l.id) : e \in ToSet(l.exerciseIds)}
          /\ ForEach(l.exerciseIds, LAMBDA e : <<Insert("exercise", e, l.id)>>) = ExerciseInserts(l)
<1>1. ASSUME NEW m \in AllModules
      PROVE  /\ IsList(LessonInserts(m)) /\ ToSet(LessonInserts(m)) = {Insert("lesson", l.id, m.id) : l \in ToSet(m.lessons)}
             /\ ForEach(m.lessons, LAMBDA l : <<Insert("lesson", l.id, m.id)>>) = LessonInserts(m)
  <2> DEFINE f == LessonInserts(m)
             n == Len(m.lessons)
  <2>1. IsList(m.lessons) /\ n \in Nat /\ DOMAIN m.lessons = 1 .. n
    BY Files, ListFacts
  <2>2. f = [i \in 1 .. n |-> f[i]] /\ DOMAIN f = DOMAIN m.lessons
    BY <2>1 DEF LessonInserts
  <2>3. ToSet(f) = {Insert("lesson", l.id, m.id) : l \in ToSet(m.lessons)}
    BY Zenon DEF ToSet, LessonInserts
  <2>4. [i \in DOMAIN m.lessons |-> <<Insert("lesson", m.lessons[i].id, m.id)>>] = [i \in DOMAIN f |-> <<f[i]>>]
    BY Zenon DEF LessonInserts
  <2> HIDE DEF f, n
  <2>5. IsList(f)
    BY <2>1, <2>2, ListIs
  <2>6. FlattenSeq([i \in DOMAIN f |-> <<f[i]>>]) = f
    BY <2>5, Singles
  <2>7. ForEach(m.lessons, LAMBDA l : <<Insert("lesson", l.id, m.id)>>) = f
    BY <2>4, <2>6, Zenon DEF ForEach
  <2> QED
    BY <2>3, <2>5, <2>7 DEF f
<1>2. ASSUME NEW m \in AllModules, NEW l \in ToSet(m.lessons)
      PROVE  /\ IsList(ExerciseInserts(l)) /\ ToSet(ExerciseInserts(l)) = {Insert("exercise", e, l.id) : e \in ToSet(l.exerciseIds)}
             /\ ForEach(l.exerciseIds, LAMBDA e : <<Insert("exercise", e, l.id)>>) = ExerciseInserts(l)
  <2> DEFINE f == ExerciseInserts(l)
             n == Len(l.exerciseIds)
  <2>1. IsList(l.exerciseIds) /\ n \in Nat /\ DOMAIN l.exerciseIds = 1 .. n
    BY Files, ListFacts
  <2>2. f = [i \in 1 .. n |-> f[i]] /\ DOMAIN f = DOMAIN l.exerciseIds
    BY <2>1 DEF ExerciseInserts
  <2>3. ToSet(f) = {Insert("exercise", e, l.id) : e \in ToSet(l.exerciseIds)}
    BY Zenon DEF ToSet, ExerciseInserts
  <2>4. [i \in DOMAIN l.exerciseIds |-> <<Insert("exercise", l.exerciseIds[i], l.id)>>] = [i \in DOMAIN f |-> <<f[i]>>]
    BY Zenon DEF ExerciseInserts
  <2> HIDE DEF f, n
  <2>5. IsList(f)
    BY <2>1, <2>2, ListIs
  <2>6. FlattenSeq([i \in DOMAIN f |-> <<f[i]>>]) = f
    BY <2>5, Singles
  <2>7. ForEach(l.exerciseIds, LAMBDA e : <<Insert("exercise", e, l.id)>>) = f
    BY <2>4, <2>6, Zenon DEF ForEach
  <2> QED
    BY <2>3, <2>5, <2>7 DEF f
<1> QED
  BY <1>1, <1>2, Zenon

LEMMA SeedKept ==
    ASSUME NEW X
    PROVE  Kept(SeedMain, X) = (Kept(ModuleFixtures, X) \o Kept(LessonFixtures, X)) \o Kept(ExerciseFixtures, X)
<1>1. IsList(ModuleFixtures) /\ IsList(LessonFixtures) /\ IsList(ExerciseFixtures)
  BY ModuleFixturesDiffer, LessonFixturesDiffer, ExerciseFixturesDiffer
<1>2. IsList(ModuleFixtures \o LessonFixtures)
  BY <1>1, ListConcat
<1>3. Kept(ModuleFixtures \o LessonFixtures, X) = Kept(ModuleFixtures, X) \o Kept(LessonFixtures, X)
  BY <1>1, KeptJoined
<1>4. Kept((ModuleFixtures \o LessonFixtures) \o ExerciseFixtures, X) = Kept(ModuleFixtures \o LessonFixtures, X) \o Kept(ExerciseFixtures, X)
  BY <1>1, <1>2, KeptJoined
<1> QED
  BY <1>3, <1>4 DEF SeedMain

\* Of the statements of the seed those for a module's lessons are its lessons in their order.
LEMMA LessonsKept == ASSUME NEW m \in ToSet(Fixtures) PROVE Kept(SeedMain, OfSeed("lesson", m.id)) = LessonInserts(m)
<1> DEFINE X == OfSeed("lesson", m.id)
           g == [n \in ToSet(Fixtures) |-> LessonInserts(n)]
           h == [n \in ToSet(Fixtures) |-> Kept(LessonInserts(n), X)]
<1>1. Kept(ModuleFixtures, X) = <<>>
  <2>1. ToSet(ModuleFixtures) \cap X = {}
    BY ModuleFixturesDiffer DEF OfSeed, SeedModules, Insert, Statement
  <2> QED
    BY <2>1, ModuleFixturesDiffer, KeptNone
<1>2. Kept(ExerciseFixtures, X) = <<>>
  <2>1. ToSet(ExerciseFixtures) \cap X = {}
    BY ExerciseFixturesDiffer DEF OfSeed, SeedExercises, Insert, Statement
  <2> QED
    BY <2>1, ExerciseFixturesDiffer, KeptNone
<1>3. LessonFixtures = Made(Fixtures, g)
  <2>1. \A i \in DOMAIN Fixtures : Fixtures[i] \in AllModules /\ Fixtures[i] \in ToSet(Fixtures)
    BY FixturesOnce DEF ToSet
  <2>2. [i \in DOMAIN Fixtures |-> ForEach(Fixtures[i].lessons, LAMBDA l : <<Insert("lesson", l.id, Fixtures[i].id)>>)]
           = [i \in DOMAIN Fixtures |-> g[Fixtures[i]]]
    BY <2>1, InsertLists, Zenon
  <2> QED
    BY <2>2, Zenon DEF LessonFixtures, ForEach, Made
<1>4. ASSUME NEW n \in ToSet(Fixtures)
      PROVE  IsList(g[n]) /\ h[n] = Kept(g[n], X) /\ (n = m => h[n] = g[n]) /\ (n # m => h[n] = <<>>)
  <2>0. g[n] = LessonInserts(n) /\ h[n] = Kept(LessonInserts(n), X)
    OBVIOUS
  <2>1. IsList(LessonInserts(n)) /\ ToSet(LessonInserts(n)) = {Insert("lesson", l.id, n.id) : l \in ToSet(n.lessons)}
    BY FixturesOnce, InsertLists
  <2>2. \A x \in ToSet(LessonInserts(n)) : x.table = "lesson" /\ x.parent = n.id /\ x \in SeedSet
    BY <2>1 DEF SeedSet, SeedLessons, Insert, Statement
  <2>3. n # m => n.id # m.id
    BY FixturesOnce
  <2>4. ASSUME n = m PROVE Kept(LessonInserts(n), X) = LessonInserts(n)
    <3>1. ToSet(LessonInserts(n)) \subseteq X
      BY <2>2, <2>4 DEF OfSeed
    <3> QED
      BY <2>1, <3>1, KeptAll
  <2>5. ASSUME n # m PROVE Kept(LessonInserts(n), X) = <<>>
    <3>1. ToSet(LessonInserts(n)) \cap X = {}
      BY <2>2, <2>3, <2>5 DEF OfSeed
    <3> QED
      BY <2>1, <3>1, KeptNone
  <2> HIDE DEF g, h
  <2> QED
    BY <2>0, <2>1, <2>4, <2>5
<1>5. g[m] = LessonInserts(m)
  OBVIOUS
<1> HIDE DEF g, h, X
<1>6. Kept(Made(Fixtures, g), X) = Made(Fixtures, h)
  BY <1>4, Files, KeptMade
<1>7. Made(Fixtures, h) = h[m]
  <2>1. IsList(h[m]) /\ \A n \in ToSet(Fixtures) : n # m => h[n] = <<>>
    BY <1>4
  <2>2. \A i, j \in DOMAIN Fixtures : Fixtures[i] = m /\ Fixtures[j] = m => i = j
    BY FixturesOnce
  <2> QED
    BY <2>1, <2>2, Files, MadeOne
<1>8. Kept(LessonFixtures, X) = LessonInserts(m) /\ IsList(LessonInserts(m))
  BY <1>3, <1>4, <1>5, <1>6, <1>7
<1>9. <<>> \o LessonInserts(m) = LessonInserts(m) /\ LessonInserts(m) \o <<>> = LessonInserts(m)
  BY <1>8, ConcatEmptySeq DEF IsList
<1>10. Kept(SeedMain, X) = LessonInserts(m)
  BY <1>1, <1>2, <1>8, <1>9, SeedKept
<1> QED
  BY <1>10 DEF X

-----------------------------------------------------------------------------
(* The exercises of its lessons.                                            *)

\* All the exercises of a module, lesson by lesson.
ModuleExercises(m) == Made(m.lessons, [l \in ToSet(m.lessons) |-> ExerciseInserts(l)])
LEMMA ModuleExercisesList ==
    ASSUME NEW m \in AllModules
    PROVE  /\ IsList(ModuleExercises(m)) /\ ToSet(ModuleExercises(m)) = UNION {ToSet(ExerciseInserts(l)) : l \in ToSet(m.lessons)}
           /\ ForEach(m.lessons, LAMBDA l : ForEach(l.exerciseIds, LAMBDA e : <<Insert("exercise", e, l.id)>>)) = ModuleExercises(m)
<1> DEFINE k == [l \in ToSet(m.lessons) |-> ExerciseInserts(l)]
<1>1. \A l \in ToSet(m.lessons) : k[l] = ExerciseInserts(l) /\ IsList(k[l])
  BY InsertLists
<1>2. IsList(m.lessons)
  BY Files
<1>3. [i \in DOMAIN m.lessons |-> ForEach(m.lessons[i].exerciseIds, LAMBDA e : <<Insert("exercise", e, m.lessons[i].id)>>)]
         = [i \in DOMAIN m.lessons |-> k[m.lessons[i]]]
  <2>1. \A i \in DOMAIN m.lessons : m.lessons[i] \in ToSet(m.lessons)
    BY DEF ToSet
  <2> QED
    BY <2>1, InsertLists, Zenon
<1> HIDE DEF k
<1>4. IsList(Made(m.lessons, k)) /\ ToSet(Made(m.lessons, k)) = UNION {ToSet(k[l]) : l \in ToSet(m.lessons)}
  BY <1>1, <1>2, ListMade
<1>5. {ToSet(k[l]) : l \in ToSet(m.lessons)} = {ToSet(ExerciseInserts(l)) : l \in ToSet(m.lessons)}
  BY <1>1
<1>6. ForEach(m.lessons, LAMBDA l : ForEach(l.exerciseIds, LAMBDA e : <<Insert("exercise", e, l.id)>>)) = Made(m.lessons, k)
  BY <1>3, Zenon DEF ForEach, Made
<1> QED
  BY <1>4, <1>5, <1>6 DEF ModuleExercises, k

\* Of the exercises of a module those of a lesson are its exercises in their order.
LEMMA ExercisesOfModule ==
    ASSUME NEW m \in ToSet(Fixtures), NEW l \in ToSet(m.lessons)
    PROVE  Kept(ModuleExercises(m), OfSeed("exercise", l.id)) = ExerciseInserts(l)
<1> DEFINE X == OfSeed("exercise", l.id)
           g == [n \in ToSet(m.lessons) |-> ExerciseInserts(n)]
           h == [n \in ToSet(m.lessons) |-> Kept(ExerciseInserts(n), X)]
<1>0. m \in AllModules /\ IsList(m.lessons)
  BY FixturesOnce, Files
<1>1. ModuleExercises(m) = Made(m.lessons, g)
  BY DEF ModuleExercises
<1>4. ASSUME NEW n \in ToSet(m.lessons)
      PROVE  IsList(g[n]) /\ h[n] = Kept(g[n], X) /\ (n = l => h[n] = g[n]) /\ (n # l => h[n] = <<>>)
  <2>0. g[n] = ExerciseInserts(n) /\ h[n] = Kept(ExerciseInserts(n), X)
    OBVIOUS
  <2>1. IsList(ExerciseInserts(n)) /\ ToSet(ExerciseInserts(n)) = {Insert("exercise", e, n.id) : e \in ToSet(n.exerciseIds)}
    BY <1>0, InsertLists
  <2>2. \A x \in ToSet(ExerciseInserts(n)) : x.table = "exercise" /\ x.parent = n.id /\ x \in SeedSet
    BY <2>1 DEF SeedSet, SeedExercises, Insert, Statement
  <2>3. n # l => n.id # l.id
    BY <1>0, LessonsOnce
  <2>4. ASSUME n = l PROVE Kept(ExerciseInserts(n), X) = ExerciseInserts(n)
    <3>1. ToSet(ExerciseInserts(n)) \subseteq X
      BY <2>2, <2>4 DEF OfSeed
    <3> QED
      BY <2>1, <3>1, KeptAll
  <2>5. ASSUME n # l PROVE Kept(ExerciseInserts(n), X) = <<>>
    <3>1. ToSet(ExerciseInserts(n)) \cap X = {}
      BY <2>2, <2>3, <2>5 DEF OfSeed
    <3> QED
      BY <2>1, <3>1, KeptNone
  <2> HIDE DEF g, h
  <2> QED
    BY <2>0, <2>1, <2>4, <2>5
<1>5. g[l] = ExerciseInserts(l)
  OBVIOUS
<1> HIDE DEF g, h, X
<1>6. Kept(Made(m.lessons, g), X) = Made(m.lessons, h)
  BY <1>0, <1>4, KeptMade
<1>7. Made(m.lessons, h) = h[l]
  <2>1. IsList(h[l]) /\ \A n \in ToSet(m.lessons) : n # l => h[n] = <<>>
    BY <1>4
  <2>2. \A i, j \in DOMAIN m.lessons : m.lessons[i] = l /\ m.lessons[j] = l => i = j
    BY <1>0, LessonsOnce
  <2> QED
    BY <1>0, <2>1, <2>2, MadeOne
<1>8. Kept(ModuleExercises(m), X) = ExerciseInserts(l)
  BY <1>1, <1>4, <1>5, <1>6, <1>7
<1> QED
  BY <1>8 DEF X

LEMMA ExercisesKept ==
    ASSUME NEW m \in ToSet(Fixtures), NEW l \in ToSet(m.lessons)
    PROVE  Kept(SeedMain, OfSeed("exercise", l.id)) = ExerciseInserts(l)
<1> DEFINE X == OfSeed("exercise", l.id)
           g == [n \in ToSet(Fixtures) |-> ModuleExercises(n)]
           h == [n \in ToSet(Fixtures) |-> Kept(ModuleExercises(n), X)]
<1>1. Kept(ModuleFixtures, X) = <<>>
  <2>1. ToSet(ModuleFixtures) \cap X = {}
    BY ModuleFixturesDiffer DEF OfSeed, SeedModules, Insert, Statement
  <2> QED
    BY <2>1, ModuleFixturesDiffer, KeptNone
<1>2. Kept(LessonFixtures, X) = <<>>
  <2>1. ToSet(LessonFixtures) \cap X = {}
    BY LessonFixturesDiffer DEF OfSeed, SeedLessons, Insert, Statement
  <2> QED
    BY <2>1, LessonFixturesDiffer, KeptNone
<1>3. ExerciseFixtures = Made(Fixtures, g)
  <2>1. \A i \in DOMAIN Fixtures : Fixtures[i] \in AllModules /\ Fixtures[i] \in ToSet(Fixtures)
    BY FixturesOnce DEF ToSet
  <2>2. [i \in DOMAIN Fixtures |-> ForEach(Fixtures[i].lessons, LAMBDA k : ForEach(k.exerciseIds, LAMBDA e : <<Insert("exercise", e, k.id)>>))]
           = [i \in DOMAIN Fixtures |-> g[Fixtures[i]]]
    BY <2>1, ModuleExercisesList, Zenon
  <2> QED
    BY <2>2, Zenon DEF ExerciseFixtures, ForEach, Made
<1>4. ASSUME NEW n \in ToSet(Fixtures)
      PROVE  IsList(g[n]) /\ h[n] = Kept(g[n], X) /\ (n # m => h[n] = <<>>)
  <2>0. g[n] = ModuleExercises(n) /\ h[n] = Kept(ModuleExercises(n), X)
    OBVIOUS
  <2>1. /\ IsList(ModuleExercises(n)) /\ ToSet(ModuleExercises(n)) = UNION {ToSet(ExerciseInserts(k)) : k \in ToSet(n.lessons)}
        /\ n \in AllModules /\ m \in AllModules
    BY FixturesOnce, ModuleExercisesList
  <2>5. ASSUME n # m PROVE Kept(ModuleExercises(n), X) = <<>>
    <3>1. n.id # m.id
      BY <2>5, FixturesOnce
    <3>2. ASSUME NEW x \in ToSet(ModuleExercises(n)) PROVE x \notin X
      <4>1. PICK k \in ToSet(n.lessons) : x \in ToSet(ExerciseInserts(k))
        BY <2>1
      <4>2. ToSet(ExerciseInserts(k)) = {Insert("exercise", e, k.id) : e \in ToSet(k.exerciseIds)}
        BY <2>1, InsertLists
      <4>3. x.parent = k.id
        BY <4>1, <4>2 DEF Insert, Statement
      <4>4. k.id # l.id
        BY <2>1, <3>1, FilesAssumption
      <4> QED
        BY <4>3, <4>4 DEF OfSeed
    <3> QED
      BY <2>1, <3>2, KeptNone
  <2> HIDE DEF g, h
  <2> QED
    BY <2>0, <2>1, <2>5
<1>5. h[m] = ExerciseInserts(l)
  BY ExercisesOfModule
<1> HIDE DEF g, h, X
<1>6. Kept(Made(Fixtures, g), X) = Made(Fixtures, h)
  BY <1>4, Files, KeptMade
<1>8. IsList(ExerciseInserts(l))
  BY FixturesOnce, InsertLists
<1>7. Made(Fixtures, h) = h[m]
  <2>1. IsList(h[m]) /\ \A n \in ToSet(Fixtures) : n # m => h[n] = <<>>
    BY <1>4, <1>5, <1>8
  <2>2. \A i, j \in DOMAIN Fixtures : Fixtures[i] = m /\ Fixtures[j] = m => i = j
    BY FixturesOnce
  <2> QED
    BY <2>1, <2>2, Files, MadeOne
<1>9. Kept(ExerciseFixtures, X) = ExerciseInserts(l)
  BY <1>3, <1>5, <1>6, <1>7
<1>10. <<>> \o ExerciseInserts(l) = ExerciseInserts(l)
  BY <1>8, ConcatEmptySeq DEF IsList
<1>11. <<>> \o <<>> = <<>>
  BY ConcatEmptySeq, EmptySeq
<1>12. Kept(SeedMain, X) = ExerciseInserts(l)
  BY <1>1, <1>2, <1>9, <1>10, <1>11, SeedKept
<1> QED
  BY <1>12 DEF X

-----------------------------------------------------------------------------
(* What is served of them.                                                  *)

\* Rows are kept as the statements that made them are.
LEMMA DtoKept ==
    ASSUME NEW l, IsList(l), NEW X, NEW Y, \A s \in ToSet(l) : Row(s) \in X <=> s \in Y
    PROVE  Kept(Dto(l, Row), X) = Dto(Kept(l, Y), Row)
<1> DEFINE P == {k \in Seq(ToSet(l)) : Kept(Dto(k, Row), X) = Dto(Kept(k, Y), Row)}
<1>1. <<>> \in P
  <2>1. Dto(<<>>, Row) = <<>>
    BY DEF Dto
  <2> QED
    BY <2>1, KeptEmpty, EmptySeq
<1>2. ASSUME NEW k \in P, IsList(k), NEW x \in ToSet(l) PROVE Append(k, x) \in P
  <2>1. ASSUME NEW j, IsList(j) PROVE Dto(Append(j, x), Row) = Append(Dto(j, Row), Row(x))
    <3> DEFINE T == ToSet(j) \cup {x}
               d == Dto(j, Row)
               y == Row(x)
    <3>1. j \in Seq(T) /\ x \in T
      BY <2>1, SeqMonotonic DEF IsList
    <3>2. Append(j, x) = j \o <<x>>
      BY <3>1, AppendIsConcat
    <3>3. Dto(j \o <<x>>, Row) = d \o Dto(<<x>>, Row)
      BY <2>1, ListOne, DtoConcat
    <3>4. Dto(<<x>>, Row) = <<y>>
      BY DEF Dto
    <3>5. IsList(d)
      BY <2>1, DtoRows
    <3> HIDE DEF d, y
    <3>6. d \in Seq(ToSet(d) \cup {y}) /\ y \in ToSet(d) \cup {y}
      BY <3>5, SeqMonotonic DEF IsList
    <3>7. Append(d, y) = d \o <<y>>
      BY <3>6, AppendIsConcat
    <3> QED
      BY <3>2, <3>3, <3>4, <3>7 DEF d, y
  <2>2. Append(k, x) \in Seq(ToSet(l)) /\ Kept(Dto(k, Row), X) = Dto(Kept(k, Y), Row)
    BY AppendProperties
  <2>3. IsList(Dto(k, Row)) /\ IsList(Kept(k, Y))
    BY <1>2, DtoRows, ListKept
  <2>4. Kept(Append(Dto(k, Row), Row(x)), X) = IF Row(x) \in X THEN Append(Kept(Dto(k, Row), X), Row(x)) ELSE Kept(Dto(k, Row), X)
    <3> DEFINE d == Dto(k, Row)
               y == Row(x)
    <3>1. IsList(d)
      BY <2>3
    <3> HIDE DEF d, y
    <3>2. Kept(Append(d, y), X) = IF y \in X THEN Append(Kept(d, X), y) ELSE Kept(d, X)
      BY <3>1, KeptAppended
    <3> QED
      BY <3>2 DEF d, y
  <2>5. Kept(Append(k, x), Y) = IF x \in Y THEN Append(Kept(k, Y), x) ELSE Kept(k, Y)
    BY <1>2, KeptAppended
  <2>6. Dto(Append(k, x), Row) = Append(Dto(k, Row), Row(x)) /\ Dto(Append(Kept(k, Y), x), Row) = Append(Dto(Kept(k, Y), Row), Row(x))
    BY <1>2, <2>1, <2>3
  <2>7. Kept(Dto(Append(k, x), Row), X) = Dto(Kept(Append(k, x), Y), Row)
    <3>1. CASE x \in Y
      BY <2>2, <2>4, <2>5, <2>6, <3>1, Zenon
    <3>2. CASE x \notin Y
      BY <2>2, <2>4, <2>5, <2>6, <3>2, Zenon
    <3> QED
      BY <3>1, <3>2
  <2> QED
    BY <2>2, <2>7
<1> HIDE DEF P
<1>3. l \in P
  BY <1>1, <1>2, ListInduction
<1> QED
  BY <1>3 DEF P

\* When all fixtures are there, the rows under one are those of its statements in their order.
LEMMA UnderSeeded ==
    ASSUME IsList(rows), Exact(Len(SeedMain)), NEW t, NEW o,
           \A r \in ToSet(rows) : r.table = t /\ r.parent = o => r \in FixtureRows
    PROVE  Under(t, o) = Dto(Kept(SeedMain, OfSeed(t, o)), Row)
<1> DEFINE X == {r \in ToSet(rows) : r.table = t /\ r.parent = o}
           N == Len(SeedMain)
<1>1. Under(t, o) = Kept(rows, X)
  BY ListedUnder
<1>2. Kept(rows, X) = Kept(rows, FixtureRows \cap X)
  BY KeptSame
<1>3. Kept(Kept(rows, FixtureRows), X) = Kept(rows, FixtureRows \cap X)
  BY KeptTwice
<1>4. Kept(rows, FixtureRows) = Dto(SeedMain, Row)
  <2>1. Kept(rows, FixtureRows) = Prefix(N)
    BY DEF Exact
  <2>2. Prefix(N) = [i \in DOMAIN SeedMain |-> Row(SeedMain[i])]
    BY SeedFacts, Zenon DEF Prefix
  <2> QED
    BY <2>1, <2>2, Zenon DEF Dto
<1>5. ASSUME NEW s \in ToSet(SeedMain) PROVE Row(s) \in X <=> s \in OfSeed(t, o)
  <2>1. IsList(SeedMain) /\ ToSet(Dto(SeedMain, Row)) = {Row(q) : q \in ToSet(SeedMain)} /\ ToSet(SeedMain) = SeedSet
    BY SeedFacts, DtoRows
  <2>2. ToSet(Kept(rows, FixtureRows)) = ToSet(rows) \cap FixtureRows
    BY ListKept
  <2>3. Row(s) \in ToSet(rows)
    BY <1>4, <2>1, <2>2
  <2>4. Row(s).table = s.table /\ Row(s).parent = s.parent
    BY RowIs
  <2> QED
    BY <2>1, <2>3, <2>4 DEF OfSeed
<1> HIDE DEF X
<1>6. Kept(Dto(SeedMain, Row), X) = Dto(Kept(SeedMain, OfSeed(t, o)), Row)
  BY <1>5, SeedFacts, DtoKept
<1> QED
  BY <1>1, <1>2, <1>3, <1>4, <1>6

\* What is under a fixture is one.
LEMMA UnderFixtures ==
    ASSUME CatalogueSound, family = "modules", NEW n, Exact(n), NEW r \in ToSet(rows), NEW m \in ToSet(Fixtures)
    PROVE  /\ r.table = "lesson" /\ r.parent = m.id => r \in FixtureRows
           /\ \A l \in ToSet(m.lessons) : r.table = "exercise" /\ r.parent = l.id => r \in FixtureRows
<1>1. RowSound(r)
  BY DEF CatalogueSound
<1>2. PICK b \in Scripts : Family[b] = family /\ \E w \in Versions : \E t \in StatementsOf(b, w) :
          Puts(t) /\ Same(r, t) /\ (r.table # "passage" => t.parent = r.parent)
  BY <1>1 DEF RowSound
<1>3. PICK w \in Versions : \E t \in StatementsOf(b, w) : Puts(t) /\ Same(r, t) /\ (r.table # "passage" => t.parent = r.parent)
  BY <1>2
<1>4. PICK t \in StatementsOf(b, w) : Puts(t) /\ Same(r, t) /\ (r.table # "passage" => t.parent = r.parent)
  BY <1>3
<1>5. ASSUME t \in SeedSet PROVE r \in FixtureRows
  BY <1>4, <1>5 DEF Exact, FixtureRows
<1>6. b \in {"seed", "generated"}
  BY <1>2 DEF Family, Scripts
<1>7. CASE b = "seed"
  BY <1>5, <1>7 DEF StatementsOf
<1>8. CASE b = "generated"
  <2>1. PICK k \in ToSet(Modules[w]) : t \in ModuleSet(k, w)
    BY <1>8 DEF StatementsOf, GeneratedSet
  <2>2. k \in ToSet(Modules[1]) \cup ToSet(Modules[2]) /\ k \in AllModules /\ m \in AllModules
    BY FixturesOnce DEF Versions, AllModules
  <2>3. m.id # k.id
    BY <2>2, FilesAssumption
  <2>4. ASSUME r.table = "lesson", r.parent = m.id PROVE FALSE
    <3>1. t.table = "lesson" /\ t.parent = m.id
      BY <1>4, <2>4 DEF Same
    <3>2. t.parent = k.id
      BY <2>1, <3>1 DEF ModuleSet, LessonSet, Upsert, Statement
    <3> QED
      BY <2>3, <3>1, <3>2
  <2>5. ASSUME NEW l \in ToSet(m.lessons), r.table = "exercise", r.parent = l.id PROVE FALSE
    <3>1. t.table = "exercise" /\ t.parent = l.id
      BY <1>4, <2>5 DEF Same
    <3>2. PICK j \in ToSet(k.lessons) : t.parent = j.id
      BY <2>1, <3>1 DEF ModuleSet, LessonSet, Upsert, Statement
    <3>4. l.id = j.id
      BY <3>1, <3>2
    <3>3. m.id = k.id
      BY <2>2, <3>4, FilesAssumption
    <3> QED
      BY <2>3, <3>3
  <2> QED
    BY <2>4, <2>5
<1> QED
  BY <1>6, <1>7, <1>8

\* What is served of a fixture's lessons and of their exercises is what the file says.
LEMMA LessonsAreServed ==
    ASSUME CatalogueSound, family = "modules", Exact(Len(SeedMain)), NEW m \in ToSet(Fixtures)
    PROVE  /\ DOMAIN GetLessons(m.id) = DOMAIN m.lessons
           /\ \A i \in DOMAIN m.lessons : GetLessons(m.id)[i].id = m.lessons[i].id
<1> DEFINE f == LessonInserts(m)
           d == Dto(f, Row)
<1>1. Under("lesson", m.id) = d
  BY UnderFixtures, UnderSeeded, LessonsKept DEF CatalogueSound
<1>2. DOMAIN f = DOMAIN m.lessons /\ \A i \in DOMAIN m.lessons : f[i].key = m.lessons[i].id
  BY DEF LessonInserts, Insert, Statement
<1> HIDE DEF f
<1>3. d = [i \in DOMAIN f |-> Row(f[i])]
  BY Zenon DEF Dto
<1>4. \A i \in DOMAIN f : d[i].key = f[i].key
  BY <1>3, RowIs
<1>5. DOMAIN d = DOMAIN f
  BY <1>3
<1> HIDE DEF d
<1>6. GetLessons(m.id) = [i \in DOMAIN d |-> LessonDto(d[i])]
  BY <1>1, Zenon DEF GetLessons, Dto
<1>7. \A i \in DOMAIN d : GetLessons(m.id)[i].id = d[i].key
  BY <1>6 DEF LessonDto
<1> QED
  BY <1>2, <1>4, <1>5, <1>6, <1>7

LEMMA ExercisesAreServed ==
    ASSUME CatalogueSound, family = "modules", Exact(Len(SeedMain)), NEW m \in ToSet(Fixtures), NEW l \in ToSet(m.lessons)
    PROVE  Dto(GetExercises(l.id), LAMBDA e : e.id) = l.exerciseIds
<1> DEFINE f == ExerciseInserts(l)
           d == Dto(f, Row)
           g == GetExercises(l.id)
<1>0. IsList(l.exerciseIds)
  BY FixturesOnce, Files
<1>1. Under("exercise", l.id) = d
  BY UnderFixtures, UnderSeeded, ExercisesKept DEF CatalogueSound
<1>2. DOMAIN f = DOMAIN l.exerciseIds /\ \A i \in DOMAIN l.exerciseIds : f[i].key = l.exerciseIds[i]
  BY DEF ExerciseInserts, Insert, Statement
<1> HIDE DEF f
<1>3. d = [i \in DOMAIN f |-> Row(f[i])]
  BY Zenon DEF Dto
<1>4. \A i \in DOMAIN f : d[i].key = f[i].key
  BY <1>3, RowIs
<1>5. DOMAIN d = DOMAIN f
  BY <1>3
<1> HIDE DEF d
<1>6. g = [i \in DOMAIN d |-> ExerciseDto(d[i])]
  BY <1>1, Zenon DEF GetExercises, Dto
<1>7. \A i \in DOMAIN d : g[i].id = d[i].key
  BY <1>6 DEF ExerciseDto
<1>8. DOMAIN g = DOMAIN l.exerciseIds /\ \A i \in DOMAIN l.exerciseIds : g[i].id = l.exerciseIds[i]
  BY <1>2, <1>4, <1>5, <1>6, <1>7
<1>9. l.exerciseIds = [i \in DOMAIN l.exerciseIds |-> l.exerciseIds[i]]
  BY <1>0, ListFacts
<1> HIDE DEF g
<1>10. Dto(g, LAMBDA e : e.id) = [i \in DOMAIN g |-> g[i].id]
  BY Zenon DEF Dto
<1> QED
  BY <1>8, <1>9, <1>10, Zenon DEF g

-----------------------------------------------------------------------------
(* The summary of the catalogue, and the rows of a key.                     *)

\* One of the modules that are served is a fixture, with its lessons and their exercises.
LEMMA SeedIsServed ==
    ASSUME CatalogueSound, family = "modules", Exact(Len(SeedMain))
    PROVE  SeedServed
<1>0. IsList(rows)
  BY DEF CatalogueSound
<1> SUFFICES ASSUME NEW m \in ToSet(Fixtures)
             PROVE  \E s \in ToSet(CatalogSummary) : s = m /\ GetModule(m.id)[1].v = 1
  BY DEF SeedServed
<1> DEFINE s == Insert("module", m.id, None)
           l == Table("module")
           summary(id) == Dto(GetLessons(id), LAMBDA k : [id |-> k.id, exerciseIds |-> Dto(GetExercises(k.id), LAMBDA e : e.id)])
<1>1. s \in SeedSet /\ s.table = "module" /\ s.key = m.id /\ s.v = 1
  BY DEF SeedSet, SeedModules, Insert, Statement
<1>2. Row(s) \in ToSet(rows)
  <2>1. PICK i \in 1 .. Len(SeedMain) : SeedMain[i] = s
    BY <1>1, SeedFacts DEF ToSet
  <2>2. Len(SeedMain) \in 0 .. Len(SeedMain)
    BY SeedFacts
  <2>3. ToSet(Prefix(Len(SeedMain))) = {Row(SeedMain[j]) : j \in 1 .. Len(SeedMain)}
    BY <2>2, PrefixList
  <2>4. Kept(rows, FixtureRows) = Prefix(Len(SeedMain))
    BY DEF Exact
  <2>5. ToSet(Kept(rows, FixtureRows)) = ToSet(rows) \cap FixtureRows
    BY <1>0, ListKept
  <2> QED
    BY <2>1, <2>3, <2>4, <2>5
<1>3. Row(s).table = "module" /\ Row(s).key = m.id /\ Row(s).v = 1
  BY <1>1, RowIs
<1>4. GetModule(m.id)[1].v = 1
  <2> DEFINE f == Find("module", m.id)
  <2>1. At("module", m.id) # {}
    BY <1>2, <1>3 DEF At
  <2>2. f[1] \in At("module", m.id) /\ 1 \in DOMAIN f
    BY <1>0, <2>1, Found
  <2>3. f[1] = Row(s)
    BY <1>2, <1>3, <2>2 DEF At, CatalogueSound, Same
  <2> HIDE DEF f
  <2>4. GetModule(m.id) = [i \in DOMAIN f |-> ModuleDto(f[i])]
    BY Zenon DEF GetModule, Dto, f
  <2> QED
    BY <1>3, <2>2, <2>3, <2>4 DEF ModuleDto
<1>5. m = [id |-> m.id, lessons |-> m.lessons] /\ IsList(m.lessons) /\ m \in AllModules
  BY FixturesOnce, FilesAssumption, Files
<1>6. summary(m.id) = m.lessons
  <2> DEFINE g == GetLessons(m.id)
  <2>1. DOMAIN g = DOMAIN m.lessons /\ \A i \in DOMAIN m.lessons : g[i].id = m.lessons[i].id
    BY LessonsAreServed
  <2>2. ASSUME NEW i \in DOMAIN m.lessons
        PROVE  [id |-> g[i].id, exerciseIds |-> Dto(GetExercises(g[i].id), LAMBDA e : e.id)] = m.lessons[i]
    <3>1. m.lessons[i] \in ToSet(m.lessons)
      BY DEF ToSet
    <3>2. m.lessons[i] = [id |-> m.lessons[i].id, exerciseIds |-> m.lessons[i].exerciseIds]
      BY <1>5, <3>1, FilesAssumption
    <3>3. Dto(GetExercises(m.lessons[i].id), LAMBDA e : e.id) = m.lessons[i].exerciseIds
      BY <3>1, ExercisesAreServed
    <3> HIDE DEF g
    <3> QED
      BY <2>1, <3>2, <3>3, Zenon
  <2>3. m.lessons = [i \in DOMAIN m.lessons |-> m.lessons[i]]
    BY <1>5, ListFacts
  <2> HIDE DEF g
  <2>4. summary(m.id) = [i \in DOMAIN g |-> [id |-> g[i].id, exerciseIds |-> Dto(GetExercises(g[i].id), LAMBDA e : e.id)]]
    BY Zenon DEF Dto, g
  <2> QED
    BY <2>1, <2>2, <2>3, <2>4, Zenon
<1>7. PICK i \in DOMAIN l : l[i] = Row(s)
  <2>1. Row(s) \in ToSet(l)
    BY <1>0, <1>2, <1>3, Listed
  <2> QED
    BY <2>1 DEF ToSet
<1> HIDE DEF l, s
<1>8. GetModules = [k \in DOMAIN l |-> ModuleDto(l[k])]
  BY Zenon DEF GetModules, Dto, l
<1>9. GetModules[i].id = m.id /\ i \in DOMAIN GetModules
  BY <1>3, <1>7, <1>8 DEF ModuleDto
<1>10. CatalogSummary = [k \in DOMAIN GetModules |-> [id |-> GetModules[k].id, lessons |-> summary(GetModules[k].id)]]
  BY Zenon DEF CatalogSummary, Dto
<1> HIDE DEF summary
<1>11. CatalogSummary[i] = m /\ i \in DOMAIN CatalogSummary
  BY <1>5, <1>6, <1>9, <1>10
<1> QED
  BY <1>4, <1>11 DEF ToSet

\* No key gets a second row, in the tables that begin empty.
RowsOnce == family # "modules" => KeysOnce
LEMMA RowsOnceInit == CatalogueInit => RowsOnce
BY DEF CatalogueInit, RowsOnce, KeysOnce

LEMMA KeysOnceStep ==
    ASSUME IsList(rows), KeysOnce, NEW a \in Scripts, NEW v \in Versions, NEW s \in StatementsOf(a, v), rows' = RowsAfter(s)
    PROVE  KeysOnce'
<1>1. DOMAIN rows = 1 .. Len(rows) /\ Len(rows) \in Nat /\ \A i \in 1 .. Len(rows) : rows[i] \in ToSet(rows)
  BY ListFacts
<1>2. CASE RowsAfter(s) = rows
  BY <1>2 DEF KeysOnce
<1>3. CASE At(s.table, s.key) = {} /\ RowsAfter(s) = Append(rows, Row(s))
  <2> DEFINE n == Len(rows)
             y == Row(s)
  <2>1. rows' = [i \in 1 .. n + 1 |-> IF i = n + 1 THEN y ELSE rows[i]] /\ Len(rows') = n + 1
    <3>1. rows \in Seq(ToSet(rows) \cup {y}) /\ y \in ToSet(rows) \cup {y}
      BY SeqMonotonic DEF IsList
    <3> HIDE DEF y
    <3>2. Append(rows, y) = [i \in 1 .. Len(rows) + 1 |-> IF i = Len(rows) + 1 THEN y ELSE rows[i]]
      BY <3>1, AppendIs
    <3>3. Len(Append(rows, y)) = Len(rows) + 1
      BY <3>1, AppendProperties
    <3>4. rows' = Append(rows, y)
      BY <1>3 DEF y
    <3> QED
      BY <3>2, <3>3, <3>4
  <2>2. y.table = s.table /\ y.key = s.key
    BY RowIs
  <2>3. \A i \in 1 .. n : ~Same(rows[i], y)
    BY <1>1, <1>3, <2>2 DEF At, Same
  <2>4. \A i \in 1 .. n : ~Same(y, rows[i])
    BY <2>3 DEF Same
  <2> HIDE DEF n, y
  <2> SUFFICES ASSUME NEW i \in 1 .. n + 1, NEW j \in 1 .. n + 1, Same(rows'[i], rows'[j]) PROVE i = j
    BY <2>1 DEF KeysOnce
  <2>5. n \in Nat
    BY <1>1 DEF n
  <2>6. CASE i \in 1 .. n /\ j \in 1 .. n
    <3>1. rows'[i] = rows[i] /\ rows'[j] = rows[j]
      BY <2>1, <2>5, <2>6
    <3> QED
      BY <2>6, <3>1 DEF KeysOnce, n
  <2>7. CASE i \in 1 .. n /\ j = n + 1
    <3>1. rows'[i] = rows[i] /\ rows'[j] = y
      BY <2>1, <2>5, <2>7
    <3> QED
      BY <2>3, <2>7, <3>1
  <2>8. CASE i = n + 1 /\ j \in 1 .. n
    <3>1. rows'[i] = y /\ rows'[j] = rows[j]
      BY <2>1, <2>5, <2>8
    <3> QED
      BY <2>4, <2>8, <3>1
  <2> QED
    BY <2>5, <2>6, <2>7, <2>8
<1>4. CASE RowsAfter(s) = Put(s)
  <2>1. Len(Put(s)) = Len(rows) /\ \A i \in 1 .. Len(rows) : Put(s)[i] = Renewed(rows[i], s)
    BY PutList
  <2>2. \A r \in ToSet(rows) : Renewed(r, s).table = r.table /\ Renewed(r, s).key = r.key
    BY DEF Renewed, Updated
  <2>3. \A i, j \in 1 .. Len(rows) : Same(Renewed(rows[i], s), Renewed(rows[j], s)) => Same(rows[i], rows[j])
    BY <1>1, <2>2 DEF Same
  <2> QED
    BY <1>4, <2>1, <2>3 DEF KeysOnce
<1> QED
  BY <1>2, <1>3, <1>4, RowsCases

\* Every row of a word is of a word of the file that wrote it.
LEMMA EntryStatement ==
    ASSUME NEW a \in Scripts, NEW v \in Versions, NEW s \in StatementsOf(a, v), Puts(s), s.table = "entry"
    PROVE  a = "vocab" /\ \E w \in ToSet(Words[s.v]) : w.lemma = s.key
<1>1. CASE a = "seed"
  BY <1>1 DEF StatementsOf, SeedSet, SeedModules, SeedLessons, SeedExercises, Insert, Statement
<1>2. CASE a = "generated"
  <2>1. PICK m \in ToSet(Modules[v]) : s \in ModuleSet(m, v)
    BY <1>2 DEF StatementsOf, GeneratedSet
  <2> QED
    BY <2>1 DEF ModuleSet, LessonSet, Upsert, Statement
<1>3. CASE a = "vocab"
  <2>1. PICK w \in Allowed(Words[v]) : s \in EntrySet(w, v)
    BY <1>3 DEF StatementsOf, VocabSet
  <2>2. s = Upsert("entry", w.lemma, None, v)
    BY <2>1 DEF EntrySet, Creations, Creation, Upsert, Clear, Statement, Puts
  <2>3. s.v = v /\ s.key = w.lemma
    BY <2>2 DEF Upsert, Statement
  <2> QED
    BY <1>3, <2>3 DEF Allowed
<1>4. CASE a = "grammar"
  <2>1. PICK p \in Allowed(Points[v]) : s \in PointSet(p, v)
    BY <1>4 DEF StatementsOf, GrammarSet
  <2> QED
    BY <2>1 DEF PointSet, Creations, Creation, Upsert, Clear, Statement, Puts
<1>5. CASE a = "passages"
  <2>1. PICK p \in Allowed(Passages[v]) : s \in PassageSet(p, v)
    BY <1>5 DEF StatementsOf, PassagesSet
  <2> QED
    BY <2>1 DEF PassageSet, Upsert, Statement
<1>6. CASE a = "assessment"
  BY <1>6 DEF StatementsOf, AssessmentSet, Upsert, Statement
<1> QED
  BY <1>1, <1>2, <1>3, <1>4, <1>5, <1>6, ScriptNames

LEMMA WordsKnownInit == ASSUME CatalogueInit, CatalogueSound PROVE WordsKnown
<1> SUFFICES ASSUME NEW r \in ToSet(rows), r.table = "entry" PROVE FALSE
  BY DEF WordsKnown
<1>1. family = "modules"
  BY ToSetEmpty DEF CatalogueInit
<1>2. RowSound(r)
  BY DEF CatalogueSound
<1>3. PICK a \in Scripts : Family[a] = family /\ \E v \in Versions : \E s \in StatementsOf(a, v) : Puts(s) /\ Same(r, s)
  BY <1>2 DEF RowSound
<1>4. PICK v \in Versions : \E s \in StatementsOf(a, v) : Puts(s) /\ Same(r, s)
  BY <1>3
<1>5. PICK s \in StatementsOf(a, v) : Puts(s) /\ Same(r, s)
  BY <1>4
<1>6. a = "vocab"
  BY <1>5, EntryStatement DEF Same
<1> QED
  BY <1>1, <1>3, <1>6 DEF Family

LEMMA WordsKnownStep ==
    ASSUME CatalogueSound, WordsKnown, NEW a \in Scripts, NEW v \in Versions, NEW s \in StatementsOf(a, v), rows' = RowsAfter(s)
    PROVE  WordsKnown'
<1>0. IsList(rows) /\ (Puts(s) /\ s.table = "entry" => \E w \in ToSet(Words[s.v]) : w.lemma = s.key)
  BY EntryStatement DEF CatalogueSound
<1>1. CASE RowsAfter(s) = rows
  BY <1>1 DEF WordsKnown
<1>2. CASE Puts(s) /\ RowsAfter(s) = Append(rows, Row(s))
  <2>1. ToSet(rows') = ToSet(rows) \cup {Row(s)}
    BY <1>0, <1>2, ToSetAppend DEF IsList
  <2>2. Row(s).table = s.table /\ Row(s).key = s.key /\ Row(s).v = s.v
    BY RowIs
  <2> HIDE DEF RowsAfter
  <2> QED
    BY <1>0, <1>2, <2>1, <2>2 DEF WordsKnown
<1>3. CASE Puts(s) /\ RowsAfter(s) = Put(s)
  <2>1. ToSet(rows') = {Renewed(r, s) : r \in ToSet(rows)}
    BY <1>0, <1>3, PutList
  <2>2. ASSUME NEW r \in ToSet(rows), Renewed(r, s).table = "entry"
        PROVE  \E w \in ToSet(Words[Renewed(r, s).v]) : w.lemma = Renewed(r, s).key
    <3>1. CASE Same(r, s)
      <4>1. Renewed(r, s).table = s.table /\ Renewed(r, s).key = s.key /\ Renewed(r, s).v = s.v
        <5>1. r = [table |-> r.table, key |-> r.key, parent |-> r.parent, v |-> r.v]
          BY DEF CatalogueSound, RowSound
        <5>2. Renewed(r, s) = Updated(r, s) /\ r.table = s.table /\ r.key = s.key
          BY <3>1 DEF Renewed, Same
        <5>3. Updated(r, s) = [r EXCEPT !.v = s.v, !.parent = Parent(r, s)]
          BY DEF Updated
        <5> QED
          BY <5>1, <5>2, <5>3
      <4> QED
        BY <1>0, <1>3, <2>2, <4>1
    <3>2. CASE ~Same(r, s)
      BY <2>2, <3>2 DEF Renewed, WordsKnown
    <3> QED
      BY <3>1, <3>2
  <2> QED
    BY <2>1, <2>2 DEF WordsKnown
<1> QED
  BY <1>0, <1>1, <1>2, <1>3, RowsCases DEF Puts

-----------------------------------------------------------------------------
(* The theorem about the catalogue.                                         *)

LEMMA RowsOnceStep ==
    ASSUME LoadInv, RowsOnce, WordsKnown, CatalogueStep \/ UNCHANGED catalogueVars
    PROVE  RowsOnce' /\ WordsKnown'
<1>1. CASE rows' = rows /\ family' = family
  BY <1>1 DEF RowsOnce, KeysOnce, WordsKnown
<1>2. ASSUME NEW i \in 1 .. MaxRuns, Execute(i) PROVE RowsOnce' /\ WordsKnown'
  <2>1. IsList(rows) /\ RunSound(runs[i])
    BY DEF LoadInv, CatalogueSound
  <2> DEFINE a == runs[i].script
             v == runs[i].v
             s == Programs[a][v][runs[i].at]
  <2>2. family' = family /\ rows' = RowsAfter(s) /\ runs[i].at # 0
    BY <1>2, Zenon DEF Execute, Going
  <2>3. a \in Scripts /\ v \in Versions /\ runs[i].at \in 1 .. Len(Programs[a][v])
    BY <2>1, <2>2 DEF RunSound
  <2>4. s \in StatementsOf(a, v)
    BY <2>3, ProgramFacts
  <2> HIDE DEF a, v, s
  <2>5. KeysOnce => KeysOnce'
    BY <2>1, <2>2, <2>3, <2>4, KeysOnceStep
  <2>6. WordsKnown'
    BY <2>2, <2>3, <2>4, WordsKnownStep DEF LoadInv
  <2> QED
    BY <2>2, <2>5, <2>6 DEF RowsOnce
<1>3. ASSUME NEW i \in 1 .. MaxRuns, NEW a, NEW v, Begin(i, a, v) PROVE RowsOnce' /\ WordsKnown'
  BY <1>1, <1>3 DEF Begin
<1>4. ASSUME NEW i \in 1 .. MaxRuns, Dies(i) PROVE RowsOnce' /\ WordsKnown'
  BY <1>1, <1>4 DEF Dies
<1> QED
  BY <1>1, <1>2, <1>3, <1>4 DEF CatalogueStep, catalogueVars

\* What a script has settled is served.
LEMMA SettledServed ==
    ASSUME LoadInv, RowsOnce, WordsKnown, NEW a \in Scripts, settled[a] # 0
    PROVE  LET v == settled[a] IN
           CASE a = "seed"       -> SeedServed
             [] a = "generated"  -> GeneratedServed(v)
             [] a = "vocab"      -> VocabServed(v)
             [] a = "grammar"    -> GrammarServed(v)
             [] a = "passages"   -> PassagesServed(v)
             [] a = "assessment" -> QuestionsServed(v)
<1> DEFINE v == settled[a]
<1>1. v \in Versions /\ Family[a] = family
  BY DEF LoadInv, SettledStands, Versions
<1>2. CatalogueSound /\ IsList(rows)
  BY DEF LoadInv, CatalogueSound
<1>3. a # "seed" => Stands(a, v, Len(Programs[a][v]))
  BY <1>1 DEF LoadInv, SettledStands
<1>4. ASSUME a = "seed" PROVE SeedServed
  <2>1. family = "modules"
    BY <1>1, <1>4 DEF Family
  <2>2. Exact(Len(SeedMain))
    <3>1. PICK n : Exact(n) /\ SeededTo(n)
      BY <2>1 DEF LoadInv
    <3>2. n = Len(SeedMain)
      BY <1>4, <3>1 DEF SeededTo
    <3> QED
      BY <3>1, <3>2
  <2> QED
    BY <1>2, <2>1, <2>2, SeedIsServed
<1> HIDE DEF v
<1>5. ASSUME a = "generated" PROVE GeneratedServed(v)
  BY <1>1, <1>2, <1>3, <1>5, GeneratedIsServed
<1>6. ASSUME a = "vocab" PROVE VocabServed(v)
  BY <1>1, <1>2, <1>3, <1>6, VocabIsServed
<1>7. ASSUME a = "grammar" PROVE GrammarServed(v)
  <2>1. KeysOnce
    BY <1>1, <1>7 DEF RowsOnce, Family
  <2> QED
    BY <1>1, <1>2, <1>3, <1>7, <2>1, GrammarIsServed
<1>8. ASSUME a = "passages" PROVE PassagesServed(v)
  BY <1>1, <1>2, <1>3, <1>8, PassagesAreServed
<1>9. ASSUME a = "assessment" PROVE QuestionsServed(v)
  BY <1>1, <1>2, <1>3, <1>9, QuestionsAreServed
<1> QED
  BY <1>4, <1>5, <1>6, <1>7, <1>8, <1>9, ScriptNames DEF v

LEMMA CatalogueNext == Next => CatalogueStep \/ UNCHANGED catalogueVars
<1> SUFFICES ASSUME Next PROVE CatalogueStep \/ UNCHANGED catalogueVars
  OBVIOUS
<1>1. CASE Load
  BY <1>1 DEF Load
<1>2. ASSUME NEW skill, NEW module, NEW want, Open(skill, module, want) \/ FollowLink(want) PROVE UNCHANGED catalogueVars
  BY <1>2 DEF Open, FollowLink, Asked
<1>3. CASE PageStep
  BY <1>3 DEF PageStep, GetModulePage, GetLessonsPage, GetLessonPage, GetExercisesPage, GetExercisePage, PageFails, Keep
<1>4. ASSUME NEW n, SelectOption(n) PROVE UNCHANGED catalogueVars
  BY <1>4 DEF SelectOption, OfPanel
<1>5. ASSUME NEW t, TypeText(t) PROVE UNCHANGED catalogueVars
  BY <1>5 DEF TypeText, OfPanel
<1>6. CASE SubmitAnswer
  BY <1>6 DEF SubmitAnswer, OfPanel
<1>7. ASSUME NEW c, GradeAnswer(c) \/ GradeArrives(c) \/ GradingFails(c) PROVE UNCHANGED catalogueVars
  BY <1>7 DEF GradeAnswer, GradeArrives, GradingFails, OfPanel
<1>8. CASE ToggleTranslation \/ TranslationArrives \/ TranslationFails
  BY <1>8 DEF ToggleTranslation, TranslationArrives, TranslationFails, OfPanel
<1>9. CASE LoadAudio \/ MarkPlaybackFailed
  BY <1>9 DEF LoadAudio, MarkPlaybackFailed, OfPanel
<1>10. ASSUME NEW key, LoadEnds(key, "ready") \/ LoadEnds(key, "error") PROVE UNCHANGED catalogueVars
  BY <1>10 DEF LoadEnds, OfPanel
<1>11. ASSUME NEW key, LostLoadEnds(key) \/ UrlExpires(key) PROVE UNCHANGED catalogueVars
  BY <1>11 DEF LostLoadEnds, UrlExpires
<1> QED
  BY <1>1, <1>2, <1>3, <1>4, <1>5, <1>6, <1>7, <1>8, <1>9, <1>10, <1>11, Zenon DEF Next

\* Converges, for every content of the files and any number of runs that die, overlap and are
\* repeated: what the last run of a script wrote while it was alone is what the routes say of it,
\* to every request, and all of it up to the limit of the request.
THEOREM CatalogueConverges == Spec => []Converges
<1> DEFINE Inv == LoadInv /\ RowsOnce /\ WordsKnown
<1>1. Init => Inv
  BY LoadInvInit, RowsOnceInit, WordsKnownInit DEF Init, LoadInv
<1>2. Inv /\ [Next]_vars => Inv'
  <2> SUFFICES ASSUME Inv, [Next]_vars PROVE Inv'
    OBVIOUS
  <2>1. CatalogueStep \/ UNCHANGED catalogueVars
    BY CatalogueNext DEF vars
  <2> QED
    BY <2>1, LoadInvStep, RowsOnceStep
<1>3. Inv => Converges
  BY SettledServed DEF Converges
<1> QED
  BY <1>1, <1>2, <1>3, PTL DEF Spec
=============================================================================
