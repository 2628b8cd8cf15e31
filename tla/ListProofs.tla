----------------------------- MODULE ListProofs -----------------------------
(***************************************************************************)
(* What the std::vector operations of Client and Channel do to a list,     *)
(* seen as the set of its elements: push_back is Append, find + erase is   *)
(* RemoveFirst, an iterator passing an element is Tail.                    *)
(***************************************************************************)
EXTENDS Integers, Sequences, SequencesExt, FiniteSets, SequenceTheorems, FiniteSetTheorems,
        WellFoundedInduction, TLAPS

\* A non-empty set of naturals has a least element.
LEMMA LeastExists ==
    ASSUME NEW T, T \subseteq Nat, T # {}
    PROVE  \E x \in T : \A y \in T : x <= y
<1>1. PICK x \in T : \A y \in T : ~(<<y, x>> \in OpToRel(<, Nat))
    BY WFMin, NatLessThanWellFounded
<1>2. \A y \in T : ~(y < x)
    BY <1>1 DEF OpToRel
<1>3. \A y \in T : x <= y
    BY <1>2
<1> QED BY <1>3

\* A list of one element.
LEMMA OneElement ==
    ASSUME NEW S, NEW x \in S
    PROVE  <<x>> \in Seq(S)
OBVIOUS

\* push_back adds its element, and keeps a list without duplicates so if it is new.
LEMMA AppendList ==
    ASSUME NEW S, NEW s \in Seq(S), NEW e \in S
    PROVE  /\ Append(s, e) \in Seq(S)
           /\ ToSet(Append(s, e)) = ToSet(s) \cup {e}
           /\ IsInjective(s) /\ e \notin ToSet(s) => IsInjective(Append(s, e))
<1>1. /\ Append(s, e) \in Seq(S) /\ Len(Append(s, e)) = Len(s) + 1
      /\ \A i \in 1 .. Len(s) : Append(s, e)[i] = s[i]
      /\ Append(s, e)[Len(s) + 1] = e
    BY AppendProperties
<1>2. Len(s) \in Nat /\ DOMAIN s = 1 .. Len(s) /\ DOMAIN Append(s, e) = 1 .. Len(s) + 1
    BY <1>1, LenProperties
<1>3. ToSet(Append(s, e)) = ToSet(s) \cup {e}
    BY <1>1, <1>2 DEF ToSet
<1>4. ASSUME IsInjective(s), e \notin ToSet(s) PROVE IsInjective(Append(s, e))
    BY <1>1, <1>2, <1>4 DEF ToSet, IsInjective
<1> QED BY <1>1, <1>3, <1>4

\* Passing the first element of a list takes it away.
LEMMA TailList ==
    ASSUME NEW S, NEW s \in Seq(S), s # <<>>
    PROVE  /\ Head(s) \in S /\ Head(s) \in ToSet(s)
           /\ Tail(s) \in Seq(S)
           /\ ToSet(s) = ToSet(Tail(s)) \cup {Head(s)}
           /\ IsInjective(s) => IsInjective(Tail(s)) /\ Head(s) \notin ToSet(Tail(s))
<1>1. /\ Head(s) \in S /\ Tail(s) \in Seq(S)
      /\ Len(Tail(s)) = Len(s) - 1
      /\ \A i \in 1 .. Len(Tail(s)) : Tail(s)[i] = s[i + 1]
    BY HeadTailProperties
<1>2. /\ Len(s) \in Nat \ {0} /\ DOMAIN s = 1 .. Len(s) /\ DOMAIN Tail(s) = 1 .. Len(s) - 1
      /\ Head(s) = s[1]
    BY <1>1, LenProperties, EmptySeq
<1>3. Head(s) \in ToSet(s)
    BY <1>2 DEF ToSet
<1>4. ToSet(Tail(s)) = {s[i] : i \in 2 .. Len(s)}
    <2>1. \A i \in 2 .. Len(s) : i - 1 \in 1 .. Len(s) - 1 /\ Tail(s)[i - 1] = s[i]
        BY <1>1, <1>2
    <2>2. \A i \in 1 .. Len(s) - 1 : i + 1 \in 2 .. Len(s) /\ Tail(s)[i] = s[i + 1]
        BY <1>1, <1>2
    <2>3. \A x : x \in ToSet(Tail(s)) => x \in {s[i] : i \in 2 .. Len(s)}
        BY <1>2, <2>2 DEF ToSet
    <2>4. ASSUME NEW i \in 2 .. Len(s) PROVE s[i] \in ToSet(Tail(s))
        <3>1. i - 1 \in DOMAIN Tail(s) /\ Tail(s)[i - 1] = s[i]
            BY <1>2, <2>1
        <3> QED BY <3>1 DEF ToSet
    <2> QED BY <2>3, <2>4
<1>5. ToSet(s) = ToSet(Tail(s)) \cup {Head(s)}
    <2>1. ToSet(s) = {s[i] : i \in 1 .. Len(s)}
        BY <1>2 DEF ToSet
    <2>2. 1 \in 1 .. Len(s) /\ \A i \in 1 .. Len(s) : i = 1 \/ i \in 2 .. Len(s)
        BY <1>2
    <2>3. \A i \in 2 .. Len(s) : i \in 1 .. Len(s)
        BY <1>2
    <2> QED BY <1>2, <1>4, <2>1, <2>2, <2>3
<1>6. ASSUME IsInjective(s) PROVE IsInjective(Tail(s)) /\ Head(s) \notin ToSet(Tail(s))
    <2>1. IsInjective(Tail(s))
        BY <1>1, <1>2, <1>6 DEF IsInjective
    <2>2. \A i \in 2 .. Len(s) : s[i] # s[1]
        BY <1>2, <1>6 DEF IsInjective
    <2> QED BY <1>2, <1>4, <2>1, <2>2
<1> QED BY <1>1, <1>3, <1>5, <1>6

\* find + erase takes away one occurrence, which is all there is in a list without
\* duplicates, and nothing else.
LEMMA RemoveList ==
    ASSUME NEW S, NEW s \in Seq(S), NEW e
    PROVE  /\ RemoveFirst(s, e) \in Seq(S)
           /\ ToSet(RemoveFirst(s, e)) \subseteq ToSet(s)
           /\ ToSet(s) \ {e} \subseteq ToSet(RemoveFirst(s, e))
           /\ IsInjective(s) => /\ IsInjective(RemoveFirst(s, e))
                                /\ e \notin ToSet(RemoveFirst(s, e))
<1> DEFINE I == {i \in 1 .. Len(s) : s[i] = e}
           r == RemoveFirst(s, e)
<1>0. Len(s) \in Nat /\ DOMAIN s = 1 .. Len(s)
    BY LenProperties
<1>1. CASE I = {}
    <2>1. r = s
        BY <1>1 DEF RemoveFirst
    <2>2. e \notin ToSet(s)
        BY <1>0, <1>1 DEF ToSet
    <2> QED BY <2>1, <2>2
<1>2. CASE I # {}
    <2>1. r = RemoveAt(s, Min(I))
        BY <1>2 DEF RemoveFirst, SelectInSeq
    <2>2. Min(I) \in I
        <3>1. I \subseteq Nat
            BY <1>0
        <3>2. \E x \in I : \A y \in I : x <= y
            BY <1>2, <3>1, LeastExists
        <3> QED BY <3>2 DEF Min
    <2> DEFINE k == Min(I)
               n == Len(s)
    <2>3. k \in 1 .. n /\ s[k] = e
        BY <2>2
    <2> HIDE DEF I, k
    <2>4. /\ SubSeq(s, 1, k - 1) \in Seq(S) /\ Len(SubSeq(s, 1, k - 1)) = k - 1
          /\ \A i \in 1 .. k - 1 : SubSeq(s, 1, k - 1)[i] = s[i]
        BY <1>0, <2>3, SubSeqProperties
    <2>5. /\ SubSeq(s, k + 1, n) \in Seq(S) /\ Len(SubSeq(s, k + 1, n)) = n - k
          /\ \A i \in 1 .. n - k : SubSeq(s, k + 1, n)[i] = s[k + i]
        <3> HIDE DEF n, r
        <3> DEFINE m == k + 1
                   b == SubSeq(s, m, n)
        <3>1. n \in Nat /\ k \in 1 .. n /\ m \in Int /\ \A i \in m .. n : s[i] \in S
            BY <1>0, <2>3, ElementOfSeq DEF n
        <3>2. /\ b \in Seq(S) /\ Len(b) = IF m <= n THEN n - m + 1 ELSE 0
              /\ \A i \in 1 .. n - m + 1 : b[i] = s[m + i - 1]
            <4> HIDE DEF m
            <4> QED BY <3>1, SubSeqProperties
        <3> HIDE DEF b
        <3>3. Len(b) = n - k
            BY <3>1, <3>2
        <3>4. \A i \in 1 .. n - k : i \in 1 .. n - m + 1 /\ m + i - 1 = k + i
            BY <3>1
        <3> QED BY <3>2, <3>3, <3>4 DEF b
    <2>6. /\ r \in Seq(S) /\ Len(r) = n - 1
          /\ \A i \in 1 .. n - 1 : r[i] = IF i < k THEN s[i] ELSE s[i + 1]
        <3>1. r = SubSeq(s, 1, k - 1) \o SubSeq(s, k + 1, n)
            BY <2>1 DEF RemoveAt, k
        <3> HIDE DEF r, n
        <3> DEFINE a == SubSeq(s, 1, k - 1)
                   b == SubSeq(s, k + 1, n)
        <3>2. /\ a \o b \in Seq(S) /\ Len(a \o b) = Len(a) + Len(b)
              /\ \A i \in 1 .. Len(a) + Len(b) :
                    (a \o b)[i] = IF i <= Len(a) THEN a[i] ELSE b[i - Len(a)]
            BY <2>4, <2>5, ConcatProperties
        <3> HIDE DEF a, b
        <3>3. n \in Nat /\ k \in 1 .. n /\ Len(a) = k - 1 /\ Len(b) = n - k
            BY <1>0, <2>3, <2>4, <2>5 DEF n, a, b
        <3>4. r \in Seq(S) /\ Len(r) = n - 1
            BY <3>1, <3>2, <3>3 DEF a, b
        <3>5. \A i \in 1 .. n - 1 : i < k => r[i] = s[i]
            BY <2>4, <3>1, <3>2, <3>3 DEF a, b
        <3>6. ASSUME NEW i \in 1 .. n - 1, ~(i < k) PROVE r[i] = s[i + 1]
            <4>1. i - (k - 1) \in 1 .. n - k /\ k + (i - (k - 1)) = i + 1
                BY <3>3, <3>6
            <4>2. i \in 1 .. Len(a) + Len(b) /\ ~(i <= Len(a))
                BY <3>3, <3>6
            <4>3. (a \o b)[i] = b[i - (k - 1)]
                BY <3>2, <3>3, <4>2
            <4>4. r[i] = b[i - (k - 1)]
                BY <3>1, <4>3 DEF a, b
            <4> QED BY <2>5, <4>1, <4>4 DEF b
        <3> QED BY <3>4, <3>5, <3>6
    <2>7. DOMAIN r = 1 .. n - 1
        BY <2>6, LenProperties
    <2> HIDE DEF r, n
    <2>8. ToSet(r) \subseteq ToSet(s)
        <3>1. ASSUME NEW i \in 1 .. n - 1 PROVE r[i] \in ToSet(s)
            <4>1. DOMAIN s = 1 .. n /\ i \in 1 .. n /\ i + 1 \in 1 .. n
                BY <1>0, <2>3 DEF n
            <4>2. r[i] = s[i] \/ r[i] = s[i + 1]
                BY <2>6
            <4> QED BY <4>1, <4>2 DEF ToSet
        <3> QED BY <2>7, <3>1 DEF ToSet
    <2>9. ToSet(s) \ {e} \subseteq ToSet(r)
        <3>1. \A i \in 1 .. k - 1 : i \in 1 .. n - 1 /\ r[i] = s[i]
            BY <1>0, <2>3, <2>6 DEF n
        <3>2. \A i \in k + 1 .. n : i - 1 \in 1 .. n - 1 /\ r[i - 1] = s[i]
            BY <1>0, <2>3, <2>6 DEF n
        <3>3. \A i \in 1 .. n : s[i] = e \/ s[i] \in ToSet(r)
            <4> SUFFICES ASSUME NEW i \in 1 .. n PROVE s[i] = e \/ s[i] \in ToSet(r)
                OBVIOUS
            <4>1. CASE i = k
                BY <2>3, <4>1
            <4>2. CASE i < k
                BY <1>0, <2>3, <2>7, <3>1, <4>2 DEF ToSet, n
            <4>3. CASE i > k
                BY <1>0, <2>3, <2>7, <3>2, <4>3 DEF ToSet, n
            <4> QED BY <1>0, <2>3, <4>1, <4>2, <4>3 DEF n
        <3> QED BY <1>0, <3>3 DEF ToSet, n
    <2>10. ASSUME IsInjective(s) PROVE IsInjective(r) /\ e \notin ToSet(r)
        <3>1. \A i \in 1 .. n - 1 : r[i] # e
            BY <1>0, <2>3, <2>6, <2>10 DEF IsInjective, n
        <3>2. ASSUME NEW i \in 1 .. n - 1, NEW j \in 1 .. n - 1, r[i] = r[j] PROVE i = j
            <4> DEFINE at(x) == IF x < k THEN x ELSE x + 1
            <4>1. /\ at(i) \in DOMAIN s /\ at(j) \in DOMAIN s
                  /\ k \in Int /\ (at(i) = at(j) => i = j)
                BY <1>0, <2>3 DEF n
            <4>2. r[i] = s[at(i)] /\ r[j] = s[at(j)]
                BY <2>6
            <4> HIDE DEF at
            <4> QED BY <2>10, <3>2, <4>1, <4>2 DEF IsInjective
        <3> QED BY <2>7, <3>1, <3>2 DEF IsInjective, ToSet
    <2> QED BY <2>6, <2>8, <2>9, <2>10 DEF r
<1> QED BY <1>1, <1>2

\* A list without duplicates is as long as the set of its elements is large.
LEMMA CountList ==
    ASSUME NEW S, NEW s \in Seq(S), IsInjective(s)
    PROVE  Cardinality(ToSet(s)) = Len(s)
<1>1. Len(s) \in Nat /\ DOMAIN s = 1 .. Len(s)
    BY LenProperties
<1>2. s \in [1 .. Len(s) -> ToSet(s)]
    BY <1>1 DEF ToSet
<1>3. s \in Bijection(1 .. Len(s), ToSet(s))
    BY <1>1, <1>2 DEF Bijection, Injection, Surjection, IsInjective, ToSet
<1>4. ExistsBijection(1 .. Len(s), ToSet(s))
    BY <1>3 DEF ExistsBijection
<1> QED BY <1>1, <1>4, FS_CountingElements

\* A list from its end.
LEMMA ReverseList ==
    ASSUME NEW S, NEW s \in Seq(S)
    PROVE  /\ Reverse(s) \in Seq(S) /\ Len(Reverse(s)) = Len(s)
           /\ \A i \in 1 .. Len(s) : Reverse(s)[i] = s[(Len(s) - i) + 1]
<1>1. Len(s) \in Nat /\ \A i \in 1 .. Len(s) : s[i] \in S
    BY LenProperties, ElementOfSeq
<1>2. \A i \in 1 .. Len(s) : (Len(s) - i) + 1 \in 1 .. Len(s)
    BY <1>1
<1>3. Reverse(s) = [i \in 1 .. Len(s) |-> s[(Len(s) - i) + 1]]
    BY DEF Reverse
<1>4. Reverse(s) \in Seq(S)
    BY <1>1, <1>2, <1>3
<1>5. Len(Reverse(s)) = Len(s)
    BY <1>1, <1>3, <1>4, LenProperties
<1> QED BY <1>3, <1>4, <1>5

\* One list ends as another does.
LEMMA SuffixList ==
    ASSUME NEW S, NEW s \in Seq(S), NEW t \in Seq(S)
    PROVE  IsSuffix(s, t) <=> /\ Len(s) <= Len(t)
                              /\ \A i \in 1 .. Len(s) : s[(Len(s) - i) + 1] = t[(Len(t) - i) + 1]
<1> DEFINE a == Reverse(s)
           b == Reverse(t)
           n == Len(s)
<1>1. /\ a \in Seq(S) /\ Len(a) = n /\ \A i \in 1 .. n : a[i] = s[(n - i) + 1]
      /\ b \in Seq(S) /\ Len(b) = Len(t) /\ \A i \in 1 .. Len(t) : b[i] = t[(Len(t) - i) + 1]
      /\ n \in Nat /\ Len(t) \in Nat
    BY ReverseList, LenProperties
<1>2. IsSuffix(s, t) <=> n <= Len(t) /\ SubSeq(a, 1, n) = SubSeq(b, 1, n)
    BY <1>1 DEF IsSuffix, IsPrefix
<1> HIDE DEF a, b, n
<1>3. ASSUME n <= Len(t)
      PROVE  SubSeq(a, 1, n) = SubSeq(b, 1, n) <=> \A i \in 1 .. n : a[i] = b[i]
    <2>1. \A i \in 1 .. n : a[i] \in S /\ b[i] \in S
        BY <1>1, <1>3, ElementOfSeq
    <2>2. /\ SubSeq(a, 1, n) \in Seq(S) /\ Len(SubSeq(a, 1, n)) = n
          /\ \A i \in 1 .. n : SubSeq(a, 1, n)[i] = a[i]
        BY <1>1, <2>1, SubSeqProperties
    <2>3. /\ SubSeq(b, 1, n) \in Seq(S) /\ Len(SubSeq(b, 1, n)) = n
          /\ \A i \in 1 .. n : SubSeq(b, 1, n)[i] = b[i]
        BY <1>1, <2>1, SubSeqProperties
    <2>4. ASSUME \A i \in 1 .. n : a[i] = b[i] PROVE SubSeq(a, 1, n) = SubSeq(b, 1, n)
        BY <2>2, <2>3, <2>4, SeqEqual
    <2>5. ASSUME SubSeq(a, 1, n) = SubSeq(b, 1, n) PROVE \A i \in 1 .. n : a[i] = b[i]
        BY <2>2, <2>3, <2>5
    <2> QED BY <2>4, <2>5
<1>4. ASSUME n <= Len(t)
      PROVE  (\A i \in 1 .. n : a[i] = b[i]) <=> \A i \in 1 .. n : s[(n - i) + 1] = t[(Len(t) - i) + 1]
    <2>1. \A i \in 1 .. n : a[i] = s[(n - i) + 1]
        BY <1>1
    <2>2. \A i \in 1 .. n : i \in 1 .. Len(t)
        BY <1>1, <1>4
    <2>3. \A i \in 1 .. n : b[i] = t[(Len(t) - i) + 1]
        BY <1>1, <2>2, Zenon
    <2> QED BY <2>1, <2>3
<1> QED BY <1>2, <1>3, <1>4 DEF n

\* What an iterator has left of a list is a suffix of it.
LEMMA SuffixTail ==
    ASSUME NEW S, NEW s \in Seq(S), NEW t \in Seq(S), IsSuffix(s, t), s # <<>>
    PROVE  IsSuffix(Tail(s), t)
<1>1. /\ Tail(s) \in Seq(S) /\ Len(Tail(s)) = Len(s) - 1
      /\ \A i \in 1 .. Len(Tail(s)) : Tail(s)[i] = s[i + 1]
    BY HeadTailProperties
<1>2. Len(s) \in Nat \ {0} /\ Len(t) \in Nat
    BY LenProperties, EmptySeq
<1>3. Len(s) <= Len(t) /\ \A i \in 1 .. Len(s) : s[(Len(s) - i) + 1] = t[(Len(t) - i) + 1]
    BY SuffixList
<1> DEFINE r == Tail(s)
<1>4. ASSUME NEW i \in 1 .. Len(r) PROVE r[(Len(r) - i) + 1] = t[(Len(t) - i) + 1]
    <2>1. (Len(r) - i) + 1 \in 1 .. Len(r) /\ ((Len(r) - i) + 1) + 1 = (Len(s) - i) + 1 /\ i \in 1 .. Len(s)
        BY <1>1, <1>2
    <2>2. r[(Len(r) - i) + 1] = s[((Len(r) - i) + 1) + 1]
        BY <1>1, <2>1
    <2> QED BY <1>3, <2>1, <2>2
<1>5. Len(r) <= Len(t)
    BY <1>1, <1>2, <1>3
<1> QED BY <1>1, <1>4, <1>5, SuffixList

\* And so is the whole list.
LEMMA SuffixSelf ==
    ASSUME NEW S, NEW s \in Seq(S)
    PROVE  IsSuffix(s, s)
BY SuffixList, LenProperties
=============================================================================
