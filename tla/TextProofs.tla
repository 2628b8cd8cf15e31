----------------------------- MODULE TextProofs -----------------------------
(***************************************************************************)
(* What the operations of the code on texts do, for every text: taking one *)
(* apart, choosing among the pieces, putting pieces together, and how often *)
(* a symbol is in the result.                                              *)
(***************************************************************************)
EXTENDS Framing, ListProofs

(***************************************************************************)
(* Places and parts                                                        *)
(***************************************************************************)
\* A set of places in a list is finite.
LEMMA Places ==
    ASSUME NEW n \in Nat, NEW P, P \subseteq 1 .. n
    PROVE  IsFiniteSet(P) /\ Cardinality(P) \in Nat
<1>1. IsFiniteSet(1 .. n)
    BY FS_Interval
<1> QED BY <1>1, FS_Subset, FS_CardinalityType

\* There is a k-th place for every k up to their number.
LEMMA NthPlace ==
    ASSUME NEW n \in Nat, NEW P, P \subseteq 1 .. n, NEW k \in 1 .. Cardinality(P)
    PROVE  Nth(P, k) \in P /\ Cardinality({j \in P : j <= Nth(P, k)}) = k
<1> DEFINE Upto(m) == {j \in P : j <= m}
           T == {m \in Nat : Cardinality(Upto(m)) >= k}
<1>0. \A j \in P : j \in Int /\ 1 <= j /\ j <= n
    OBVIOUS
<1>1. ASSUME NEW m \in Nat PROVE IsFiniteSet(Upto(m)) /\ Cardinality(Upto(m)) \in Nat
    <2>1. Upto(m) \subseteq 1 .. n
        OBVIOUS
    <2> HIDE DEF Upto
    <2> QED BY <2>1, Places
<1>2. Upto(n) = P /\ Cardinality(P) \in Nat
    <2>1. Upto(n) = P
        BY <1>0
    <2> QED BY <2>1, Places
<1>3. \E m \in T : \A l \in T : m <= l
    <2>1. n \in T /\ T \subseteq Nat
        BY <1>2
    <2> HIDE DEF T
    <2> QED BY <2>1, LeastExists
<1>4. PICK m \in T : \A l \in T : m <= l
    BY <1>3
<1>5. m # 0
    <2>0. \A j \in P : ~(j <= 0)
        BY <1>0
    <2>1. Upto(0) = {}
        BY <2>0
    <2>2. Cardinality(Upto(0)) = 0
        BY <2>1, FS_EmptySet
    <2> HIDE DEF Upto
    <2> QED BY <2>2
<1>6. m \in Nat /\ m - 1 \in Nat /\ m - 1 \notin T
    <2>1. m \in Nat
        OBVIOUS
    <2> HIDE DEF T
    <2> QED BY <1>4, <1>5, <2>1
<1>7. Cardinality(Upto(m)) >= k /\ ~(Cardinality(Upto(m - 1)) >= k)
    <2> HIDE DEF Upto
    <2> QED BY <1>6
<1>8. m \in P
    <2> SUFFICES ASSUME m \notin P PROVE FALSE
        OBVIOUS
    <2>1. \A j \in P : j <= m <=> j <= m - 1
        BY <1>0, <1>6
    <2>2. Upto(m) = Upto(m - 1)
        BY <2>1
    <2> HIDE DEF Upto
    <2> QED BY <1>7, <2>2
<1>9. Upto(m) = Upto(m - 1) \cup {m} /\ m \notin Upto(m - 1)
    <2>1. (\A j \in P : j <= m <=> j <= m - 1 \/ j = m) /\ ~(m <= m - 1)
        BY <1>0, <1>6
    <2> QED BY <1>8, <2>1
<1> HIDE DEF Upto, T
<1>10. Cardinality(Upto(m)) = Cardinality(Upto(m - 1)) + 1
    BY <1>1, <1>6, <1>9, FS_AddElement
<1>11. Cardinality(Upto(m)) = k
    BY <1>1, <1>6, <1>7, <1>10
<1> QED BY <1>8, <1>11 DEF Nth, Upto

\* An element of a set of places is the one of its rank.
LEMMA NthIs ==
    ASSUME NEW n \in Nat, NEW P, P \subseteq 1 .. n, NEW i \in P
    PROVE  LET k == Cardinality({j \in P : j <= i})
           IN  k \in 1 .. Cardinality(P) /\ Nth(P, k) = i
<1> DEFINE Upto(m) == {j \in P : j <= m}
           k == Cardinality(Upto(i))
<1>0. \A j \in P : j \in Int /\ 1 <= j /\ j <= n
    OBVIOUS
<1>1. ASSUME NEW m \in P
      PROVE  IsFiniteSet(Upto(m)) /\ Cardinality(Upto(m)) \in Nat /\ Upto(m) \subseteq P /\ m \in Upto(m)
    <2>0. m <= m
        BY <1>0
    <2>1. Upto(m) \subseteq 1 .. n /\ Upto(m) \subseteq P /\ m \in Upto(m)
        BY <2>0
    <2> HIDE DEF Upto
    <2> QED BY <2>1, Places
<1>2. IsFiniteSet(P) /\ Cardinality(P) \in Nat
    BY Places
<1>3. k \in 1 .. Cardinality(P)
    <2> HIDE DEF Upto
    <2>1. Cardinality(Upto(i)) <= Cardinality(P)
        BY <1>1, <1>2, FS_Subset
    <2>2. Cardinality(Upto(i)) # 0
        BY <1>1, FS_EmptySet
    <2> QED BY <1>1, <1>2, <2>1, <2>2
<1>4. ASSUME NEW a \in P, NEW b \in P, a < b PROVE Cardinality(Upto(a)) # Cardinality(Upto(b))
    <2>1. Upto(a) \subseteq Upto(b) /\ b \notin Upto(a)
        <3>1. ~(b <= a) /\ \A j \in P : j <= a => j <= b
            BY <1>0, <1>4
        <3> QED BY <3>1
    <2> HIDE DEF Upto
    <2> QED BY <1>1, <2>1, FS_Subset
<1>5. Nth(P, k) \in P /\ Cardinality(Upto(Nth(P, k))) = k
    <2> HIDE DEF k
    <2> QED BY <1>3, NthPlace
<1>6. PICK a : a = Nth(P, k)
    OBVIOUS
<1> HIDE DEF Upto
<1>7. ~(a < i) /\ ~(i < a)
    BY <1>4, <1>5, <1>6
<1>8. a = i
    <2>1. a \in P
        BY <1>5, <1>6
    <2>2. a \in Int /\ i \in Int
        BY <1>0, <2>1
    <2> QED BY <1>7, <2>2
<1> QED BY <1>3, <1>6, <1>8 DEF Upto

\* The last of a set of places.
LEMMA NthLast ==
    ASSUME NEW n \in Nat, NEW P, P \subseteq 1 .. n, n \in P
    PROVE  Nth(P, Cardinality(P)) = n
<1>0. \A j \in P : j \in Int /\ 1 <= j /\ j <= n
    OBVIOUS
<1>1. {j \in P : j <= n} = P
    BY <1>0
<1> QED BY <1>1, NthIs

\* With m the set P has one place more, and m is its last.
LastPlace(P, m) ==
    /\ Cardinality(P \cup {m}) = Cardinality(P) + 1
    /\ \A k \in 1 .. Cardinality(P) : Nth(P \cup {m}, k) = Nth(P, k)
    /\ Nth(P \cup {m}, Cardinality(P) + 1) = m

\* A place after all others.
LEMMA NthMore ==
    ASSUME NEW n \in Nat, NEW P, P \subseteq 1 .. n, NEW m \in Nat, m > n
    PROVE  LastPlace(P, m)
<1> DEFINE Q == P \cup {m}
<1>0. \A j \in P : j \in Int /\ 1 <= j /\ j <= n /\ j < m
    OBVIOUS
<1>1. Q \subseteq 1 .. m /\ m \in Q /\ m \notin P
    BY <1>0
<1>2. Cardinality(Q) = Cardinality(P) + 1
    BY <1>1, Places, FS_AddElement
<1> HIDE DEF Q
<1>3. ASSUME NEW k \in 1 .. Cardinality(P) PROVE Nth(Q, k) = Nth(P, k)
    <2>1. Nth(P, k) \in P /\ Cardinality({j \in P : j <= Nth(P, k)}) = k
        BY NthPlace
    <2>2. PICK i \in P : i = Nth(P, k)
        BY <2>1
    <2>3. {j \in Q : j <= i} = {j \in P : j <= i}
        <3>1. ~(m <= i)
            BY <1>0
        <3> QED BY <3>1 DEF Q
    <2>4. i \in Q
        BY DEF Q
    <2>5. Nth(Q, Cardinality({j \in Q : j <= i})) = i
        BY <1>1, <2>4, NthIs
    <2> QED BY <2>1, <2>2, <2>3, <2>5
<1>4. Nth(Q, Cardinality(P) + 1) = m
    BY <1>1, <1>2, NthLast
<1> QED BY <1>2, <1>3, <1>4 DEF Q, LastPlace

\* The places come in order.
LEMMA NthRises ==
    ASSUME NEW n \in Nat, NEW P, P \subseteq 1 .. n, NEW k \in 1 .. Cardinality(P), k # 1
    PROVE  Nth(P, k - 1) < Nth(P, k)
<1>0. \A j \in P : j \in Int /\ 1 <= j /\ j <= n
    OBVIOUS
<1>1. Cardinality(P) \in Nat /\ k - 1 \in 1 .. Cardinality(P) /\ ~(k <= k - 1)
    <2>1. PICK c \in Nat : c = Cardinality(P)
        BY Places
    <2>2. k \in 1 .. c
        BY <2>1
    <2>3. k - 1 \in 1 .. c /\ ~(k <= k - 1)
        BY <2>2
    <2> QED BY <2>1, <2>3
<1>2. PICK a \in P : a = Nth(P, k - 1) /\ Cardinality({j \in P : j <= a}) = k - 1
    BY <1>1, NthPlace
<1>3. PICK b \in P : b = Nth(P, k) /\ Cardinality({j \in P : j <= b}) = k
    BY NthPlace
<1>4. SUFFICES ASSUME ~(a < b) PROVE FALSE
    BY <1>2, <1>3
<1>5. {j \in P : j <= b} \subseteq {j \in P : j <= a}
    <2>1. \A j \in P : j <= b => j <= a
        BY <1>0, <1>4
    <2> QED BY <2>1
<1>6. IsFiniteSet({j \in P : j <= a})
    <2>1. {j \in P : j <= a} \subseteq 1 .. n
        OBVIOUS
    <2> QED BY <2>1, Places
<1>7. k <= k - 1
    BY <1>2, <1>3, <1>5, <1>6, FS_Subset
<1> QED BY <1>1, <1>7

\* A set of numbers up to n has a greatest.
LEMMA GreatestIn ==
    ASSUME NEW n \in Nat, NEW T, T \subseteq 0 .. n, T # {}
    PROVE  Max(T) \in T
<1> DEFINE D == {d \in 0 .. n : n - d \in T}
<1>0. PICK t \in T : TRUE
    OBVIOUS
<1>1. D \subseteq Nat /\ n - t \in D
    <2>1. t \in 0 .. n
        OBVIOUS
    <2>2. n - t \in 0 .. n /\ n - (n - t) = t
        BY <2>1
    <2> QED BY <2>2
<1> HIDE DEF D
<1>2. PICK d \in D : \A e \in D : d <= e
    BY <1>1, LeastExists
<1> USE DEF D
<1>3. ASSUME NEW i \in T PROVE n - d >= i
    <2>1. i \in 0 .. n
        OBVIOUS
    <2>2. n - i \in 0 .. n /\ n - (n - i) = i
        BY <2>1
    <2>3. n - i \in D
        BY <2>2
    <2>4. d <= n - i
        BY <1>2, <2>3
    <2> QED BY <2>1, <2>4
<1>4. n - d \in T
    OBVIOUS
<1> HIDE DEF D
<1> QED BY <1>3, <1>4 DEF Max

\* A number no other of the set exceeds is the greatest.
LEMMA GreatestIs ==
    ASSUME NEW T, NEW m \in T, T \subseteq Int, \A y \in T : y <= m
    PROVE  Max(T) = m
<1>1. \A y \in T : m >= y
    OBVIOUS
<1>2. Max(T) \in T /\ \A y \in T : Max(T) >= y
    BY <1>1 DEF Max
<1>3. PICK x \in T : x = Max(T) /\ \A y \in T : x >= y
    BY <1>2
<1> QED BY <1>3

\* A part of a list, from any place to any place within it.
LEMMA PartOfList ==
    ASSUME NEW S, NEW s \in Seq(S), NEW m \in Nat \ {0}, NEW n \in Int, n <= Len(s)
    PROVE  SubSeq(s, m, n) \in Seq(S) /\ Len(SubSeq(s, m, n)) = IF m <= n THEN n - m + 1 ELSE 0
<1>1. Len(s) \in Nat /\ \A i \in m .. n : i \in 1 .. Len(s)
    BY LenProperties
<1>2. \A i \in m .. n : s[i] \in S
    BY <1>1, ElementOfSeq
<1> QED BY <1>2, SubSeqProperties

\* A part from the first place on, put together from one place less and its last element.
LEMMA PrefixMore ==
    ASSUME NEW S, NEW q \in Seq(S), NEW k \in 1 .. Len(q)
    PROVE  /\ SubSeq(q, 1, k - 1) \in Seq(S) /\ q[k] \in S /\ Len(SubSeq(q, 1, k - 1)) = k - 1
           /\ SubSeq(q, 1, k) = Append(SubSeq(q, 1, k - 1), q[k])
<1>1. Len(q) \in Nat /\ k - 1 \in Int /\ k - 1 <= Len(q) /\ q[k] \in S
    BY LenProperties, ElementOfSeq
<1>2. SubSeq(q, 1, k - 1) \in Seq(S) /\ Len(SubSeq(q, 1, k - 1)) = k - 1
    BY <1>1, PartOfList
<1>3. SubSeq(q, 1, k) = SubSeq(q, 1, k - 1) \o <<q[k]>>
    BY <1>1, SubSeqRecursiveSecond
<1> QED BY <1>1, <1>2, <1>3, AppendIsConcat

\* A part of the first of two lists.
LEMMA PartPrefix ==
    ASSUME NEW S, NEW s \in Seq(S), NEW t \in Seq(S), NEW m \in Nat \ {0}, NEW n \in Nat, n <= Len(s)
    PROVE  SubSeq(s \o t, m, n) = SubSeq(s, m, n)
<1>1. Len(s) \in Nat /\ Len(t) \in Nat
    BY LenProperties
<1>2. /\ s \o t \in Seq(S) /\ Len(s \o t) = Len(s) + Len(t)
      /\ \A i \in 1 .. Len(s) : (s \o t)[i] = s[i]
    BY <1>1, ConcatProperties
<1>3. n <= Len(s \o t) /\ n \in Int
    BY <1>1, <1>2
<1> DEFINE a == SubSeq(s \o t, m, n)
           b == SubSeq(s, m, n)
<1>4. /\ a \in Seq(S) /\ Len(a) = IF m <= n THEN n - m + 1 ELSE 0
      /\ \A i \in 1 .. n - m + 1 : a[i] = (s \o t)[m + i - 1]
    <2>1. \A i \in m .. n : (s \o t)[i] \in S
        BY <1>1, <1>2, ElementOfSeq
    <2> QED BY <2>1, SubSeqProperties
<1>5. /\ b \in Seq(S) /\ Len(b) = IF m <= n THEN n - m + 1 ELSE 0
      /\ \A i \in 1 .. n - m + 1 : b[i] = s[m + i - 1]
    <2>1. \A i \in m .. n : s[i] \in S
        BY <1>1, ElementOfSeq
    <2> QED BY <2>1, SubSeqProperties
<1> HIDE DEF a, b
<1>6. ASSUME NEW i \in 1 .. Len(a) PROVE a[i] = b[i]
    <2>1. i \in 1 .. n - m + 1 /\ m + i - 1 \in 1 .. Len(s)
        BY <1>1, <1>4
    <2> QED BY <1>2, <1>4, <1>5, <2>1
<1>7. a = b
    BY <1>4, <1>5, <1>6, SeqEqual
<1> QED BY <1>7 DEF a, b

\* The second of two lists.
LEMMA PartSecond ==
    ASSUME NEW S, NEW s \in Seq(S), NEW t \in Seq(S)
    PROVE  SubSeq(s \o t, Len(s) + 1, Len(s) + Len(t)) = t
<1>1. Len(s) \in Nat /\ Len(t) \in Nat
    BY LenProperties
<1>2. /\ s \o t \in Seq(S) /\ Len(s \o t) = Len(s) + Len(t)
      /\ \A i \in 1 .. Len(t) : (s \o t)[Len(s) + i] = t[i]
    BY <1>1, ConcatProperties
<1> DEFINE a == SubSeq(s \o t, Len(s) + 1, Len(s) + Len(t))
<1>3. /\ a \in Seq(S) /\ Len(a) = Len(t) /\ \A i \in 1 .. Len(t) : a[i] = (s \o t)[Len(s) + i]
    <2>1. \A i \in Len(s) + 1 .. Len(s) + Len(t) : (s \o t)[i] \in S
        BY <1>1, <1>2, ElementOfSeq
    <2>2. /\ a \in Seq(S)
          /\ Len(a) = IF Len(s) + 1 <= Len(s) + Len(t) THEN Len(s) + Len(t) - (Len(s) + 1) + 1 ELSE 0
          /\ \A i \in 1 .. Len(s) + Len(t) - (Len(s) + 1) + 1 : a[i] = (s \o t)[Len(s) + 1 + i - 1]
        BY <1>1, <2>1, SubSeqProperties
    <2> HIDE DEF a
    <2>3. PICK m \in Nat : m = Len(s)
        BY <1>1
    <2>4. PICK n \in Nat : n = Len(t)
        BY <1>1
    <2>5. /\ Len(a) = IF m + 1 <= m + n THEN m + n - (m + 1) + 1 ELSE 0
          /\ \A i \in 1 .. m + n - (m + 1) + 1 : a[i] = (s \o t)[m + 1 + i - 1]
        BY <2>2, <2>3, <2>4
    <2>6. m + n - (m + 1) + 1 = n /\ (n # 0 => m + 1 <= m + n)
          /\ \A i \in 1 .. n : m + 1 + i - 1 = m + i
        OBVIOUS
    <2>7. Len(a) = n /\ \A i \in 1 .. n : a[i] = (s \o t)[m + i]
        BY <2>5, <2>6
    <2> QED BY <2>2, <2>3, <2>4, <2>7
<1> HIDE DEF a
<1>4. a = t
    BY <1>2, <1>3, SeqEqual
<1> QED BY <1>4 DEF a

-----------------------------------------------------------------------------
(***************************************************************************)
(* Lists, one after the other                                              *)
(***************************************************************************)
\* Where the brackets are does not matter to s, t and u.
Associates(s, t, u) == (s \o t) \o u = s \o (t \o u)

\* Where the brackets are does not matter.
LEMMA Assoc == \A S : \A s, t, u \in Seq(S) : Associates(s, t, u)
BY ConcatAssociative DEF Associates

\* The same of texts.
LEMMA AssocText == \A s, t, u \in Seq(Symbols) : Associates(s, t, u)
BY Assoc

\* x is what joining s and t gives, by its elements.
Joined(x, s, t) ==
    /\ Len(x) = Len(s) + Len(t)
    /\ \A i \in 1 .. Len(s) + Len(t) : x[i] = IF i <= Len(s) THEN s[i] ELSE t[i - Len(s)]

\* Two lists and one, by their elements.
LEMMA Joining ==
    ASSUME NEW S, NEW s \in Seq(S), NEW t \in Seq(S)
    PROVE  \E x \in Seq(S) : x = s \o t /\ Joined(x, s, t)
<1>1. s \o t \in Seq(S)
    BY ConcatProperties
<1>2. PICK x \in Seq(S) : x = s \o t
    BY <1>1
<1>3. Joined(x, s, t)
    BY <1>2, ConcatProperties DEF Joined
<1> QED BY <1>2, <1>3, Zenon

\* A list of one.
LEMMA OneSymbol ==
    ASSUME NEW S, NEW c \in S
    PROVE  \E x \in Seq(S) : x = <<c>> /\ Len(x) = 1 /\ x[1] = c
<1>1. <<c>> \in Seq(S) /\ Len(<<c>>) = 1 /\ <<c>>[1] = c
    OBVIOUS
<1>2. PICK x : x = <<c>>
    OBVIOUS
<1> QED BY <1>1, <1>2

\* A list of two.
LEMMA TwoSymbols ==
    ASSUME NEW S, NEW c \in S, NEW d \in S
    PROVE  <<c>> \o <<d>> = <<c, d>>
<1>1. PICK x \in Seq(S) : x = <<c>> /\ Len(x) = 1 /\ x[1] = c
    BY OneSymbol
<1>2. PICK y \in Seq(S) : y = <<d>> /\ Len(y) = 1 /\ y[1] = d
    BY OneSymbol
<1>3. PICK u \in Seq(S) :
          /\ u = x \o y /\ Len(u) = Len(x) + Len(y)
          /\ \A i \in 1 .. Len(x) + Len(y) : u[i] = IF i <= Len(x) THEN x[i] ELSE y[i - Len(x)]
    <2>1. PICK u \in Seq(S) : u = x \o y /\ Joined(u, x, y)
        BY Joining
    <2> QED BY <2>1 DEF Joined
<1>4. PICK v \in Seq(S) : v = <<c, d>> /\ Len(v) = 2 /\ v[1] = c /\ v[2] = d
    <2>1. <<c, d>> \in Seq(S) /\ Len(<<c, d>>) = 2 /\ <<c, d>>[1] = c /\ <<c, d>>[2] = d
        OBVIOUS
    <2>2. PICK v : v = <<c, d>>
        OBVIOUS
    <2> QED BY <2>1, <2>2
<1>5. Len(u) = 2 /\ u[1] = c /\ u[2] = d
    <2>1. 1 \in 1 .. 2 /\ 2 \in 1 .. 2 /\ 1 <= 1 /\ ~(2 <= 1) /\ 2 - 1 = 1 /\ 1 + 1 = 2
        OBVIOUS
    <2> QED BY <1>1, <1>2, <1>3, <2>1
<1>6. \A i \in 1 .. 2 : i = 1 \/ i = 2
    OBVIOUS
<1>7. u = v
    BY <1>4, <1>5, <1>6, SeqEqual
<1> QED BY <1>1, <1>2, <1>3, <1>4, <1>7

\* A list without its last element, and the last.
LEMMA FrontIs ==
    ASSUME NEW S, NEW line \in Seq(S), line # <<>>
    PROVE  /\ Front(line) \in Seq(S) /\ line[Len(line)] \in S /\ Len(Front(line)) = Len(line) - 1
           /\ line = Append(Front(line), line[Len(line)])
<1>1. Len(line) \in Nat \ {0} /\ Len(line) \in 1 .. Len(line)
    BY EmptySeq
<1>2. SubSeq(line, 1, Len(line)) = line
    BY SubSeqFull
<1> QED BY <1>1, <1>2, PrefixMore DEF Front

\* Lists cut at the same place are the same on both sides.
LEMMA Cancelling ==
    ASSUME NEW S, NEW s \in Seq(S), NEW u \in Seq(S), NEW t \in Seq(S), NEW v \in Seq(S)
    PROVE  s \o u = t \o v /\ Len(s) = Len(t) => s = t /\ u = v
<1>1. PICK x \in Seq(S) :
          /\ x = s \o u /\ Len(x) = Len(s) + Len(u)
          /\ \A i \in 1 .. Len(s) + Len(u) : x[i] = IF i <= Len(s) THEN s[i] ELSE u[i - Len(s)]
    <2>1. PICK x \in Seq(S) : x = s \o u /\ Joined(x, s, u)
        BY Joining
    <2> QED BY <2>1 DEF Joined
<1>2. PICK y \in Seq(S) :
          /\ y = t \o v /\ Len(y) = Len(t) + Len(v)
          /\ \A i \in 1 .. Len(t) + Len(v) : y[i] = IF i <= Len(t) THEN t[i] ELSE v[i - Len(t)]
    <2>1. PICK y \in Seq(S) : y = t \o v /\ Joined(y, t, v)
        BY Joining
    <2> QED BY <2>1 DEF Joined
<1> SUFFICES ASSUME s \o u = t \o v, Len(s) = Len(t)
             PROVE  s = t /\ u = v
    OBVIOUS
<1>3. x = y /\ Len(s) \in Nat /\ Len(u) \in Nat /\ Len(v) \in Nat
    BY <1>1, <1>2, LenProperties
<1>4. Len(u) = Len(v)
    BY <1>1, <1>2, <1>3
<1>5. ASSUME NEW i \in 1 .. Len(s) PROVE s[i] = t[i]
    <2>1. i \in 1 .. Len(s) + Len(u) /\ i <= Len(s)
        BY <1>3
    <2>2. x[i] = s[i] /\ y[i] = t[i]
        BY <1>1, <1>2, <1>4, <2>1
    <2> QED BY <1>3, <2>2
<1>6. ASSUME NEW i \in 1 .. Len(u) PROVE u[i] = v[i]
    <2>1. Len(s) + i \in 1 .. Len(s) + Len(u) /\ ~(Len(s) + i <= Len(s)) /\ (Len(s) + i) - Len(s) = i
        BY <1>3
    <2>2. x[Len(s) + i] = u[i] /\ y[Len(s) + i] = v[i]
        BY <1>1, <1>2, <1>4, <2>1
    <2> QED BY <1>3, <2>2
<1> QED BY <1>4, <1>5, <1>6, SeqEqual

\* The last element of a shorter first part is in the longer one.
LEMMA LastBeforeCut ==
    ASSUME NEW S, NEW s \in Seq(S), NEW u \in Seq(S), NEW t \in Seq(S), NEW v \in Seq(S)
    PROVE  Len(t) # 0 /\ Len(t) <= Len(s) /\ s \o u = t \o v => s[Len(t)] = t[Len(t)]
<1>1. PICK x \in Seq(S) :
          /\ x = s \o u /\ Len(x) = Len(s) + Len(u)
          /\ \A j \in 1 .. Len(s) + Len(u) : x[j] = IF j <= Len(s) THEN s[j] ELSE u[j - Len(s)]
    <2>1. PICK x \in Seq(S) : x = s \o u /\ Joined(x, s, u)
        BY Joining
    <2> QED BY <2>1 DEF Joined
<1>2. PICK y \in Seq(S) :
          /\ y = t \o v /\ Len(y) = Len(t) + Len(v)
          /\ \A j \in 1 .. Len(t) + Len(v) : y[j] = IF j <= Len(t) THEN t[j] ELSE v[j - Len(t)]
    <2>1. PICK y \in Seq(S) : y = t \o v /\ Joined(y, t, v)
        BY Joining
    <2> QED BY <2>1 DEF Joined
<1> SUFFICES ASSUME Len(t) # 0, Len(t) <= Len(s), s \o u = t \o v
             PROVE  s[Len(t)] = t[Len(t)]
    OBVIOUS
<1>3. Len(s) \in Nat /\ Len(u) \in Nat /\ Len(t) \in Nat /\ Len(v) \in Nat
    BY LenProperties
<1>4. Len(t) \in 1 .. Len(s) + Len(u) /\ Len(t) \in 1 .. Len(t) + Len(v) /\ Len(t) <= Len(t)
    BY <1>3
<1>5. x[Len(t)] = s[Len(t)] /\ y[Len(t)] = t[Len(t)]
    BY <1>1, <1>2, <1>4
<1> QED BY <1>1, <1>2, <1>5

\* The places of a text in the middle of another.
Threefold(x, u, a, v) ==
    /\ DOMAIN x = 1 .. Len(u) + (Len(a) + Len(v))
    /\ \A i \in 1 .. Len(u) : x[i] = u[i]
    /\ \A i \in 1 .. Len(a) : x[Len(u) + i] = a[i]
    /\ \A i \in 1 .. Len(v) : x[Len(u) + (Len(a) + i)] = v[i]

\* A text in the middle of another is found there.
LEMMA Within ==
    ASSUME NEW S, NEW u \in Seq(S), NEW a \in Seq(S), NEW v \in Seq(S)
    PROVE  u \o (a \o v) \in Seq(S) /\ Threefold(u \o (a \o v), u, a, v)
<1>1. Len(u) \in Nat /\ Len(a) \in Nat /\ Len(v) \in Nat
    BY LenProperties
<1>2. PICK y \in Seq(S) :
          /\ y = a \o v /\ Len(y) = Len(a) + Len(v)
          /\ \A i \in 1 .. Len(a) + Len(v) : y[i] = IF i <= Len(a) THEN a[i] ELSE v[i - Len(a)]
    <2>1. PICK y \in Seq(S) : y = a \o v /\ Joined(y, a, v)
        BY Joining
    <2> QED BY <2>1 DEF Joined
<1>3. PICK x \in Seq(S) :
          /\ x = u \o y /\ Len(x) = Len(u) + Len(y)
          /\ \A i \in 1 .. Len(u) + Len(y) : x[i] = IF i <= Len(u) THEN u[i] ELSE y[i - Len(u)]
    <2>1. PICK x \in Seq(S) : x = u \o y /\ Joined(x, u, y)
        BY Joining
    <2> QED BY <2>1 DEF Joined
<1>4. DOMAIN x = 1 .. Len(u) + (Len(a) + Len(v))
    BY <1>2, <1>3, LenProperties
<1>5. ASSUME NEW i \in 1 .. Len(u) PROVE x[i] = u[i]
    <2>1. i \in 1 .. Len(u) + Len(y) /\ i <= Len(u)
        BY <1>1, <1>2
    <2> QED BY <1>3, <2>1
<1>6. ASSUME NEW i \in 1 .. Len(y) PROVE x[Len(u) + i] = y[i]
    <2>1. Len(u) + i \in 1 .. Len(u) + Len(y) /\ ~(Len(u) + i <= Len(u)) /\ (Len(u) + i) - Len(u) = i
        BY <1>1, <1>2
    <2> QED BY <1>3, <2>1
<1>7. ASSUME NEW i \in 1 .. Len(a) PROVE x[Len(u) + i] = a[i]
    <2>1. i \in 1 .. Len(y) /\ i \in 1 .. Len(a) + Len(v) /\ i <= Len(a)
        BY <1>1, <1>2
    <2> QED BY <1>2, <1>6, <2>1
<1>8. ASSUME NEW i \in 1 .. Len(v) PROVE x[Len(u) + (Len(a) + i)] = v[i]
    <2>1. /\ Len(a) + i \in 1 .. Len(y) /\ Len(a) + i \in 1 .. Len(a) + Len(v)
          /\ ~(Len(a) + i <= Len(a)) /\ (Len(a) + i) - Len(a) = i
        BY <1>1, <1>2
    <2>2. y[Len(a) + i] = v[i]
        BY <1>2, <2>1
    <2>3. x[Len(u) + (Len(a) + i)] = y[Len(a) + i]
        BY <1>6, <2>1
    <2> QED BY <2>2, <2>3
<1> QED BY <1>2, <1>3, <1>4, <1>5, <1>7, <1>8 DEF Threefold

\* The parts of a list put together from two.
Twofold(x, p, q) ==
    /\ Len(x) = Len(p) + Len(q) /\ Len(p) \in Nat /\ Len(q) \in Nat
    /\ SubSeq(x, Len(p) + 1, Len(x)) = q
    /\ \A i \in 1 .. Len(p) : x[i] = p[i]
    /\ \A i \in 1 .. Len(q) : x[Len(p) + i] = q[i]

\* Two lists are found in what they make together.
LEMMA TwoParts ==
    ASSUME NEW S, NEW p \in Seq(S), NEW q \in Seq(S)
    PROVE  p \o q \in Seq(S) /\ Twofold(p \o q, p, q)
<1>1. PICK x \in Seq(S) :
          /\ x = p \o q /\ Len(x) = Len(p) + Len(q)
          /\ \A i \in 1 .. Len(p) + Len(q) : x[i] = IF i <= Len(p) THEN p[i] ELSE q[i - Len(p)]
    <2>1. PICK x \in Seq(S) : x = p \o q /\ Joined(x, p, q)
        BY Joining
    <2> QED BY <2>1 DEF Joined
<1>2. Len(p) \in Nat /\ Len(q) \in Nat
    BY LenProperties
<1>3. SubSeq(p \o q, Len(p) + 1, Len(p) + Len(q)) = q
    BY PartSecond
<1>4. ASSUME NEW i \in 1 .. Len(p) PROVE x[i] = p[i]
    <2>1. i \in 1 .. Len(p) + Len(q) /\ i <= Len(p)
        BY <1>2
    <2> QED BY <1>1, <2>1
<1>5. ASSUME NEW i \in 1 .. Len(q) PROVE x[Len(p) + i] = q[i]
    <2>1. Len(p) + i \in 1 .. Len(p) + Len(q) /\ ~(Len(p) + i <= Len(p)) /\ (Len(p) + i) - Len(p) = i
        BY <1>2
    <2> QED BY <1>1, <2>1
<1> QED BY <1>1, <1>2, <1>3, <1>4, <1>5 DEF Twofold

\* x is p, q and r one after the other, and r is its end.
InThree(x, p, q, r) ==
    /\ Len(x) = Len(p) + Len(q) + Len(r)
    /\ SubSeq(x, Len(p) + Len(q) + 1, Len(x)) = r
    /\ \A i \in 1 .. Len(p) : x[i] = p[i]
    /\ \A i \in 1 .. Len(q) : x[Len(p) + i] = q[i]

\* Three lists are found in what they make together.
LEMMA ThreeParts ==
    ASSUME NEW S, NEW p \in Seq(S), NEW q \in Seq(S), NEW r \in Seq(S)
    PROVE  InThree(p \o (q \o r), p, q, r)
<1>1. PICK a \in Seq(S), m \in Nat :
          /\ a = p \o q /\ Len(a) = m /\ m = Len(p) + Len(q)
          /\ \A i \in 1 .. Len(p) : a[i] = p[i]
          /\ \A i \in 1 .. Len(q) : a[Len(p) + i] = q[i]
    <2>1. PICK a \in Seq(S) : a = p \o q /\ Twofold(a, p, q)
        BY TwoParts
    <2>2. Len(a) \in Nat
        BY LenProperties
    <2> QED BY <2>1, <2>2 DEF Twofold
<1>2. PICK x \in Seq(S) :
          /\ x = a \o r /\ Len(x) = m + Len(r) /\ SubSeq(x, m + 1, Len(x)) = r
          /\ \A i \in 1 .. m : x[i] = a[i]
    <2>1. PICK x \in Seq(S) : x = a \o r /\ Twofold(x, a, r)
        BY TwoParts
    <2> QED BY <1>1, <2>1 DEF Twofold
<1>3. x = p \o (q \o r)
    <2>1. (p \o q) \o r = p \o (q \o r)
        <3>1. Associates(p, q, r)
            BY Assoc
        <3> QED BY <3>1 DEF Associates
    <2> QED BY <1>1, <1>2, <2>1
<1>4. Len(p) \in Nat /\ Len(q) \in Nat
    BY LenProperties
<1>5. ASSUME NEW i \in 1 .. Len(p) PROVE x[i] = p[i]
    <2>1. i \in 1 .. m
        BY <1>1, <1>4
    <2> QED BY <1>1, <1>2, <2>1
<1>6. ASSUME NEW i \in 1 .. Len(q) PROVE x[Len(p) + i] = q[i]
    <2>1. Len(p) + i \in 1 .. m
        BY <1>1, <1>4
    <2> QED BY <1>1, <1>2, <2>1
<1>7. InThree(x, p, q, r)
    BY <1>1, <1>2, <1>5, <1>6 DEF InThree
<1> QED BY <1>3, <1>7

-----------------------------------------------------------------------------
(***************************************************************************)
(* Lists of lists                                                          *)
(***************************************************************************)
\* The parts of a list of texts, put together one by one.
LEMMA Flattening ==
    ASSUME NEW S, NEW s \in Seq(Seq(S)), s # <<>>
    PROVE  \E f \in [1 .. Len(s) -> Seq(S)] :
               /\ f = [i \in 1 .. Len(s) |-> IF i = 1 THEN s[i] ELSE f[i - 1] \o s[i]]
               /\ FlattenSeq(s) = f[Len(s)]
<1> DEFINE Sums(f, n) ==
               /\ f \in [1 .. n -> Seq(S)]
               /\ \A i \in 1 .. n : f[i] = IF i = 1 THEN s[i] ELSE f[i - 1] \o s[i]
           T == {n \in Nat : n \in 1 .. Len(s) /\ \A f : ~Sums(f, n)}
<1>1. Len(s) \in Nat \ {0} /\ \A i \in 1 .. Len(s) : s[i] \in Seq(S)
    BY EmptySeq, ElementOfSeq
<1>2. T = {}
    <2> SUFFICES ASSUME T # {} PROVE FALSE
        OBVIOUS
    <2>1. T \subseteq Nat
        OBVIOUS
    <2> HIDE DEF T
    <2>2. PICK n \in T : \A m \in T : n <= m
        BY <2>1, LeastExists
    <2> USE DEF T
    <2>3. n \in Nat /\ n \in 1 .. Len(s) /\ \A f : ~Sums(f, n)
        OBVIOUS
    <2>4. CASE n = 1
        <3> DEFINE f == [i \in 1 .. 1 |-> s[1]]
        <3>1. Sums(f, 1)
            BY <1>1
        <3> QED BY <2>3, <2>4, <3>1
    <2>5. CASE n # 1
        <3>1. n - 1 \in Nat /\ n - 1 \in 1 .. Len(s)
            BY <1>1, <2>3, <2>5
        <3>2. n - 1 \notin T
            <4> HIDE DEF T
            <4> QED BY <2>2, <2>3, <3>1
        <3>3. PICK g : Sums(g, n - 1)
            BY <3>1, <3>2
        <3> DEFINE f == [i \in 1 .. n |-> IF i = n THEN g[n - 1] \o s[n] ELSE g[i]]
        <3>4. f \in [1 .. n -> Seq(S)]
            <4>1. g[n - 1] \in Seq(S) /\ s[n] \in Seq(S)
                BY <1>1, <2>3, <3>1, <3>3
            <4>2. g[n - 1] \o s[n] \in Seq(S)
                BY <4>1, ConcatProperties
            <4>3. \A i \in 1 .. n : i # n => g[i] \in Seq(S)
                BY <2>3, <3>3
            <4> QED BY <4>2, <4>3
        <3>5. ASSUME NEW i \in 1 .. n PROVE f[i] = IF i = 1 THEN s[i] ELSE f[i - 1] \o s[i]
            <4>1. CASE i = n
                <5>1. i # 1 /\ i - 1 \in 1 .. n /\ i - 1 # n
                    BY <2>3, <2>5, <3>1, <4>1
                <5> QED BY <4>1, <5>1
            <4>2. CASE i # n
                <5>1. i \in 1 .. n - 1 /\ (i # 1 => i - 1 \in 1 .. n /\ i - 1 # n)
                    BY <2>3, <4>2
                <5>2. g[i] = IF i = 1 THEN s[i] ELSE g[i - 1] \o s[i]
                    BY <3>3, <5>1
                <5> QED BY <4>2, <5>1, <5>2
            <4> QED BY <4>1, <4>2
        <3> HIDE DEF f
        <3>6. Sums(f, n)
            BY <3>4, <3>5
        <3> QED BY <2>3, <3>6
    <2> QED BY <2>4, <2>5
<1>3. PICK f : Sums(f, Len(s))
    <2>1. Len(s) \in Nat /\ Len(s) \in 1 .. Len(s)
        BY <1>1
    <2> HIDE DEF Sums
    <2> QED BY <1>2, <2>1, Zenon
<1>4. f \in [1 .. Len(s) -> Seq(S)]
    BY <1>3
<1>5. f = [i \in 1 .. Len(s) |-> IF i = 1 THEN s[i] ELSE f[i - 1] \o s[i]]
    <2>1. \A i \in 1 .. Len(s) : f[i] = IF i = 1 THEN s[i] ELSE f[i - 1] \o s[i]
        BY <1>3
    <2> QED BY <1>4, <2>1
<1> DEFINE Is(g) == g = [i \in 1 .. Len(s) |-> IF i = 1 THEN s[i] ELSE g[i - 1] \o s[i]]
           flat == CHOOSE g : Is(g)
<1>6. Is(flat)
    BY <1>5
<1>7. FlattenSeq(s) = flat[Len(s)]
    BY <1>1, Zenon DEF FlattenSeq
<1> HIDE DEF flat
<1>8. flat \in [1 .. Len(s) -> Seq(S)]
    <2> DEFINE U == {i \in 1 .. Len(s) : flat[i] \notin Seq(S)}
    <2>1. U \subseteq Nat
        BY <1>1
    <2>2. ASSUME U # {} PROVE FALSE
        <3> HIDE DEF U
        <3>1. PICK i \in U : \A j \in U : i <= j
            BY <2>1, <2>2, LeastExists
        <3> USE DEF U
        <3>2. i \in 1 .. Len(s) /\ flat[i] \notin Seq(S)
            OBVIOUS
        <3>3. i # 1 /\ flat[i] = flat[i - 1] \o s[i]
            BY <1>1, <1>6, <3>2
        <3>4. i - 1 \in 1 .. Len(s) /\ ~(i <= i - 1)
            BY <1>1, <3>2, <3>3
        <3>5. i - 1 \notin U
            <4> HIDE DEF U
            <4> QED BY <3>1, <3>4
        <3>6. flat[i - 1] \in Seq(S) /\ s[i] \in Seq(S)
            BY <1>1, <3>2, <3>4, <3>5
        <3> QED BY <3>2, <3>3, <3>6, ConcatProperties
    <2>3. \A i \in 1 .. Len(s) : flat[i] \in Seq(S)
        BY <2>2
    <2> QED BY <1>6, <2>3
<1> QED BY <1>6, <1>7, <1>8

\* Texts put together are a text.
LEMMA FlattenList ==
    ASSUME NEW S, NEW s \in Seq(Seq(S))
    PROVE  FlattenSeq(s) \in Seq(S)
<1>1. CASE s = <<>>
    BY <1>1, EmptySeq DEF FlattenSeq
<1>2. CASE s # <<>>
    <2>1. Len(s) \in 1 .. Len(s)
        BY <1>2, EmptySeq
    <2>2. PICK f \in [1 .. Len(s) -> Seq(S)] : FlattenSeq(s) = f[Len(s)]
        BY <1>2, Flattening
    <2> QED BY <2>1, <2>2
<1> QED BY <1>1, <1>2

\* One more list is put to the ones before.
LEMMA FlattenAppend ==
    ASSUME NEW S, NEW s \in Seq(Seq(S)), NEW e \in Seq(S)
    PROVE  FlattenSeq(Append(s, e)) = FlattenSeq(s) \o e
<1> DEFINE t == Append(s, e)
<1>1. /\ t \in Seq(Seq(S)) /\ t # <<>> /\ Len(t) = Len(s) + 1 /\ Len(s) \in Nat
      /\ (\A i \in 1 .. Len(s) : t[i] = s[i]) /\ t[Len(s) + 1] = e
    BY AppendProperties, LenProperties
<1> HIDE DEF t
<1>2. PICK f \in [1 .. Len(t) -> Seq(S)] :
          /\ f = [i \in 1 .. Len(t) |-> IF i = 1 THEN t[i] ELSE f[i - 1] \o t[i]]
          /\ FlattenSeq(t) = f[Len(t)]
    BY <1>1, Flattening
<1>3. CASE s = <<>>
    <2>1. Len(s) = 0 /\ FlattenSeq(s) = <<>>
        BY <1>3, EmptySeq DEF FlattenSeq
    <2>2. FlattenSeq(t) = e
        BY <1>1, <1>2, <2>1
    <2> QED BY <2>1, <2>2, ConcatEmptySeq DEF t
<1>4. CASE s # <<>>
    <2>1. PICK g \in [1 .. Len(s) -> Seq(S)] :
              /\ g = [i \in 1 .. Len(s) |-> IF i = 1 THEN s[i] ELSE g[i - 1] \o s[i]]
              /\ FlattenSeq(s) = g[Len(s)]
        BY <1>4, Flattening
    <2> DEFINE U == {i \in 1 .. Len(s) : f[i] # g[i]}
    <2>2. ASSUME U # {} PROVE FALSE
        <3>1. U \subseteq Nat
            BY <1>1
        <3> HIDE DEF U
        <3>2. PICK i \in U : \A j \in U : i <= j
            BY <2>2, <3>1, LeastExists
        <3> USE DEF U
        <3>3. i \in 1 .. Len(s) /\ f[i] # g[i] /\ i \in 1 .. Len(t)
            BY <1>1
        <3>4. i # 1
            BY <1>1, <1>2, <2>1, <3>3
        <3>5. i - 1 \in 1 .. Len(s) /\ ~(i <= i - 1)
            BY <1>1, <3>3, <3>4
        <3>6. i - 1 \notin U
            <4> HIDE DEF U
            <4> QED BY <3>2, <3>5
        <3>7. f[i - 1] = g[i - 1] /\ t[i] = s[i]
            BY <1>1, <3>3, <3>5, <3>6
        <3>8. f[i] = f[i - 1] \o t[i] /\ g[i] = g[i - 1] \o s[i]
            BY <1>2, <2>1, <3>3, <3>4
        <3> QED BY <3>3, <3>7, <3>8
    <2>3. Len(s) \in 1 .. Len(s) /\ Len(t) # 1 /\ Len(t) \in 1 .. Len(t) /\ Len(t) - 1 = Len(s)
        BY <1>1, <1>4, EmptySeq
    <2>4. f[Len(s)] = g[Len(s)]
        BY <2>2, <2>3
    <2>5. f[Len(t)] = f[Len(s)] \o e
        BY <1>1, <1>2, <2>3
    <2> QED BY <1>2, <2>1, <2>4, <2>5 DEF t
<1> QED BY <1>3, <1>4

\* No list at all, and one.
LEMMA FlattenOne ==
    ASSUME NEW S, NEW e \in Seq(S)
    PROVE  FlattenSeq(<<>>) = <<>> /\ FlattenSeq(<<e>>) = e
<1>1. <<>> \in Seq(Seq(S)) /\ Len(<<>>) = 0
    BY EmptySeq
<1>2. FlattenSeq(<<>>) = <<>>
    BY <1>1 DEF FlattenSeq
<1>3. Append(<<>>, e) = <<e>>
    OBVIOUS
<1>4. FlattenSeq(<<e>>) = <<>> \o e
    BY <1>1, <1>2, <1>3, FlattenAppend
<1> QED BY <1>2, <1>4, ConcatEmptySeq

\* Two lists of lists.
LEMMA FlattenConcat ==
    ASSUME NEW S, NEW s \in Seq(Seq(S)), NEW u \in Seq(Seq(S))
    PROVE  FlattenSeq(s \o u) = FlattenSeq(s) \o FlattenSeq(u)
<1> DEFINE upto(k) == SubSeq(u, 1, k)
           Holds(k) == FlattenSeq(s \o upto(k)) = FlattenSeq(s) \o FlattenSeq(upto(k))
           T == {k \in 0 .. Len(u) : ~Holds(k)}
<1>1. Len(u) \in Nat /\ FlattenSeq(s) \in Seq(S)
    BY LenProperties, FlattenList
<1>2. ASSUME T # {} PROVE FALSE
    <2>1. T \subseteq Nat
        BY <1>1
    <2> HIDE DEF T
    <2>2. PICK k \in T : \A j \in T : k <= j
        BY <1>2, <2>1, LeastExists
    <2> USE DEF T
    <2>3. k \in 0 .. Len(u) /\ ~Holds(k)
        OBVIOUS
    <2>4. k # 0
        <3> SUFFICES ASSUME k = 0 PROVE FALSE
            OBVIOUS
        <3>1. upto(0) = <<>>
            BY SubSeqEmpty
        <3>2. s \o <<>> = s /\ FlattenSeq(s) \o <<>> = FlattenSeq(s)
            BY <1>1, ConcatEmptySeq
        <3>3. FlattenSeq(<<>>) = <<>>
            BY <1>1, FlattenOne
        <3> QED BY <2>3, <3>1, <3>2, <3>3
    <2>5. k \in 1 .. Len(u) /\ k - 1 \in 0 .. Len(u) /\ ~(k <= k - 1)
        BY <1>1, <2>3, <2>4
    <2>6. k - 1 \notin T
        <3> HIDE DEF T
        <3> QED BY <2>2, <2>5
    <2>7. Holds(k - 1)
        BY <2>5, <2>6
    <2>8. /\ upto(k - 1) \in Seq(Seq(S)) /\ u[k] \in Seq(S)
          /\ upto(k) = Append(upto(k - 1), u[k])
        BY <2>5, PrefixMore
    <2> HIDE DEF upto, T
    <2>9. FlattenSeq(upto(k)) = FlattenSeq(upto(k - 1)) \o u[k] /\ FlattenSeq(upto(k - 1)) \in Seq(S)
        BY <2>8, FlattenAppend, FlattenList
    <2>10. s \o upto(k) = Append(s \o upto(k - 1), u[k]) /\ s \o upto(k - 1) \in Seq(Seq(S))
        <3>1. s \o upto(k - 1) \in Seq(Seq(S))
            BY <2>8, ConcatProperties
        <3>2. Append(s \o upto(k - 1), u[k]) = (s \o upto(k - 1)) \o <<u[k]>>
            BY <2>8, <3>1, AppendIsConcat
        <3>3. upto(k) = upto(k - 1) \o <<u[k]>> /\ <<u[k]>> \in Seq(Seq(S))
            BY <2>8, AppendIsConcat
        <3>4. (s \o upto(k - 1)) \o <<u[k]>> = s \o (upto(k - 1) \o <<u[k]>>)
            <4>1. PICK p \in Seq(Seq(S)), q \in Seq(Seq(S)) : p = upto(k - 1) /\ q = <<u[k]>>
                BY <2>8, <3>3
            <4>2. (s \o p) \o q = s \o (p \o q)
                <5>1. Associates(s, p, q)
                    BY Assoc
                <5> QED BY <5>1 DEF Associates
            <4> QED BY <4>1, <4>2
        <3> QED BY <3>1, <3>2, <3>3, <3>4
    <2>11. FlattenSeq(s \o upto(k)) = (FlattenSeq(s) \o FlattenSeq(upto(k - 1))) \o u[k]
        <3>1. FlattenSeq(Append(s \o upto(k - 1), u[k])) = FlattenSeq(s \o upto(k - 1)) \o u[k]
            BY <2>8, <2>10, FlattenAppend
        <3> QED BY <2>7, <2>10, <3>1
    <2>12. FlattenSeq(s \o upto(k)) = FlattenSeq(s) \o FlattenSeq(upto(k))
        <3>1. (FlattenSeq(s) \o FlattenSeq(upto(k - 1))) \o u[k]
                  = FlattenSeq(s) \o (FlattenSeq(upto(k - 1)) \o u[k])
            <4>1. PICK p \in Seq(S), q \in Seq(S), r \in Seq(S) :
                      p = FlattenSeq(s) /\ q = FlattenSeq(upto(k - 1)) /\ r = u[k]
                BY <1>1, <2>8, <2>9
            <4>2. (p \o q) \o r = p \o (q \o r)
                <5>1. Associates(p, q, r)
                    BY Assoc
                <5> QED BY <5>1 DEF Associates
            <4> QED BY <4>1, <4>2
        <3> QED BY <2>9, <2>11, <3>1
    <2> QED BY <2>3, <2>12
<1>3. Holds(Len(u))
    <2>1. Len(u) \in 0 .. Len(u)
        BY <1>1
    <2> HIDE DEF Holds
    <2> QED BY <1>2, <2>1
<1>4. upto(Len(u)) = u
    BY SubSeqFull
<1> QED BY <1>3, <1>4

-----------------------------------------------------------------------------
(***************************************************************************)
(* Choosing and splitting                                                  *)
(***************************************************************************)
\* The elements of a list at some of its places.
LEMMA ChosenList ==
    ASSUME NEW S, NEW q \in Seq(S), NEW P, P \subseteq DOMAIN q
    PROVE  Chosen(q, P) \in Seq(S) /\ Len(Chosen(q, P)) = Cardinality(P)
<1>1. Len(q) \in Nat /\ DOMAIN q = 1 .. Len(q) /\ P \subseteq 1 .. Len(q)
    BY LenProperties
<1>2. Cardinality(P) \in Nat
    BY <1>1, Places
<1>3. \A k \in 1 .. Cardinality(P) : q[Nth(P, k)] \in S
    BY <1>1, NthPlace, ElementOfSeq
<1>4. [k \in 1 .. Cardinality(P) |-> q[Nth(P, k)]] \in Seq(S)
    BY <1>2, <1>3
<1> QED BY <1>2, <1>4 DEF Chosen

\* All of a list is chosen.
LEMMA ChosenAll ==
    ASSUME NEW S, NEW q \in Seq(S)
    PROVE  Chosen(q, DOMAIN q) = q
<1>1. Len(q) \in Nat /\ DOMAIN q = 1 .. Len(q)
    BY LenProperties
<1>2. Cardinality(DOMAIN q) = Len(q)
    <2>1. PICK n \in Nat : n = Len(q)
        BY <1>1
    <2>2. Cardinality(1 .. n) = n
        BY FS_Interval
    <2> QED BY <1>1, <2>1, <2>2
<1>3. ASSUME NEW i \in 1 .. Len(q) PROVE Nth(1 .. Len(q), i) = i
    <2> DEFINE P == 1 .. Len(q)
    <2>1. {j \in P : j <= i} = 1 .. i /\ i \in P /\ P \subseteq 1 .. Len(q)
        BY <1>1
    <2>2. Cardinality(1 .. i) = i
        BY <1>1, FS_Interval
    <2> HIDE DEF P
    <2>3. Nth(P, Cardinality({j \in P : j <= i})) = i
        BY <1>1, <2>1, NthIs
    <2>4. Nth(P, i) = i
        BY <2>1, <2>2, <2>3
    <2> QED BY <2>4 DEF P
<1>4. Chosen(q, DOMAIN q) = [k \in 1 .. Len(q) |-> q[k]]
    BY <1>1, <1>2, <1>3 DEF Chosen
<1> QED BY <1>1, <1>4, LenProperties

\* getline gives parts of the text.
LEMMA GetlineList ==
    ASSUME NEW S, NEW t \in Seq(S), NEW sep
    PROVE  getline(t, sep) \in Seq(Seq(S))
<1> DEFINE ends == Ends(t, sep)
           start(k) == IF k = 1 THEN 1 ELSE Nth(ends, k - 1) + 1
           piece(k) == SubSeq(t, start(k), Nth(ends, k) - 1)
<1>1. Len(t) \in Nat /\ ends \subseteq 1 .. Len(t) + 1
    BY LenProperties DEF Ends
<1>2. Cardinality(ends) \in Nat
    BY <1>1, Places
<1> HIDE DEF ends
<1>3. ASSUME NEW k \in 1 .. Cardinality(ends) PROVE Nth(ends, k) \in 1 .. Len(t) + 1
    <2>1. Len(t) + 1 \in Nat
        BY <1>1
    <2>2. Nth(ends, k) \in ends
        BY <1>1, <2>1, NthPlace
    <2> QED BY <1>1, <2>2
<1>4. ASSUME NEW k \in 1 .. Cardinality(ends) PROVE piece(k) \in Seq(S)
    <2>1. start(k) \in Nat \ {0}
        <3>1. k # 1 => k - 1 \in 1 .. Cardinality(ends)
            BY <1>2
        <3> QED BY <1>1, <1>3, <3>1
    <2>2. Nth(ends, k) - 1 \in Int /\ Nth(ends, k) - 1 <= Len(t)
        BY <1>1, <1>3
    <2> HIDE DEF start
    <2> QED BY <2>1, <2>2, PartOfList
<1> HIDE DEF piece
<1>5. [k \in 1 .. Cardinality(ends) |-> piece(k)] \in Seq(Seq(S))
    BY <1>2, <1>4
<1> QED BY <1>5 DEF getline, ends, piece

\* Where the k-th piece begins.
Start(ends, k) == IF k = 1 THEN 1 ELSE Nth(ends, k - 1) + 1

\* The pieces, by where they begin and end.
LEMMA GetlineIs ==
    ASSUME NEW t, NEW sep, NEW E, E = Ends(t, sep)
    PROVE  getline(t, sep) = [k \in 1 .. Cardinality(E) |-> SubSeq(t, Start(E, k), Nth(E, k) - 1)]
BY DEF getline, Start

\* Every piece lies in the text.
LEMMA StartPlace ==
    ASSUME NEW n \in Nat, NEW P, P \subseteq 1 .. n, NEW k \in 1 .. Cardinality(P)
    PROVE  Start(P, k) \in 1 .. n /\ Nth(P, k) \in 1 .. n /\ Start(P, k) <= Nth(P, k)
<1>1. Cardinality(P) \in Nat /\ Nth(P, k) \in P
    BY Places, NthPlace
<1>2. PICK b \in 1 .. n : b = Nth(P, k)
    BY <1>1
<1>3. CASE k = 1
    BY <1>2, <1>3 DEF Start
<1>4. CASE k # 1
    <2>1. k - 1 \in 1 .. Cardinality(P)
        BY <1>1, <1>4
    <2>2. PICK a \in 1 .. n : a = Nth(P, k - 1)
        BY <2>1, NthPlace
    <2>3. a < b
        BY <1>2, <1>4, <2>2, NthRises
    <2> QED BY <1>2, <1>4, <2>2, <2>3 DEF Start
<1> QED BY <1>3, <1>4

\* t is empty, or ends with sep.
EndsWith(t, sep) == t # <<>> => t[Len(t)] = sep

\* The piece p after t is taken out after the pieces of t.
Continues(t, p, sep) == getline((t \o p) \o <<sep>>, sep) = Append(getline(t, sep), p)

\* One more piece, after a text that is complete.
LEMMA GetlineMore ==
    ASSUME NEW S, NEW sep \in S, NEW t \in Seq(S), NEW p \in Seq(S \ {sep}), EndsWith(t, sep)
    PROVE  Continues(t, p, sep)
<1> USE DEF EndsWith
<1> DEFINE w == (t \o p) \o <<sep>>
           n == Len(t)
           m == n + Len(p) + 1
           E == Ends(t, sep)
           c == Cardinality(E)
<1>1. /\ p \in Seq(S) /\ <<sep>> \in Seq(S) /\ Len(<<sep>>) = 1
      /\ n \in Nat /\ Len(p) \in Nat /\ m \in Nat \ {0} /\ m > n
      /\ \A i \in 1 .. Len(p) : p[i] # sep
    <2>1. p \in Seq(S)
        BY SeqMonotonic
    <2>2. \A i \in 1 .. Len(p) : p[i] \in S \ {sep}
        BY ElementOfSeq
    <2>3. n \in Nat /\ Len(p) \in Nat
        BY <2>1, LenProperties
    <2> QED BY <2>1, <2>2, <2>3
<1>2. /\ t \o p \in Seq(S) /\ Len(t \o p) = n + Len(p)
      /\ \A i \in 1 .. n + Len(p) : (t \o p)[i] = IF i <= n THEN t[i] ELSE p[i - n]
    BY <1>1, ConcatProperties
<1>3. /\ w \in Seq(S) /\ Len(w) = m /\ w[m] = sep
      /\ \A i \in 1 .. n : w[i] = t[i]
      /\ \A i \in n + 1 .. m - 1 : w[i] # sep
    <2>1. /\ w \in Seq(S) /\ Len(w) = m
          /\ \A i \in 1 .. m : w[i] = IF i <= n + Len(p) THEN (t \o p)[i] ELSE <<sep>>[i - (n + Len(p))]
        BY <1>1, <1>2, ConcatProperties
    <2> HIDE DEF w
    <2>2. w[m] = sep
        BY <1>1, <2>1
    <2>3. \A i \in 1 .. n : w[i] = t[i]
        BY <1>1, <1>2, <2>1
    <2>4. ASSUME NEW i \in n + 1 .. m - 1 PROVE w[i] # sep
        <3>1. i \in 1 .. m /\ i <= n + Len(p) /\ ~(i <= n) /\ i - n \in 1 .. Len(p)
            BY <1>1
        <3>2. w[i] = p[i - n]
            BY <1>2, <2>1, <3>1
        <3> QED BY <1>1, <3>1, <3>2
    <2> QED BY <2>1, <2>2, <2>3, <2>4
<1>4. E \subseteq 1 .. n /\ (n # 0 => n \in E) /\ c \in Nat /\ E = {i \in 1 .. n : t[i] = sep}
    <2>1. E = {i \in 1 .. n : t[i] = sep}
        BY <1>1, EmptySeq DEF Ends
    <2>2. n # 0 => n \in 1 .. n /\ t # <<>>
        BY <1>1
    <2> QED BY <1>1, <2>1, <2>2, Places
<1> HIDE DEF E
<1>5. Ends(w, sep) = E \cup {m}
    <2>0. w # <<>> /\ Len(w) = m
        BY <1>1, <1>3
    <2> HIDE DEF w
    <2>1. ASSUME NEW i \in 1 .. m + 1
          PROVE  (IF i <= m THEN w[i] = sep ELSE w # <<>> /\ w[m] # sep) <=> i \in E \cup {m}
        <3>1. CASE i \in 1 .. n
            BY <1>1, <1>3, <1>4, <3>1
        <3>2. CASE i \in n + 1 .. m - 1
            BY <1>1, <1>3, <1>4, <3>2
        <3>3. CASE i = m
            BY <1>1, <1>3, <3>3
        <3>4. CASE i = m + 1
            BY <1>1, <1>3, <1>4, <3>4
        <3> QED BY <1>1, <3>1, <3>2, <3>3, <3>4
    <2>2. E \cup {m} \subseteq 1 .. m + 1
        BY <1>1, <1>4
    <2> HIDE DEF m
    <2> QED BY <2>0, <2>1, <2>2 DEF Ends
<1> DEFINE Q == E \cup {m}
<1>6. /\ Cardinality(Q) = c + 1 /\ Nth(Q, c + 1) = m
      /\ \A k \in 1 .. c : Nth(Q, k) = Nth(E, k)
    <2>1. n \in Nat /\ m \in Nat /\ m > n /\ E \subseteq 1 .. n
        BY <1>1, <1>4
    <2> HIDE DEF m, n, w
    <2>2. LastPlace(E, m)
        BY <2>1, NthMore
    <2> QED BY <2>2 DEF LastPlace
<1> HIDE DEF Q
<1>7. ASSUME NEW k \in 1 .. c PROVE SubSeq(w, Start(Q, k), Nth(Q, k) - 1) = SubSeq(t, Start(E, k), Nth(E, k) - 1)
    <2>1. Start(Q, k) = Start(E, k)
        <3>1. k # 1 => k - 1 \in 1 .. c
            BY <1>4
        <3> QED BY <1>6, <3>1 DEF Start
    <2>2. PICK a \in 1 .. n, b \in 1 .. n : a = Start(E, k) /\ b = Nth(E, k)
        BY <1>1, <1>4, StartPlace
    <2>3. w = t \o (p \o <<sep>>) /\ p \o <<sep>> \in Seq(S)
        <3>1. <<sep>> \in Seq(S) /\ p \in Seq(S)
            BY <1>1
        <3>2. p \o <<sep>> \in Seq(S)
            BY <3>1, ConcatProperties
        <3>3. (t \o p) \o <<sep>> = t \o (p \o <<sep>>)
            <4>1. Associates(t, p, <<sep>>)
                BY <3>1, Assoc
            <4> QED BY <4>1 DEF Associates
        <3> QED BY <3>2, <3>3 DEF w
    <2>4. a \in Nat \ {0} /\ b - 1 \in Nat /\ b - 1 <= n
        BY <1>1, <2>2
    <2> HIDE DEF w
    <2>5. SubSeq(w, a, b - 1) = SubSeq(t, a, b - 1)
        BY <2>3, <2>4, PartPrefix
    <2> QED BY <1>6, <2>1, <2>2, <2>5
<1>8. SubSeq(w, Start(Q, c + 1), Nth(Q, c + 1) - 1) = p
    <2>1. Start(Q, c + 1) = n + 1
        <3>1. CASE n = 0
            <4>1. E = {}
                BY <1>4, <3>1
            <4>2. c = 0
                BY <4>1, FS_EmptySet
            <4> QED BY <3>1, <4>2 DEF Start
        <3>2. CASE n # 0
            <4>1. Nth(E, c) = n
                BY <1>1, <1>4, <3>2, NthLast
            <4>2. IsFiniteSet(E)
                BY <1>1, <1>4, Places
            <4>3. c # 0
                BY <1>4, <3>2, <4>2, FS_EmptySet
            <4>4. c \in 1 .. c /\ c + 1 # 1 /\ (c + 1) - 1 = c
                BY <1>4, <4>3
            <4> QED BY <1>6, <4>1, <4>4 DEF Start
        <3> QED BY <3>1, <3>2
    <2>2. SubSeq(t \o p, n + 1, n + Len(p)) = p
        BY <1>1, PartSecond
    <2>3. SubSeq(w, n + 1, n + Len(p)) = SubSeq(t \o p, n + 1, n + Len(p))
        <3>1. n + 1 \in Nat \ {0} /\ n + Len(p) \in Nat /\ n + Len(p) <= Len(t \o p)
            BY <1>1, <1>2
        <3>2. t \o p \in Seq(S) /\ <<sep>> \in Seq(S)
            BY <1>1, <1>2
        <3> QED BY <3>1, <3>2, PartPrefix
    <2>4. m - 1 = n + Len(p)
        BY <1>1
    <2> QED BY <1>6, <2>1, <2>2, <2>3, <2>4
<1> HIDE DEF w, m
<1>9. getline(w, sep) = [k \in 1 .. c + 1 |-> SubSeq(w, Start(Q, k), Nth(Q, k) - 1)]
    <2>1. Ends(w, sep) = Q
        BY <1>5 DEF Q
    <2> QED BY <1>6, <2>1, GetlineIs
<1>10. getline(t, sep) = [k \in 1 .. c |-> SubSeq(t, Start(E, k), Nth(E, k) - 1)]
    BY GetlineIs DEF E
<1>11. getline(t, sep) \in Seq(Seq(S)) /\ Len(getline(t, sep)) = c
    <2>1. getline(t, sep) \in Seq(Seq(S))
        BY GetlineList
    <2>2. DOMAIN getline(t, sep) = 1 .. c /\ DOMAIN getline(t, sep) = 1 .. Len(getline(t, sep))
        BY <1>10, <2>1, LenProperties
    <2> QED BY <1>4, <2>1, <2>2, LenProperties
<1>12. getline(w, sep) \in Seq(Seq(S)) /\ Len(getline(w, sep)) = c + 1
    <2>1. getline(w, sep) \in Seq(Seq(S))
        BY <1>3, GetlineList
    <2>2. DOMAIN getline(w, sep) = 1 .. c + 1 /\ DOMAIN getline(w, sep) = 1 .. Len(getline(w, sep))
        BY <1>9, <2>1, LenProperties
    <2> QED BY <1>4, <2>1, <2>2, LenProperties
<1> DEFINE u == Append(getline(t, sep), p)
<1>13. /\ u \in Seq(Seq(S)) /\ Len(u) = c + 1 /\ u[c + 1] = p
       /\ \A k \in 1 .. c : u[k] = getline(t, sep)[k]
    BY <1>1, <1>11, AppendProperties
<1> HIDE DEF u, c, E
<1>14. ASSUME NEW k \in 1 .. c + 1 PROVE getline(w, sep)[k] = u[k]
    <2>1. getline(w, sep)[k] = SubSeq(w, Start(Q, k), Nth(Q, k) - 1)
        BY <1>9
    <2>2. CASE k = c + 1
        BY <1>8, <1>13, <2>1, <2>2
    <2>3. CASE k # c + 1
        <3>1. k \in 1 .. c
            BY <1>4, <2>3
        <3> QED BY <1>7, <1>10, <1>13, <2>1, <3>1
    <2> QED BY <2>2, <2>3
<1>15. getline(w, sep) = u
    BY <1>12, <1>13, <1>14, SeqEqual
<1> QED BY <1>15 DEF w, u, Continues

\* A text with something after its last separator.
LEMMA GetlineRest ==
    ASSUME NEW S, NEW sep \in S, NEW t \in Seq(S), t # <<>>, t[Len(t)] # sep
    PROVE  getline(t, sep) = getline(t \o <<sep>>, sep)
<1> DEFINE w == t \o <<sep>>
           E == Ends(t, sep)
<1>1. /\ Len(t) \in Nat \ {0} /\ <<sep>> \in Seq(S) /\ w \in Seq(S) /\ Len(w) = Len(t) + 1
      /\ w[Len(t) + 1] = sep /\ \A i \in 1 .. Len(t) : w[i] = t[i]
    <2>1. Len(t) \in Nat \ {0} /\ <<sep>> \in Seq(S) /\ Len(<<sep>>) = 1 /\ <<sep>>[1] = sep
        BY EmptySeq
    <2>2. /\ w \in Seq(S) /\ Len(w) = Len(t) + 1
          /\ \A i \in 1 .. Len(t) + 1 : w[i] = IF i <= Len(t) THEN t[i] ELSE <<sep>>[i - Len(t)]
        BY <2>1, ConcatProperties
    <2> HIDE DEF w
    <2>3. Len(t) + 1 \in 1 .. Len(t) + 1 /\ ~(Len(t) + 1 <= Len(t)) /\ (Len(t) + 1) - Len(t) = 1
        BY <2>1
    <2>4. \A i \in 1 .. Len(t) : i \in 1 .. Len(t) + 1 /\ i <= Len(t)
        BY <2>1
    <2> QED BY <2>1, <2>2, <2>3, <2>4
<1>2. Ends(w, sep) = E
    <2>1. w # <<>>
        BY <1>1, EmptySeq
    <2> HIDE DEF w
    <2>2. ASSUME NEW i \in 1 .. Len(t) + 2
          PROVE  (IF i <= Len(w) THEN w[i] = sep ELSE w # <<>> /\ w[Len(w)] # sep)
                     <=> i \in 1 .. Len(t) + 1 /\ IF i <= Len(t) THEN t[i] = sep
                                                  ELSE t # <<>> /\ t[Len(t)] # sep
        <3>1. CASE i \in 1 .. Len(t)
            BY <1>1, <3>1
        <3>2. CASE i = Len(t) + 1
            BY <1>1, <3>2
        <3>3. CASE i = Len(t) + 2
            BY <1>1, <3>3
        <3> QED BY <1>1, <3>1, <3>2, <3>3
    <2>3. Ends(w, sep) = {i \in 1 .. Len(t) + 2 :
              IF i <= Len(w) THEN w[i] = sep ELSE w # <<>> /\ w[Len(w)] # sep}
        <3>1. Len(w) + 1 = Len(t) + 2
            BY <1>1
        <3> QED BY <3>1 DEF Ends
    <2>4. E = {i \in 1 .. Len(t) + 1 : IF i <= Len(t) THEN t[i] = sep ELSE t # <<>> /\ t[Len(t)] # sep}
        BY DEF Ends
    <2>5. 1 .. Len(t) + 1 \subseteq 1 .. Len(t) + 2
        BY <1>1
    <2> HIDE DEF E
    <2> QED BY <2>2, <2>3, <2>4, <2>5
<1>3. E \subseteq 1 .. Len(t) + 1 /\ Len(t) + 1 \in Nat
    BY <1>1 DEF Ends
<1> HIDE DEF E
<1>4. ASSUME NEW k \in 1 .. Cardinality(E)
      PROVE  SubSeq(w, Start(E, k), Nth(E, k) - 1) = SubSeq(t, Start(E, k), Nth(E, k) - 1)
    <2>1. PICK a \in 1 .. Len(t) + 1, b \in 1 .. Len(t) + 1 : a = Start(E, k) /\ b = Nth(E, k)
        BY <1>3, StartPlace
    <2>2. a \in Nat \ {0} /\ b - 1 \in Nat /\ b - 1 <= Len(t)
        BY <1>1
    <2>3. SubSeq(w, a, b - 1) = SubSeq(t, a, b - 1)
        BY <1>1, <2>2, PartPrefix
    <2> QED BY <2>1, <2>3
<1> HIDE DEF w
<1>5. getline(t, sep) = [k \in 1 .. Cardinality(E) |-> SubSeq(t, Start(E, k), Nth(E, k) - 1)]
    BY GetlineIs DEF E
<1>6. getline(w, sep) = [k \in 1 .. Cardinality(E) |-> SubSeq(w, Start(E, k), Nth(E, k) - 1)]
    BY <1>2, GetlineIs
<1>7. getline(w, sep) = getline(t, sep)
    BY <1>4, <1>5, <1>6
<1> QED BY <1>7 DEF w

\* An empty text has no pieces.
LEMMA GetlineNone ==
    ASSUME NEW sep
    PROVE  getline(<<>>, sep) = <<>>
<1>1. Ends(<<>>, sep) = {}
    BY EmptySeq DEF Ends
<1>2. Cardinality({}) = 0
    BY FS_EmptySet
<1>3. DOMAIN getline(<<>>, sep) = 1 .. 0
    BY <1>1, <1>2 DEF getline
<1>4. <<>> \in Seq({})
    OBVIOUS
<1>5. getline(<<>>, sep) \in Seq(Seq({}))
    BY <1>4, GetlineList
<1> QED BY <1>3, <1>5, LenProperties, EmptySeq

\* Pieces, each with a separator after it.
Ended(p, sep) == [i \in DOMAIN p |-> p[i] \o <<sep>>]

\* A separator after each piece, by the elements.
LEMMA EndedList ==
    ASSUME NEW S, NEW sep \in S, NEW p \in Seq(Seq(S))
    PROVE  /\ Ended(p, sep) \in Seq(Seq(S)) /\ Len(Ended(p, sep)) = Len(p)
           /\ \A i \in 1 .. Len(p) : Ended(p, sep)[i] = p[i] \o <<sep>>
<1>1. Len(p) \in Nat /\ DOMAIN p = 1 .. Len(p) /\ <<sep>> \in Seq(S)
    BY LenProperties
<1>2. \A i \in 1 .. Len(p) : p[i] \o <<sep>> \in Seq(S)
    BY <1>1, ElementOfSeq, ConcatProperties
<1>3. [i \in 1 .. Len(p) |-> p[i] \o <<sep>>] \in Seq(Seq(S))
    BY <1>1, <1>2
<1> QED BY <1>1, <1>3, LenProperties DEF Ended

\* One more piece with its separator.
LEMMA EndedAppend ==
    ASSUME NEW S, NEW sep \in S, NEW p \in Seq(Seq(S)), NEW e \in Seq(S)
    PROVE  Ended(Append(p, e), sep) = Append(Ended(p, sep), e \o <<sep>>)
<1> DEFINE a == Ended(Append(p, e), sep)
           b == Append(Ended(p, sep), e \o <<sep>>)
<1>1. Len(p) \in Nat /\ <<sep>> \in Seq(S) /\ e \o <<sep>> \in Seq(S)
    BY LenProperties, ConcatProperties
<1>2. /\ Append(p, e) \in Seq(Seq(S)) /\ Len(Append(p, e)) = Len(p) + 1
      /\ (\A i \in 1 .. Len(p) : Append(p, e)[i] = p[i]) /\ Append(p, e)[Len(p) + 1] = e
    BY AppendProperties
<1>3. a \in Seq(Seq(S)) /\ Len(a) = Len(p) + 1 /\ \A i \in 1 .. Len(p) + 1 : a[i] = Append(p, e)[i] \o <<sep>>
    <2>1. PICK u \in Seq(Seq(S)) : u = Append(p, e)
        BY <1>2
    <2>2. /\ Ended(u, sep) \in Seq(Seq(S)) /\ Len(Ended(u, sep)) = Len(u)
          /\ \A i \in 1 .. Len(u) : Ended(u, sep)[i] = u[i] \o <<sep>>
        BY EndedList
    <2> QED BY <1>2, <2>1, <2>2
<1>4. Ended(p, sep) \in Seq(Seq(S)) /\ Len(Ended(p, sep)) = Len(p)
      /\ \A i \in 1 .. Len(p) : Ended(p, sep)[i] = p[i] \o <<sep>>
    BY EndedList
<1>5. /\ b \in Seq(Seq(S)) /\ Len(b) = Len(p) + 1 /\ b[Len(p) + 1] = e \o <<sep>>
      /\ \A i \in 1 .. Len(p) : b[i] = p[i] \o <<sep>>
    <2> DEFINE q == Ended(p, sep)
               r == e \o <<sep>>
    <2>1. q \in Seq(Seq(S)) /\ r \in Seq(S)
        BY <1>1, <1>4
    <2>2. Len(q) = Len(p) /\ \A i \in 1 .. Len(p) : q[i] = p[i] \o <<sep>>
        BY <1>4
    <2> HIDE DEF q, r
    <2>3. /\ Append(q, r) \in Seq(Seq(S)) /\ Len(Append(q, r)) = Len(q) + 1
          /\ (\A i \in 1 .. Len(q) : Append(q, r)[i] = q[i]) /\ Append(q, r)[Len(q) + 1] = r
        BY <2>1, AppendProperties
    <2>4. /\ Append(q, r) \in Seq(Seq(S)) /\ Len(Append(q, r)) = Len(p) + 1
          /\ Append(q, r)[Len(p) + 1] = r
          /\ \A i \in 1 .. Len(p) : Append(q, r)[i] = p[i] \o <<sep>>
        BY <2>2, <2>3
    <2> QED BY <2>4 DEF q, r
<1> HIDE DEF a, b
<1>6. ASSUME NEW i \in 1 .. Len(a) PROVE a[i] = b[i]
    <2>1. CASE i = Len(p) + 1
        BY <1>1, <1>2, <1>3, <1>5, <2>1
    <2>2. CASE i # Len(p) + 1
        <3>1. i \in 1 .. Len(p) /\ i \in 1 .. Len(p) + 1
            BY <1>1, <1>3, <2>2
        <3> QED BY <1>2, <1>3, <1>5, <3>1
    <2> QED BY <2>1, <2>2
<1>7. a = b
    BY <1>3, <1>5, <1>6, SeqEqual
<1> QED BY <1>7 DEF a, b

\* Two lists of pieces with their separators.
LEMMA EndedConcat ==
    ASSUME NEW S, NEW sep \in S, NEW p \in Seq(Seq(S)), NEW q \in Seq(Seq(S))
    PROVE  Ended(p \o q, sep) = Ended(p, sep) \o Ended(q, sep)
<1> DEFINE a == Ended(p \o q, sep)
           b == Ended(p, sep) \o Ended(q, sep)
<1>1. Len(p) \in Nat /\ Len(q) \in Nat
    BY LenProperties
<1>2. /\ p \o q \in Seq(Seq(S)) /\ Len(p \o q) = Len(p) + Len(q)
      /\ \A i \in 1 .. Len(p) + Len(q) : (p \o q)[i] = IF i <= Len(p) THEN p[i] ELSE q[i - Len(p)]
    BY ConcatProperties
<1>3. /\ a \in Seq(Seq(S)) /\ Len(a) = Len(p) + Len(q)
      /\ \A i \in 1 .. Len(p) + Len(q) : a[i] = (p \o q)[i] \o <<sep>>
    BY <1>2, EndedList
<1>4. /\ Ended(p, sep) \in Seq(Seq(S)) /\ Len(Ended(p, sep)) = Len(p)
      /\ \A i \in 1 .. Len(p) : Ended(p, sep)[i] = p[i] \o <<sep>>
    BY EndedList
<1>5. /\ Ended(q, sep) \in Seq(Seq(S)) /\ Len(Ended(q, sep)) = Len(q)
      /\ \A i \in 1 .. Len(q) : Ended(q, sep)[i] = q[i] \o <<sep>>
    BY EndedList
<1>6. /\ b \in Seq(Seq(S)) /\ Len(b) = Len(p) + Len(q)
      /\ \A i \in 1 .. Len(p) + Len(q) :
             b[i] = IF i <= Len(p) THEN Ended(p, sep)[i] ELSE Ended(q, sep)[i - Len(p)]
    <2>1. PICK x \in Seq(Seq(S)), y \in Seq(Seq(S)) : x = Ended(p, sep) /\ y = Ended(q, sep)
        BY <1>4, <1>5
    <2>2. /\ x \o y \in Seq(Seq(S)) /\ Len(x \o y) = Len(x) + Len(y)
          /\ \A i \in 1 .. Len(x) + Len(y) : (x \o y)[i] = IF i <= Len(x) THEN x[i] ELSE y[i - Len(x)]
        BY ConcatProperties
    <2> QED BY <1>4, <1>5, <2>1, <2>2
<1> HIDE DEF a, b
<1>7. ASSUME NEW i \in 1 .. Len(a) PROVE a[i] = b[i]
    <2>1. i \in 1 .. Len(p) + Len(q)
        BY <1>3
    <2>2. CASE i <= Len(p)
        <3>1. i \in 1 .. Len(p)
            BY <1>1, <2>1, <2>2
        <3> QED BY <1>2, <1>3, <1>4, <1>6, <2>1, <2>2, <3>1
    <2>3. CASE ~(i <= Len(p))
        <3>1. i - Len(p) \in 1 .. Len(q)
            BY <1>1, <2>1, <2>3
        <3> QED BY <1>2, <1>3, <1>5, <1>6, <2>1, <2>3, <3>1
    <2> QED BY <2>2, <2>3
<1>8. a = b
    BY <1>3, <1>6, <1>7, SeqEqual
<1> QED BY <1>8 DEF a, b

\* The pieces come out as they were.
LEMMA GetlineEnded ==
    ASSUME NEW S, NEW sep \in S, NEW p \in Seq(Seq(S \ {sep}))
    PROVE  LET t == FlattenSeq(Ended(p, sep))
           IN  t \in Seq(S) /\ (t # <<>> => t[Len(t)] = sep) /\ getline(t, sep) = p
<1> DEFINE text(q) == FlattenSeq(Ended(q, sep))
           Whole(t) == t # <<>> => t[Len(t)] = sep
           upto(k) == SubSeq(p, 1, k)
           Holds(k) == Whole(text(upto(k))) /\ getline(text(upto(k)), sep) = upto(k)
           T == {k \in 0 .. Len(p) : ~Holds(k)}
<1>1. p \in Seq(Seq(S)) /\ Len(p) \in Nat
    <2>1. Seq(S \ {sep}) \subseteq Seq(S)
        BY SeqMonotonic
    <2> QED BY <2>1, SeqMonotonic, LenProperties
<1>2. ASSUME NEW q \in Seq(Seq(S)) PROVE text(q) \in Seq(S)
    BY EndedList, FlattenList
<1>3. ASSUME T # {} PROVE FALSE
    <2>1. T \subseteq Nat
        BY <1>1
    <2> HIDE DEF T
    <2>2. PICK k \in T : \A j \in T : k <= j
        BY <1>3, <2>1, LeastExists
    <2> USE DEF T
    <2>3. k \in 0 .. Len(p) /\ ~Holds(k)
        OBVIOUS
    <2>4. k # 0
        <3> SUFFICES ASSUME k = 0 PROVE FALSE
            OBVIOUS
        <3>1. upto(0) = <<>>
            BY SubSeqEmpty
        <3>2. Ended(<<>>, sep) = <<>>
            BY DEF Ended
        <3>3. FlattenSeq(<<>>) = <<>>
            BY FlattenOne, <1>1, EmptySeq
        <3> QED BY <2>3, <3>1, <3>2, <3>3, GetlineNone
    <2>5. k \in 1 .. Len(p) /\ k - 1 \in 0 .. Len(p) /\ ~(k <= k - 1)
        BY <1>1, <2>3, <2>4
    <2>6. k - 1 \notin T
        <3> HIDE DEF T
        <3> QED BY <2>2, <2>5
    <2>7. Holds(k - 1)
        BY <2>5, <2>6
    <2>8. PICK q \in Seq(Seq(S)), e \in Seq(S \ {sep}) :
              q = upto(k - 1) /\ upto(k) = Append(q, e)
        <3>1. upto(k - 1) \in Seq(Seq(S)) /\ upto(k) = Append(upto(k - 1), p[k])
            BY <1>1, <2>5, PrefixMore
        <3>2. p[k] \in Seq(S \ {sep})
            BY <2>5, ElementOfSeq
        <3> QED BY <3>1, <3>2
    <2>9. e \in Seq(S) /\ <<sep>> \in Seq(S)
        BY SeqMonotonic
    <2>10. PICK t \in Seq(S) : t = text(q) /\ Whole(t) /\ getline(t, sep) = q
        BY <1>2, <2>7, <2>8
    <2>11. text(upto(k)) = (t \o e) \o <<sep>>
        <3>1. e \o <<sep>> \in Seq(S) /\ Ended(q, sep) \in Seq(Seq(S))
            BY <2>9, ConcatProperties, EndedList
        <3>2. FlattenSeq(Append(Ended(q, sep), e \o <<sep>>)) = t \o (e \o <<sep>>)
            BY <2>10, <3>1, FlattenAppend
        <3>3. Ended(Append(q, e), sep) = Append(Ended(q, sep), e \o <<sep>>)
            BY <2>9, EndedAppend
        <3>4. (t \o e) \o <<sep>> = t \o (e \o <<sep>>)
            <4>1. Associates(t, e, <<sep>>)
                BY <2>9, Assoc
            <4> QED BY <4>1 DEF Associates
        <3> QED BY <2>8, <3>2, <3>3, <3>4
    <2>12. getline(text(upto(k)), sep) = upto(k)
        <3>1. getline((t \o e) \o <<sep>>, sep) = Append(getline(t, sep), e)
            <4>1. EndsWith(t, sep)
                BY <2>10 DEF EndsWith
            <4>2. Continues(t, e, sep)
                BY <4>1, GetlineMore
            <4> QED BY <4>2 DEF Continues
        <3> QED BY <2>8, <2>10, <2>11, <3>1
    <2>13. Whole((t \o e) \o <<sep>>)
        <3>1. PICK v \in Seq(S) : v = t \o e
            BY <2>9, ConcatProperties
        <3>2. Len(v) \in Nat /\ Len(<<sep>>) = 1 /\ <<sep>>[1] = sep
            BY LenProperties
        <3>3. Len(v \o <<sep>>) = Len(v) + 1 /\ (v \o <<sep>>)[Len(v) + 1] = sep
            BY <2>9, <3>2, ConcatProperties
        <3> QED BY <3>1, <3>3
    <2> QED BY <2>3, <2>11, <2>12, <2>13
<1>4. upto(Len(p)) = p
    BY SubSeqFull
<1>5. Holds(Len(p))
    <2>1. Len(p) \in 0 .. Len(p)
        BY <1>1
    <2> HIDE DEF Holds
    <2> QED BY <1>3, <2>1
<1> QED BY <1>1, <1>2, <1>4, <1>5

\* The pieces p are taken out of their text.
Restores(p, sep) == getline(FlattenSeq(Ended(p, sep)), sep) = p

\* The last fact by itself.
LEMMA GetlineRestores == \A S : \A sep \in S : \A p \in Seq(Seq(S \ {sep})) : Restores(p, sep)
BY GetlineEnded DEF Restores

\* An empty piece is seen in the text: by a separator at the start or after another.
LEMMA EmptyPiece ==
    ASSUME NEW S, NEW sep \in S, NEW w \in Seq(S), NEW n \in Nat \ {0}, Len(w) = n, w[n] = sep
    PROVE  /\ Len(getline(w, sep)) <= n
           /\ \A j \in 1 .. Len(getline(w, sep)) : getline(w, sep)[j] = <<>> =>
                  \E c \in 1 .. n : w[c] = sep /\ (c = 1 \/ (c > 1 /\ w[c - 1] = sep))
<1>1. PICK P : P = Ends(w, sep) /\ P = {i \in 1 .. n : w[i] = sep} /\ P \subseteq 1 .. n
    <2>1. w # <<>>
        BY EmptySeq
    <2>2. Ends(w, sep) = {i \in 1 .. n + 1 : IF i <= n THEN w[i] = sep ELSE w # <<>> /\ w[n] # sep}
        BY DEF Ends
    <2>3. ASSUME NEW i \in 1 .. n + 1
          PROVE  (IF i <= n THEN w[i] = sep ELSE w # <<>> /\ w[n] # sep) <=> i \in 1 .. n /\ w[i] = sep
        <3>1. CASE i <= n
            <4>1. i \in 1 .. n
                BY <3>1
            <4> QED BY <3>1, <4>1
        <3>2. CASE ~(i <= n)
            <4>1. ~(i \in 1 .. n)
                BY <3>2
            <4> QED BY <3>2, <4>1
        <3> QED BY <3>1, <3>2
    <2>4. 1 .. n \subseteq 1 .. n + 1
        OBVIOUS
    <2>5. Ends(w, sep) = {i \in 1 .. n : w[i] = sep}
        BY <2>2, <2>3, <2>4
    <2> QED BY <2>5
<1>2. PICK k \in Nat : k = Cardinality(P) /\ k <= n
    <2>1. IsFiniteSet(1 .. n) /\ Cardinality(1 .. n) = n
        BY FS_Interval
    <2>2. Cardinality(P) <= n
        BY <1>1, <2>1, FS_Subset
    <2> QED BY <1>1, <2>2, Places
<1>3. getline(w, sep) = [j \in 1 .. Cardinality(P) |-> SubSeq(w, Start(P, j), Nth(P, j) - 1)]
    <2>1. P = Ends(w, sep)
        BY <1>1
    <2> QED BY ONLY <2>1 DEF getline, Start
<1>4. Len(getline(w, sep)) = k
    <2>1. DOMAIN getline(w, sep) = 1 .. k
        BY <1>2, <1>3
    <2>2. getline(w, sep) \in Seq(Seq(S))
        BY GetlineList
    <2> QED BY <2>1, <2>2, LenProperties
<1>5. ASSUME NEW j \in 1 .. k
      PROVE  getline(w, sep)[j] = <<>> =>
                 \E c \in 1 .. n : w[c] = sep /\ (c = 1 \/ (c > 1 /\ w[c - 1] = sep))
    <2>1. j \in 1 .. Cardinality(P)
        BY <1>2
    <2>2. PICK b \in 1 .. n, c \in 1 .. n : b = Start(P, j) /\ c = Nth(P, j) /\ b <= c
        BY <1>1, <2>1, StartPlace
    <2>3. getline(w, sep)[j] = SubSeq(w, b, c - 1)
        BY <1>3, <2>1, <2>2
    <2>4. b < c => Len(SubSeq(w, b, c - 1)) = c - b
        <3>1. b < c => b \in 1 .. Len(w) + 1 /\ c - 1 \in b - 1 .. Len(w)
            OBVIOUS
        <3> QED BY <3>1, SubSeqProperties
    <2>5. SubSeq(w, b, c - 1) = <<>> => b = c
        <3>1. PICK x : x = SubSeq(w, b, c - 1) /\ (b < c => Len(x) = c - b)
            BY <2>4
        <3>2. Len(<<>>) = 0
            OBVIOUS
        <3>3. x = <<>> => ~(b < c)
            <4> SUFFICES ASSUME x = <<>>, b < c PROVE FALSE
                OBVIOUS
            <4>1. Len(x) = 0
                BY <3>2, Zenon
            <4> QED BY <3>1, <4>1
        <3>4. ~(b < c) => b = c
            BY <2>2
        <3> QED BY <3>1, <3>3, <3>4, Zenon
    <2>6. w[c] = sep
        <3>1. c \in P
            BY <1>1, <2>1, <2>2, NthPlace
        <3> QED BY <1>1, <3>1
    <2>7. CASE j = 1
        BY <2>2, <2>3, <2>5, <2>6, <2>7 DEF Start
    <2>8. CASE j # 1
        <3>1. j - 1 \in 1 .. Cardinality(P)
            BY <1>2, <2>8
        <3>2. PICK e \in 1 .. n : e = Nth(P, j - 1) /\ w[e] = sep
            <4>1. Nth(P, j - 1) \in P
                BY <1>1, <3>1, NthPlace
            <4> QED BY <1>1, <4>1
        <3>3. b = e + 1
            BY <2>2, <2>8, <3>2 DEF Start
        <3>4. b = c => c > 1 /\ c - 1 = e
            BY <3>3
        <3> QED BY <2>3, <2>5, <2>6, <3>2, <3>4
    <2> QED BY <2>7, <2>8
<1> QED BY <1>2, <1>4, <1>5

-----------------------------------------------------------------------------
(***************************************************************************)
(* Counting                                                                *)
(***************************************************************************)
\* What is sent and read, and lists of commands.
Text  == Seq(Symbols)
Lines == Seq(Seq(Text))

\* The symbols of words.
Letters == Symbols \ {SP, CR, LF, NUL}

\* There are finitely many places with a symbol.
LEMMA CountNat ==
    ASSUME NEW s, NEW t \in Text
    PROVE  Count(s, t) \in Nat /\ IsFiniteSet({i \in DOMAIN t : Upper[t[i]] = s})
<1>1. Len(t) \in Nat /\ {i \in DOMAIN t : Upper[t[i]] = s} \subseteq 1 .. Len(t)
    BY LenProperties DEF Text
<1> QED BY <1>1, Places DEF Count

\* Two texts with the symbol at the same places.
LEMMA CountSame ==
    ASSUME NEW s, NEW t, NEW u, DOMAIN t = DOMAIN u,
           \A i \in DOMAIN t : Upper[t[i]] = s <=> Upper[u[i]] = s
    PROVE  Count(s, t) = Count(s, u)
<1>1. {i \in DOMAIN t : Upper[t[i]] = s} = {i \in DOMAIN u : Upper[u[i]] = s}
    OBVIOUS
<1> QED BY <1>1, Zenon DEF Count

\* Of two texts, one after the other, the numbers add up.
LEMMA CountJoin ==
    ASSUME NEW s, NEW a \in Text, NEW b \in Text
    PROVE  Count(s, a \o b) = Count(s, a) + Count(s, b)
<1> DEFINE Spots(t) == {i \in DOMAIN t : Upper[t[i]] = s}
<1>1. PICK x \in Text : x = a \o b /\ Joined(x, a, b)
    BY Joining DEF Text
<1>2. PICK n \in Nat, m \in Nat :
          n = Len(a) /\ m = Len(b) /\ DOMAIN a = 1 .. n /\ DOMAIN b = 1 .. m /\ DOMAIN x = 1 .. n + m
    <2>1. Len(a) \in Nat /\ Len(b) \in Nat /\ DOMAIN a = 1 .. Len(a) /\ DOMAIN b = 1 .. Len(b)
        BY LenProperties DEF Text
    <2>2. DOMAIN x = 1 .. Len(x) /\ Len(x) = Len(a) + Len(b)
        BY <1>1, LenProperties DEF Text, Joined
    <2> QED BY <2>1, <2>2
<1>3. \A i \in 1 .. n + m : x[i] = IF i <= n THEN a[i] ELSE b[i - n]
    BY <1>1, <1>2 DEF Joined
<1> DEFINE A == Spots(a)
           B == Spots(b)
           C == {i \in n + 1 .. n + m : Upper[b[i - n]] = s}
<1>4. Spots(x) = A \cup C
    <2>1. ASSUME NEW i \in 1 .. n + m PROVE i \in Spots(x) <=> i \in A \cup C
        <3>1. CASE i <= n
            BY <1>2, <1>3, <3>1
        <3>2. CASE ~(i <= n)
            BY <1>2, <1>3, <3>2
        <3> QED BY <3>1, <3>2
    <2>2. \A i \in A \cup C : i \in 1 .. n + m
        BY <1>2
    <2>3. \A i \in Spots(x) : i \in 1 .. n + m
        BY <1>2
    <2> HIDE DEF A, C, Spots
    <2> QED BY <2>1, <2>2, <2>3
<1>5. A \cap C = {}
    BY <1>2
<1>6. ExistsBijection(B, C)
    <2> DEFINE f == [j \in B |-> n + j]
    <2>1. ASSUME NEW j \in B PROVE n + j \in C /\ j \in Int
        BY <1>2
    <2>2. ASSUME NEW i \in C PROVE i - n \in B /\ n + (i - n) = i
        BY <1>2
    <2>3. f \in [B -> C]
        BY <2>1
    <2>4. \A j, k \in B : f[j] = f[k] => j = k
        BY <2>1
    <2>5. \A i \in C : \E j \in B : f[j] = i
        BY <2>2
    <2> HIDE DEF f, B, C
    <2>6. f \in Injection(B, C)
        BY <2>3, <2>4 DEF Injection, IsInjective
    <2>7. f \in Surjection(B, C)
        BY <2>3, <2>5 DEF Surjection
    <2> QED BY <2>6, <2>7 DEF ExistsBijection, Bijection
<1>7. IsFiniteSet(A) /\ IsFiniteSet(B)
    BY CountNat
<1> HIDE DEF A, B, C, Spots
<1>8. IsFiniteSet(C) /\ Cardinality(C) = Cardinality(B)
    BY <1>6, <1>7, FS_Bijection
<1>9. Cardinality(A \cup C) = Cardinality(A) + Cardinality(B)
    <2>1. Cardinality(A \cup C) = Cardinality(A) + Cardinality(C) - Cardinality(A \cap C)
        BY <1>7, <1>8, FS_Union
    <2>2. Cardinality(A \cap C) = 0
        BY <1>5, FS_EmptySet
    <2>3. Cardinality(A) \in Nat /\ Cardinality(B) \in Nat
        BY <1>7, FS_CardinalityType
    <2> QED BY <1>8, <2>1, <2>2, <2>3
<1> QED BY <1>1, <1>4, <1>9 DEF Count, A, B, Spots

\* The marks between words and lines are no letters.
LEMMA CountMarks ==
    ASSUME NEW s \in Letters, NEW t, \A i \in DOMAIN t : t[i] \in {SP, CR, LF, NUL}
    PROVE  Count(s, t) = 0
<1>1. \A i \in DOMAIN t : Upper[t[i]] # s
    BY UpperAssumption DEF Letters
<1>2. {i \in DOMAIN t : Upper[t[i]] = s} = {}
    BY <1>1
<1> QED BY <1>2, FS_EmptySet DEF Count

\* A text up to a place, and from there to another.
LEMMA CountSplit ==
    ASSUME NEW s, NEW t \in Text, NEW m \in 0 .. Len(t), NEW n \in m .. Len(t)
    PROVE  /\ SubSeq(t, 1, m) \in Text /\ SubSeq(t, m + 1, n) \in Text /\ SubSeq(t, 1, n) \in Text
           /\ Count(s, SubSeq(t, 1, n)) = Count(s, SubSeq(t, 1, m)) + Count(s, SubSeq(t, m + 1, n))
<1>1. Len(t) \in Nat /\ t \in Seq(Symbols)
    BY LenProperties DEF Text
<1>2. 1 \in 1 .. Len(t) + 1 /\ m \in 1 - 1 .. Len(t) /\ n \in m .. Len(t)
    BY <1>1
<1>3. SubSeq(t, 1, m) \o SubSeq(t, m + 1, n) = SubSeq(t, 1, n)
    BY <1>1, <1>2, ConcatAdjacentSubSeq
<1>4. m \in Int /\ n \in Int /\ m <= Len(t) /\ n <= Len(t) /\ m + 1 \in Nat \ {0}
    BY <1>1
<1>5. SubSeq(t, 1, m) \in Text /\ SubSeq(t, m + 1, n) \in Text /\ SubSeq(t, 1, n) \in Text
    BY <1>4, PartOfList DEF Text
<1> QED BY <1>3, <1>5, CountJoin

\* A first part has no more than the text.
LEMMA CountPrefix ==
    ASSUME NEW s, NEW t \in Text, NEW m \in 0 .. Len(t)
    PROVE  SubSeq(t, 1, m) \in Text /\ Count(s, SubSeq(t, 1, m)) <= Count(s, t)
<1>1. Len(t) \in Nat /\ SubSeq(t, 1, Len(t)) = t
    BY LenProperties, SubSeqFull DEF Text
<1>2. Len(t) \in m .. Len(t)
    BY <1>1
<1>3. /\ SubSeq(t, 1, m) \in Text /\ SubSeq(t, m + 1, Len(t)) \in Text
      /\ Count(s, t) = Count(s, SubSeq(t, 1, m)) + Count(s, SubSeq(t, m + 1, Len(t)))
    BY <1>1, <1>2, CountSplit
<1>4. PICK c \in Nat, d \in Nat :
          c = Count(s, SubSeq(t, 1, m)) /\ d = Count(s, SubSeq(t, m + 1, Len(t)))
    BY <1>3, CountNat
<1>5. c <= c + d
    OBVIOUS
<1> QED BY <1>3, <1>4, <1>5

\* How often a symbol is in the first k texts of a list.
CountUpto(s, p, k) == Count(s, FlattenSeq(SubSeq(p, 1, k)))

\* The first texts of a list, taken together.
LEMMA UptoText ==
    ASSUME NEW p \in Seq(Text), NEW k \in 0 .. Len(p)
    PROVE  SubSeq(p, 1, k) \in Seq(Text) /\ FlattenSeq(SubSeq(p, 1, k)) \in Text
<1>1. k \in Int /\ k <= Len(p)
    BY LenProperties
<1>2. SubSeq(p, 1, k) \in Seq(Text)
    BY <1>1, PartOfList
<1> QED BY <1>2, FlattenList DEF Text

\* These are numbers, from 0 for no text to that of all.
LEMMA CountUptoNat ==
    ASSUME NEW s, NEW p \in Seq(Text)
    PROVE  /\ \A k \in 0 .. Len(p) : CountUpto(s, p, k) \in Nat
           /\ CountUpto(s, p, 0) = 0 /\ CountUpto(s, p, Len(p)) = Count(s, FlattenSeq(p))
<1>1. \A k \in 0 .. Len(p) : CountUpto(s, p, k) \in Nat
    BY UptoText, CountNat DEF CountUpto
<1>2. CountUpto(s, p, 0) = 0
    <2>1. SubSeq(p, 1, 0) = <<>>
        BY SubSeqEmpty
    <2>2. FlattenSeq(<<>>) = <<>>
        BY FlattenOne, EmptySeq
    <2>3. {i \in DOMAIN <<>> : Upper[<<>>[i]] = s} = {}
        OBVIOUS
    <2>4. Count(s, <<>>) = 0
        BY <2>3, FS_EmptySet, Zenon DEF Count
    <2> QED BY <2>1, <2>2, <2>4 DEF CountUpto
<1>3. SubSeq(p, 1, Len(p)) = p
    BY SubSeqFull
<1> QED BY <1>1, <1>2, <1>3 DEF CountUpto

\* More texts have no fewer.
LEMMA CountUptoRises ==
    ASSUME NEW s, NEW p \in Seq(Text), NEW k \in 0 .. Len(p), NEW n \in k .. Len(p)
    PROVE  CountUpto(s, p, k) <= CountUpto(s, p, n)
<1>1. Len(p) \in Nat
    BY LenProperties
<1>2. k \in 0 .. Len(p) /\ n \in 0 .. Len(p) /\ n \in Int /\ n <= Len(p) /\ k + 1 \in Nat \ {0}
    BY <1>1
<1>3. SubSeq(p, 1, k) \in Seq(Text) /\ SubSeq(p, k + 1, n) \in Seq(Text)
    BY <1>2, UptoText, PartOfList
<1>4. SubSeq(p, 1, k) \o SubSeq(p, k + 1, n) = SubSeq(p, 1, n)
    <2>1. 1 \in 1 .. Len(p) + 1 /\ k \in 1 - 1 .. Len(p) /\ n \in k .. Len(p)
        BY <1>1
    <2> QED BY <2>1, ConcatAdjacentSubSeq
<1>5. PICK x \in Seq(Text), y \in Seq(Text) : x = SubSeq(p, 1, k) /\ y = SubSeq(p, k + 1, n)
    BY <1>3
<1>6. FlattenSeq(x) \in Text /\ FlattenSeq(y) \in Text
    BY FlattenList DEF Text
<1>7. FlattenSeq(x \o y) = FlattenSeq(x) \o FlattenSeq(y)
    BY FlattenConcat DEF Text
<1>8. PICK c \in Nat, d \in Nat : c = Count(s, FlattenSeq(x)) /\ d = Count(s, FlattenSeq(y))
    BY <1>6, CountNat
<1>9. Count(s, FlattenSeq(x \o y)) = c + d
    BY <1>6, <1>7, <1>8, CountJoin
<1>10. c <= c + d
    OBVIOUS
<1> QED BY <1>4, <1>5, <1>8, <1>9, <1>10 DEF CountUpto

\* One more text.
LEMMA CountUptoMore ==
    ASSUME NEW s, NEW p \in Seq(Text), NEW k \in 1 .. Len(p)
    PROVE  CountUpto(s, p, k) = CountUpto(s, p, k - 1) + Count(s, p[k])
<1>1. /\ SubSeq(p, 1, k - 1) \in Seq(Text) /\ p[k] \in Text
      /\ SubSeq(p, 1, k) = Append(SubSeq(p, 1, k - 1), p[k])
    BY PrefixMore
<1>2. PICK x \in Seq(Text) : x = SubSeq(p, 1, k - 1)
    BY <1>1
<1>3. FlattenSeq(Append(x, p[k])) = FlattenSeq(x) \o p[k] /\ FlattenSeq(x) \in Text
    BY <1>1, FlattenAppend, FlattenList DEF Text
<1>4. Count(s, FlattenSeq(x) \o p[k]) = Count(s, FlattenSeq(x)) + Count(s, p[k])
    BY <1>1, <1>3, CountJoin
<1> QED BY <1>1, <1>2, <1>3, <1>4 DEF CountUpto

\* Texts put together have no more than a bound that grows with each of them.
LEMMA CountBound ==
    ASSUME NEW s, NEW p \in Seq(Text), NEW g \in [0 .. Len(p) -> Nat],
           \A k \in 1 .. Len(p) : g[k - 1] + Count(s, p[k]) <= g[k]
    PROVE  Count(s, FlattenSeq(p)) <= g[Len(p)]
<1> DEFINE T == {k \in 0 .. Len(p) : ~(CountUpto(s, p, k) <= g[k])}
<1>1. Len(p) \in Nat
    BY LenProperties
<1>2. ASSUME T # {} PROVE FALSE
    <2>1. T \subseteq Nat
        BY <1>1
    <2> HIDE DEF T
    <2>2. PICK k \in T : \A j \in T : k <= j
        BY <1>2, <2>1, LeastExists
    <2>3. k \in 0 .. Len(p) /\ ~(CountUpto(s, p, k) <= g[k])
        BY DEF T
    <2>4. k # 0
        <3> SUFFICES ASSUME k = 0 PROVE FALSE
            OBVIOUS
        <3>1. g[0] \in Nat
            BY <1>1
        <3> QED BY <2>3, <3>1, CountUptoNat
    <2>5. k \in 1 .. Len(p) /\ k - 1 \in 0 .. Len(p) /\ ~(k <= k - 1)
        BY <1>1, <2>3, <2>4
    <2>6. CountUpto(s, p, k - 1) <= g[k - 1]
        <3>1. k - 1 \notin T
            BY <2>2, <2>5
        <3> QED BY <2>5, <3>1 DEF T
    <2>7. PICK c \in Nat, d \in Nat : c = CountUpto(s, p, k - 1) /\ d = Count(s, p[k])
        BY <2>5, CountUptoNat, CountNat, ElementOfSeq
    <2>8. PICK e \in Nat, f \in Nat : e = g[k - 1] /\ f = g[k] /\ e + d <= f
        BY <2>3, <2>5, <2>7
    <2>9. c <= e /\ ~(c + d <= f)
        BY <2>3, <2>5, <2>6, <2>7, <2>8, CountUptoMore
    <2> QED BY <2>8, <2>9
<1>3. CountUpto(s, p, Len(p)) <= g[Len(p)]
    BY <1>1, <1>2
<1> QED BY <1>3, CountUptoNat

\* Each text of a list has no more than its counterpart.
LEMMA CountEach ==
    ASSUME NEW s, NEW p \in Seq(Text), NEW q \in Seq(Text), Len(p) = Len(q),
           \A k \in 1 .. Len(p) : Count(s, p[k]) <= Count(s, q[k])
    PROVE  Count(s, FlattenSeq(p)) <= Count(s, FlattenSeq(q))
<1> DEFINE g == [k \in 0 .. Len(p) |-> CountUpto(s, q, k)]
<1>1. Len(p) \in Nat /\ g \in [0 .. Len(p) -> Nat] /\ g[Len(p)] = Count(s, FlattenSeq(q))
    BY LenProperties, CountUptoNat
<1>2. ASSUME NEW k \in 1 .. Len(p) PROVE g[k - 1] + Count(s, p[k]) <= g[k]
    <2>1. k - 1 \in 0 .. Len(p) /\ k \in 0 .. Len(p)
        BY <1>1
    <2>2. PICK a \in Nat, b \in Nat, c \in Nat :
              a = CountUpto(s, q, k - 1) /\ b = Count(s, p[k]) /\ c = Count(s, q[k]) /\ b <= c
        BY <2>1, CountUptoNat, CountNat, ElementOfSeq
    <2>3. CountUpto(s, q, k) = a + c
        BY <2>2, CountUptoMore
    <2>4. g[k - 1] = a /\ g[k] = a + c
        BY <2>1, <2>2, <2>3
    <2> QED BY <2>2, <2>4
<1> HIDE DEF g
<1> QED BY <1>1, <1>2, CountBound

\* Some of the texts of a list have no more than all.
LEMMA CountChosen ==
    ASSUME NEW s, NEW q \in Seq(Text), NEW P, P \subseteq DOMAIN q
    PROVE  Count(s, FlattenSeq(Chosen(q, P))) <= Count(s, FlattenSeq(q))
<1> DEFINE g == [k \in 0 .. Cardinality(P) |-> IF k = 0 THEN 0 ELSE CountUpto(s, q, Nth(P, k))]
<1>1. PICK n \in Nat : n = Len(q) /\ P \subseteq 1 .. n
    BY LenProperties
<1>2. PICK c \in Nat : c = Cardinality(P)
    BY <1>1, Places
<1>3. PICK p \in Seq(Text) : p = Chosen(q, P) /\ Len(p) = c
    BY <1>2, ChosenList
<1>4. ASSUME NEW k \in 1 .. c PROVE Nth(P, k) \in 1 .. n /\ p[k] = q[Nth(P, k)]
    BY <1>1, <1>2, <1>3, NthPlace DEF Chosen
<1>5. g \in [0 .. c -> Nat]
    <2>1. ASSUME NEW k \in 0 .. c, k # 0 PROVE CountUpto(s, q, Nth(P, k)) \in Nat
        <3>1. Nth(P, k) \in 0 .. Len(q)
            BY <1>1, <1>4, <2>1
        <3> QED BY <3>1, CountUptoNat
    <2> QED BY <1>2, <2>1
<1>6. ASSUME NEW k \in 1 .. c PROVE g[k - 1] + Count(s, p[k]) <= g[k]
    <2>1. PICK j \in 1 .. n : j = Nth(P, k) /\ p[k] = q[j]
        BY <1>4
    <2>2. PICK a \in Nat, b \in Nat :
              a = CountUpto(s, q, j - 1) /\ b = Count(s, q[j]) /\ CountUpto(s, q, j) = a + b
        <3>1. j \in 1 .. Len(q) /\ j - 1 \in 0 .. Len(q)
            BY <1>1
        <3>2. CountUpto(s, q, j - 1) \in Nat
            BY <3>1, CountUptoNat
        <3>3. Count(s, q[j]) \in Nat
            BY <3>1, CountNat, ElementOfSeq
        <3>4. CountUpto(s, q, j) = CountUpto(s, q, j - 1) + Count(s, q[j])
            BY <3>1, CountUptoMore
        <3> QED BY <3>2, <3>3, <3>4
    <2>3. g[k - 1] <= a /\ g[k - 1] \in Nat
        <3>1. CASE k = 1
            BY <1>2, <3>1
        <3>2. CASE k # 1
            <4>1. k - 1 \in 1 .. c /\ k - 1 \in 0 .. c
                BY <3>2
            <4>2. PICK i \in 1 .. n : i = Nth(P, k - 1)
                BY <1>4, <4>1
            <4>3. i < j
                BY <1>1, <1>2, <2>1, <3>2, <4>2, NthRises
            <4>4. i \in 0 .. Len(q) /\ j - 1 \in i .. Len(q)
                BY <1>1, <4>3
            <4>5. CountUpto(s, q, i) <= a
                BY <2>2, <4>4, CountUptoRises
            <4>6. g[k - 1] = CountUpto(s, q, i)
                BY <1>2, <4>1, <4>2
            <4> QED BY <1>5, <4>1, <4>5, <4>6
        <3> QED BY <3>1, <3>2
    <2>4. g[k] = a + b
        BY <1>2, <2>1, <2>2
    <2>5. PICK e \in Nat : e = g[k - 1]
        BY <2>3
    <2>6. e <= a
        BY <2>3, <2>5
    <2>7. e + b <= a + b
        BY <2>6
    <2> QED BY <2>1, <2>2, <2>4, <2>5, <2>7
<1>7. g[c] <= Count(s, FlattenSeq(q))
    <2>1. CASE c = 0
        <3>1. PICK d \in Nat : d = Count(s, FlattenSeq(q))
            BY CountNat, FlattenList DEF Text
        <3> QED BY <1>2, <2>1, <3>1
    <2>2. CASE c # 0
        <3>1. PICK j \in 1 .. n : j = Nth(P, c)
            BY <1>4, <2>2
        <3>2. j \in 0 .. Len(q) /\ Len(q) \in j .. Len(q)
            BY <1>1
        <3>3. CountUpto(s, q, j) <= CountUpto(s, q, Len(q))
            BY <3>2, CountUptoRises
        <3> QED BY <1>2, <2>2, <3>1, <3>3, CountUptoNat
    <2> QED BY <2>1, <2>2
<1> HIDE DEF g
<1>8. Count(s, FlattenSeq(p)) <= g[Len(p)]
    BY <1>3, <1>5, <1>6, CountBound
<1>9. PICK x \in Nat, y \in Nat, z \in Nat :
          x = Count(s, FlattenSeq(p)) /\ y = g[c] /\ z = Count(s, FlattenSeq(q))
    <2>1. g[c] \in Nat
        BY <1>5
    <2> QED BY <2>1, CountNat, FlattenList DEF Text
<1> QED BY <1>3, <1>7, <1>8, <1>9

\* The pieces of a text have no more than the text.
LEMMA CountPieces ==
    ASSUME NEW s, NEW t \in Text, NEW sep
    PROVE  Count(s, FlattenSeq(getline(t, sep))) <= Count(s, t)
<1> DEFINE E == Ends(t, sep)
           U(k) == Count(s, SubSeq(t, 1, k))
           g == [k \in 0 .. Cardinality(E) |-> IF k = 0 THEN 0 ELSE U(Nth(E, k) - 1)]
<1>1. PICK n \in Nat : n = Len(t)
    BY LenProperties DEF Text
<1>2. E \subseteq 1 .. n + 1 /\ n + 1 \in Nat
    BY <1>1 DEF Ends
<1>3. \A k \in 0 .. n : U(k) \in Nat /\ U(k) <= Count(s, t)
    BY <1>1, CountPrefix, CountNat
<1>4. PICK p \in Seq(Text) : p = getline(t, sep)
    BY GetlineList DEF Text
<1>5. getline(t, sep) = [k \in 1 .. Cardinality(E) |-> SubSeq(t, Start(E, k), Nth(E, k) - 1)]
    BY GetlineIs
<1> HIDE DEF E, U
<1>6. PICK c \in Nat : c = Cardinality(E)
    BY <1>2, Places
<1>7. Len(p) = c /\ \A k \in 1 .. c : p[k] = SubSeq(t, Start(E, k), Nth(E, k) - 1)
    <2>1. DOMAIN p = 1 .. c
        BY <1>4, <1>5, <1>6
    <2>2. PICK m \in Nat : m = Len(p) /\ 1 .. m = 1 .. c
        BY <2>1, LenProperties
    <2>3. m = c
        BY <2>2
    <2>4. \A k \in 1 .. c : p[k] = SubSeq(t, Start(E, k), Nth(E, k) - 1)
        BY <1>4, <1>5, <1>6, Zenon
    <2> QED BY <2>2, <2>3, <2>4
<1>8. ASSUME NEW k \in 1 .. c
      PROVE  /\ Start(E, k) \in 1 .. n + 1 /\ Nth(E, k) \in 1 .. n + 1 /\ Start(E, k) <= Nth(E, k)
    BY <1>2, <1>6, StartPlace
<1>9. g \in [0 .. c -> Nat] /\ g[c] <= Count(s, t)
    <2>1. ASSUME NEW k \in 0 .. c, k # 0 PROVE U(Nth(E, k) - 1) \in Nat /\ U(Nth(E, k) - 1) <= Count(s, t)
        <3>1. PICK m \in 1 .. n + 1 : m = Nth(E, k)
            BY <1>8, <2>1
        <3>2. m - 1 \in 0 .. n
            OBVIOUS
        <3> QED BY <1>3, <3>1, <3>2
    <2>2. \A k \in 0 .. c : g[k] \in Nat
        BY <1>6, <2>1
    <2>3. g \in [0 .. c -> Nat]
        BY <1>6, <2>2
    <2>4. PICK d \in Nat : d = Count(s, t)
        BY CountNat
    <2>5. g[c] <= d
        BY <1>6, <2>1, <2>4
    <2> QED BY <2>3, <2>4, <2>5
<1>10. ASSUME NEW k \in 1 .. c PROVE g[k - 1] + Count(s, p[k]) <= g[k]
    <2>1. PICK b \in 0 .. n : b = Nth(E, k) - 1
        <3>1. PICK m \in 1 .. n + 1 : m = Nth(E, k)
            BY <1>8
        <3> QED BY <3>1
    <2>2. PICK a \in 0 .. n : a = Start(E, k) - 1 /\ a <= b
        <3>1. PICK m \in 1 .. n + 1 : m = Start(E, k)
            BY <1>8
        <3>2. PICK j \in 1 .. n + 1 : j = Nth(E, k)
            BY <1>8
        <3>3. m <= j
            BY <1>8, <3>1, <3>2
        <3>4. m - 1 \in 0 .. n /\ m - 1 <= j - 1
            BY <3>3
        <3> QED BY <2>1, <3>1, <3>2, <3>4
    <2>3. p[k] = SubSeq(t, a + 1, b)
        <3>1. a + 1 = Start(E, k)
            BY <1>8, <2>2
        <3> QED BY <1>7, <2>1, <3>1
    <2>4. U(b) = U(a) + Count(s, p[k]) /\ U(a) \in Nat /\ Count(s, p[k]) \in Nat
        <3>1. a \in 0 .. Len(t) /\ b \in a .. Len(t)
            BY <1>1, <2>2
        <3> QED BY <1>3, <2>3, <3>1, CountSplit, CountNat DEF U
    <2>5. g[k] = U(b)
        BY <1>6, <2>1
    <2>6. g[k - 1] <= U(a) /\ g[k - 1] \in Nat
        <3>1. CASE k = 1
            <4>1. 0 \in 0 .. c /\ g[0] = 0
                BY <1>6
            <4> QED BY <2>4, <3>1, <4>1
        <3>2. CASE k # 1
            <4>1. k - 1 \in 1 .. c /\ k - 1 \in 0 .. c
                BY <3>2
            <4>2. PICK j \in 1 .. n + 1 : j = Nth(E, k - 1)
                BY <1>8, <4>1
            <4>3. Start(E, k) = j + 1
                BY <3>2, <4>2 DEF Start
            <4>4. a = j
                BY <2>2, <4>3
            <4>5. j - 1 \in 0 .. Len(t) /\ j \in j - 1 .. Len(t)
                BY <1>1, <4>4
            <4>6. U(j) = U(j - 1) + Count(s, SubSeq(t, j - 1 + 1, j)) /\ SubSeq(t, j - 1 + 1, j) \in Text
                BY <4>5, CountSplit DEF U
            <4>7. PICK d \in Nat, e \in Nat : d = U(j - 1) /\ e = Count(s, SubSeq(t, j - 1 + 1, j))
                BY <1>1, <1>3, <4>5, <4>6, CountNat
            <4>8. g[k - 1] = U(j - 1)
                BY <1>6, <4>1, <4>2
            <4> QED BY <4>4, <4>6, <4>7, <4>8
        <3> QED BY <3>1, <3>2
    <2>7. PICK x \in Nat, y \in Nat, z \in Nat : x = g[k - 1] /\ y = U(a) /\ z = Count(s, p[k])
        BY <2>4, <2>6
    <2> HIDE DEF g
    <2> QED BY <2>4, <2>5, <2>6, <2>7
<1> HIDE DEF g
<1>11. Count(s, FlattenSeq(p)) <= g[c]
    BY <1>7, <1>9, <1>10, CountBound
<1>12. PICK x \in Nat, y \in Nat, z \in Nat : x = Count(s, FlattenSeq(p)) /\ y = g[c] /\ z = Count(s, t)
    <2>1. g[c] \in Nat
        BY <1>9
    <2> QED BY <2>1, CountNat, FlattenList DEF Text
<1> QED BY <1>4, <1>9, <1>11, <1>12
-----------------------------------------------------------------------------
(***************************************************************************)
(* Cutting                                                                 *)
(***************************************************************************)
\* The first of the symbols S in t is at m, or there is none and m is beyond the end.
CutIs(t, S, m) ==
    /\ m \in 1 .. Len(t) + 1
    /\ \A i \in 1 .. m - 1 : t[i] \notin S
    /\ m <= Len(t) => t[m] \in S

\* There is such a place.
LEMMA CutPlace ==
    ASSUME NEW t \in Text, NEW S
    PROVE  CutIs(t, S, Cut(t, S))
<1> DEFINE T == {Len(t) + 1} \cup {i \in DOMAIN t : t[i] \in S}
<1>1. Len(t) \in Nat /\ DOMAIN t = 1 .. Len(t)
    BY LenProperties DEF Text
<1>2. /\ T \subseteq 1 .. Len(t) + 1 /\ T \subseteq Nat /\ T # {} /\ Len(t) + 1 \in T
      /\ \A i \in T : i <= Len(t) => t[i] \in S
      /\ \A i \in 1 .. Len(t) : t[i] \in S => i \in T
    BY <1>1
<1> HIDE DEF T
<1>3. \E x \in T : \A y \in T : x <= y
    BY <1>2, LeastExists
<1>4. Min(T) \in T /\ \A y \in T : Min(T) <= y
    BY <1>3 DEF Min
<1>5. PICK m \in T : m = Min(T) /\ \A y \in T : m <= y
    BY <1>4
<1>6. m \in 1 .. Len(t) + 1
    BY <1>2
<1>7. ASSUME NEW i \in 1 .. m - 1 PROVE t[i] \notin S
    <2>1. i \in 1 .. Len(t) /\ ~(m <= i)
        BY <1>1, <1>6
    <2> QED BY <1>2, <1>5, <2>1
<1>8. CutIs(t, S, m)
    BY <1>2, <1>6, <1>7 DEF CutIs
<1> QED BY <1>5, <1>8 DEF Cut, T

\* There is only one.
LEMMA CutOnly ==
    ASSUME NEW t \in Text, NEW S, NEW m, CutIs(t, S, m)
    PROVE  Cut(t, S) = m
<1>1. PICK n : n = Cut(t, S) /\ CutIs(t, S, n)
    BY CutPlace
<1>2. Len(t) \in Nat
    BY LenProperties DEF Text
<1>3. m \in 1 .. Len(t) + 1 /\ n \in 1 .. Len(t) + 1
    BY <1>1 DEF CutIs
<1>4. ~(m < n)
    <2> SUFFICES ASSUME m < n PROVE FALSE
        OBVIOUS
    <2>1. m \in 1 .. n - 1 /\ m <= Len(t)
        BY <1>2, <1>3
    <2> QED BY <1>1, <2>1 DEF CutIs
<1>5. ~(n < m)
    <2> SUFFICES ASSUME n < m PROVE FALSE
        OBVIOUS
    <2>1. n \in 1 .. m - 1 /\ n <= Len(t)
        BY <1>2, <1>3
    <2> QED BY <1>1, <2>1 DEF CutIs
<1> QED BY <1>1, <1>2, <1>3, <1>4, <1>5

\* The two parts of a text that is cut are texts, and what is in it is in one of them.
LEMMA CutParts ==
    ASSUME NEW t \in Text, NEW S
    PROVE  /\ UpTo(t, S) \in Text /\ From(t, S) \in Text
           /\ \A s : Count(s, t) = Count(s, UpTo(t, S)) + Count(s, From(t, S))
<1>1. PICK m \in 1 .. Len(t) + 1 : m = Cut(t, S)
    BY CutPlace DEF CutIs
<1>2. Len(t) \in Nat /\ SubSeq(t, 1, Len(t)) = t
    BY LenProperties, SubSeqFull DEF Text
<1>3. m - 1 \in 0 .. Len(t) /\ Len(t) \in m - 1 .. Len(t) /\ (m - 1) + 1 = m
    BY <1>2
<1>4. /\ SubSeq(t, 1, m - 1) \in Text /\ SubSeq(t, m, Len(t)) \in Text
      /\ \A s : Count(s, t) = Count(s, SubSeq(t, 1, m - 1)) + Count(s, SubSeq(t, m, Len(t)))
    <2>1. ASSUME NEW s
          PROVE  /\ SubSeq(t, 1, m - 1) \in Text /\ SubSeq(t, (m - 1) + 1, Len(t)) \in Text
                 /\ Count(s, SubSeq(t, 1, Len(t)))
                        = Count(s, SubSeq(t, 1, m - 1)) + Count(s, SubSeq(t, (m - 1) + 1, Len(t)))
        BY <1>3, CountSplit
    <2> QED BY <1>2, <1>3, <2>1
<1> QED BY <1>1, <1>4 DEF UpTo, From

\* Where nothing is found, nothing is left.
LEMMA CutNone ==
    ASSUME NEW t \in Text, NEW S, \A i \in 1 .. Len(t) : t[i] \notin S
    PROVE  From(t, S) = <<>>
<1>1. Len(t) \in Nat
    BY LenProperties DEF Text
<1>2. Len(t) + 1 \in 1 .. Len(t) + 1 /\ (Len(t) + 1) - 1 = Len(t) /\ ~(Len(t) + 1 <= Len(t))
    BY <1>1
<1>3. CutIs(t, S, Len(t) + 1)
    BY <1>2 DEF CutIs
<1>4. Cut(t, S) = Len(t) + 1
    BY <1>3, CutOnly
<1>5. SubSeq(t, Len(t) + 1, Len(t)) \in Text /\ Len(SubSeq(t, Len(t) + 1, Len(t))) = 0
    <2>1. Len(t) + 1 \in Nat \ {0} /\ Len(t) \in Int /\ Len(t) <= Len(t) /\ ~(Len(t) + 1 <= Len(t))
        BY <1>1
    <2> QED BY <2>1, PartOfList DEF Text
<1> QED BY <1>4, <1>5, EmptySeq DEF From, Text

\* A text is cut between u and v.
CutsAt(u, v, S) == UpTo(u \o v, S) = u /\ From(u \o v, S) = v

\* It is, where a symbol that is looked for follows some that are not.
LEMMA CutJoined ==
    ASSUME NEW u \in Text, NEW v \in Text, NEW S,
           \A i \in 1 .. Len(u) : u[i] \notin S, v # <<>>, v[1] \in S
    PROVE  CutsAt(u, v, S)
<1>1. Len(u) \in Nat /\ Len(v) \in Nat /\ Len(v) # 0
    BY LenProperties, EmptySeq DEF Text
<1>2. PICK x \in Text : x = u \o v /\ Joined(x, u, v) /\ Twofold(x, u, v)
    BY Joining, TwoParts DEF Text
<1>3. Len(x) = Len(u) + Len(v) /\ SubSeq(x, Len(u) + 1, Len(x)) = v
      /\ \A i \in 1 .. Len(u) + Len(v) : x[i] = IF i <= Len(u) THEN u[i] ELSE v[i - Len(u)]
    BY <1>2 DEF Joined, Twofold
<1>4. CutIs(x, S, Len(u) + 1)
    <2>1. Len(u) + 1 \in 1 .. Len(x) + 1 /\ Len(u) + 1 \in 1 .. Len(u) + Len(v)
          /\ ~(Len(u) + 1 <= Len(u)) /\ (Len(u) + 1) - Len(u) = 1 /\ (Len(u) + 1) - 1 = Len(u)
        BY <1>1, <1>3
    <2>2. x[Len(u) + 1] \in S
        BY <1>3, <2>1
    <2>3. ASSUME NEW i \in 1 .. Len(u) PROVE x[i] \notin S
        <3>1. i \in 1 .. Len(u) + Len(v) /\ i <= Len(u)
            BY <1>1
        <3> QED BY <1>3, <3>1
    <2> QED BY <2>1, <2>2, <2>3 DEF CutIs
<1>5. Cut(x, S) = Len(u) + 1 /\ (Len(u) + 1) - 1 = Len(u)
    BY <1>1, <1>4, CutOnly
<1>6. SubSeq(x, 1, Len(u)) = u
    <2>1. Len(u) <= Len(u) /\ 1 \in Nat \ {0}
        BY <1>1
    <2>2. SubSeq(u \o v, 1, Len(u)) = SubSeq(u, 1, Len(u))
        BY <1>1, <2>1, PartPrefix DEF Text
    <2> QED BY <1>2, <2>2, SubSeqFull DEF Text
<1>7. UpTo(x, S) = u /\ From(x, S) = v
    BY <1>3, <1>5, <1>6 DEF UpTo, From
<1> QED BY <1>2, <1>7 DEF CutsAt

\* A text that begins with what is looked for is left as it is.
LEMMA CutFirst ==
    ASSUME NEW v \in Text, NEW S, v # <<>>, v[1] \in S
    PROVE  UpTo(v, S) = <<>> /\ From(v, S) = v
<1>1. <<>> \in Text /\ Len(<<>>) = 0 /\ <<>> \o v = v
    BY EmptySeq, ConcatEmptySeq DEF Text
<1>2. CutsAt(<<>>, v, S)
    BY <1>1, CutJoined
<1> QED BY <1>1, <1>2 DEF CutsAt
=============================================================================
