-------------------------- MODULE ConnectionProofs --------------------------
(***************************************************************************)
(* One connection, for every alphabet, script, limit, size of answer and   *)
(* size of the kernel's buffer: the types, that answers come in order, that *)
(* tidy lines are executed exactly, and that nothing is executed twice.    *)
(***************************************************************************)
EXTENDS Connection, FramingProofs

(***************************************************************************)
(* The answers                                                             *)
(***************************************************************************)
\* A list of numbers of 1 .. n, going up.
Ascending(s, n) ==
    /\ s \in Seq(Nat)
    /\ \A i \in 1 .. Len(s) : s[i] \in 1 .. n
    /\ \A i, j \in 1 .. Len(s) : i < j => s[i] < s[j]

\* The invariant: what is on the way goes up, and is complete until some send() cuts it.
DeliveryInv ==
    /\ served \in BOOLEAN /\ cut \in BOOLEAN /\ relays \in 0 .. MaxRelays /\ produced \in Nat
    /\ reciveBuf \in Seq(Nat) /\ kernel \in Seq(Nat) /\ received \in Seq(Nat)
    /\ Len(kernel) <= SendBuf
    /\ Ascending(OnTheWay, produced)
    /\ ~cut => OnTheWay = Numbers(0, produced)

\* The invariant of the connection.
ConnectionInv == FramingTypes /\ DeliveryInv

\* The numbers after m are a list.
LEMMA NumbersList ==
    ASSUME NEW m \in Nat, NEW n \in Nat
    PROVE  /\ Numbers(m, n) \in Seq(Nat) /\ Len(Numbers(m, n)) = n
           /\ \A i \in 1 .. n : Numbers(m, n)[i] = m + i
<1>1. \A i \in 1 .. n : m + i \in Nat
    OBVIOUS
<1> QED BY <1>1 DEF Numbers

\* Where the brackets are does not matter.
LEMMA Associative ==
    ASSUME NEW s \in Seq(Nat), NEW t \in Seq(Nat), NEW u \in Seq(Nat)
    PROVE  Associates(s, t, u)
BY Assoc

\* Numbers that follow the ones before.
LEMMA AscendingMore ==
    ASSUME NEW n \in Nat, NEW s, Ascending(s, n), NEW k \in Nat
    PROVE  /\ Ascending(s \o Numbers(n, k), n + k)
           /\ s = Numbers(0, n) => s \o Numbers(n, k) = Numbers(0, n + k)
<1> DEFINE u == Numbers(n, k)
           t == s \o u
<1>1. s \in Seq(Nat) /\ Len(s) \in Nat
    BY LenProperties DEF Ascending
<1>2. u \in Seq(Nat) /\ Len(u) = k /\ \A i \in 1 .. k : u[i] = n + i
    BY NumbersList
<1> HIDE DEF u
<1>3. /\ t \in Seq(Nat) /\ Len(t) = Len(s) + k
      /\ \A i \in 1 .. Len(s) + k : t[i] = IF i <= Len(s) THEN s[i] ELSE u[i - Len(s)]
    BY <1>1, <1>2, ConcatProperties
<1> HIDE DEF t
<1>4. ASSUME NEW i \in 1 .. Len(t)
      PROVE  \/ i \in 1 .. Len(s) /\ t[i] = s[i]
             \/ i > Len(s) /\ t[i] = n + (i - Len(s))
    <2>1. CASE i <= Len(s)
        BY <1>1, <1>3, <2>1
    <2>2. CASE ~(i <= Len(s))
        <3>1. i - Len(s) \in 1 .. k
            BY <1>1, <1>3, <2>2
        <3>2. t[i] = u[i - Len(s)]
            BY <1>3, <2>2
        <3> QED BY <1>1, <1>2, <2>2, <3>1, <3>2
    <2> QED BY <2>1, <2>2
<1>5. Ascending(t, n + k)
    <2>1. \A i \in 1 .. Len(s) : s[i] \in 1 .. n
        BY DEF Ascending
    <2>2. \A i, j \in 1 .. Len(s) : i < j => s[i] < s[j]
        BY DEF Ascending
    <2>3. ASSUME NEW i \in 1 .. Len(t) PROVE t[i] \in 1 .. n + k
        <3>1. CASE i \in 1 .. Len(s) /\ t[i] = s[i]
            BY <2>1, <3>1
        <3>2. CASE i > Len(s) /\ t[i] = n + (i - Len(s))
            BY <1>1, <1>3, <3>2
        <3> QED BY <1>4, <3>1, <3>2
    <2>4. ASSUME NEW i \in 1 .. Len(t), NEW j \in 1 .. Len(t), i < j PROVE t[i] < t[j]
        <3>1. CASE j \in 1 .. Len(s) /\ t[j] = s[j]
            <4>1. i \in 1 .. Len(s) /\ t[i] = s[i]
                BY <1>1, <1>3, <1>4, <2>4, <3>1
            <4> QED BY <2>2, <2>4, <3>1, <4>1
        <3>2. CASE j > Len(s) /\ t[j] = n + (j - Len(s))
            <4>1. CASE i \in 1 .. Len(s) /\ t[i] = s[i]
                <5>1. t[i] \in Nat /\ t[i] <= n
                    BY <2>1, <4>1
                <5> QED BY <1>1, <1>3, <3>2, <5>1
            <4>2. CASE i > Len(s) /\ t[i] = n + (i - Len(s))
                BY <1>1, <1>3, <2>4, <3>2, <4>2
            <4> QED BY <1>4, <4>1, <4>2
        <3> QED BY <1>4, <3>1, <3>2
    <2> QED BY <1>3, <2>3, <2>4 DEF Ascending
<1>6. ASSUME s = Numbers(0, n) PROVE t = Numbers(0, n + k)
    <2> DEFINE v == Numbers(0, n + k)
    <2>1. 0 \in Nat /\ n + k \in Nat
        OBVIOUS
    <2>2. Len(s) = n /\ \A i \in 1 .. n : s[i] = 0 + i
        BY <1>6, <2>1, NumbersList
    <2>3. v \in Seq(Nat) /\ Len(v) = n + k /\ \A i \in 1 .. n + k : v[i] = 0 + i
        BY <2>1, NumbersList
    <2> HIDE DEF v
    <2>4. ASSUME NEW i \in 1 .. Len(t) PROVE t[i] = v[i]
        BY <1>3, <1>4, <2>2, <2>3
    <2>5. t = v
        BY <1>3, <2>2, <2>3, <2>4, SeqEqual
    <2> QED BY <2>5 DEF v
<1> QED BY <1>5, <1>6 DEF t, u

\* Of the last part of a list, only the first elements are kept.
LEMMA AscendingLess ==
    ASSUME NEW n \in Nat, NEW s \in Seq(Nat), NEW t \in Seq(Nat), Ascending(s \o t, n),
           NEW k \in 0 .. Len(t)
    PROVE  Ascending(s \o SubSeq(t, 1, k), n)
<1> DEFINE u == SubSeq(t, 1, k)
           long == s \o t
           short == s \o u
<1>1. Len(s) \in Nat /\ Len(t) \in Nat /\ k \in Int /\ k <= Len(t)
    BY LenProperties
<1>2. u \in Seq(Nat) /\ Len(u) = k
    BY <1>1, PartOfList
<1>3. \A i \in 1 .. k : u[i] = t[i]
    <2>1. \A i \in 1 .. k : t[i] \in Nat
        BY <1>1, ElementOfSeq
    <2>2. \A i \in 1 .. k - 1 + 1 : u[i] = t[1 + i - 1]
        BY <1>1, <2>1, SubSeqProperties
    <2> QED BY <1>1, <2>2
<1>4. /\ Len(long) = Len(s) + Len(t)
      /\ \A i \in 1 .. Len(s) + Len(t) : long[i] = IF i <= Len(s) THEN s[i] ELSE t[i - Len(s)]
    BY ConcatProperties
<1> HIDE DEF u
<1>5. /\ short \in Seq(Nat) /\ Len(short) = Len(s) + k
      /\ \A i \in 1 .. Len(s) + k : short[i] = IF i <= Len(s) THEN s[i] ELSE u[i - Len(s)]
    BY <1>2, ConcatProperties
<1>6. Ascending(long, n)
    OBVIOUS
<1> HIDE DEF long, short
<1>7. ASSUME NEW i \in 1 .. Len(short) PROVE i \in 1 .. Len(long) /\ short[i] = long[i]
    <2>1. i \in 1 .. Len(s) + k /\ i \in 1 .. Len(s) + Len(t)
        BY <1>1, <1>5
    <2>2. CASE i <= Len(s)
        BY <1>4, <1>5, <2>1, <2>2
    <2>3. CASE ~(i <= Len(s))
        <3>1. i - Len(s) \in 1 .. k
            BY <1>1, <2>1, <2>3
        <3>2. short[i] = u[i - Len(s)] /\ long[i] = t[i - Len(s)]
            BY <1>4, <1>5, <2>1, <2>3
        <3> QED BY <1>3, <1>4, <2>1, <3>1, <3>2
    <2> QED BY <2>2, <2>3
<1>8. Ascending(short, n)
    BY <1>5, <1>6, <1>7 DEF Ascending
<1> QED BY <1>8 DEF short, u

\* What is on the way, with the part before the buffer as one list.
LEMMA WayList ==
    ASSUME DeliveryInv
    PROVE  received \o kernel \in Seq(Nat) /\ OnTheWay \in Seq(Nat)
BY ConcatProperties DEF DeliveryInv, OnTheWay

\* A handler appends its answers.
LEMMA AppendDelivery ==
    ASSUME DeliveryInv, NEW k \in Nat, appendReciveBuf(k), UNCHANGED <<kernel, received, cut>>,
           served' \in BOOLEAN, relays' \in 0 .. MaxRelays
    PROVE  DeliveryInv'
<1> USE DEF DeliveryInv
<1> DEFINE n == k * AnswerLen
           more == Numbers(produced, n)
<1>1. n \in Nat
    <2>1. AnswerLen \in Nat
        BY ConnectionAssumption
    <2> QED BY <2>1
<1> HIDE DEF n
<1>2. more \in Seq(Nat)
    BY <1>1, NumbersList
<1>3. produced' = produced + n /\ reciveBuf' = reciveBuf \o more
    BY DEF appendReciveBuf, n
<1>4. /\ Ascending(OnTheWay \o more, produced + n)
      /\ OnTheWay = Numbers(0, produced) => OnTheWay \o more = Numbers(0, produced + n)
    BY <1>1, AscendingMore
<1> HIDE DEF more
<1>5. reciveBuf' \in Seq(Nat)
    BY <1>2, <1>3, ConcatProperties
<1>6. OnTheWay' = OnTheWay \o more
    <2> DEFINE before == received \o kernel
    <2>1. before \in Seq(Nat)
        BY WayList
    <2>2. OnTheWay = before \o reciveBuf
        BY DEF OnTheWay
    <2>3. OnTheWay' = before \o (reciveBuf \o more)
        BY <1>3 DEF OnTheWay
    <2> HIDE DEF before
    <2>4. reciveBuf \in Seq(Nat)
        OBVIOUS
    <2>5. (before \o reciveBuf) \o more = before \o (reciveBuf \o more)
        <3>1. Associates(before, reciveBuf, more)
            BY <1>2, <2>1, <2>4, Associative
        <3> QED BY <3>1 DEF Associates
    <2> QED BY <2>2, <2>3, <2>5
<1>7. produced' \in Nat
    BY <1>1, <1>3
<1>8. Ascending(OnTheWay', produced') /\ (~cut' => OnTheWay' = Numbers(0, produced'))
    BY <1>3, <1>4, <1>6
<1> QED BY <1>5, <1>7, <1>8

\* send() takes a part, and the rest is gone.
LEMMA FlushDelivery ==
    ASSUME DeliveryInv, Flush
    PROVE  DeliveryInv'
<1> USE DEF DeliveryInv
<1> DEFINE room == SendBuf - Len(kernel)
           taken == Min({Len(reciveBuf), room})
           part == SubSeq(reciveBuf, 1, taken)
           before == received \o kernel
<1>1. Len(kernel) \in Nat /\ Len(reciveBuf) \in Nat /\ room \in Nat
    BY LenProperties, ConnectionAssumption
<1> HIDE DEF room
<1>2. taken \in 0 .. Len(reciveBuf) /\ taken <= room
    <2> DEFINE T == {Len(reciveBuf), room}
    <2>1. T \subseteq Nat /\ T # {}
        BY <1>1
    <2> HIDE DEF T
    <2>2. Min(T) \in T /\ \A y \in T : Min(T) <= y
        BY <2>1, LeastExists DEF Min
    <2>3. PICK m : m = Min(T)
        OBVIOUS
    <2>4. m \in T /\ \A y \in T : m <= y
        BY <2>2, <2>3
    <2>5. m \in 0 .. Len(reciveBuf) /\ m <= room
        BY <1>1, <2>4 DEF T
    <2> QED BY <2>3, <2>5 DEF T
<1>3. /\ kernel' = kernel \o part /\ reciveBuf' = <<>> /\ served' = FALSE
      /\ cut' = (cut \/ taken < Len(reciveBuf))
      /\ UNCHANGED <<produced, received, relays>>
    BY DEF Flush, room
<1> HIDE DEF taken
<1>4. part \in Seq(Nat) /\ Len(part) = taken
    BY <1>1, <1>2, PartOfList
<1>5. Ascending(before \o part, produced)
    BY <1>2, WayList, AscendingLess DEF OnTheWay
<1>6. ASSUME ~cut' PROVE before \o part = OnTheWay /\ ~cut
    <2>1. ~cut /\ taken = Len(reciveBuf)
        <3>1. ~cut /\ ~(taken < Len(reciveBuf))
            BY <1>3, <1>6, Zenon
        <3> QED BY <1>1, <1>2, <3>1
    <2>2. part = reciveBuf
        BY <2>1, SubSeqFull
    <2> QED BY <2>1, <2>2 DEF OnTheWay
<1> HIDE DEF part
<1>7. kernel' \in Seq(Nat) /\ Len(kernel') <= SendBuf /\ reciveBuf' \in Seq(Nat)
    <2>1. kernel' \in Seq(Nat) /\ Len(kernel') = Len(kernel) + taken
        BY <1>3, <1>4, ConcatProperties
    <2>2. SendBuf \in Nat
        BY ConnectionAssumption
    <2> QED BY <1>1, <1>2, <1>3, <2>1, <2>2, EmptySeq DEF room
<1>8. OnTheWay' = before \o part
    <2>1. OnTheWay' = (received \o (kernel \o part)) \o <<>>
        BY <1>3 DEF OnTheWay
    <2>2. received \o (kernel \o part) = before \o part
        <3>1. received \in Seq(Nat) /\ kernel \in Seq(Nat)
            OBVIOUS
        <3>2. Associates(received, kernel, part)
            BY <1>4, <3>1, Associative
        <3> QED BY <3>2 DEF before, Associates
    <2>3. before \o part \in Seq(Nat)
        BY <1>4, WayList, ConcatProperties
    <2> QED BY <2>1, <2>2, <2>3, ConcatEmptySeq
<1> HIDE DEF before
<1>9. cut' \in BOOLEAN
    BY <1>3
<1>10. Ascending(OnTheWay', produced') /\ (~cut' => OnTheWay' = Numbers(0, produced'))
    BY <1>3, <1>5, <1>6, <1>8
<1> QED BY <1>3, <1>7, <1>9, <1>10

\* The client reads.
LEMMA ReadDelivery ==
    ASSUME DeliveryInv, ClientReads
    PROVE  DeliveryInv'
<1> USE DEF DeliveryInv
<1>1. /\ received' = received \o kernel /\ kernel' = <<>>
      /\ UNCHANGED <<served, reciveBuf, produced, cut, relays>>
    BY DEF ClientReads
<1>2. received' \in Seq(Nat) /\ kernel' \in Seq(Nat) /\ Len(kernel') <= SendBuf
    <2>1. SendBuf \in Nat
        BY ConnectionAssumption
    <2> QED BY <1>1, <2>1, WayList, EmptySeq
<1>3. OnTheWay' = OnTheWay
    <2>1. OnTheWay' = ((received \o kernel) \o <<>>) \o reciveBuf
        BY <1>1 DEF OnTheWay
    <2>2. (received \o kernel) \o <<>> = received \o kernel
        BY WayList, ConcatEmptySeq
    <2> QED BY <2>1, <2>2 DEF OnTheWay
<1> QED BY <1>1, <1>2, <1>3

\* A connection without anything.
LEMMA NewDelivery ==
    /\ Init => ConnectionInv
    /\ Reconnect => ConnectionInv'
<1>1. /\ <<>> \in Seq(Nat) /\ <<>> \in Text /\ <<>> \in Lines /\ Len(<<>>) = 0
      /\ <<>> \in Seq(Symbols \ {LF})
    BY EmptySeq DEF Text, Lines
<1>2. <<>> \o <<>> \o <<>> = <<>>
    BY <1>1, ConcatEmptySeq
<1>3. Numbers(0, 0) = <<>>
    BY DEF Numbers
<1>4. Ascending(<<>>, 0)
    BY <1>1 DEF Ascending
<1>5. 0 <= SendBuf /\ 0 \in 0 .. MaxRelays
    BY ConnectionAssumption
<1>6. ASSUME Init PROVE ConnectionInv
    <2>1. OnTheWay = <<>> /\ produced = 0
        BY <1>2, <1>6 DEF Init, OnTheWay
    <2>2. DeliveryInv
        <3>1. /\ served = FALSE /\ cut = FALSE /\ relays = 0
              /\ reciveBuf = <<>> /\ kernel = <<>> /\ received = <<>>
            BY <1>6 DEF Init
        <3>2. served \in BOOLEAN /\ cut \in BOOLEAN
            BY <3>1
        <3>3. Len(kernel) <= SendBuf /\ relays \in 0 .. MaxRelays
            BY <1>1, <1>5, <3>1
        <3>4. Ascending(OnTheWay, produced) /\ OnTheWay = Numbers(0, produced)
            BY <1>3, <1>4, <2>1
        <3> QED BY <1>1, <2>1, <3>1, <3>2, <3>3, <3>4 DEF DeliveryInv
    <2> QED BY <1>1, <1>6, <2>2 DEF Init, FramingInit, ConnectionInv, FramingTypes
<1>7. ASSUME Reconnect PROVE ConnectionInv'
    <2>1. OnTheWay' = <<>> /\ produced' = 0
        BY <1>2, <1>7 DEF Reconnect, OnTheWay
    <2>2. DeliveryInv'
        <3>1. /\ served' = FALSE /\ cut' = FALSE /\ relays' = 0
              /\ reciveBuf' = <<>> /\ kernel' = <<>> /\ received' = <<>>
            BY <1>7 DEF Reconnect
        <3>2. served' \in BOOLEAN /\ cut' \in BOOLEAN
            BY <3>1
        <3>3. Len(kernel') <= SendBuf /\ relays' \in 0 .. MaxRelays
            BY <1>1, <1>5, <3>1
        <3>4. Ascending(OnTheWay', produced') /\ OnTheWay' = Numbers(0, produced')
            BY <1>3, <1>4, <2>1
        <3> QED BY <1>1, <2>1, <3>1, <3>2, <3>3, <3>4 DEF DeliveryInv
    <2> QED BY <1>1, <1>7, <2>2 DEF Reconnect, NewConnection, ConnectionInv, FramingTypes
<1> QED BY <1>6, <1>7

-----------------------------------------------------------------------------
(***************************************************************************)
(* The steps and the theorems                                              *)
(***************************************************************************)
\* Every step keeps the invariant.
LEMMA NextConnection == ConnectionInv /\ [Next]_vars => ConnectionInv'
<1> SUFFICES ASSUME ConnectionInv, [Next]_vars PROVE ConnectionInv'
    OBVIOUS
<1> USE DEF ConnectionInv
<1>1. CASE ClientWrites
    <2>1. PICK script \in Scripts : Write(script)
        BY <1>1 DEF ClientWrites
    <2>2. FramingTypes'
        BY <2>1, WriteTypes
    <2>3. DeliveryInv'
        BY <1>1 DEF ClientWrites, delivery, DeliveryInv, OnTheWay
    <2> QED BY <2>2, <2>3
<1>2. CASE Serve
    <2>1. PICK n \in 1 .. Len(wire) : Read(n)
        BY <1>2 DEF Serve
    <2>2. FramingTypes' /\ Len(executed') - Len(executed) \in Nat
        BY <2>1, ReadTypes
    <2>3. DeliveryInv'
        BY <1>2, <2>2, AppendDelivery DEF Serve, DeliveryInv
    <2> QED BY <2>2, <2>3
<1>3. CASE Relay
    <2>1. FramingTypes'
        BY <1>3 DEF Relay, framing, FramingTypes
    <2>2. relays' \in 0 .. MaxRelays
        BY <1>3, ConnectionAssumption DEF Relay, DeliveryInv
    <2>3. served' \in BOOLEAN /\ appendReciveBuf(1) /\ UNCHANGED <<kernel, received, cut>>
        BY <1>3 DEF Relay, DeliveryInv
    <2>4. DeliveryInv'
        BY <2>2, <2>3, AppendDelivery
    <2> QED BY <2>1, <2>4
<1>4. CASE Flush
    <2>1. FramingTypes'
        BY <1>4 DEF Flush, framing, FramingTypes
    <2> QED BY <1>4, <2>1, FlushDelivery
<1>5. CASE ClientReads
    <2>1. FramingTypes'
        BY <1>5 DEF ClientReads, framing, FramingTypes
    <2> QED BY <1>5, <2>1, ReadDelivery
<1>6. CASE Reconnect
    BY <1>6, NewDelivery
<1>7. CASE UNCHANGED vars
    BY <1>7 DEF vars, framing, delivery, FramingTypes, DeliveryInv, OnTheWay
<1> QED BY <1>1, <1>2, <1>3, <1>4, <1>5, <1>6, <1>7 DEF Next

\* What holds of a connection at any time, however its bytes are cut and sent.
THEOREM ConnectionInvariance == Spec => []ConnectionInv
BY NewDelivery, NextConnection, PTL DEF Spec

\* Every variable of a connection has its type, for every alphabet, script and limit, and
\* the fragment buffer never holds a whole line: what ends in it is executed at once.
THEOREM ConnectionTypes == Spec => []ConnectionTypeOK
<1>1. ConnectionInv => ConnectionTypeOK
    BY DEF ConnectionInv, FramingTypes, DeliveryInv, ConnectionTypeOK, Text, Lines
<1> QED BY <1>1, ConnectionInvariance, PTL

\* What the client reads is in the order it was appended, nothing comes twice whatever
\* send() took, and nothing is missing as long as send() had room, for every size of the
\* answers and of the kernel's buffer.
THEOREM AnswerOrder == Spec => []AnswersInOrder
<1>1. ConnectionInv => AnswersInOrder
    <2> SUFFICES ASSUME ConnectionInv PROVE AnswersInOrder
        OBVIOUS
    <2>1. OnTheWay \in Seq(Nat) /\ Ascending(OnTheWay, produced)
        BY WayList DEF ConnectionInv, DeliveryInv
    <2>2. DOMAIN OnTheWay = 1 .. Len(OnTheWay)
        BY <2>1, LenProperties
    <2> QED BY <2>1, <2>2 DEF ConnectionInv, DeliveryInv, Ascending, AnswersInOrder
<1> QED BY <1>1, ConnectionInvariance, PTL

\* Every step of the connection keeps it.
LEMMA NextExact == ConnectionInv /\ ExactInv /\ [Next]_vars => ExactInv'
<1> SUFFICES ASSUME ConnectionInv, ExactInv, [Next]_vars PROVE ExactInv'
    OBVIOUS
<1>1. FramingTypes
    BY DEF ConnectionInv
<1>2. CASE ClientWrites
    BY <1>1, <1>2, WriteExact DEF ClientWrites
<1>3. CASE Serve
    BY <1>1, <1>3, ReadExact DEF Serve
<1>4. CASE UNCHANGED framing
    BY <1>4 DEF framing, ExactInv, Caught, Exact
<1>5. CASE Reconnect
    BY <1>5, NewExact DEF Reconnect
<1>6. Relay \/ Flush \/ ClientReads \/ UNCHANGED vars => UNCHANGED framing
    BY DEF Relay, Flush, ClientReads, vars
<1> QED BY <1>2, <1>3, <1>4, <1>5, <1>6 DEF Next

\* As long as every recv() was a tidy one, the commands executed are the first of the lines
\* written - word for word, but for a USER line in a burst, of which the handler gets four
\* words and all that follows as one, with its CR - and nothing of the rest is lost, for
\* every alphabet, script and limit and however the stream is cut into pieces.
THEOREM LinesExecuted == Spec => []LinesExact
<1>1. Init => ExactInv
    BY NewExact DEF Init
<1>2. ExactInv => LinesExact
    BY DEF ExactInv, Caught, Exact, LinesExact
<1> QED BY <1>1, <1>2, NextExact, ConnectionInvariance, PTL DEF Spec

\* Every step of the connection keeps it.
LEMMA NextOnce == ConnectionInv /\ NothingTwice /\ [Next]_vars => NothingTwice'
<1> SUFFICES ASSUME ConnectionInv, NothingTwice, [Next]_vars PROVE NothingTwice'
    OBVIOUS
<1>1. FramingTypes /\ FramingTypes'
    BY NextConnection DEF ConnectionInv
<1>2. ASSUME NEW s \in Letters PROVE Held(s, executed, eofBuffer, wire) <= Occurrences(s, written)
    <2>1. Held(s, executed, eofBuffer, wire) = Occurrences(s, executed) + Count(s, eofBuffer \o wire)
        BY <1>1, HeldIs DEF FramingTypes
    <2> QED BY <2>1 DEF NothingTwice, Letters
<1>3. ASSUME NEW s \in Letters PROVE Held(s, executed', eofBuffer', wire') <= Occurrences(s, written')
    <2>1. CASE ClientWrites
        BY <1>1, <1>2, <2>1, WriteOnce DEF ClientWrites
    <2>2. CASE Serve
        BY <1>1, <1>2, <2>2, ReadOnce DEF Serve
    <2>3. CASE UNCHANGED framing
        <3>1. executed' = executed /\ eofBuffer' = eofBuffer /\ wire' = wire /\ written' = written
            BY <2>3 DEF framing
        <3> QED BY <1>2, <3>1
    <2>4. CASE Reconnect
        <3>1. executed' = <<>> /\ eofBuffer' = <<>> /\ wire' = <<>> /\ written' = <<>>
            BY <2>4 DEF Reconnect, NewConnection
        <3> QED BY <3>1, NothingHeld
    <2>5. Relay \/ Flush \/ ClientReads \/ UNCHANGED vars => UNCHANGED framing
        BY DEF Relay, Flush, ClientReads, vars
    <2> QED BY <2>1, <2>2, <2>3, <2>4, <2>5 DEF Next
<1>4. ASSUME NEW s \in Letters
      PROVE  Occurrences(s, executed') + Count(s, eofBuffer' \o wire') <= Occurrences(s, written')
    <2>1. Held(s, executed', eofBuffer', wire') = Occurrences(s, executed') + Count(s, eofBuffer' \o wire')
        BY <1>1, HeldIs DEF FramingTypes
    <2> QED BY <1>3, <2>1
<1> QED BY <1>4 DEF NothingTwice, Letters, Occurrences

\* Nothing a client has sent is executed twice or in the name of the next one, tidy or not,
\* for every alphabet, script and limit, however the stream is cut into pieces, whatever is
\* dropped on the way, and whoever had the descriptor before.
THEOREM NothingExecutedTwice == Spec => []NothingTwice
<1>1. Init => NothingTwice
    <2> SUFFICES ASSUME Init PROVE NothingTwice
        OBVIOUS
    <2>1. executed = <<>> /\ eofBuffer = <<>> /\ wire = <<>> /\ written = <<>> /\ <<>> \in Text
        BY EmptySeq DEF Init, FramingInit, Text
    <2>2. ASSUME NEW s \in Letters
          PROVE  Occurrences(s, executed) + Count(s, eofBuffer \o wire) <= Occurrences(s, written)
        <3>1. Held(s, <<>>, <<>>, <<>>) = Occurrences(s, <<>>) + Count(s, <<>> \o <<>>)
            BY <2>1, HeldIs
        <3> QED BY <2>1, <3>1, NothingHeld
    <2> QED BY <2>2 DEF NothingTwice, Letters
<1> QED BY <1>1, NextOnce, ConnectionInvariance, PTL DEF Spec
=============================================================================
