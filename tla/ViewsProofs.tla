---------------------------- MODULE ViewsProofs -----------------------------
(***************************************************************************)
(* Views is right: what a client is told of its channels is what is so.    *)
(***************************************************************************)
EXTENDS Views, StepProofs

-----------------------------------------------------------------------------
(***************************************************************************)
(* Hearing messages one after the other                                    *)
(***************************************************************************)
\* h has the view after each of the first n messages.
Follows(h, n, seen, ms, me) ==
    h = [i \in 0 .. n |-> IF i = 0 THEN seen ELSE Heard(h[i - 1], ms[i], me)]

\* It goes from one message to the next.
LEMMA FollowsBy ==
    ASSUME NEW h, NEW n \in Nat, NEW seen, NEW ms, NEW me, Follows(h, n, seen, ms, me)
    PROVE  h[0] = seen /\ \A i \in 1 .. n : h[i] = Heard(h[i - 1], ms[i], me)
<1>1. \A i \in 0 .. n : h[i] = IF i = 0 THEN seen ELSE Heard(h[i - 1], ms[i], me)
    BY DEF Follows
<1> QED BY <1>1

\* There is one for every number of messages.
LEMMA FollowsExists ==
    ASSUME NEW n \in Nat, NEW seen, NEW ms, NEW me
    PROVE  \E h : Follows(h, n, seen, ms, me)
<1> DEFINE T == {k \in Nat : \A h : ~Follows(h, k, seen, ms, me)}
<1>1. T = {}
    <2> SUFFICES ASSUME T # {} PROVE FALSE
        OBVIOUS
    <2>1. T \subseteq Nat
        OBVIOUS
    <2> HIDE DEF T
    <2>2. PICK k \in T : \A j \in T : k <= j
        BY <2>1, LeastExists
    <2>3. k \in Nat /\ \A h : ~Follows(h, k, seen, ms, me)
        BY DEF T
    <2>4. CASE k = 0
        <3> DEFINE h == [i \in 0 .. 0 |-> seen]
        <3>1. Follows(h, 0, seen, ms, me)
            BY DEF Follows
        <3> QED BY <2>3, <2>4, <3>1
    <2>5. CASE k # 0
        <3>1. k - 1 \in Nat /\ ~(k <= k - 1)
            BY <2>3, <2>5
        <3>2. k - 1 \notin T
            BY <2>2, <3>1
        <3>3. PICK g : Follows(g, k - 1, seen, ms, me)
            BY <3>1, <3>2 DEF T
        <3> DEFINE h == [i \in 0 .. k |-> IF i = k THEN Heard(g[k - 1], ms[k], me) ELSE g[i]]
        <3>4. ASSUME NEW i \in 0 .. k PROVE h[i] = IF i = 0 THEN seen ELSE Heard(h[i - 1], ms[i], me)
            <4>1. CASE i = k
                <5>1. i # 0 /\ i - 1 \in 0 .. k /\ i - 1 # k
                    BY <2>3, <2>5, <4>1
                <5> QED BY <4>1, <5>1
            <4>2. CASE i # k
                <5>1. i \in 0 .. k - 1 /\ (i # 0 => i - 1 \in 0 .. k /\ i - 1 # k)
                    BY <2>3, <4>2
                <5>2. g[i] = IF i = 0 THEN seen ELSE Heard(g[i - 1], ms[i], me)
                    BY <3>3, <5>1 DEF Follows
                <5> QED BY <4>2, <5>1, <5>2
            <4> QED BY <4>1, <4>2
        <3>5. h = [i \in 0 .. k |-> h[i]]
            OBVIOUS
        <3> HIDE DEF h
        <3>6. Follows(h, k, seen, ms, me)
            BY <3>4, <3>5 DEF Follows
        <3> QED BY <2>3, <3>6
    <2> QED BY <2>4, <2>5
<1>2. n \notin T
    BY <1>1
<1> QED BY <1>2

\* The first n messages are the same.
Alike(n, ms, more) == \A i \in 1 .. n : more[i] = ms[i]

\* Two that hear the same first n messages agree on them.
LEMMA FollowsAgree ==
    ASSUME NEW n \in Nat, NEW k \in Nat, n <= k, NEW seen, NEW ms, NEW more, NEW me,
           Alike(n, ms, more),
           NEW h, Follows(h, n, seen, ms, me), NEW g, Follows(g, k, seen, more, me)
    PROVE  \A i \in 0 .. n : h[i] = g[i]
<1> DEFINE T == {i \in Nat : i \in 0 .. n /\ h[i] # g[i]}
<1>1. /\ h[0] = seen /\ \A i \in 1 .. n : h[i] = Heard(h[i - 1], ms[i], me)
    BY FollowsBy
<1>2. /\ g[0] = seen /\ \A i \in 1 .. k : g[i] = Heard(g[i - 1], more[i], me)
    BY FollowsBy
<1>3. T = {}
    <2> SUFFICES ASSUME T # {} PROVE FALSE
        OBVIOUS
    <2>1. T \subseteq Nat
        OBVIOUS
    <2> HIDE DEF T
    <2>2. PICK j \in T : \A i \in T : j <= i
        BY <2>1, LeastExists
    <2>3. j \in 0 .. n /\ h[j] # g[j]
        BY DEF T
    <2>4. j # 0
        BY <1>1, <1>2, <2>3
    <2>5. j \in 1 .. n /\ j \in 1 .. k /\ j - 1 \in Nat /\ j - 1 \in 0 .. n /\ ~(j <= j - 1)
        BY <2>3, <2>4
    <2>6. h[j - 1] = g[j - 1]
        BY <2>2, <2>5 DEF T
    <2> QED BY <1>1, <1>2, <2>3, <2>5, <2>6 DEF Alike
<1> QED BY <1>3

\* Hearing is the last of them.
LEMMA HearingIs ==
    ASSUME NEW S, NEW ms \in Seq(S), NEW seen, NEW me
    PROVE  \E h : Follows(h, Len(ms), seen, ms, me) /\ Hearing(seen, ms, me) = h[Len(ms)]
<1> DEFINE h == CHOOSE g : g = [i \in 0 .. Len(ms) |-> IF i = 0 THEN seen ELSE Heard(g[i - 1], ms[i], me)]
<1>1. Len(ms) \in Nat
    BY LenProperties
<1>2. Follows(h, Len(ms), seen, ms, me)
    BY <1>1, FollowsExists DEF Follows
<1>3. Hearing(seen, ms, me) = h[Len(ms)]
    BY DEF Hearing
<1> HIDE DEF h
<1> QED BY <1>2, <1>3

\* No message, and one more.
LEMMA HearingNone ==
    ASSUME NEW seen, NEW me
    PROVE  Hearing(seen, <<>>, me) = seen
<1>1. <<>> \in Seq({}) /\ Len(<<>>) = 0
    OBVIOUS
<1>2. PICK h : Follows(h, 0, seen, <<>>, me) /\ Hearing(seen, <<>>, me) = h[0]
    BY <1>1, HearingIs
<1> QED BY <1>2, FollowsBy

LEMMA HearingMore ==
    ASSUME NEW S, NEW ms \in Seq(S), NEW m, NEW seen, NEW me
    PROVE  Hearing(seen, Append(ms, m), me) = Heard(Hearing(seen, ms, me), m, me)
<1>1. PICK n \in Nat : n = Len(ms)
    BY LenProperties
<1>2. PICK more \in Seq(S \cup {m}) :
          /\ more = Append(ms, m) /\ Len(more) = n + 1 /\ more[n + 1] = m
          /\ \A i \in 1 .. n : more[i] = ms[i]
    <2>1. /\ Append(ms, m) \in Seq(S \cup {m}) /\ Len(Append(ms, m)) = Len(ms) + 1
          /\ \A i \in 1 .. Len(ms) : Append(ms, m)[i] = ms[i]
          /\ Append(ms, m)[Len(ms) + 1] = m
        BY AppendOne
    <2> QED BY <1>1, <2>1
<1>3. PICK h : Follows(h, n, seen, ms, me) /\ Hearing(seen, ms, me) = h[n]
    BY <1>1, HearingIs
<1>4. PICK g : Follows(g, n + 1, seen, more, me) /\ Hearing(seen, more, me) = g[n + 1]
    BY <1>2, HearingIs
<1>5. n + 1 \in Nat /\ n <= n + 1 /\ n \in 0 .. n /\ n + 1 \in 1 .. n + 1 /\ (n + 1) - 1 = n
    OBVIOUS
<1>6. h[n] = g[n]
    <2>1. PICK k \in Nat : k = n + 1
        OBVIOUS
    <2>2. n <= k /\ Follows(g, k, seen, more, me) /\ Follows(h, n, seen, ms, me)
        BY <1>3, <1>4, <1>5, <2>1
    <2>3. Alike(n, ms, more)
        BY <1>2 DEF Alike
    <2>4. \A i \in 0 .. n : h[i] = g[i]
        BY ONLY n \in Nat, k \in Nat, <2>2, <2>3, FollowsAgree
    <2> QED BY <1>5, <2>4
<1>7. g[n + 1] = Heard(g[n], more[n + 1], me)
    BY <1>4, <1>5, FollowsBy
<1> QED BY <1>2, <1>3, <1>4, <1>6, <1>7

-----------------------------------------------------------------------------
(***************************************************************************)
(* What a step tells a client                                              *)
(***************************************************************************)
\* The messages t has more than s.
Extra(s, t) == SubSeq(t, Len(s) + 1, Len(t))

\* Of a list that stays as it is or is cleared there are none; one more is one more.
LEMMA ExtraNone ==
    ASSUME NEW S, NEW s \in Seq(S)
    PROVE  Extra(s, s) = <<>> /\ Extra(s, <<>>) = <<>>
<1>1. PICK n \in Nat : n = Len(s)
    BY LenProperties
<1>2. ASSUME NEW t, NEW k \in Nat, Len(t) = k, k <= n PROVE SubSeq(t, n + 1, k) = <<>>
    BY <1>2
<1>3. Len(<<>>) = 0 /\ 0 <= n /\ n <= n
    OBVIOUS
<1> QED BY <1>1, <1>2, <1>3 DEF Extra

LEMMA ExtraMore ==
    ASSUME NEW S, NEW s \in Seq(S), NEW T, NEW t \in Seq(T), NEW m
    PROVE  Len(s) <= Len(t) =>
               Extra(s, t) \in Seq(T) /\ Extra(s, Append(t, m)) = Append(Extra(s, t), m)
<1>1. PICK n \in Nat, k \in Nat : n = Len(s) /\ k = Len(t)
    BY LenProperties
<1> SUFFICES ASSUME n <= k
             PROVE  /\ SubSeq(t, n + 1, k) \in Seq(T)
                    /\ SubSeq(Append(t, m), n + 1, Len(Append(t, m))) = Append(SubSeq(t, n + 1, k), m)
    BY <1>1 DEF Extra
<1>2. PICK u \in Seq(T \cup {m}) :
          /\ u = Append(t, m) /\ Len(u) = k + 1 /\ u[k + 1] = m
          /\ \A i \in 1 .. k : u[i] = t[i]
    <2>1. /\ Append(t, m) \in Seq(T \cup {m}) /\ Len(Append(t, m)) = Len(t) + 1
          /\ \A i \in 1 .. Len(t) : Append(t, m)[i] = t[i]
          /\ Append(t, m)[Len(t) + 1] = m
        BY AppendOne
    <2> QED BY <1>1, <2>1
<1>3. \A i \in 1 .. k : t[i] \in T
    BY <1>1, ElementOfSeq
<1>4. PICK a \in Seq(T) :
          /\ a = SubSeq(t, n + 1, k) /\ Len(a) = k - n /\ \A i \in 1 .. k - n : a[i] = t[n + i]
    <2> DEFINE x == SubSeq(t, n + 1, k)
    <2>1. \A i \in n + 1 .. k : t[i] \in T
        BY <1>3
    <2>2. /\ x \in Seq(T) /\ Len(x) = IF n + 1 <= k THEN k - (n + 1) + 1 ELSE 0
          /\ \A i \in 1 .. k - (n + 1) + 1 : x[i] = t[n + 1 + i - 1]
        BY <2>1, SubSeqProperties
    <2> HIDE DEF x
    <2>3. Len(x) = k - n /\ \A i \in 1 .. k - n : x[i] = t[n + i]
        BY <2>2
    <2> QED BY <2>2, <2>3 DEF x
<1>5. PICK b \in Seq(T \cup {m}) :
          /\ b = SubSeq(u, n + 1, k + 1) /\ Len(b) = k - n + 1
          /\ \A i \in 1 .. k - n + 1 : b[i] = u[n + i]
    <2> DEFINE x == SubSeq(u, n + 1, k + 1)
    <2>1. \A i \in n + 1 .. k + 1 : u[i] \in T \cup {m}
        BY <1>2, <1>3
    <2>2. /\ x \in Seq(T \cup {m}) /\ Len(x) = IF n + 1 <= k + 1 THEN k + 1 - (n + 1) + 1 ELSE 0
          /\ \A i \in 1 .. k + 1 - (n + 1) + 1 : x[i] = u[n + 1 + i - 1]
        BY <2>1, SubSeqProperties
    <2> HIDE DEF x
    <2>3. Len(x) = k - n + 1 /\ \A i \in 1 .. k - n + 1 : x[i] = u[n + i]
        BY <2>2
    <2> QED BY <2>2, <2>3 DEF x
<1>6. PICK c \in Seq(T \cup {m}) :
          /\ c = Append(a, m) /\ Len(c) = k - n + 1 /\ c[k - n + 1] = m
          /\ \A i \in 1 .. k - n : c[i] = a[i]
    <2>1. /\ Append(a, m) \in Seq(T \cup {m}) /\ Len(Append(a, m)) = Len(a) + 1
          /\ \A i \in 1 .. Len(a) : Append(a, m)[i] = a[i]
          /\ Append(a, m)[Len(a) + 1] = m
        BY AppendOne
    <2> QED BY <1>4, <2>1
<1>7. ASSUME NEW i \in 1 .. k - n + 1 PROVE b[i] = c[i]
    <2>1. CASE i = k - n + 1
        <3>1. n + i = k + 1
            BY <2>1
        <3> QED BY <1>2, <1>5, <1>6, <2>1, <3>1
    <2>2. CASE i # k - n + 1
        <3>1. i \in 1 .. k - n /\ n + i \in 1 .. k
            BY <2>2
        <3> QED BY <1>2, <1>4, <1>5, <1>6, <3>1
    <2> QED BY <2>1, <2>2
<1>8. b = c
    <2>1. Len(b) = Len(c) /\ \A i \in 1 .. Len(b) : b[i] = c[i]
        BY <1>5, <1>6, <1>7
    <2> QED BY ONLY b \in Seq(T \cup {m}), c \in Seq(T \cup {m}), <2>1, SeqEqual
<1> QED BY <1>2, <1>4, <1>5, <1>6, <1>8

\* What t has more than s takes a client called me from seen to new.
Tells(s, t, seen, me, new) ==
    (\E T : t \in Seq(T)) /\ Len(s) <= Len(t) /\ Hearing(seen, Extra(s, t), me) = new

\* Nothing, and one message more.
LEMMA TellsNothing ==
    ASSUME NEW S, NEW s \in Seq(S), NEW seen, NEW me
    PROVE  Tells(s, s, seen, me, seen)
<1>1. Len(s) <= Len(s)
    BY LenProperties
<1>2. Hearing(seen, Extra(s, s), me) = seen
    BY ExtraNone, HearingNone
<1> QED BY <1>1, <1>2 DEF Tells

LEMMA TellsMore ==
    ASSUME NEW S, NEW s \in Seq(S), NEW t, NEW m, NEW seen, NEW me, NEW new
    PROVE  Tells(s, t, seen, me, new) => Tells(s, Append(t, m), seen, me, Heard(new, m, me))
<1> SUFFICES ASSUME Tells(s, t, seen, me, new)
             PROVE  Tells(s, Append(t, m), seen, me, Heard(new, m, me))
    OBVIOUS
<1>1. PICK T : t \in Seq(T)
    BY DEF Tells
<1>2. Len(s) \in Nat /\ Len(t) \in Nat /\ Len(s) <= Len(t) /\ Hearing(seen, Extra(s, t), me) = new
    BY <1>1, LenProperties DEF Tells
<1>3. Append(t, m) \in Seq(T \cup {m}) /\ Len(Append(t, m)) = Len(t) + 1
    BY <1>1, AppendOne
<1>4. Extra(s, t) \in Seq(T) /\ Extra(s, Append(t, m)) = Append(Extra(s, t), m)
    BY <1>1, <1>2, ExtraMore
<1>5. Hearing(seen, Append(Extra(s, t), m), me) = Heard(new, m, me)
    BY <1>2, <1>4, HearingMore
<1>6. Len(s) <= Len(Append(t, m))
    BY <1>2, <1>3
<1> QED BY <1>3, <1>4, <1>5, <1>6 DEF Tells

\* The messages a client learns nothing from.
ViewCmds == {"JOIN", "353", "PART", "KICK", "QUIT", "NICK"}
LEMMA HeardNothing ==
    ASSUME NEW seen, NEW m, NEW me, m.cmd \notin ViewCmds
    PROVE  Heard(seen, m, me) = seen
BY DEF Heard, ViewCmds

\* What a step tells a client.
LEMMA StepTells ==
    ASSUME NEW f, NEW seen, NEW me, NEW new, Tells(reciveBuf[f], reciveBuf'[f], seen, me, new)
    PROVE  Hearing(seen, Appended(f), me) = new
BY DEF Tells, Appended, Extra

\* One message to some of them.
LEMMA TellsOne ==
    ASSUME BufInv, NEW fds, NEW m, reciveBuf' = appendReciveBuf(reciveBuf, fds, m),
           NEW f \in Fds, NEW seen, NEW me
    PROVE  Hearing(seen, Appended(f), me) = IF f \in fds THEN Heard(seen, m, me) ELSE seen
<1>1. reciveBuf[f] \in Seq(Messages)
    BY DEF BufInv
<1>2. reciveBuf'[f] = IF f \in fds THEN Append(reciveBuf[f], m) ELSE reciveBuf[f]
    BY DEF appendReciveBuf
<1>3. Tells(reciveBuf[f], reciveBuf[f], seen, me, seen)
    BY <1>1, TellsNothing
<1>4. Tells(reciveBuf[f], Append(reciveBuf[f], m), seen, me, Heard(seen, m, me))
    BY <1>1, <1>3, TellsMore
<1>5. Tells(reciveBuf[f], reciveBuf'[f], seen, me, IF f \in fds THEN Heard(seen, m, me) ELSE seen)
    BY <1>2, <1>3, <1>4
<1> QED BY <1>5, StepTells

\* The buffers b tell nobody anything that a does not.
Unheard(a, b) == \A f \in Fds : \A seen, me : Tells(a[f], b[f], seen, me, seen)
LEMMA AppendUnheard ==
    ASSUME NEW a, Lists(a), NEW b, Unheard(a, b), NEW fds, NEW m, m.cmd \notin ViewCmds
    PROVE  Unheard(a, appendReciveBuf(b, fds, m))
<1> SUFFICES ASSUME NEW f \in Fds, NEW seen, NEW me
             PROVE  Tells(a[f], appendReciveBuf(b, fds, m)[f], seen, me, seen)
    BY DEF Unheard
<1>1. PICK S : a[f] \in Seq(S)
    BY DEF Lists
<1>2. Tells(a[f], b[f], seen, me, seen)
    BY DEF Unheard
<1>3. Tells(a[f], Append(b[f], m), seen, me, Heard(seen, m, me))
    BY <1>1, <1>2, TellsMore
<1>4. Tells(a[f], Append(b[f], m), seen, me, seen)
    BY <1>3, HeardNothing
<1>5. appendReciveBuf(b, fds, m)[f] = IF f \in fds THEN Append(b[f], m) ELSE b[f]
    BY DEF appendReciveBuf
<1> QED BY <1>2, <1>4, <1>5

\* A step nobody hears anything from, whatever they believe and are called.
UnheardStep == \A f \in Fds : \A seen, me : Hearing(seen, Appended(f), me) = seen

LEMMA UnheardSteps ==
    ASSUME BufInv
    PROVE  /\ Lists(reciveBuf) /\ Unheard(reciveBuf, reciveBuf)
           /\ Unheard(reciveBuf, reciveBuf') => UnheardStep
           /\ UNCHANGED reciveBuf => UnheardStep
           /\ reciveBuf' = [f \in Fds |-> <<>>] => UnheardStep
           /\ \A fd : reciveBuf' = [reciveBuf EXCEPT ![fd] = <<>>] => UnheardStep
<1>1. \A f \in Fds : reciveBuf[f] \in Seq(Messages)
    BY DEF BufInv
<1>2. Lists(reciveBuf)
    BY <1>1 DEF Lists
<1>3. Unheard(reciveBuf, reciveBuf)
    BY <1>1, TellsNothing DEF Unheard
<1>4. Unheard(reciveBuf, reciveBuf') => UnheardStep
    BY StepTells DEF Unheard, UnheardStep
<1>5. ASSUME \A f \in Fds : reciveBuf'[f] = <<>> \/ reciveBuf'[f] = reciveBuf[f] PROVE UnheardStep
    <2>1. ASSUME NEW f \in Fds PROVE Appended(f) = <<>>
        BY <1>1, <1>5, ExtraNone DEF Appended, Extra
    <2> QED BY <2>1, HearingNone DEF UnheardStep
<1>6. ASSUME NEW fd, reciveBuf' = [reciveBuf EXCEPT ![fd] = <<>>] PROVE UnheardStep
    <2>1. \A f \in Fds : reciveBuf'[f] = <<>> \/ reciveBuf'[f] = reciveBuf[f]
        BY <1>6 DEF BufInv
    <2> QED BY <1>5, <2>1
<1>7. UNCHANGED reciveBuf => UnheardStep
    BY <1>5
<1>8. reciveBuf' = [f \in Fds |-> <<>>] => UnheardStep
    BY <1>5
<1> QED BY <1>2, <1>3, <1>4, <1>6, <1>7, <1>8

-----------------------------------------------------------------------------
(***************************************************************************)
(* The handlers nobody hears of                                            *)
(***************************************************************************)
LEMMA EffectsUnheard ==
    ASSUME BufInv
    PROVE  /\ \A fds, m : m.cmd \notin ViewCmds /\ reciveBuf' = appendReciveBuf(reciveBuf, fds, m)
                    => UnheardStep
           /\ \A chans, fd, name, cmd, text :
                cmd \notin ViewCmds /\ reciveBuf' = messageAllChannel(reciveBuf, chans, fd, name, cmd, text)
                    => UnheardStep
           /\ \A fd, code, chan : code \notin ViewCmds /\ Reply(fd, code, chan) => UnheardStep
           /\ \A fd : Drop(fd) => UnheardStep
           /\ NoEffect => UnheardStep
<1>1. ASSUME NEW fds, NEW m, m.cmd \notin ViewCmds, reciveBuf' = appendReciveBuf(reciveBuf, fds, m)
      PROVE  UnheardStep
    BY <1>1, AppendUnheard, UnheardSteps
<1>2. ASSUME NEW chans, NEW fd, NEW name, NEW cmd, NEW text, cmd \notin ViewCmds,
             reciveBuf' = messageAllChannel(reciveBuf, chans, fd, name, cmd, text)
      PROVE  UnheardStep
    <2> DEFINE m == [cmd |-> cmd, from |-> IF cmd = "TOPIC" THEN "" ELSE clientList[fd].nickName,
                     chan |-> IF cmd = "QUIT" THEN "" ELSE name, text |-> text]
    <2>1. m.cmd \notin ViewCmds
        BY <1>2
    <2>2. \E fds : reciveBuf' = appendReciveBuf(reciveBuf, fds, m)
        BY <1>2 DEF messageAllChannel
    <2> HIDE DEF m
    <2> QED BY <1>1, <2>1, <2>2
<1>3. ASSUME NEW fd, NEW code, NEW chan, code \notin ViewCmds, Reply(fd, code, chan) PROVE UnheardStep
    <2>1. Numeric(code, chan).cmd \notin ViewCmds
        BY <1>3 DEF Numeric
    <2> QED BY <1>1, <1>3, <2>1 DEF Reply
<1>4. ASSUME NEW fd, Drop(fd) PROVE UnheardStep
    BY <1>4, UnheardSteps DEF Drop
<1>5. NoEffect => UnheardStep
    BY UnheardSteps DEF NoEffect
<1> QED BY <1>1, <1>2, <1>3, <1>4, <1>5, Zenon

-----------------------------------------------------------------------------
(***************************************************************************)
(* The inductive invariant.  It speaks of every moment of a handler, so it *)
(* has to leave open whether somebody who quits is still believed to be in *)
(* the channels that QUIT has not come to: the first of its messages takes *)
(* the name from all of them.                                              *)
(***************************************************************************)
Crowd(c) == Audience(channelList, c)
NamesIn(clients, S) == {clients[g].nickName : g \in S}

\* The client whose QUIT is being executed, as a set.
Quitter == IF job.op = "QUIT" THEN {job.fd} ELSE {}

\* f may believe v of a channel with these in it.
Fits(v, f, crowd, clients, quitter) ==
    IF f \in crowd
    THEN clients[f].fd = f => /\ v \subseteq NamesIn(clients, crowd)
                              /\ NamesIn(clients, crowd \ quitter) \subseteq v
    ELSE v = {}

ViewInv ==
    status = "running" =>
        /\ \A f \in Fds : DOMAIN view[f] = ChanNames
        /\ \A f \in Fds \ sock : view[f] = NobodyKnown
        /\ \A f \in sock \ Quitter, c \in ChanNames :
               Fits(view[f][c], f, Crowd(c), clientList, Quitter)

\* What a step makes of the views.
ViewStep ==
    view' = [f \in Fds |->
               LET seen == Hearing(view[f], Appended(f), clientList[f].nickName)
               IN  IF f \notin sock' THEN NobodyKnown
                   ELSE [c \in ChanNames |-> seen[c] \ LostNow(c)]]

\* Who is in a channel is connected, and has given a nickname that nobody else has.
LEMMA CrowdFacts ==
    ASSUME IInv, NEW c, NEW g \in Crowd(c)
    PROVE  /\ c \in DOMAIN channelList /\ Crowd(c) = Members(c)
           /\ g \in DOMAIN clientList /\ g \in Fds /\ g \in sock /\ getIsRegist(clientList[g])
<1> USE DEF IInv
<1>1. c \in DOMAIN channelList /\ Crowd(c) = Members(c)
    BY DEF Crowd, Audience, Members
<1>2. g \in DOMAIN clientList /\ g \in Fds /\ c \in ListedBy(g)
    BY <1>1 DEF MapsInv, MembershipAgrees
<1>3. CASE job.op = "QUIT" /\ job.fd = g
    BY <1>1, <1>2, <1>3 DEF JobInv
<1>4. CASE ~(job.op = "QUIT" /\ job.fd = g)
    <2>1. c \in ToSet(clientList[g].channelList)
        BY <1>2, <1>4 DEF ListedBy
    <2>2. clientList[g].channelList # <<>>
        BY <2>1 DEF ToSet
    <2>3. NewClient(NoFd).channelList = <<>>
        BY DEF NewClient
    <2> QED BY <1>1, <1>2, <2>2, <2>3 DEF MapsInv, GoodClient
<1> QED BY <1>3, <1>4

LEMMA CrowdApart ==
    ASSUME IInv, NamesInv, NEW c, NEW g \in Crowd(c), NEW d, NEW h \in Crowd(d),
           clientList[g].nickName = clientList[h].nickName
    PROVE  g = h
<1>1. /\ g \in DOMAIN clientList /\ getIsRegist(clientList[g])
      /\ h \in DOMAIN clientList /\ getIsRegist(clientList[h])
    BY CrowdFacts
<1>2. Named(clientList[g]) /\ Named(clientList[h])
    BY <1>1 DEF Named, getIsRegist, Registration
<1> QED BY <1>1, <1>2 DEF NamesInv, NamedApart

\* Nobody is lost by a step that leaves those in the channel connected, or by a handler.
LEMMA NobodyLost ==
    ASSUME NEW c, Crowd(c) \subseteq sock' \/ job # Idle
    PROVE  LostNow(c) = {}
BY DEF LostNow, Crowd, Audience, Members

\* The views after a step fit if what everybody has heard does.
LEMMA ViewMade ==
    ASSUME ViewStep, sock' \subseteq Fds,
           \A f \in sock' \ Quitter', c \in ChanNames :
               Fits(Hearing(view[f], Appended(f), clientList[f].nickName)[c] \ LostNow(c),
                    f, Crowd(c)', clientList', Quitter')
    PROVE  ViewInv'
<1>1. ASSUME NEW f \in Fds, f \notin sock' PROVE view'[f] = NobodyKnown
    BY <1>1 DEF ViewStep
<1>2. ASSUME NEW f \in Fds, f \in sock'
      PROVE  view'[f] = [c \in ChanNames |->
                            Hearing(view[f], Appended(f), clientList[f].nickName)[c] \ LostNow(c)]
    BY <1>2 DEF ViewStep
<1>3. \A f \in Fds : DOMAIN view'[f] = ChanNames
    BY <1>1, <1>2 DEF NobodyKnown
<1>4. ASSUME NEW f \in sock' \ Quitter', NEW c \in ChanNames
      PROVE  Fits(view'[f][c], f, Crowd(c)', clientList', Quitter')
    BY <1>2
<1> QED BY <1>1, <1>3, <1>4 DEF ViewInv

-----------------------------------------------------------------------------
(***************************************************************************)
(* Steps nobody hears of, because nobody comes, goes or changes the name   *)
(***************************************************************************)
Settled ==
    /\ \A c \in ChanNames :
           /\ Crowd(c)' = Crowd(c) /\ Crowd(c) \subseteq sock'
           /\ \A g \in Crowd(c) : /\ clientList'[g].nickName = clientList[g].nickName
                                  /\ clientList'[g].fd = clientList[g].fd
    /\ Quitter \cap sock' \subseteq Quitter' /\ sock' \subseteq Fds

LEMMA StillViews ==
    ASSUME IInv, ViewInv, status = "running", ViewStep, UnheardStep, Settled
    PROVE  ViewInv'
<1>1. ASSUME NEW f \in sock' \ Quitter', NEW c \in ChanNames
      PROVE  Fits(Hearing(view[f], Appended(f), clientList[f].nickName)[c] \ LostNow(c),
                  f, Crowd(c)', clientList', Quitter')
    <2>1. LostNow(c) = {}
        BY NobodyLost DEF Settled
    <2>2. f \in Fds /\ f \notin Quitter
        BY <1>1 DEF Settled
    <2>3. Hearing(view[f], Appended(f), clientList[f].nickName) = view[f]
        BY <2>2 DEF UnheardStep
    <2>4. CASE f \in Crowd(c)
        <3>1. f \in sock \ Quitter
            BY <2>2, <2>4, CrowdFacts
        <3>2. Fits(view[f][c], f, Crowd(c), clientList, Quitter)
            BY <3>1 DEF ViewInv
        <3>3. NamesIn(clientList', Crowd(c)) = NamesIn(clientList, Crowd(c))
            BY DEF NamesIn, Settled
        <3>4. NamesIn(clientList', Crowd(c) \ Quitter') \subseteq NamesIn(clientList, Crowd(c) \ Quitter)
            BY DEF NamesIn, Settled
        <3>5. clientList'[f].fd = clientList[f].fd /\ Crowd(c)' = Crowd(c)
            BY <2>4 DEF Settled
        <3> QED BY <2>1, <2>3, <2>4, <3>2, <3>3, <3>4, <3>5 DEF Fits
    <2>5. CASE f \notin Crowd(c)
        <3>1. view[f][c] = {}
            <4>1. CASE f \in sock
                BY <2>2, <2>5, <4>1 DEF ViewInv, Fits
            <4>2. CASE f \notin sock
                BY <2>2, <4>2 DEF ViewInv, NobodyKnown
            <4> QED BY <4>1, <4>2
        <3>2. Crowd(c)' = Crowd(c)
            BY DEF Settled
        <3> QED BY <2>1, <2>3, <2>5, <3>1, <3>2 DEF Fits
    <2> QED BY <2>4, <2>5
<1> QED BY <1>1, ViewMade DEF Settled

\* Such steps: the maps stay, or channels get other settings, or one client is changed
\* that keeps its name, or one comes that is nowhere, or one goes that is nowhere.
LEMMA SettledSame ==
    ASSUME IInv, UNCHANGED <<clientList, channelList, sock>>, Quitter \subseteq Quitter'
    PROVE  Settled
<1>1. \A c : Crowd(c)' = Crowd(c)
    BY DEF Crowd
<1>2. \A c : Crowd(c) \subseteq sock
    BY CrowdFacts
<1>3. sock' \subseteq Fds
    BY DEF IInv, MapsInv
<1> QED BY <1>1, <1>2, <1>3 DEF Settled

LEMMA SettledPut ==
    ASSUME IInv, UNCHANGED <<clientList, sock>>, Quitter \subseteq Quitter',
           NEW name \in DOMAIN channelList, NEW ch, ch.clientFdList = channelList[name].clientFdList,
           channelList' = [channelList EXCEPT ![name] = ch]
    PROVE  Settled
<1>1. \A c : Crowd(c)' = Crowd(c)
    BY DEF Crowd, Audience
<1>2. \A c : Crowd(c) \subseteq sock
    BY CrowdFacts
<1>3. sock' \subseteq Fds
    BY DEF IInv, MapsInv
<1> QED BY <1>1, <1>2, <1>3 DEF Settled

LEMMA SettledClient ==
    ASSUME IInv, UNCHANGED <<channelList, sock>>, Quitter \subseteq Quitter',
           NEW fd \in DOMAIN clientList, NEW cl, cl.nickName = clientList[fd].nickName, cl.fd = clientList[fd].fd,
           clientList' = [clientList EXCEPT ![fd] = cl]
    PROVE  Settled
<1>1. \A c : Crowd(c)' = Crowd(c)
    BY DEF Crowd
<1>2. \A c : Crowd(c) \subseteq sock /\ Crowd(c) \subseteq DOMAIN clientList
    BY CrowdFacts
<1>3. \A g \in DOMAIN clientList : clientList'[g] = IF g = fd THEN cl ELSE clientList[g]
    BY DEF IInv, MapsInv
<1>4. sock' \subseteq Fds
    BY DEF IInv, MapsInv
<1> QED BY <1>1, <1>2, <1>3, <1>4 DEF Settled

LEMMA SettledDrop ==
    ASSUME IInv, NEW fd \in DOMAIN clientList, Drop(fd), \A c : fd \notin Crowd(c), Quitter \subseteq {fd}
    PROVE  Settled
<1>1. \A c : Crowd(c)' = Crowd(c)
    BY DEF Crowd, Drop
<1>2. \A c : Crowd(c) \subseteq sock /\ Crowd(c) \subseteq DOMAIN clientList
    BY CrowdFacts
<1>3. sock' = sock \ {fd} /\ \A g \in DOMAIN clientList : g # fd => clientList'[g] = clientList[g]
    BY DEF Drop, Without
<1>4. sock' \subseteq Fds
    BY <1>3 DEF IInv, MapsInv
<1> QED BY <1>1, <1>2, <1>3, <1>4 DEF Settled

LEMMA SettledAccept ==
    ASSUME IInv, Accept
    PROVE  Settled
<1>1. \A c : Crowd(c)' = Crowd(c)
    BY DEF Crowd, Accept
<1>2. \A c : Crowd(c) \subseteq sock /\ Crowd(c) \subseteq DOMAIN clientList
    BY CrowdFacts
<1>3. sock \subseteq sock' /\ \A g \in DOMAIN clientList : clientList'[g] = clientList[g]
    BY DEF Accept, With
<1>4. LowestFree \in Fds
    <2>1. FreeFds # {} /\ FreeFds \subseteq Nat
        BY FdsAssumption DEF Accept, FreeFds
    <2>2. \E f \in FreeFds : \A g \in FreeFds : f <= g
        BY <2>1, LeastExists
    <2>3. LowestFree \in FreeFds
        BY <2>2 DEF LowestFree
    <2> QED BY <2>3 DEF FreeFds
<1>5. sock' \subseteq Fds
    BY <1>4 DEF Accept, IInv, MapsInv
<1>6. Quitter' = Quitter
    BY DEF Accept, Quitter
<1> QED BY <1>1, <1>2, <1>3, <1>5, <1>6 DEF Settled

\* The effects that leave everything settled, and the end of the process.
LEMMA StillEffects ==
    ASSUME IInv, ViewInv, status = "running", ViewStep
    PROVE  /\ status' # "running" => ViewInv'
           /\ UnheardStep /\ Quitter \subseteq Quitter' /\ UNCHANGED <<clientList, channelList, sock>> => ViewInv'
           /\ Quitter \subseteq Quitter' =>
                 /\ NoEffect => ViewInv'
                 /\ \A fd, code, chan : code \notin ViewCmds /\ Reply(fd, code, chan) => ViewInv'
<1> USE DEF IInv
<1>1. status' # "running" => ViewInv'
    BY DEF ViewInv
<1>2. ASSUME UnheardStep, Quitter \subseteq Quitter', UNCHANGED <<clientList, channelList, sock>>
      PROVE  ViewInv'
    BY <1>2, SettledSame, StillViews
<1>3. ASSUME Quitter \subseteq Quitter', NoEffect PROVE ViewInv'
    <2>1. UnheardStep
        BY <1>3, EffectsUnheard
    <2> QED BY <1>2, <1>3, <2>1 DEF NoEffect
<1>4. ASSUME Quitter \subseteq Quitter', NEW fd, NEW code, NEW chan, code \notin ViewCmds, Reply(fd, code, chan)
      PROVE  ViewInv'
    <2>1. UnheardStep
        BY <1>4, EffectsUnheard
    <2> QED BY <1>2, <1>4, <2>1 DEF Reply
<1> QED BY <1>1, <1>2, <1>3, <1>4

-----------------------------------------------------------------------------
(***************************************************************************)
(* JOIN: those in the channel hear of the newcomer, and the newcomer gets  *)
(* the names.                                                              *)
(***************************************************************************)
\* What the view of f is then, from the channels chans with the newcomer fd.
WelcomedView(seen, chans, fd, name, f) ==
    LET ch == chans[name]
        names == [i \in DOMAIN ch.clientFdList |-> clientList[ch.clientFdList[i]].nickName]
        joined == IF f \in Audience(chans, name)
                  THEN [seen EXCEPT ![name] = @ \cup {clientList[fd].nickName}] ELSE seen
    IN  IF f = fd THEN [joined EXCEPT ![name] = ToSet(names)] ELSE joined

LEMMA WelcomedTells ==
    ASSUME BufInv, NEW chans, NEW fd, NEW name, reciveBuf' = Welcomed(chans, fd, name),
           NEW f \in Fds, NEW seen, DOMAIN seen = ChanNames, NEW me
    PROVE  Hearing(seen, Appended(f), me) = WelcomedView(seen, chans, fd, name, f)
<1> DEFINE ch == chans[name]
           names == [i \in DOMAIN ch.clientFdList |-> clientList[ch.clientFdList[i]].nickName]
           mJoin == [cmd |-> "JOIN", from |-> clientList[fd].nickName, chan |-> name, text |-> <<>>]
           m332 == [Numeric("332", name) EXCEPT !.text = <<DropFirst[ch.topic]>>]
           m353 == [Numeric("353", name) EXCEPT !.text = names]
           m366 == Numeric("366", name)
           b1 == appendReciveBuf(reciveBuf, Audience(chans, name), mJoin)
           b2 == IF ch.topic = "" THEN b1 ELSE appendReciveBuf(b1, {fd}, m332)
           b3 == appendReciveBuf(b2, {fd}, m353)
           b4 == appendReciveBuf(b3, {fd}, m366)
           v1 == IF f \in Audience(chans, name)
                 THEN [seen EXCEPT ![name] = @ \cup {clientList[fd].nickName}] ELSE seen
           v3 == IF f = fd THEN [v1 EXCEPT ![name] = ToSet(names)] ELSE v1
<1>1. reciveBuf' = b4
    BY DEF Welcomed, messageAllChannel
<1>2. reciveBuf[f] \in Seq(Messages)
    BY DEF BufInv
<1>3. m332.cmd \notin ViewCmds /\ m366.cmd \notin ViewCmds
    BY DEF Numeric, ViewCmds
<1>4. Heard(seen, mJoin, me) = [seen EXCEPT ![name] = @ \cup {clientList[fd].nickName}]
    BY DEF Heard
<1>5. ASSUME NEW s PROVE Heard(s, m353, me) = [s EXCEPT ![name] = ToSet(names)]
    <2>1. m353.cmd = "353" /\ m353.chan = name /\ m353.text = names
        BY DEF Numeric
    <2> QED BY <2>1 DEF Heard
<1> HIDE DEF mJoin, m332, m353, m366, names
<1>6. ASSUME NEW b, NEW fds, NEW m, NEW s, Tells(reciveBuf[f], b[f], seen, me, s)
      PROVE  Tells(reciveBuf[f], appendReciveBuf(b, fds, m)[f], seen, me,
                   IF f \in fds THEN Heard(s, m, me) ELSE s)
    <2>1. Tells(reciveBuf[f], Append(b[f], m), seen, me, Heard(s, m, me))
        BY <1>2, <1>6, TellsMore
    <2>2. appendReciveBuf(b, fds, m)[f] = IF f \in fds THEN Append(b[f], m) ELSE b[f]
        BY DEF appendReciveBuf
    <2> QED BY <1>6, <2>1, <2>2
<1>7. Tells(reciveBuf[f], b1[f], seen, me, v1)
    <2>1. Tells(reciveBuf[f], reciveBuf[f], seen, me, seen)
        BY <1>2, TellsNothing
    <2>2. Tells(reciveBuf[f], b1[f], seen, me,
                IF f \in Audience(chans, name) THEN Heard(seen, mJoin, me) ELSE seen)
        BY <1>6, <2>1
    <2> QED BY <1>4, <2>2
<1> HIDE DEF b1, v1
<1>8. Tells(reciveBuf[f], b2[f], seen, me, v1)
    <2>1. Tells(reciveBuf[f], appendReciveBuf(b1, {fd}, m332)[f], seen, me,
                IF f \in {fd} THEN Heard(v1, m332, me) ELSE v1)
        BY <1>6, <1>7
    <2>2. Heard(v1, m332, me) = v1
        BY <1>3, HeardNothing
    <2> QED BY <1>7, <2>1, <2>2
<1> HIDE DEF b2
<1>9. Tells(reciveBuf[f], b3[f], seen, me, v3)
    <2>1. Tells(reciveBuf[f], b3[f], seen, me, IF f \in {fd} THEN Heard(v1, m353, me) ELSE v1)
        BY <1>6, <1>8
    <2> QED BY <1>5, <2>1
<1> HIDE DEF b3, v3
<1>10. Tells(reciveBuf[f], b4[f], seen, me, v3)
    <2>1. Tells(reciveBuf[f], b4[f], seen, me, IF f \in {fd} THEN Heard(v3, m366, me) ELSE v3)
        BY <1>6, <1>9
    <2>2. Heard(v3, m366, me) = v3
        BY <1>3, HeardNothing
    <2> QED BY <2>1, <2>2
<1>11. Hearing(seen, Appended(f), me) = v3
    BY <1>1, <1>10, StepTells
<1> QED BY <1>11 DEF WelcomedView, v1, v3, names

LEMMA EnterViews ==
    ASSUME IInv, ViewInv, status = "running", ViewStep, job.op = "JOIN", job'.op # "QUIT",
           NEW name \in ChanNames, NEW ch, Enter(job.fd, name, ch),
           \/ name \notin DOMAIN channelList /\ ch = NewChannel(job.fd)
           \/ name \in DOMAIN channelList /\ ch = channelList[name] /\ ~diffClientInChannel(ch, job.fd)
    PROVE  ViewInv'
<1> DEFINE fd == job.fd
           new == appendFdListClient(ch, fd)
           chans == With(channelList, name, new)
           nickname == clientList[fd].nickName
           names == [i \in DOMAIN new.clientFdList |-> clientList[new.clientFdList[i]].nickName]
<1>1. /\ fd \in DOMAIN clientList /\ fd \in Fds /\ fd \in sock /\ Quitter = {} /\ Quitter' = {}
      /\ sock \subseteq Fds
    BY DEF IInv, JobInv, MapsInv, Quitter
<1>2. /\ channelList' = chans /\ reciveBuf' = Welcomed(chans, fd, name) /\ sock' = sock
      /\ clientList' = [clientList EXCEPT ![fd] = appendChannelList(@, name)]
    BY DEF Enter
<1>3. ToSet(new.clientFdList) = Crowd(name) \cup {fd} /\ fd \notin Crowd(name)
    <2>1. CASE name \notin DOMAIN channelList
        BY <1>1, <2>1, NewChannelGood DEF Crowd, Audience
    <2>2. CASE name \in DOMAIN channelList /\ ch = channelList[name] /\ ~diffClientInChannel(ch, fd)
        <3>1. GoodChannel(ch) /\ fd \notin ToSet(ch.clientFdList)
            BY <2>2 DEF IInv, MapsInv, diffClientInChannel
        <3> QED BY <1>1, <2>2, <3>1, AppendClientGood DEF Crowd, Audience
    <2> QED BY <2>1, <2>2
<1> HIDE DEF new
<1>4. /\ name \in DOMAIN chans /\ chans[name] = new
      /\ \A c : c # name => (c \in DOMAIN chans <=> c \in DOMAIN channelList)
      /\ \A c \in DOMAIN channelList : c # name => chans[c] = channelList[c]
    BY DEF With
<1>5. /\ Audience(chans, name) = Crowd(name) \cup {fd}
      /\ Crowd(name)' = Crowd(name) \cup {fd}
      /\ \A c : c # name => Crowd(c)' = Crowd(c)
    BY <1>2, <1>3, <1>4 DEF Crowd, Audience
<1>6. \A g \in DOMAIN clientList : /\ clientList'[g].nickName = clientList[g].nickName
                                   /\ clientList'[g].fd = clientList[g].fd
    BY <1>1, <1>2 DEF appendChannelList, IInv, MapsInv, Clients
<1>7. \A c : Crowd(c) \subseteq DOMAIN clientList
    BY CrowdFacts
<1>8. \A c : NamesIn(clientList', Crowd(c)) = NamesIn(clientList, Crowd(c))
    BY <1>6, <1>7 DEF NamesIn
<1>9. NamesIn(clientList', Crowd(name) \cup {fd}) = NamesIn(clientList, Crowd(name)) \cup {nickname}
    BY <1>1, <1>6, <1>7 DEF NamesIn
<1>10. ToSet(names) = NamesIn(clientList, Crowd(name)) \cup {nickname}
    <2>1. ToSet(names) = {clientList[g].nickName : g \in ToSet(new.clientFdList)}
        BY DEF ToSet
    <2> QED BY <1>3, <2>1 DEF NamesIn
<1>11. ASSUME NEW f \in Fds
       PROVE  LET joined == IF f \in Crowd(name) \cup {fd}
                            THEN [view[f] EXCEPT ![name] = @ \cup {nickname}] ELSE view[f]
              IN  /\ DOMAIN view[f] = ChanNames
                  /\ Hearing(view[f], Appended(f), clientList[f].nickName) =
                        IF f = fd THEN [joined EXCEPT ![name] = ToSet(names)] ELSE joined
    <2>1. DOMAIN view[f] = ChanNames
        BY DEF ViewInv
    <2>2. BufInv /\ reciveBuf' = Welcomed(chans, fd, name)
        BY <1>2 DEF IInv
    <2> HIDE DEF chans, fd
    <2>3. Hearing(view[f], Appended(f), clientList[f].nickName) = WelcomedView(view[f], chans, fd, name, f)
        BY <2>1, <2>2, WelcomedTells
    <2> QED BY <1>4, <1>5, <2>1, <2>3, Zenon DEF WelcomedView, nickname, names
<1> HIDE DEF names, nickname
<1>12. ASSUME NEW f \in sock' \ Quitter', NEW c \in ChanNames
       PROVE  Fits(Hearing(view[f], Appended(f), clientList[f].nickName)[c] \ LostNow(c),
                   f, Crowd(c)', clientList', Quitter')
    <2> DEFINE v == Hearing(view[f], Appended(f), clientList[f].nickName)[c]
    <2>1. LostNow(c) = {}
        BY NobodyLost DEF Idle
    <2>2. f \in Fds /\ f \in sock \ Quitter /\ f \in DOMAIN clientList
        BY <1>1, <1>2, <1>12 DEF IInv, MapsInv
    <2>3. Fits(view[f][c], f, Crowd(c), clientList, {})
        BY <1>1, <2>2 DEF ViewInv
    <2>4. c # name => v = view[f][c]
        BY <1>11, <2>2
    <2>5. c = name => v = IF f = fd THEN ToSet(names)
                          ELSE IF f \in Crowd(name) THEN view[f][c] \cup {nickname} ELSE view[f][c]
        BY <1>11, <2>2
    <2> HIDE DEF v
    <2>6. CASE c # name
        BY <1>1, <1>5, <1>6, <1>8, <2>1, <2>2, <2>3, <2>4, <2>6 DEF Fits, v
    <2>7. CASE c = name
        <3>1. Fits(v, f, Crowd(c) \cup {fd}, clientList', {})
            BY <1>3, <1>6, <1>8, <1>9, <1>10, <2>2, <2>3, <2>5, <2>7 DEF Fits
        <3> QED BY <1>1, <1>5, <2>1, <2>7, <3>1 DEF v
    <2> QED BY <2>6, <2>7
<1> QED BY <1>1, <1>2, <1>12, ViewMade

-----------------------------------------------------------------------------
(***************************************************************************)
(* PART and KICK: all in the channel hear who has gone, itself included.   *)
(***************************************************************************)
\* g goes out of the channel name and nothing else changes that matters to the views.
Out(g, name) ==
    /\ g \in Crowd(name) /\ name \in ChanNames /\ sock' = sock
    /\ \A c \in ChanNames : Crowd(c)' = IF c = name THEN Crowd(c) \ {g} ELSE Crowd(c)
    /\ \A h \in DOMAIN clientList : /\ clientList'[h].nickName = clientList[h].nickName
                                    /\ clientList'[h].fd = clientList[h].fd

\* The names of the others.
LEMMA NamesOut ==
    ASSUME IInv, NamesInv, NEW c, NEW d, NEW g \in Crowd(d)
    PROVE  NamesIn(clientList, Crowd(c) \ {g}) = NamesIn(clientList, Crowd(c)) \ {clientList[g].nickName}
<1>1. ASSUME NEW h \in Crowd(c), h # g PROVE clientList[h].nickName # clientList[g].nickName
    BY <1>1, CrowdApart
<1> QED BY <1>1 DEF NamesIn

LEMMA OutViews ==
    ASSUME IInv, NamesInv, ViewInv, status = "running", ViewStep, job # Idle, Quitter = {}, Quitter' = {},
           NEW g, NEW name, Out(g, name), NEW m,
           reciveBuf' = appendReciveBuf(reciveBuf, Crowd(name), m),
           \A seen, me : Heard(seen, m, me) =
               [seen EXCEPT ![name] = IF me = clientList[g].nickName THEN {}
                                      ELSE @ \ {clientList[g].nickName}]
    PROVE  ViewInv'
<1> DEFINE n == clientList[g].nickName
<1>1. sock' = sock /\ sock \subseteq Fds /\ sock \subseteq DOMAIN clientList
    BY DEF Out, IInv, MapsInv
<1>2. ASSUME NEW f \in sock' \ Quitter', NEW c \in ChanNames
      PROVE  Fits(Hearing(view[f], Appended(f), clientList[f].nickName)[c] \ LostNow(c),
                  f, Crowd(c)', clientList', Quitter')
    <2> DEFINE me == clientList[f].nickName
               v == Hearing(view[f], Appended(f), me)[c]
    <2>1. LostNow(c) = {}
        BY NobodyLost
    <2>2. f \in Fds /\ f \in sock \ Quitter /\ f \in DOMAIN clientList /\ DOMAIN view[f] = ChanNames
        BY <1>1, <1>2 DEF ViewInv
    <2>3. Fits(view[f][c], f, Crowd(c), clientList, {})
        BY <2>2 DEF ViewInv
    <2>4. Hearing(view[f], Appended(f), me) =
              IF f \in Crowd(name) THEN [view[f] EXCEPT ![name] = IF me = n THEN {} ELSE @ \ {n}] ELSE view[f]
        <3>1. Hearing(view[f], Appended(f), me) = IF f \in Crowd(name) THEN Heard(view[f], m, me) ELSE view[f]
            BY <2>2, TellsOne DEF IInv
        <3> QED BY <3>1
    <2>5. v = IF c = name /\ f \in Crowd(name) THEN IF me = n THEN {} ELSE view[f][c] \ {n} ELSE view[f][c]
        BY <2>2, <2>4
    <2> HIDE DEF v
    <2>6. /\ clientList'[f].fd = clientList[f].fd
          /\ NamesIn(clientList', Crowd(c)) = NamesIn(clientList, Crowd(c))
          /\ NamesIn(clientList', Crowd(c) \ {g}) = NamesIn(clientList, Crowd(c) \ {g})
        <3>1. Crowd(c) \subseteq DOMAIN clientList
            BY CrowdFacts
        <3> QED BY <2>2, <3>1 DEF Out, NamesIn
    <2>7. CASE c # name
        <3>1. Crowd(c)' = Crowd(c)
            BY <2>7 DEF Out
        <3> QED BY <2>1, <2>3, <2>5, <2>6, <2>7, <3>1 DEF Fits, v
    <2>8. CASE c = name
        <3>1. Crowd(c)' = Crowd(c) \ {g}
            BY <2>8 DEF Out
        <3>2. Fits(v, f, Crowd(c) \ {g}, clientList', {})
            <4>1. CASE f \notin Crowd(c)
                BY <2>3, <2>5, <2>8, <4>1 DEF Fits
            <4>2. CASE f = g
                <5>1. v = {}
                    BY <2>5, <2>8, <4>2 DEF Out
                <5> QED BY <4>2, <5>1 DEF Fits
            <4>3. CASE f \in Crowd(c) /\ f # g
                <5>1. g \in Crowd(c)
                    BY <2>8 DEF Out
                <5>2. me # n
                    BY <4>3, <5>1, CrowdApart
                <5>3. v = view[f][c] \ {n}
                    BY <2>5, <2>8, <4>3, <5>2
                <5>4. NamesIn(clientList, Crowd(c) \ {g}) = NamesIn(clientList, Crowd(c)) \ {n}
                    BY <5>1, NamesOut
                <5> QED BY <2>3, <2>6, <4>3, <5>3, <5>4 DEF Fits
            <4> QED BY <4>1, <4>2, <4>3
        <3> QED BY <2>1, <3>1, <3>2 DEF v
    <2> QED BY <2>7, <2>8
<1> QED BY <1>1, <1>2, ViewMade

-----------------------------------------------------------------------------
(***************************************************************************)
(* QUIT: those in the channel hear of it, and take the name from all of    *)
(* their channels at once.                                                 *)
(***************************************************************************)
LEMMA QuitViews ==
    ASSUME IInv, NamesInv, ViewInv, status = "running", ViewStep, job # Idle,
           NEW g, NEW name, Out(g, name), Quitter = {g}, Quitter' = {g},
           NEW m, reciveBuf' = appendReciveBuf(reciveBuf, Crowd(name) \ {g}, m),
           \A seen, me : Heard(seen, m, me) = [c \in ChanNames |-> seen[c] \ {clientList[g].nickName}]
    PROVE  ViewInv'
<1> DEFINE n == clientList[g].nickName
<1>1. sock' = sock /\ sock \subseteq Fds /\ sock \subseteq DOMAIN clientList
    BY DEF Out, IInv, MapsInv
<1>2. ASSUME NEW f \in sock' \ Quitter', NEW c \in ChanNames
      PROVE  Fits(Hearing(view[f], Appended(f), clientList[f].nickName)[c] \ LostNow(c),
                  f, Crowd(c)', clientList', Quitter')
    <2> DEFINE me == clientList[f].nickName
               v == Hearing(view[f], Appended(f), me)[c]
    <2>1. LostNow(c) = {}
        BY NobodyLost
    <2>2. f \in Fds /\ f \in sock \ Quitter /\ f \in DOMAIN clientList /\ DOMAIN view[f] = ChanNames /\ f # g
        BY <1>1, <1>2 DEF ViewInv
    <2>3. Fits(view[f][c], f, Crowd(c), clientList, {g})
        BY <2>2 DEF ViewInv
    <2>4. Hearing(view[f], Appended(f), me) =
              IF f \in Crowd(name) THEN [d \in ChanNames |-> view[f][d] \ {n}] ELSE view[f]
        <3>1. f \in Crowd(name) \ {g} <=> f \in Crowd(name)
            BY <2>2
        <3>2. Hearing(view[f], Appended(f), me) =
                  IF f \in Crowd(name) \ {g} THEN Heard(view[f], m, me) ELSE view[f]
            BY <2>2, TellsOne DEF IInv
        <3>3. Heard(view[f], m, me) = [d \in ChanNames |-> view[f][d] \ {n}]
            OBVIOUS
        <3> QED BY <3>1, <3>2, <3>3
    <2>5. v = IF f \in Crowd(name) THEN view[f][c] \ {n} ELSE view[f][c]
        BY <2>2, <2>4
    <2> HIDE DEF v
    <2>6. /\ clientList'[f].fd = clientList[f].fd
          /\ NamesIn(clientList', Crowd(c)) = NamesIn(clientList, Crowd(c))
          /\ NamesIn(clientList', Crowd(c) \ {g}) = NamesIn(clientList, Crowd(c) \ {g})
        <3>1. Crowd(c) \subseteq DOMAIN clientList
            BY CrowdFacts
        <3> QED BY <2>2, <3>1 DEF Out, NamesIn
    <2>7. g \in Crowd(name) /\ (Crowd(c)' = Crowd(c) \/ (c = name /\ Crowd(c)' = Crowd(c) \ {g}))
        BY DEF Out
    <2>8. NamesIn(clientList, Crowd(c) \ {g}) = NamesIn(clientList, Crowd(c)) \ {n}
        BY <2>7, NamesOut
    <2>9. CASE f \notin Crowd(c)
        BY <2>1, <2>3, <2>5, <2>7, <2>9 DEF Fits, v
    <2>10. CASE f \in Crowd(c)
        <3>1. Crowd(c)' = Crowd(c) \/ (Crowd(c)' = Crowd(c) \ {g} /\ v = view[f][c] \ {n})
            BY <2>5, <2>7, <2>10
        <3>2. f \in Crowd(c)' /\ Crowd(c)' \ {g} = Crowd(c) \ {g}
            BY <2>2, <2>7, <2>10
        <3> DEFINE crowd == Crowd(c)'
        <3> HIDE DEF crowd
        <3>3. ASSUME clientList[f].fd = f
              PROVE  v \subseteq NamesIn(clientList', crowd) /\ NamesIn(clientList', crowd \ {g}) \subseteq v
            <4>1. /\ view[f][c] \subseteq NamesIn(clientList, Crowd(c))
                  /\ NamesIn(clientList, Crowd(c) \ {g}) \subseteq view[f][c]
                BY <2>3, <2>10, <3>3 DEF Fits
            <4>2. NamesIn(clientList', crowd \ {g}) \subseteq v
                BY <2>5, <2>6, <2>8, <3>2, <4>1 DEF crowd
            <4>3. v \subseteq NamesIn(clientList', crowd)
                BY <2>5, <2>6, <2>8, <3>1, <4>1 DEF crowd
            <4> QED BY <4>2, <4>3
        <3> QED BY <2>1, <2>6, <3>2, <3>3 DEF Fits, v, crowd
    <2> QED BY <2>9, <2>10
<1> QED BY <1>1, <1>2, ViewMade

-----------------------------------------------------------------------------
(***************************************************************************)
(* A lost connection: nobody hears of it, and its name is taken out of the *)
(* views.                                                                  *)
(***************************************************************************)
LEMMA LostViews ==
    ASSUME IInv, NamesInv, ViewInv, status = "running", ViewStep, NEW fd \in Fds, Eof(fd) \/ ClientSockError(fd)
    PROVE  ViewInv'
<1> USE DEF IInv
<1>1. /\ job = Idle /\ job' = Idle /\ fd \in DOMAIN clientList /\ sock' = sock \ {fd} /\ sock \subseteq Fds
      /\ channelList' = Disconnected(fd) /\ reciveBuf' = [reciveBuf EXCEPT ![fd] = <<>>]
      /\ sock \subseteq DOMAIN clientList
    BY DEF Eof, ClientSockError, Event, MapsInv
<1>2. \A h \in DOMAIN clientList : h # fd => clientList'[h] = clientList[h]
    BY <1>1 DEF Eof, ClientSockError, Without
<1>3. Quitter = {} /\ Quitter' = {}
    BY <1>1 DEF Quitter, Idle
<1>4. UnheardStep
    BY <1>1, UnheardSteps
<1>5. DOMAIN channelList' = DOMAIN channelList
    BY <1>1 DEF Disconnected
<1>6. ASSUME NEW c PROVE Crowd(c)' = Crowd(c) \ {fd}
    <2>1. CASE c \notin DOMAIN channelList
        BY <1>5, <2>1 DEF Crowd, Audience
    <2>2. CASE c \in DOMAIN channelList
        <3>1. ToSet(channelList'[c].clientFdList) = Members(c) \ {fd}
            <4>1. CASE fd \in Members(c)
                BY <1>1, <2>2, <4>1, LostChannel
            <4>2. CASE fd \notin Members(c)
                <5>1. channelList'[c] = channelList[c]
                    BY <1>1, <2>2, <4>2, LostChannel
                <5> QED BY <4>2, <5>1 DEF Members
            <4> QED BY <4>1, <4>2
        <3> QED BY <1>5, <2>2, <3>1 DEF Crowd, Audience, Members
    <2> QED BY <2>1, <2>2
<1>7. ASSUME NEW c
      PROVE  LostNow(c) = IF fd \in Crowd(c) THEN {clientList[fd].nickName} ELSE {}
    <2>1. Crowd(c) \subseteq sock
        BY CrowdFacts
    <2>2. Crowd(c) \ sock' = IF fd \in Crowd(c) THEN {fd} ELSE {}
        BY <1>1, <2>1
    <2>3. LostNow(c) = {clientList[f].nickName : f \in Crowd(c) \ sock'}
        BY <1>1 DEF LostNow, Crowd, Audience, Members
    <2> QED BY <2>2, <2>3
<1>8. ASSUME NEW f \in sock' \ Quitter', NEW c \in ChanNames
      PROVE  Fits(Hearing(view[f], Appended(f), clientList[f].nickName)[c] \ LostNow(c),
                  f, Crowd(c)', clientList', Quitter')
    <2>1. f \in Fds /\ f \in sock \ Quitter /\ f # fd /\ f \in DOMAIN clientList
        BY <1>1, <1>3, <1>8
    <2>2. Hearing(view[f], Appended(f), clientList[f].nickName) = view[f]
        BY <1>4, <2>1 DEF UnheardStep
    <2>3. Fits(view[f][c], f, Crowd(c), clientList, {})
        BY <1>3, <2>1 DEF ViewInv
    <2>4. NamesIn(clientList', Crowd(c) \ {fd}) = NamesIn(clientList, Crowd(c)) \ LostNow(c)
        <3>1. Crowd(c) \subseteq DOMAIN clientList
            BY CrowdFacts
        <3>2. NamesIn(clientList', Crowd(c) \ {fd}) = NamesIn(clientList, Crowd(c) \ {fd})
            BY <1>2, <3>1 DEF NamesIn
        <3>3. CASE fd \in Crowd(c)
            BY <1>7, <3>2, <3>3, NamesOut
        <3>4. CASE fd \notin Crowd(c)
            <4>1. Crowd(c) \ {fd} = Crowd(c)
                BY <3>4
            <4> QED BY <1>7, <3>2, <3>4, <4>1
        <3> QED BY <3>3, <3>4
    <2> QED BY <1>2, <1>3, <1>6, <2>1, <2>2, <2>3, <2>4 DEF Fits
<1> QED BY <1>1, <1>8, ViewMade

-----------------------------------------------------------------------------
(***************************************************************************)
(* NICK: everybody whose own descriptor is right and who shares a channel  *)
(* is told, at the first of the visits.                                    *)
(***************************************************************************)
LEMMA NickTold ==
    ASSUME IInv, job.op # "QUIT", NEW fd \in DOMAIN clientList, NEW c, fd \in Crowd(c),
           NEW f \in Crowd(c), clientList[f].fd = f
    PROVE  f \in NickAudience(fd)
<1> USE DEF IInv
<1> DEFINE chans == clientList[fd].channelList
           members(i) == IF chans[i] \in DOMAIN channelList
                         THEN channelList[chans[i]].clientFdList ELSE <<>>
           Visits == UNION {{i} \X DOMAIN members(i) : i \in DOMAIN chans}
           who(v) == members(v[1])[v[2]]
           Before(u, v) == u[1] < v[1] \/ (u[1] = v[1] /\ u[2] < v[2])
           Sent(v) == \A u \in Visits : Before(u, v) => clientList[who(u)].fd # clientList[who(v)].fd
           I == {i \in DOMAIN chans : f \in ToSet(members(i))}
<1>1. /\ c \in DOMAIN channelList /\ Crowd(c) = Members(c) /\ f \in Fds /\ f # NoFd
      /\ chans \in Seq(ChanNames) /\ DOMAIN chans = 1 .. Len(chans) /\ Len(chans) \in Nat
    BY CrowdFacts, LenProperties, NoFdNowhere DEF MapsInv, Clients
<1>2. c \in ToSet(chans)
    BY <1>1 DEF MapsInv, MembershipAgrees, ListedBy
<1>3. I \subseteq Nat /\ I # {}
    <2>1. PICK i \in DOMAIN chans : chans[i] = c
        BY <1>2 DEF ToSet
    <2>2. f \in ToSet(members(i))
        BY <1>1, <2>1 DEF Members
    <2> QED BY <1>1, <2>1, <2>2
<1>4. ASSUME NEW i \in DOMAIN chans
      PROVE  /\ IsInjective(members(i)) /\ ToSet(members(i)) \subseteq DOMAIN clientList
             /\ DOMAIN members(i) \subseteq Nat
    <2>1. CASE chans[i] \in DOMAIN channelList
        <3>1. GoodChannel(channelList[chans[i]]) /\ Members(chans[i]) \subseteq DOMAIN clientList
            BY <2>1 DEF MapsInv, MembershipAgrees
        <3>2. channelList[chans[i]].clientFdList \in Seq(Fds)
            BY <3>1 DEF GoodChannel, Channels
        <3>3. DOMAIN channelList[chans[i]].clientFdList \subseteq Nat
            BY <3>2, LenProperties
        <3> QED BY <2>1, <3>1, <3>3 DEF GoodChannel, Members
    <2>2. CASE chans[i] \notin DOMAIN channelList
        BY <2>2 DEF IsInjective, ToSet
    <2> QED BY <2>1, <2>2
<1>5. PICK i \in I : \A k \in I : i <= k
    <2> HIDE DEF I
    <2> QED BY <1>3, LeastExists
<1>6. PICK j \in DOMAIN members(i) : members(i)[j] = f
    BY <1>5 DEF ToSet
<1> DEFINE v == <<i, j>>
<1>7. v \in Visits /\ who(v) = f
    BY <1>5, <1>6
<1>8. ASSUME NEW u \in Visits, Before(u, v), clientList[who(u)].fd = f PROVE FALSE
    <2>1. PICK k \in DOMAIN chans : u \in {k} \X DOMAIN members(k)
        BY <1>8
    <2>2. u[1] = k /\ u[2] \in DOMAIN members(k)
        BY <2>1
    <2>3. who(u) \in ToSet(members(k)) /\ who(u) = members(k)[u[2]]
        BY <2>2 DEF ToSet
    <2>4. who(u) \in DOMAIN clientList
        BY <1>4, <2>3
    <2>5. who(u) = f
        BY <1>1, <1>8, <2>4 DEF MapsInv, GoodClient
    <2>6. k \in I
        BY <2>3, <2>5
    <2>7. i <= k /\ i \in Nat /\ k \in Nat
        BY <1>3, <1>5, <2>6
    <2>8. k = i /\ u[2] < j
        BY <1>8, <2>2, <2>7
    <2>9. u[2] = j
        BY <1>4, <1>6, <2>2, <2>3, <2>5, <2>8 DEF IsInjective
    <2>10. j \in Nat
        BY <1>4, <1>6
    <2> QED BY <2>8, <2>9, <2>10
<1>9. Sent(v)
    BY <1>7, <1>8
<1>10. chans # <<>>
    BY <1>2 DEF ToSet
<1>11. f \in {who(w) : w \in {u \in Visits : Sent(u)}}
    <2> HIDE DEF Visits, who, Sent, v
    <2> QED BY <1>7, <1>9
<1> QED BY <1>10, <1>11 DEF NickAudience

LEMMA NickViews ==
    ASSUME IInv, NamesInv, ViewInv, status = "running", ViewStep, job.op # "QUIT", job'.op # "QUIT",
           NEW fd \in sock, NEW new,
           reciveBuf' = appendReciveBuf(reciveBuf, NickAudience(fd),
               [cmd |-> "NICK", from |-> clientList[fd].nickName, chan |-> "", text |-> <<new>>]),
           clientList' = [clientList EXCEPT ![fd] = setRegi(setNickname(@, new), "NICK")],
           UNCHANGED <<channelList, sock>>
    PROVE  ViewInv'
<1> DEFINE n == clientList[fd].nickName
           m == [cmd |-> "NICK", from |-> n, chan |-> "", text |-> <<new>>]
           cl == setRegi(setNickname(clientList[fd], new), "NICK")
<1>1. /\ fd \in DOMAIN clientList /\ fd \in Fds /\ sock \subseteq Fds /\ sock \subseteq DOMAIN clientList
      /\ Quitter = {} /\ Quitter' = {}
    BY DEF IInv, MapsInv, Quitter
<1>2. cl.nickName = new /\ cl.fd = clientList[fd].fd
    BY <1>1 DEF setRegi, setNickname, IInv, MapsInv, Clients
<1>3. /\ \A g \in DOMAIN clientList : clientList'[g].fd = clientList[g].fd
      /\ \A g \in DOMAIN clientList : g # fd => clientList'[g].nickName = clientList[g].nickName
      /\ clientList'[fd].nickName = new
    BY <1>1, <1>2 DEF IInv, MapsInv
<1>4. ASSUME NEW seen, NEW me
      PROVE  Heard(seen, m, me) = [c \in ChanNames |-> IF n \in seen[c] THEN (seen[c] \ {n}) \cup {new} ELSE seen[c]]
    <2>1. m.cmd = "NICK" /\ m.from = n /\ m.text[1] = new
        OBVIOUS
    <2> HIDE DEF m
    <2> QED BY <2>1 DEF Heard
<1>0. reciveBuf' = appendReciveBuf(reciveBuf, NickAudience(fd), m)
    OBVIOUS
<1> HIDE DEF m, cl
<1>5. ASSUME NEW f \in Fds, NEW c \in ChanNames
      PROVE  Hearing(view[f], Appended(f), clientList[f].nickName)[c] =
                 IF f \in NickAudience(fd) /\ n \in view[f][c]
                 THEN (view[f][c] \ {n}) \cup {new} ELSE view[f][c]
    <2>1. Hearing(view[f], Appended(f), clientList[f].nickName) =
              IF f \in NickAudience(fd) THEN Heard(view[f], m, clientList[f].nickName) ELSE view[f]
        <3>1. BufInv
            BY DEF IInv
        <3> QED BY ONLY <1>0, <3>1, f \in Fds, TellsOne
    <2>2. Heard(view[f], m, clientList[f].nickName) =
              [d \in ChanNames |-> IF n \in view[f][d] THEN (view[f][d] \ {n}) \cup {new} ELSE view[f][d]]
        BY ONLY <1>4, Zenon
    <2>3. Heard(view[f], m, clientList[f].nickName)[c] =
              IF n \in view[f][c] THEN (view[f][c] \ {n}) \cup {new} ELSE view[f][c]
        BY ONLY <2>2, c \in ChanNames
    <2> QED BY ONLY <2>1, <2>3
<1>6. ASSUME NEW c, NEW f \in Crowd(c), f \in NickAudience(fd), fd \notin Crowd(c)
      PROVE  n \notin NamesIn(clientList, Crowd(c))
    <2> DEFINE chans == clientList[fd].channelList
    <2>1. chans # <<>>
        BY <1>6 DEF NickAudience
    <2>2. PICK d : d \in ToSet(chans)
        <3>1. chans \in Seq(ChanNames)
            BY <1>1 DEF IInv, MapsInv, Clients
        <3> HIDE DEF chans
        <3>2. Head(chans) \in ToSet(chans)
            BY <2>1, <3>1, TailList
        <3> QED BY <3>2
    <2>3. d \in ListedBy(fd)
        BY <2>2 DEF ListedBy
    <2>4. d \in DOMAIN channelList /\ fd \in Members(d)
        BY <1>1, <2>3 DEF IInv, MapsInv, MembershipAgrees
    <2>5. fd \in Crowd(d)
        BY <2>4 DEF Crowd, Audience, Members
    <2>6. NamesIn(clientList, Crowd(c) \ {fd}) = NamesIn(clientList, Crowd(c)) \ {n}
        BY <2>5, NamesOut
    <2>7. Crowd(c) \ {fd} = Crowd(c)
        BY <1>6
    <2> QED BY <2>6, <2>7
<1>7. ASSUME NEW f \in sock' \ Quitter', NEW c \in ChanNames
      PROVE  Fits(Hearing(view[f], Appended(f), clientList[f].nickName)[c] \ LostNow(c),
                  f, Crowd(c)', clientList', Quitter')
    <2> DEFINE v == Hearing(view[f], Appended(f), clientList[f].nickName)[c]
    <2>1. /\ f \in Fds /\ f \in sock \ Quitter /\ f \in DOMAIN clientList
          /\ Crowd(c) \subseteq sock /\ Crowd(c) \subseteq DOMAIN clientList
        BY <1>1, <1>7, CrowdFacts
    <2>2. LostNow(c) = {}
        BY <2>1, NobodyLost
    <2>3. Fits(view[f][c], f, Crowd(c), clientList, {})
        BY <1>1, <2>1 DEF ViewInv
    <2>4. v = IF f \in NickAudience(fd) /\ n \in view[f][c] THEN (view[f][c] \ {n}) \cup {new} ELSE view[f][c]
        BY <1>5, <2>1
    <2> HIDE DEF v
    <2>5. Crowd(c)' = Crowd(c)
        BY DEF Crowd
    <2>6. Fits(v, f, Crowd(c), clientList', {})
        <3>1. CASE f \notin Crowd(c)
            BY <2>3, <2>4, <3>1 DEF Fits
        <3>2. CASE f \in Crowd(c)
            <4> SUFFICES ASSUME clientList[f].fd = f
                         PROVE  v = NamesIn(clientList', Crowd(c))
                BY <1>3, <2>1, <3>2 DEF Fits
            <4>1. view[f][c] = NamesIn(clientList, Crowd(c))
                BY <2>3, <3>2 DEF Fits
            <4>2. CASE fd \in Crowd(c)
                <5>1. f \in NickAudience(fd)
                    BY <1>1, <3>2, <4>2, NickTold
                <5>2. n \in NamesIn(clientList, Crowd(c))
                    BY <4>2 DEF NamesIn
                <5>3. NamesIn(clientList, Crowd(c) \ {fd}) = NamesIn(clientList, Crowd(c)) \ {n}
                    BY <4>2, NamesOut
                <5>4. NamesIn(clientList', Crowd(c)) = NamesIn(clientList, Crowd(c) \ {fd}) \cup {new}
                    BY ONLY <1>3, <2>1, <4>2 DEF NamesIn
                <5>5. v = (view[f][c] \ {n}) \cup {new}
                    BY <2>4, <4>1, <5>1, <5>2
                <5> QED BY ONLY <4>1, <5>3, <5>4, <5>5
            <4>3. CASE fd \notin Crowd(c)
                <5>1. NamesIn(clientList', Crowd(c)) = NamesIn(clientList, Crowd(c))
                    BY ONLY <1>3, <2>1, <4>3 DEF NamesIn
                <5>2. f \in NickAudience(fd) => n \notin view[f][c]
                    BY ONLY <1>6, <3>2, <4>1, <4>3
                <5>3. v = view[f][c]
                    BY <2>4, <5>2
                <5> QED BY <4>1, <5>1, <5>3
            <4> QED BY <4>2, <4>3
        <3> QED BY <3>1, <3>2
    <2> QED BY <1>1, <2>2, <2>5, <2>6 DEF v
<1> QED BY <1>1, <1>7, ViewMade

-----------------------------------------------------------------------------
(***************************************************************************)
(* Handler by handler                                                      *)
(***************************************************************************)
\* JOIN
LEMMA JoinViews ==
    ASSUME IInv, ViewInv, status = "running", ViewStep, JoinStep
    PROVE  ViewInv'
<1>1. job.op = "JOIN"
    BY DEF JoinStep, JoinBadName, JoinNewChannel, JoinExisting, JoinDone, Joining
<1>2. job \in JoinJobs
    BY <1>1, JobTypes DEF IInv, JobInv
<1>3. Quitter \subseteq Quitter'
    BY <1>1 DEF Quitter
<1>4. ASSUME NEW code, NEW chan, code \notin ViewCmds, Reply(job.fd, code, chan) PROVE ViewInv'
    BY <1>3, <1>4, StillEffects
<1>5. ASSUME Joining, NEW name \in ChanNames, NEW ch, Enter(job.fd, name, ch),
             \/ name \notin DOMAIN channelList /\ ch = NewChannel(job.fd)
             \/ name \in DOMAIN channelList /\ ch = channelList[name] /\ ~diffClientInChannel(ch, job.fd)
      PROVE  ViewInv'
    <2>1. NextChannel(KeyStep) /\ job.iter < Len(job.chans)
        BY <1>5 DEF Enter, Joining
    <2>2. job'.op # "QUIT"
        BY <1>2, <2>1, JoinAdvance
    <2> QED BY <1>1, <1>5, <2>2, EnterViews
<1>6. CASE JoinNewChannel
    BY <1>5, <1>6 DEF JoinNewChannel
<1>7. CASE JoinExisting
    <2> DEFINE name == JoinName
               ch == channelList[name]
    <2>1. Joining /\ name \in ChanNames /\ name \in DOMAIN channelList
        BY <1>7 DEF JoinExisting
    <2> HIDE DEF name
    <2>2. ASSUME ~diffClientInChannel(ch, job.fd), Enter(job.fd, name, ch) PROVE ViewInv'
        BY <1>5, <2>1, <2>2
    <2>3. ASSUME NEW code \in {"443", "471", "473", "475"}, Reply(job.fd, code, name) PROVE ViewInv'
        <3>1. code \notin ViewCmds
            BY DEF ViewCmds
        <3> QED BY <1>4, <2>3, <3>1
    <2>4. ASSUME Undefined PROVE ViewInv'
        BY <2>4, StillEffects DEF Undefined
    <2> QED BY <1>7, <2>2, <2>3, <2>4 DEF JoinExisting, name
<1>8. CASE JoinBadName
    <2>1. Reply(job.fd, "403", JoinName) /\ "403" \notin ViewCmds
        BY <1>8 DEF JoinBadName, ViewCmds
    <2> QED BY <1>4, <2>1
<1>9. CASE JoinDone
    BY <1>3, <1>9, StillEffects DEF JoinDone
<1> QED BY <1>6, <1>7, <1>8, <1>9 DEF JoinStep

\* Leave takes fd out of the channel, and the channel away with the last one.
LEMMA LeaveOut ==
    ASSUME IInv, NEW fd \in Fds, NEW name \in DOMAIN channelList, fd \in Members(name),
           channelList' = Leave(channelList, fd, name), sock' = sock,
           \A h \in DOMAIN clientList : /\ clientList'[h].nickName = clientList[h].nickName
                                        /\ clientList'[h].fd = clientList[h].fd
    PROVE  Out(fd, name)
<1>1. MapsInv /\ name \in ChanNames
    BY DEF IInv, MapsInv
<1>2. /\ DOMAIN channelList \ {name} \subseteq DOMAIN channelList'
      /\ DOMAIN channelList' \subseteq DOMAIN channelList
      /\ \A c \in DOMAIN channelList' : Members(c)' = IF c = name THEN Members(c) \ {fd} ELSE Members(c)
      /\ name \notin DOMAIN channelList' => Members(name) \subseteq {fd}
    BY <1>1, LeaveEffect
<1>3. fd \in Crowd(name)
    BY DEF Crowd, Audience, Members
<1>4. ASSUME NEW c PROVE Crowd(c)' = IF c = name THEN Crowd(c) \ {fd} ELSE Crowd(c)
    <2>1. Crowd(c) = IF c \in DOMAIN channelList THEN Members(c) ELSE {}
        BY DEF Crowd, Audience, Members
    <2>2. Crowd(c)' = IF c \in DOMAIN channelList' THEN Members(c)' ELSE {}
        BY DEF Crowd, Audience, Members
    <2> QED BY <1>2, <2>1, <2>2
<1> QED BY <1>1, <1>3, <1>4 DEF Out

\* deleteChannel leaves the name and the descriptor of a client.
LEMMA SameAfterDelete ==
    ASSUME MapsInv, NEW fd \in DOMAIN clientList, NEW name,
           clientList' = [clientList EXCEPT ![fd] = deleteChannel(@, name)]
    PROVE  \A h \in DOMAIN clientList : /\ clientList'[h].nickName = clientList[h].nickName
                                        /\ clientList'[h].fd = clientList[h].fd
<1> DEFINE cl == deleteChannel(clientList[fd], name)
<1>1. cl.nickName = clientList[fd].nickName /\ cl.fd = clientList[fd].fd
    BY DEF deleteChannel, MapsInv, Clients
<1> HIDE DEF cl
<1>2. \A h \in DOMAIN clientList : clientList'[h] = IF h = fd THEN cl ELSE clientList[h]
    BY DEF MapsInv, cl
<1> QED BY <1>1, <1>2

\* PART and QUIT
LEMMA PartViews ==
    ASSUME IInv, NamesInv, ViewInv, status = "running", ViewStep, PartChannel
    PROVE  ViewInv'
<1> DEFINE fd == job.fd
           name == Head(job.chans)
           n == clientList[fd].nickName
           m == [cmd |-> "PART", from |-> n, chan |-> name, text |-> job.reason]
<1>1. /\ job.op = "PART" /\ job # Idle /\ fd \in DOMAIN clientList /\ fd \in Fds /\ job \in PartJobs
      /\ Quitter = {} /\ Quitter \subseteq Quitter'
    BY JobTypes DEF PartChannel, IInv, JobInv, MapsInv, Quitter, Idle
<1>2. CASE /\ findChannelOf(clientList[fd], name)
           /\ reciveBuf' = messageAllChannel(reciveBuf, channelList, fd, name, "PART", job.reason)
           /\ channelList' = Leave(channelList, fd, name)
           /\ clientList' = [clientList EXCEPT ![fd] = deleteChannel(@, name)]
           /\ UNCHANGED <<sock, status>>
    <2>1. name \in ListedBy(fd)
        BY <1>1, <1>2 DEF ListedBy, findChannelOf
    <2>2. name \in DOMAIN channelList /\ fd \in Members(name)
        BY <1>1, <2>1 DEF IInv, MapsInv, MembershipAgrees
    <2>3. \A h \in DOMAIN clientList : /\ clientList'[h].nickName = clientList[h].nickName
                                       /\ clientList'[h].fd = clientList[h].fd
        BY <1>1, <1>2, SameAfterDelete DEF IInv
    <2>4. Out(fd, name)
        BY <1>1, <1>2, <2>2, <2>3, LeaveOut
    <2>5. Quitter' = {}
        BY <1>1 DEF PartChannel, PartJobs, Quitter
    <2>6. reciveBuf' = appendReciveBuf(reciveBuf, Crowd(name), m)
        BY <1>2 DEF messageAllChannel, Crowd
    <2>7. ASSUME NEW seen, NEW me
          PROVE  Heard(seen, m, me) = [seen EXCEPT ![name] = IF me = n THEN {} ELSE @ \ {n}]
        <3>1. m.cmd = "PART" /\ m.from = n /\ m.chan = name
            OBVIOUS
        <3> HIDE DEF m, name, n
        <3> QED BY <3>1 DEF Heard
    <2> HIDE DEF m, name
    <2> QED BY <1>1, <2>4, <2>5, <2>6, <2>7, OutViews
<1>3. CASE Reply(fd, "442", name) \/ Reply(fd, "403", name)
    <2>1. "442" \notin ViewCmds /\ "403" \notin ViewCmds
        BY DEF ViewCmds
    <2> QED BY <1>1, <1>3, <2>1, StillEffects
<1> QED BY <1>2, <1>3 DEF PartChannel

LEMMA QuitChannelViews ==
    ASSUME IInv, NamesInv, ViewInv, status = "running", ViewStep, QuitChannel
    PROVE  ViewInv'
<1> DEFINE fd == job.fd
           name == Head(job.chans)
           n == clientList[fd].nickName
           gone == [channelList EXCEPT ![name] = Removed(@, fd)]
           m == [cmd |-> "QUIT", from |-> n, chan |-> "", text |-> job.reason]
<1>1. /\ job.op = "QUIT" /\ job # Idle /\ fd \in DOMAIN clientList /\ fd \in Fds /\ job \in QuitJobs
      /\ Quitter = {fd} /\ job.chans # <<>>
    BY JobTypes DEF QuitChannel, IInv, JobInv, MapsInv, Quitter, Idle
<1>2. /\ name \in DOMAIN channelList /\ channelList' = Leave(channelList, fd, name)
      /\ reciveBuf' = messageAllChannel(reciveBuf, gone, fd, name, "QUIT", job.reason)
      /\ job' = [job EXCEPT !.chans = Tail(@)] /\ UNCHANGED <<clientList, sock, status>>
    BY DEF QuitChannel
<1>3. Quitter' = {fd}
    BY <1>1, <1>2 DEF QuitJobs, Quitter
<1>4. name \in ListedBy(fd)
    <2>1. name \in ToSet(job.chans)
        BY <1>1, TailList DEF QuitJobs
    <2> QED BY <1>1, <2>1 DEF ListedBy
<1>5. fd \in Members(name)
    BY <1>1, <1>2, <1>4 DEF IInv, MapsInv, MembershipAgrees
<1>6. Out(fd, name)
    BY <1>1, <1>2, <1>5, LeaveOut
<1>7. Audience(gone, name) = Crowd(name) \ {fd}
    <2> DEFINE ch == Removed(channelList[name], fd)
    <2>1. ToSet(ch.clientFdList) = ToSet(channelList[name].clientFdList) \ {fd}
        BY <1>1, <1>2, RemovedGood DEF IInv, MapsInv
    <2> HIDE DEF ch
    <2>2. name \in DOMAIN gone /\ gone[name] = ch
        BY <1>2 DEF ch
    <2> HIDE DEF gone
    <2> QED BY <1>2, <2>1, <2>2 DEF Audience, Crowd
<1>8. reciveBuf' = appendReciveBuf(reciveBuf, Crowd(name) \ {fd}, m)
    BY <1>2, <1>7 DEF messageAllChannel
<1>9. ASSUME NEW seen, NEW me PROVE Heard(seen, m, me) = [c \in ChanNames |-> seen[c] \ {n}]
    <2>1. m.cmd = "QUIT" /\ m.from = n
        OBVIOUS
    <2> HIDE DEF m, n
    <2> QED BY <2>1 DEF Heard
<1> HIDE DEF m, name
<1> QED BY <1>1, <1>3, <1>6, <1>8, <1>9, QuitViews

LEMMA LeaveViews ==
    ASSUME IInv, NamesInv, ViewInv, status = "running", ViewStep, LeaveStep
    PROVE  ViewInv'
<1>1. CASE PartDone
    <2>1. Quitter \subseteq Quitter'
        BY <1>1 DEF PartDone, Quitter
    <2> QED BY <1>1, <2>1, StillEffects DEF PartDone
<1>2. CASE QuitDone
    <2>1. job.op = "QUIT" /\ job.chans = <<>> /\ Drop(job.fd) /\ job.fd \in DOMAIN clientList
        BY <1>2 DEF QuitDone, IInv, JobInv
    <2>2. ListedBy(job.fd) = {}
        BY <2>1 DEF ListedBy, ToSet
    <2>3. ASSUME NEW c PROVE job.fd \notin Crowd(c)
        <3>1. c \in DOMAIN channelList => job.fd \notin Members(c)
            BY <2>1, <2>2 DEF IInv, MapsInv, MembershipAgrees
        <3> QED BY <3>1 DEF Crowd, Audience, Members
    <2>4. Quitter \subseteq {job.fd}
        BY DEF Quitter
    <2>5. Settled
        BY <2>1, <2>3, <2>4, SettledDrop
    <2>6. UnheardStep
        BY <2>1, EffectsUnheard DEF IInv
    <2> QED BY <2>5, <2>6, StillViews
<1> QED BY <1>1, <1>2, PartViews, QuitChannelViews DEF LeaveStep

\* KICK
LEMMA KickTargetViews ==
    ASSUME IInv, NamesInv, ViewInv, status = "running", ViewStep, job.op = "KICK", NEW name \in DOMAIN channelList,
           NEW nickname, KickTarget(name, nickname)
    PROVE  ViewInv'
<1> DEFINE fd == job.fd
           target == findClient(nickname)
           victim == clientList[target].fd
           n == clientList[victim].nickName
           m == [cmd |-> "KICK", from |-> clientList[fd].nickName, chan |-> name, text |-> <<nickname>>]
<1>1. job \in KickJobs /\ job # Idle /\ Quitter = {} /\ Quitter \subseteq Quitter'
    BY JobTypes DEF IInv, JobInv, Quitter, Idle
<1>2. CASE NoEffect
    BY <1>1, <1>2, StillEffects
<1>3. CASE Reply(fd, "401", "") \/ Reply(fd, "441", name)
    <2>1. "401" \notin ViewCmds /\ "441" \notin ViewCmds
        BY DEF ViewCmds
    <2> QED BY <1>1, <1>3, <2>1, StillEffects
<1>4. CASE /\ ClientsNamed(nickname) # {} /\ victim # NoFd
           /\ diffClientInChannel(channelList[name], victim)
           /\ reciveBuf' = messageAllChannel(reciveBuf, channelList, fd, name, "KICK", <<nickname>>)
           /\ channelList' = [channelList EXCEPT ![name] = Removed(@, victim)]
           /\ clientList' = [clientList EXCEPT ![target] = deleteChannel(@, name)]
           /\ UNCHANGED <<sock, status>>
           /\ job' = [job EXCEPT !.chans = Tail(@), !.nickIter = @ + 1]
    <2>1. /\ victim = target /\ n = nickname /\ target \in DOMAIN clientList
          /\ name \in ChanNames /\ target \in Fds
        BY <1>4, FindClient DEF IInv, MapsInv
    <2>2. Quitter' = {}
        BY <1>1, <1>4 DEF KickJobs, Quitter
    <2>3. \A h \in DOMAIN clientList : /\ clientList'[h].nickName = clientList[h].nickName
                                       /\ clientList'[h].fd = clientList[h].fd
        BY <1>4, <2>1, SameAfterDelete DEF IInv
    <2>4. Out(victim, name)
        <3> DEFINE ch == Removed(channelList[name], victim)
        <3>1. ToSet(ch.clientFdList) = ToSet(channelList[name].clientFdList) \ {victim}
            <4>1. victim \in Fds /\ GoodChannel(channelList[name])
                BY <2>1 DEF IInv, MapsInv
            <4> HIDE DEF victim
            <4> QED BY <4>1, RemovedGood
        <3> HIDE DEF ch
        <3>2. channelList' = [channelList EXCEPT ![name] = ch]
            BY <1>4 DEF ch
        <3>3. \A c : Crowd(c)' = IF c = name THEN Crowd(c) \ {victim} ELSE Crowd(c)
            BY <3>1, <3>2 DEF Crowd, Audience
        <3>4. victim \in Crowd(name)
            BY <1>4 DEF diffClientInChannel, Crowd, Audience
        <3>5. sock' = sock
            BY <1>4
        <3> HIDE DEF victim
        <3> QED BY <2>1, <2>3, <3>3, <3>4, <3>5 DEF Out
    <2>5. reciveBuf' = appendReciveBuf(reciveBuf, Crowd(name), m)
        BY <1>4 DEF messageAllChannel, Crowd
    <2>6. ASSUME NEW seen, NEW me
          PROVE  Heard(seen, m, me) = [seen EXCEPT ![name] = IF me = n THEN {} ELSE @ \ {n}]
        <3>1. m.cmd = "KICK" /\ m.chan = name /\ m.text[1] = n
            BY <2>1
        <3> HIDE DEF m, n
        <3> QED BY <3>1 DEF Heard
    <2> HIDE DEF m, victim
    <2> QED BY <1>1, <2>2, <2>4, <2>5, <2>6, OutViews
<1> QED BY <1>2, <1>3, <1>4 DEF KickTarget

LEMMA KickViews ==
    ASSUME IInv, NamesInv, ViewInv, status = "running", ViewStep, KickStep
    PROVE  ViewInv'
<1>1. job.op = "KICK" /\ Quitter \subseteq Quitter'
    BY DEF KickStep, KickChannel, KickDone, Quitter
<1>2. ASSUME NEW name \in DOMAIN channelList, NEW nickname, KickTarget(name, nickname) PROVE ViewInv'
    BY <1>1, <1>2, KickTargetViews
<1>3. CASE NoEffect \/ Undefined
    BY <1>1, <1>3, StillEffects DEF Undefined
<1>4. ASSUME NEW name, Reply(job.fd, "403", name) PROVE ViewInv'
    <2>1. "403" \notin ViewCmds
        BY DEF ViewCmds
    <2> QED BY <1>1, <1>4, <2>1, StillEffects
<1> QED BY <1>2, <1>3, <1>4 DEF KickStep, KickChannel, KickDone

\* MODE
LEMMA ModeSettled ==
    ASSUME IInv, ModeStep
    PROVE  Settled
<1> USE DEF IInv
<1>1. job.op = "MODE" /\ Quitter \subseteq Quitter'
    BY DEF ModeStep, ModeSign, ModeFlag, ModeKey, ModeLimit, ModeOperator, ModeUnknown, ModeDone, Letter,
           Quitter
<1>2. CASE UNCHANGED <<clientList, channelList, sock>>
    BY <1>1, <1>2, SettledSame
<1>3. CASE ModeDone \/ ModeSign \/ ModeUnknown
    BY <1>2, <1>3 DEF ModeDone, ModeSign, ModeUnknown, NoEffect, Reply
<1>4. CASE job.letters # <<>>
    <2> DEFINE ch == channelList[job.chan]
               m == Head(job.letters)
               w == Head(job.values)
    <2>1. /\ job.chan \in DOMAIN channelList /\ GoodChannel(ch) /\ ch \in Channels /\ job.sign \in Signs
          /\ job.fd \in Fds /\ (HasValue => w \in Words)
        BY <1>1, <1>4, ModeFacts DEF HasValue, GoodChannel
    <2> HIDE DEF m, w
    <2>2. ASSUME NEW new, NEW values, NEW shown, NEW plus, Apply(new, values, shown, plus),
                 new.clientFdList = ch.clientFdList
          PROVE  Settled
        <3>1. UNCHANGED <<clientList, sock>> /\ channelList' = [channelList EXCEPT ![job.chan] = new]
            BY <2>2 DEF Apply
        <3> QED BY <1>1, <2>1, <2>2, <3>1, SettledPut
    <2> HIDE DEF ch
    <2>3. ASSUME NEW values, Skip(values) PROVE Settled
        BY <1>2, <2>3 DEF Skip, NoEffect
    <2>4. ASSUME NEW x, GoodChannel(x), x.clientFdList = ch.clientFdList,
                 NEW letter \in {"i", "t", "k", "l"}, NEW sign \in Signs
          PROVE  setMode(x, letter, sign, job.fd).clientFdList = ch.clientFdList
        <3>1. \A fd \in Fds : SameRanks(x, setMode(x, letter, sign, fd))
            BY <2>4, SettingsGood
        <3>2. SameRanks(x, setMode(x, letter, sign, job.fd))
            BY <2>1, <3>1
        <3> QED BY <2>4, <3>2 DEF SameRanks
    <2>5. CASE ModeFlag
        <3>1. m \in {"i", "t"}
            BY <2>5 DEF ModeFlag, Letter, m
        <3>2. setMode(ch, m, job.sign, job.fd).clientFdList = ch.clientFdList
            BY <2>1, <2>4, <3>1
        <3> QED BY <2>2, <2>3, <2>5, <3>2 DEF ModeFlag, ch, m
    <2>6. ASSUME NEW word \in Words, NEW sign \in Signs
          PROVE  setMode(setKey(ch, word), "k", sign, job.fd).clientFdList = ch.clientFdList
        <3>1. GoodChannel(setKey(ch, word)) /\ setKey(ch, word).clientFdList = ch.clientFdList
            BY <2>1, SettingsGood DEF SameRanks
        <3> QED BY <2>4, <3>1
    <2>7. CASE ModeKey
        <3>1. "" \in Words /\ "+" \in Signs /\ "-" \in Signs
            BY WordsAssumption DEF Signs
        <3>2. /\ HasValue => setMode(setKey(ch, w), "k", "+", job.fd).clientFdList = ch.clientFdList
              /\ setMode(setKey(ch, ""), "k", "-", job.fd).clientFdList = ch.clientFdList
            BY <2>1, <2>6, <3>1
        <3> QED BY <2>2, <2>3, <2>7, <3>2 DEF ModeKey, ch, w
    <2>8. ASSUME NEW n \in Nat, NEW sign \in Signs
          PROVE  setMode(setLimit(ch, n), "l", sign, job.fd).clientFdList = ch.clientFdList
        <3>1. GoodChannel(setLimit(ch, n)) /\ setLimit(ch, n).clientFdList = ch.clientFdList
            BY <2>1, SettingsGood DEF SameRanks
        <3> QED BY <2>4, <3>1
    <2>9. CASE ModeLimit
        <3>1. 0 \in Nat /\ "+" \in Signs /\ "-" \in Signs
            BY DEF Signs
        <3>2. IsLimit(w) => Atoi[w] \in Nat
            <4> SUFFICES ASSUME IsLimit(w) PROVE Atoi[w] \in Nat
                OBVIOUS
            <4>1. Atoi[w] \in Int /\ Atoi[w] >= 0
                BY WordsAssumption DEF IsLimit
            <4> QED BY <4>1
        <3>3. /\ IsLimit(w) => setMode(setLimit(ch, Atoi[w]), "l", "+", job.fd).clientFdList = ch.clientFdList
              /\ setMode(setLimit(ch, 0), "l", "-", job.fd).clientFdList = ch.clientFdList
            BY <2>8, <3>1, <3>2
        <3> QED BY <2>2, <2>3, <2>9, <3>3 DEF ModeLimit, ch, w
    <2>10. CASE ModeOperator
        <3> DEFINE target == clientList[findClient(w)].fd
        <3>1. diffClientInChannel(ch, target) =>
                  setMode(ch, "o", job.sign, target).clientFdList = ch.clientFdList
            BY <2>1, OperatorGood DEF diffClientInChannel
        <3>2. ASSUME NEW code, NEW chan, Reply(job.fd, code, chan) PROVE Settled
            BY <1>2, <3>2 DEF Reply
        <3>3. CASE NoEffect
            BY <1>2, <3>3 DEF NoEffect
        <3> QED BY <2>2, <2>3, <2>10, <3>1, <3>2, <3>3 DEF ModeOperator, ch, w
    <2> QED BY <1>3, <2>5, <2>7, <2>9, <2>10 DEF ModeStep
<1>5. CASE job.letters = <<>>
    BY <1>3, <1>5 DEF ModeStep, ModeSign, ModeFlag, ModeKey, ModeLimit, ModeOperator, ModeUnknown, Letter
<1> QED BY <1>4, <1>5

LEMMA ModeUnheard ==
    ASSUME BufInv, ModeStep
    PROVE  UnheardStep
<1>1. ASSUME NEW values, Skip(values) PROVE UnheardStep
    BY <1>1, EffectsUnheard DEF Skip
<1>2. ASSUME NEW ch, NEW values, NEW shown, NEW plus, Apply(ch, values, shown, plus) PROVE UnheardStep
    BY <1>2, UnheardSteps DEF Apply
<1>3. CASE ModeFlag \/ ModeKey
    BY <1>1, <1>2, <1>3 DEF ModeFlag, ModeKey
<1>4. CASE ModeLimit
    BY <1>1, <1>2, <1>4 DEF ModeLimit
<1>5. {"401", "441", "472", "482", "MODE"} \cap ViewCmds = {}
    BY DEF ViewCmds
<1>6. CASE ModeOperator
    BY <1>1, <1>2, <1>5, <1>6, EffectsUnheard DEF ModeOperator
<1>7. CASE ModeSign \/ ModeUnknown
    BY <1>5, <1>7, EffectsUnheard DEF ModeSign, ModeUnknown
<1>8. CASE ModeDone
    BY <1>5, <1>8, EffectsUnheard, UnheardSteps DEF ModeDone
<1> QED BY <1>3, <1>4, <1>6, <1>7, <1>8 DEF ModeStep

\* PRIVMSG
LEMMA PrivmsgViews ==
    ASSUME IInv, ViewInv, status = "running", ViewStep, PrivmsgStep
    PROVE  ViewInv'
<1>1. Quitter \subseteq Quitter' /\ BufInv
    BY DEF PrivmsgStep, PrivmsgChannel, PrivmsgClient, PrivmsgDone, Quitter, IInv
<1>2. "404" \notin ViewCmds /\ "PRIVMSG" \notin ViewCmds
    BY DEF ViewCmds
<1>3. CASE NoEffect \/ Undefined
    BY <1>1, <1>3, StillEffects DEF Undefined
<1>4. ASSUME NEW name, Reply(job.fd, "404", name) PROVE ViewInv'
    BY <1>1, <1>2, <1>4, StillEffects
<1>5. ASSUME NEW name, NEW text,
             reciveBuf' = messageAllChannel(reciveBuf, channelList, job.fd, name, "PRIVMSG", text),
             UNCHANGED <<clientList, channelList, sock, status>>
      PROVE  ViewInv'
    <2>1. UnheardStep
        BY <1>1, <1>2, <1>5, EffectsUnheard
    <2> QED BY <1>1, <1>5, <2>1, StillEffects
<1>6. ASSUME NEW target, NEW from, NEW text,
             reciveBuf' = appendReciveBuf(reciveBuf, {target},
                 [cmd |-> "PRIVMSG", from |-> from, chan |-> from, text |-> text]),
             UNCHANGED <<clientList, channelList, sock, status>>
      PROVE  ViewInv'
    <2> DEFINE m == [cmd |-> "PRIVMSG", from |-> from, chan |-> from, text |-> text]
    <2>1. m.cmd \notin ViewCmds
        BY <1>2
    <2>2. reciveBuf' = appendReciveBuf(reciveBuf, {target}, m)
        BY <1>6
    <2> HIDE DEF m
    <2>3. UnheardStep
        BY <1>1, <2>1, <2>2, EffectsUnheard
    <2> QED BY <1>1, <1>6, <2>3, StillEffects
<1>7. CASE PrivmsgChannel
    BY <1>4, <1>5, <1>7 DEF PrivmsgChannel
<1>8. CASE PrivmsgClient
    BY <1>3, <1>6, <1>8 DEF PrivmsgClient
<1> QED BY <1>3, <1>7, <1>8 DEF PrivmsgStep, PrivmsgDone

\* PASS, NICK and USER
LEMMA UnregisteredNowhere ==
    ASSUME IInv, NEW fd, ~getIsRegist(clientList[fd])
    PROVE  \A c : fd \notin Crowd(c)
BY CrowdFacts

LEMMA DropViews ==
    ASSUME IInv, ViewInv, status = "running", ViewStep, NEW fd \in DOMAIN clientList, Drop(fd),
           ~getIsRegist(clientList[fd]), Quitter \subseteq {fd}
    PROVE  ViewInv'
<1>1. Settled
    BY UnregisteredNowhere, SettledDrop
<1>2. UnheardStep
    BY EffectsUnheard DEF IInv
<1> QED BY <1>1, <1>2, StillViews

LEMMA RegisteringViews ==
    ASSUME IInv, NamesInv, ViewInv, status = "running", ViewStep, NEW fd \in sock, NEW r, Registering(fd, r),
           job.op # "QUIT", job'.op # "QUIT"
    PROVE  ViewInv'
<1>1. /\ fd \in DOMAIN clientList /\ Quitter = {} /\ Quitter \subseteq Quitter' /\ BufInv /\ MapsInv
      /\ Quitter \subseteq {fd}
    BY DEF IInv, MapsInv, Quitter
<1>2. ASSUME NEW code \in {"431", "432", "433", "461", "462"}, Reply(fd, code, "") PROVE ViewInv'
    <2>1. code \notin ViewCmds
        BY DEF ViewCmds
    <2> QED BY <1>1, <1>2, <2>1, StillEffects
<1>3. ASSUME ~HasPass(fd), Drop(fd) PROVE ViewInv'
    <2>1. ~getIsRegist(clientList[fd])
        BY <1>3 DEF HasPass, getIsRegist, Registration
    <2> QED BY <1>1, <1>3, <2>1, DropViews
<1>4. ASSUME NEW kind, Register(fd, setRegi(clientList[fd], kind)) PROVE ViewInv'
    <2> DEFINE cl == setRegi(clientList[fd], kind)
    <2>1. cl.nickName = clientList[fd].nickName /\ cl.fd = clientList[fd].fd
        BY <1>1 DEF setRegi, MapsInv, Clients
    <2>2. clientList' = [clientList EXCEPT ![fd] = cl] /\ UNCHANGED <<channelList, sock>>
        BY <1>4 DEF Register
    <2> HIDE DEF cl
    <2>3. Settled
        BY <1>1, <2>1, <2>2, SettledClient
    <2>4. UnheardStep
        BY <1>1, <1>4, UnheardSteps DEF Register
    <2> QED BY <2>3, <2>4, StillViews
<1>5. CASE pass(fd, r)
    BY <1>2, <1>3, <1>4, <1>5 DEF pass
<1>6. CASE user(fd, r)
    BY <1>2, <1>3, <1>4, <1>6 DEF user
<1>7. CASE nick(fd, r)
    <2>1. ASSUME NEW new,
                 reciveBuf' = appendReciveBuf(reciveBuf, NickAudience(fd),
                     [cmd |-> "NICK", from |-> clientList[fd].nickName, chan |-> "", text |-> <<new>>]),
                 clientList' = [clientList EXCEPT ![fd] = setRegi(setNickname(@, new), "NICK")],
                 UNCHANGED <<channelList, sock, status>>
          PROVE  ViewInv'
        BY <2>1, NickViews
    <2> QED BY <1>2, <1>3, <1>7, <2>1 DEF nick
<1> QED BY <1>5, <1>6, <1>7 DEF Registering

LEMMA SignUpViews ==
    ASSUME IInv, NamesInv, ViewInv, status = "running", ViewStep, SignUpStep
    PROVE  ViewInv'
<1>1. job.op = "SIGNUP" /\ Quitter \subseteq Quitter'
    BY DEF SignUpStep, SignUpLine, Welcome, Quitter
<1>2. job.fd \in DOMAIN clientList => job.fd \in sock
    BY <1>1 DEF IInv, JobInv
<1>3. CASE NoEffect \/ Undefined
    BY <1>1, <1>3, StillEffects DEF Undefined
<1>4. CASE SignUpLine
    <2>1. job'.op # "QUIT"
        BY <1>4 DEF SignUpLine, SigningUp
    <2>2. ASSUME NEW r, job.fd \in DOMAIN clientList, Registering(job.fd, r) PROVE ViewInv'
        BY <1>1, <1>2, <2>1, <2>2, RegisteringViews
    <2> QED BY <1>3, <1>4, <2>2 DEF SignUpLine
<1>5. CASE Welcome
    <2>1. "001" \notin ViewCmds
        BY DEF ViewCmds
    <2>2. CASE Reply(job.fd, "001", "")
        BY <1>1, <2>1, <2>2, StillEffects
    <2> QED BY <1>3, <1>5, <2>2 DEF Welcome
<1> QED BY <1>4, <1>5 DEF SignUpStep

\* The commands, as they start.
LEMMA RunViews ==
    ASSUME IInv, NamesInv, ViewInv, status = "running", ViewStep, NEW fd \in Fds, Run(fd)
    PROVE  ViewInv'
<1>1. /\ job = Idle /\ job.op # "QUIT" /\ fd \in DOMAIN clientList /\ fd \in sock /\ BufInv
      /\ Quitter = {} /\ Quitter \subseteq Quitter' /\ Quitter \subseteq {fd}
    <2>1. Event(fd) /\ fd \in DOMAIN clientList
        BY DEF Run
    <2>2. fd \in sock
        BY <2>1, EventFacts DEF IInv
    <2> QED BY <2>1, <2>2 DEF Event, Idle, Quitter, IInv
<1>2. {"331", "332", "324", "INVITE", "341", "TOPIC", "PONG", "401", "403", "421", "442", "443", "461", "482"}
          \cap ViewCmds = {}
    BY DEF ViewCmds
<1>3. ASSUME NEW code, NEW chan, code \notin ViewCmds, Reply(fd, code, chan) PROVE ViewInv'
    BY <1>1, <1>3, StillEffects
<1>4. CASE NoEffect
    BY <1>1, <1>4, StillEffects
<1>5. ASSUME UnheardStep, UNCHANGED <<clientList, channelList, sock>> PROVE ViewInv'
    BY <1>1, <1>5, StillEffects
<1>6. ASSUME UnheardStep, UNCHANGED <<clientList, sock>>, NEW name \in DOMAIN channelList, NEW ch,
             ch.clientFdList = channelList[name].clientFdList,
             channelList' = [channelList EXCEPT ![name] = ch]
      PROVE  ViewInv'
    <2>1. Settled
        BY <1>1, <1>6, SettledPut
    <2> QED BY <1>6, <2>1, StillViews
<1>7. ASSUME NEW r, topic(fd, r) PROVE ViewInv'
    <2> DEFINE name == r.args[1][1]
               ch == channelList[name]
               word == NewTopic(r.args[2][1])
               told == IF ch.topic = "" THEN Numeric("331", name)
                       ELSE [Numeric("332", name) EXCEPT !.text = <<ch.topic>>]
    <2>1. CASE /\ reciveBuf' = appendReciveBuf(reciveBuf, {fd}, told)
               /\ UNCHANGED <<clientList, channelList, sock, status>>
        <3>1. told.cmd \notin ViewCmds
            BY <1>2 DEF Numeric
        <3> HIDE DEF told
        <3>2. UnheardStep
            BY <1>1, <2>1, <3>1, EffectsUnheard
        <3> QED BY <1>5, <2>1, <3>2
    <2>2. CASE /\ name \in DOMAIN channelList
               /\ channelList' = [channelList EXCEPT ![name] = setTopic(ch, word)]
               /\ reciveBuf' = messageAllChannel(reciveBuf, channelList, fd, name, "TOPIC", <<word>>)
               /\ UNCHANGED <<clientList, sock, status>>
        <3> DEFINE new == setTopic(ch, word)
        <3>1. new.clientFdList = ch.clientFdList
            BY <2>2 DEF setTopic, IInv, MapsInv, Channels
        <3>2. UnheardStep
            BY <1>1, <1>2, <2>2, EffectsUnheard
        <3> HIDE DEF new
        <3>3. channelList' = [channelList EXCEPT ![name] = new]
            BY <2>2 DEF new
        <3> QED BY <1>6, <2>2, <3>1, <3>2, <3>3
    <2> HIDE DEF told, word
    <2> QED BY <1>2, <1>3, <1>7, <2>1, <2>2 DEF topic, told, word
<1>8. ASSUME NEW r, invite(fd, r) PROVE ViewInv'
    <2> DEFINE target == findClient(r.args[1][1])
               name == r.args[2][1]
               ch == channelList[name]
               guest == clientList[target].fd
               m == [cmd |-> "INVITE", from |-> clientList[fd].nickName, chan |-> name, text |-> <<>>]
    <2>1. CASE /\ name \in DOMAIN channelList
               /\ reciveBuf' = appendReciveBuf(appendReciveBuf(reciveBuf, {target}, m), {fd}, Numeric("341", name))
               /\ channelList' = [channelList EXCEPT ![name] = appendFdListInvite(@, guest)]
               /\ UNCHANGED <<clientList, sock, status>>
        <3>1. m.cmd \notin ViewCmds /\ Numeric("341", name).cmd \notin ViewCmds
            BY <1>2 DEF Numeric
        <3> HIDE DEF m
        <3>2. Unheard(reciveBuf, appendReciveBuf(reciveBuf, {target}, m))
            BY <1>1, <3>1, AppendUnheard, UnheardSteps
        <3>3. Unheard(reciveBuf, reciveBuf')
            BY <1>1, <2>1, <3>1, <3>2, AppendUnheard, UnheardSteps
        <3>4. UnheardStep
            BY <1>1, <3>3, UnheardSteps
        <3> DEFINE new == appendFdListInvite(ch, guest)
        <3>5. new.clientFdList = ch.clientFdList
            BY <2>1 DEF appendFdListInvite, diffInvite, IInv, MapsInv, Channels
        <3> HIDE DEF new
        <3>6. channelList' = [channelList EXCEPT ![name] = new]
            BY <2>1 DEF new
        <3> QED BY <1>6, <2>1, <3>4, <3>5, <3>6
    <2> QED BY <1>2, <1>3, <1>8, <2>1 DEF invite
<1>9. ASSUME NEW r, mode(fd, r) PROVE ViewInv'
    <2>1. ASSUME NEW name, ModeQuery(fd, name) PROVE ViewInv'
        <3> DEFINE ch == channelList[name]
                   text == IF ~diffMode(ch, "k") THEN <<>>
                           ELSE <<IF diffOperator(ch, fd) THEN ch.key ELSE "<key>">>
                   m == [Numeric("324", name) EXCEPT !.text = text]
        <3>1. m.cmd \notin ViewCmds
            BY <1>2 DEF Numeric
        <3>2. reciveBuf' = appendReciveBuf(reciveBuf, {fd}, m) /\ UNCHANGED <<clientList, channelList, sock>>
            BY <2>1 DEF ModeQuery
        <3> HIDE DEF m
        <3>3. UnheardStep
            BY <1>1, <3>1, <3>2, EffectsUnheard
        <3> QED BY <1>5, <3>2, <3>3
    <2> QED BY <1>2, <1>3, <1>4, <1>9, <2>1 DEF mode
<1>10. ASSUME NEW r, privmsg(fd, r) \/ quit(fd, r) \/ part(fd, r) \/ join(fd, r) \/ kick(fd, r) PROVE ViewInv'
    BY <1>2, <1>3, <1>4, <1>10 DEF privmsg, quit, part, join, kick
<1>11. CASE list(fd)
    <2>1. UnheardStep
        BY <1>1, <1>11, UnheardSteps DEF list
    <2> QED BY <1>5, <1>11, <2>1 DEF list
<1>12. ASSUME NEW r, ping(fd, r) PROVE ViewInv'
    <2>1. "461" \notin ViewCmds /\ "PONG" \notin ViewCmds
        BY <1>2
    <2> QED BY <1>3, <1>12, <2>1 DEF ping
<1>13. ASSUME NEW r, signIn(fd, r) PROVE ViewInv'
    <2>1. CASE Registering(fd, r) /\ job' = Idle
        <3>1. job'.op # "QUIT"
            BY <2>1 DEF Idle
        <3> QED BY <1>1, <2>1, <3>1, RegisteringViews
    <2> QED BY <1>2, <1>3, <1>4, <1>7, <1>8, <1>9, <1>10, <1>11, <1>12, <1>13, <2>1 DEF signIn
<1>14. ASSUME NEW r, signUp(fd, r) PROVE ViewInv'
    <2>1. job'.op # "QUIT"
        BY <1>14 DEF signUp, SigningUp
    <2>2. CASE Drop(fd)
        BY <1>1, <1>14, <2>2, DropViews DEF signUp
    <2> QED BY <1>1, <1>14, <2>1, <2>2, RegisteringViews DEF signUp
<1> QED BY <1>4, <1>13, <1>14 DEF Run, irssiSignUp

-----------------------------------------------------------------------------
(***************************************************************************)
(* Every step                                                              *)
(***************************************************************************)
LEMMA JobViews ==
    ASSUME IInv, NamesInv, ViewInv, status = "running", ViewStep, JobStep
    PROVE  ViewInv'
<1>1. CASE ModeStep
    <2>1. Settled /\ UnheardStep
        BY <1>1, ModeSettled, ModeUnheard DEF IInv
    <2> QED BY <2>1, StillViews
<1> QED BY <1>1, JoinViews, LeaveViews, KickViews, PrivmsgViews, SignUpViews DEF JobStep

LEMMA NextViews == IInv /\ NamesInv /\ ViewInv /\ [ViewNext]_viewVars => ViewInv'
<1> SUFFICES ASSUME IInv, NamesInv, ViewInv, [ViewNext]_viewVars PROVE ViewInv'
    OBVIOUS
<1>1. CASE UNCHANGED viewVars
    BY <1>1 DEF viewVars, vars, state, ViewInv, Crowd, Quitter
<1>2. CASE ViewNext
    <2>1. ViewStep /\ Next /\ status = "running"
        BY <1>2 DEF ViewNext, ViewStep, Next, Serve
    <2>2. CASE Shutdown
        BY <2>1, <2>2, StillEffects DEF Shutdown
    <2>3. CASE Accept
        <3>1. Settled
            BY <2>3, SettledAccept
        <3>2. UnheardStep
            BY <2>3, UnheardSteps DEF Accept, IInv
        <3> QED BY <2>1, <3>1, <3>2, StillViews
    <2>4. CASE KEvent \/ Flush
        <3>1. UnheardStep
            BY <2>4, UnheardSteps DEF KEvent, Flush, state, IInv
        <3>2. UNCHANGED <<clientList, channelList, sock, job>>
            BY <2>4 DEF KEvent, Flush, state
        <3>3. Quitter \subseteq Quitter'
            BY <3>2 DEF Quitter
        <3> QED BY <2>1, <3>1, <3>2, <3>3, StillEffects
    <2>5. CASE JobStep
        BY <2>1, <2>5, JobViews
    <2>6. ASSUME NEW fd \in Fds, Run(fd) PROVE ViewInv'
        BY <2>1, <2>6, RunViews
    <2>7. ASSUME NEW fd \in Fds, Eof(fd) \/ ClientSockError(fd) PROVE ViewInv'
        BY <2>1, <2>7, LostViews
    <2> QED BY <2>1, <2>2, <2>3, <2>4, <2>5, <2>6, <2>7
            DEF Next, Serve, ServerSockError, KEventError, BurstError, BrokenPipe
<1> QED BY <1>1, <1>2

\* In the beginning nobody is connected, and between commands nobody is quitting.
LEMMA InitViews == ViewInit => ViewInv
<1> SUFFICES ASSUME ViewInit PROVE ViewInv
    OBVIOUS
<1>1. \A f \in Fds : view[f] = NobodyKnown
    BY DEF ViewInit
<1>2. sock = {}
    BY DEF ViewInit, Init
<1> QED BY <1>1, <1>2 DEF ViewInv, NobodyKnown

LEMMA ViewInvImplies == IInv /\ ViewInv => ViewsRight
<1> SUFFICES ASSUME IInv, ViewInv, job = Idle, status = "running", NEW f \in sock, NEW c \in ChanNames
             PROVE  IF c \in DOMAIN channelList /\ f \in Members(c)
                    THEN clientList[f].fd = f => view[f][c] = {clientList[g].nickName : g \in Members(c)}
                    ELSE view[f][c] = {}
    BY DEF ViewsRight
<1>1. Quitter = {}
    BY DEF Quitter, Idle
<1>2. Fits(view[f][c], f, Crowd(c), clientList, {})
    BY <1>1 DEF ViewInv
<1>3. Crowd(c) = IF c \in DOMAIN channelList THEN Members(c) ELSE {}
    BY DEF Crowd, Audience, Members
<1>4. CASE f \in Crowd(c)
    BY <1>2, <1>3, <1>4 DEF Fits, NamesIn
<1>5. CASE f \notin Crowd(c)
    BY <1>2, <1>3, <1>5 DEF Fits
<1> QED BY <1>3, <1>4, <1>5

\* Between commands every member of a channel whose own descriptor is right knows, from
\* the JOIN, 353, PART, KICK, QUIT and NICK messages it was sent, exactly who is in the
\* channel and by which names, and whoever is not in a channel believes nobody to be in
\* it (messageAllChannel and nameListMsg in src/Command.cpp and the handlers that call
\* them).  Who is lost with a connection, of which nobody is told, is taken out of the
\* views by Views itself.
THEOREM ViewsCorrect == ViewSpec => []ViewsRight
<1>1. ViewInit => IInv /\ NamesInv /\ ViewInv
    <2>1. ViewInit => Init
        BY DEF ViewInit
    <2>2. Init => NamesInv
        BY DEF Init, EmptyMap, NamesInv, NicknamesUnique, NamedApart
    <2> QED BY <2>1, <2>2, InitInv, InitViews
<1>2. IInv /\ NamesInv /\ ViewInv /\ [ViewNext]_viewVars => (IInv /\ NamesInv /\ ViewInv)'
    <2>1. [ViewNext]_viewVars => [Next]_vars
        BY DEF ViewNext, viewVars
    <2> QED BY <2>1, NextInv, NextNames, NextViews
<1> QED BY <1>1, <1>2, ViewInvImplies, PTL DEF ViewSpec
=============================================================================
