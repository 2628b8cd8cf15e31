----------------------------- MODULE StepProofs -----------------------------
(***************************************************************************)
(* What a step may do to the channels.  Every step is one of a dozen kinds *)
(* (the catalogue); the action properties of Server follow from the kinds, *)
(* and so does that it implements ChatRooms.                               *)
(***************************************************************************)
EXTENDS HandlerProofs, Rooms

(***************************************************************************)
(* The catalogue                                                           *)
(***************************************************************************)
Quiet == UNCHANGED channelList

\* One channel becomes ch and the others stay as they are.
Put(name, ch) ==
    /\ name \in DOMAIN channelList
    /\ channelList' = [channelList EXCEPT ![name] = ch]

\* JOIN of a new channel.
Opened ==
    /\ job.op = "JOIN" /\ JoinName \in ChanNames \ DOMAIN channelList
    /\ channelList' = With(channelList, JoinName, appendFdListClient(NewChannel(job.fd), job.fd))

\* What +k asks of a JOIN: the key given at the place the channel has in the list.
RightKey(ch) ==
    "k" \in ch.modes => /\ job.argc > 2
                        /\ job.iter <= Len(job.keys) =>
                             job.iter < Len(job.keys) /\ job.keys[job.iter + 1] = ch.key

\* JOIN of a channel there is.
Entered(name) ==
    /\ job.op = "JOIN" /\ name \in DOMAIN channelList /\ job.fd \notin Members(name)
    /\ ~NotInvited(channelList[name], job.fd) /\ ~Full(channelList[name])
    /\ RightKey(channelList[name])
    /\ Put(name, appendFdListClient(channelList[name], job.fd))

\* A channel of PART or QUIT.
Left(name) ==
    /\ job.op \in {"PART", "QUIT"} /\ name \in DOMAIN channelList /\ job.fd \in Members(name)
    /\ channelList' = Leave(channelList, job.fd, name)

\* A channel of KICK.
PutOut(name, victim) ==
    /\ job.op = "KICK" /\ name \in DOMAIN channelList /\ job.fd \in Operators(name)
    /\ victim \in Members(name) /\ victim # job.fd
    /\ Put(name, Removed(channelList[name], victim))

\* A letter of MODE by an operator.
Ruled(ch) ==
    /\ job.op = "MODE" /\ job.chan \in DOMAIN channelList /\ job.fd \in Operators(job.chan)
    /\ Put(job.chan, ch)

\* i, t, k or l is set, or cleared; the limit goes with l, and the rest stays.
Flagged(m, new) ==
    LET ch == channelList[job.chan] IN
    /\ m \in {"i", "t", "k", "l"} /\ (m # "l" => new.limit = ch.limit)
    /\ new.clientFdList = ch.clientFdList /\ new.operatorFdList = ch.operatorFdList
    /\ SameGuests(ch, new) /\ new.topic = ch.topic
    /\ Ruled(new)
Set(m, new) ==
    /\ Flagged(m, new) /\ new.modes = channelList[job.chan].modes \cup {m}
    /\ m = "l" => new.limit \in MayBeLimit
Cleared(m, new) ==
    /\ Flagged(m, new) /\ new.modes = channelList[job.chan].modes \ {m}
    /\ m = "l" => new.limit = 0

\* o
Ranked(target) ==
    /\ job.chan \in DOMAIN channelList /\ target \in Members(job.chan) /\ target # job.fd
    /\ job.sign \in {"+", "-"}
    /\ Ruled(setMode(channelList[job.chan], "o", job.sign, target))

\* TOPIC
Retitled(fd, name, word) ==
    /\ Event(fd) /\ name \in DOMAIN channelList /\ fd \in Members(name) /\ word \in Words
    /\ "t" \in channelList[name].modes => fd \in Operators(name)
    /\ Put(name, setTopic(channelList[name], word))

\* INVITE
Invited(fd, name, guest) ==
    /\ Event(fd) /\ name \in DOMAIN channelList /\ fd \in Operators(name)
    /\ guest \in Fds \cup {NoFd} /\ guest \notin Members(name)
    /\ Put(name, appendFdListInvite(channelList[name], guest))

\* A connection is lost.
Lost(fd) ==
    /\ Event(fd) /\ fd \in DOMAIN clientList /\ sock' = sock \ {fd}
    /\ channelList' = Disconnected(fd)

\* The server ends.
Closed == channelList' = EmptyMap

Catalogued ==
    \/ Quiet \/ Opened \/ Closed
    \/ \E name \in DOMAIN channelList : Entered(name) \/ Left(name)
    \/ \E name \in DOMAIN channelList, victim \in Fds : PutOut(name, victim)
    \/ \E m, new : Set(m, new) \/ Cleared(m, new)
    \/ \E target \in Fds : Ranked(target)
    \/ \E fd \in Fds, name \in DOMAIN channelList, word \in Words : Retitled(fd, name, word)
    \/ \E fd \in Fds, name \in DOMAIN channelList, guest \in Fds \cup {NoFd} : Invited(fd, name, guest)
    \/ \E fd \in Fds : Lost(fd)

-----------------------------------------------------------------------------
(***************************************************************************)
(* KICK keeps the right it has checked at its start.                       *)
(***************************************************************************)
KickRight ==
    job.op = "KICK" =>
        \A c \in ToSet(job.chans) \cap DOMAIN channelList : job.fd \in Operators(c)

-----------------------------------------------------------------------------
(***************************************************************************)
(* Every step is in the catalogue, handler by handler.                     *)
(***************************************************************************)
\* JOIN
LEMMA JoinKinds ==
    ASSUME IInv, KeysAligned, JoinIters, JoinStep
    PROVE  Catalogued
<1> USE DEF IInv
<1>1. job.op = "JOIN" /\ job \in JoinJobs
    BY JobTypes DEF JobInv, JoinStep, JoinBadName, JoinNewChannel, JoinExisting, JoinDone, Joining
<1>2. job.iter \in Nat /\ job.keyIter \in Nat /\ job.argc \in Nat /\ Len(job.keys) \in Nat
    BY <1>1, LenProperties DEF JoinJobs
<1>3. CASE Quiet
    BY <1>3 DEF Catalogued
<1>4. CASE JoinNewChannel
    BY <1>1, <1>4 DEF JoinNewChannel, Enter, Opened, Catalogued
<1>5. CASE JoinExisting
    <2> DEFINE name == JoinName
               ch == channelList[name]
    <2>1. name \in DOMAIN channelList
        BY <1>5 DEF JoinExisting
    <2> HIDE DEF name
    <2>2. ASSUME Enter(job.fd, name, ch), ~diffClientInChannel(ch, job.fd), ~NotInvited(ch, job.fd),
                 ~Full(ch), RightKey(ch)
          PROVE  Catalogued
        <3>1. channelList' = With(channelList, name, appendFdListClient(ch, job.fd))
            BY <2>2 DEF Enter
        <3>2. channelList' = [channelList EXCEPT ![name] = appendFdListClient(ch, job.fd)]
            BY <2>1, <3>1 DEF With, MapsInv
        <3>3. Entered(name)
            BY <1>1, <2>1, <2>2, <3>2 DEF Entered, Put, Members, diffClientInChannel
        <3> QED BY <2>1, <3>3 DEF Catalogued
    <2>3. ASSUME ~diffMode(ch, "k") PROVE RightKey(ch)
        BY <2>3 DEF RightKey, diffMode
    <2>4. ASSUME ~PastEnd, ~KeyRefused(ch) PROVE RightKey(ch)
        <3>1. job.argc > 2 /\ job.keyIter < Len(job.keys) /\ job.keys[job.keyIter + 1] = ch.key
            BY <1>2, <2>4 DEF PastEnd, KeyRefused, AtEnd, diffKey
        <3>2. job.keyIter = job.iter
            BY <1>1, <3>1 DEF KeysAligned
        <3> QED BY <3>1, <3>2 DEF RightKey
    <2>5. ASSUME PastEnd PROVE RightKey(ch)
        <3>1. job.argc > 2 /\ ~(job.iter <= Len(job.keys))
            BY <1>1, <1>2, <2>5 DEF PastEnd, JoinIters
        <3> QED BY <3>1 DEF RightKey
    <2> QED BY <1>3, <1>5, <2>2, <2>3, <2>4, <2>5 DEF JoinExisting, Reply, Undefined, name, Quiet
<1>6. CASE JoinBadName \/ JoinDone
    BY <1>3, <1>6 DEF JoinBadName, JoinDone, Reply, NoEffect, Quiet
<1> QED BY <1>4, <1>5, <1>6 DEF JoinStep

\* PART and QUIT
LEMMA LeaveKinds ==
    ASSUME IInv, LeaveStep
    PROVE  Catalogued
<1> USE DEF IInv
<1>1. CASE Quiet
    BY <1>1 DEF Catalogued
<1>2. ASSUME NEW name \in DOMAIN channelList, job.op \in {"PART", "QUIT"}, name \in ListedBy(job.fd),
             channelList' = Leave(channelList, job.fd, name)
      PROVE  Catalogued
    <2>1. job.fd \in DOMAIN clientList
        BY <1>2 DEF JobInv
    <2>2. job.fd \in Members(name)
        BY <1>2, <2>1 DEF MapsInv, MembershipAgrees
    <2> QED BY <1>2, <2>2 DEF Left, Catalogued
<1>3. CASE PartChannel
    <2>1. CASE /\ findChannelOf(clientList[job.fd], Head(job.chans))
               /\ channelList' = Leave(channelList, job.fd, Head(job.chans))
        <3>1. job.op = "PART" /\ job.fd \in DOMAIN clientList
            BY <1>3 DEF PartChannel, JobInv
        <3>2. Head(job.chans) \in ListedBy(job.fd)
            BY <2>1, <3>1 DEF ListedBy, findChannelOf
        <3>3. Head(job.chans) \in DOMAIN channelList
            BY <3>1, <3>2 DEF MapsInv, MembershipAgrees
        <3> QED BY <1>2, <2>1, <3>1, <3>2, <3>3
    <2> QED BY <1>1, <1>3, <2>1 DEF PartChannel, Reply, Quiet
<1>4. CASE QuitChannel
    <2>1. /\ job.op = "QUIT" /\ job.chans # <<>> /\ Head(job.chans) \in DOMAIN channelList
          /\ channelList' = Leave(channelList, job.fd, Head(job.chans))
        BY <1>4 DEF QuitChannel
    <2>2. job \in QuitJobs
        BY <2>1, JobTypes DEF JobInv
    <2>3. Head(job.chans) \in ToSet(job.chans)
        BY <2>1, <2>2, TailList DEF QuitJobs
    <2>4. Head(job.chans) \in ListedBy(job.fd)
        BY <2>1, <2>3 DEF ListedBy
    <2> QED BY <1>2, <2>1, <2>4
<1>5. CASE PartDone \/ QuitDone
    BY <1>1, <1>5 DEF PartDone, QuitDone, NoEffect, Drop, Quiet
<1> QED BY <1>3, <1>4, <1>5 DEF LeaveStep

\* KICK
LEMMA KickKinds ==
    ASSUME IInv, KickRight, KickStep
    PROVE  Catalogued
<1> USE DEF IInv
<1>1. CASE Quiet
    BY <1>1 DEF Catalogued
<1>2. CASE KickChannel
    <2> DEFINE name == Head(job.chans)
    <2>1. job.op = "KICK" /\ job.chans # <<>>
        BY <1>2 DEF KickChannel
    <2>2. job \in KickJobs /\ job.fd \in DOMAIN clientList
        BY <2>1, JobTypes DEF JobInv
    <2>3. name \in ToSet(job.chans)
        BY <2>1, <2>2, TailList DEF KickJobs
    <2>4. ASSUME NEW nickname, name \in DOMAIN channelList, KickTarget(name, nickname)
          PROVE  Catalogued
        <3> DEFINE target == findClient(nickname)
                   victim == clientList[target].fd
        <3>1. CASE /\ ClientsNamed(nickname) # {} /\ victim # NoFd
                   /\ nickname # clientList[job.fd].nickName
                   /\ diffClientInChannel(channelList[name], victim)
                   /\ channelList' = [channelList EXCEPT ![name] = Removed(@, victim)]
            <4>1. victim = target /\ clientList[target].nickName = nickname
                BY <3>1, FindClient
            <4>2. victim # job.fd
                BY <3>1, <4>1
            <4>3. victim \in Members(name)
                BY <3>1 DEF diffClientInChannel, Members
            <4>4. victim \in Fds
                BY <2>4, <4>3, NoFdNowhere DEF MapsInv
            <4>5. job.fd \in Operators(name)
                BY <2>1, <2>3, <2>4 DEF KickRight
            <4> HIDE DEF victim
            <4>6. PutOut(name, victim)
                BY <2>1, <2>4, <3>1, <4>2, <4>3, <4>5 DEF PutOut, Put
            <4> QED BY <2>4, <4>4, <4>6 DEF Catalogued
        <3> QED BY <1>1, <2>4, <3>1 DEF KickTarget, Reply, NoEffect, Quiet
    <2> QED BY <1>1, <1>2, <2>4 DEF KickChannel, Reply, Undefined, Quiet
<1>3. CASE KickDone
    BY <1>1, <1>3 DEF KickDone, NoEffect, Quiet
<1> QED BY <1>2, <1>3 DEF KickStep

\* setKey and setLimit leave the lists, the topic and the flags alone.
Draft(ch, x) ==
    /\ x \in Channels /\ x.clientFdList = ch.clientFdList /\ x.operatorFdList = ch.operatorFdList
    /\ SameGuests(ch, x) /\ x.topic = ch.topic /\ x.modes = ch.modes
LEMMA Drafts ==
    ASSUME NEW ch \in Channels
    PROVE  /\ Draft(ch, ch)
           /\ \A w \in Words : Draft(ch, setKey(ch, w)) /\ setKey(ch, w).limit = ch.limit
           /\ \A n \in Nat : Draft(ch, setLimit(ch, n)) /\ setLimit(ch, n).limit = n
<1>1. Draft(ch, ch)
    BY DEF Draft, SameGuests
<1>2. ASSUME NEW w \in Words PROVE Draft(ch, setKey(ch, w)) /\ setKey(ch, w).limit = ch.limit
    BY DEF Draft, SameGuests, setKey, Channels
<1>3. ASSUME NEW n \in Nat PROVE Draft(ch, setLimit(ch, n)) /\ setLimit(ch, n).limit = n
    BY DEF Draft, SameGuests, setLimit, Channels
<1> QED BY <1>1, <1>2, <1>3

\* setMode then sets or clears the flag.
LEMMA FlagForms ==
    ASSUME NEW ch, NEW x, Draft(ch, x), NEW m \in {"i", "t", "k", "l"}, NEW sign \in {"+", "-"}, NEW fd
    PROVE  LET new == setMode(x, m, sign, fd) IN
           /\ new.clientFdList = ch.clientFdList /\ new.operatorFdList = ch.operatorFdList
           /\ SameGuests(ch, new) /\ new.topic = ch.topic /\ new.limit = x.limit
           /\ sign = "+" => new.modes = ch.modes \cup {m}
           /\ sign = "-" => new.modes = ch.modes \ {m}
<1>2. CASE sign = "+"
    <2>1. setMode(x, m, sign, fd) = [x EXCEPT !.modes = @ \cup {m}]
        BY <1>2 DEF setMode
    <2> QED BY <1>2, <2>1 DEF Channels, Draft, SameGuests
<1>3. CASE sign = "-"
    <2>1. setMode(x, m, sign, fd) = [x EXCEPT !.modes = @ \ {m}]
        BY <1>3 DEF setMode
    <2> QED BY <1>3, <2>1 DEF Channels, Draft, SameGuests
<1> QED BY <1>2, <1>3

\* MODE
LEMMA ModeKinds ==
    ASSUME IInv, ModeStep
    PROVE  Catalogued
<1> USE DEF IInv
<1>1. CASE Quiet
    BY <1>1 DEF Catalogued
<1>2. job.op = "MODE"
    BY DEF ModeStep, ModeSign, ModeFlag, ModeKey, ModeLimit, ModeOperator, ModeUnknown, ModeDone, Letter
<1>3. CASE ModeDone \/ ModeSign \/ ModeUnknown
    BY <1>1, <1>3 DEF ModeDone, ModeSign, ModeUnknown, NoEffect, Reply, Quiet
<1>4. CASE job.letters # <<>>
    <2> DEFINE ch == channelList[job.chan]
               m == Head(job.letters)
               w == Head(job.values)
    <2>1. /\ job.chan \in DOMAIN channelList /\ GoodChannel(ch) /\ ch \in Channels /\ job.sign \in Signs
          /\ job.fd \in Operators(job.chan) /\ job.fd \in Fds /\ job.fd \in DOMAIN clientList
          /\ HasValue => w \in Words
        BY <1>2, <1>4, ModeFacts DEF HasValue, GoodChannel, Operators
    <2> HIDE DEF ch, m, w
    <2>2. ASSUME NEW new, NEW values, NEW shown, NEW plus, Apply(new, values, shown, plus)
          PROVE  Ruled(new)
        BY <1>2, <2>1, <2>2 DEF Apply, Ruled, Put
    <2>3. ASSUME NEW values, Skip(values) PROVE Catalogued
        BY <1>1, <2>3 DEF Skip, NoEffect, Quiet
    <2>4. ASSUME NEW letter \in {"i", "t", "k", "l"}, NEW sign \in {"+", "-"},
                 NEW x, Draft(ch, x),
                 letter # "l" => x.limit = ch.limit,
                 letter = "l" /\ sign = "+" => x.limit \in MayBeLimit,
                 letter = "l" /\ sign = "-" => x.limit = 0,
                 Ruled(setMode(x, letter, sign, job.fd))
          PROVE  Catalogued
        <3> DEFINE new == setMode(x, letter, sign, job.fd)
        <3>1. /\ new.clientFdList = ch.clientFdList /\ new.operatorFdList = ch.operatorFdList
              /\ SameGuests(ch, new) /\ new.topic = ch.topic /\ new.limit = x.limit
              /\ sign = "+" => new.modes = ch.modes \cup {letter}
              /\ sign = "-" => new.modes = ch.modes \ {letter}
            BY <2>4, FlagForms
        <3>2. Ruled(new)
            BY <2>4
        <3> HIDE DEF new
        <3>3. Flagged(letter, new)
            BY <2>4, <3>1, <3>2 DEF Flagged, ch
        <3>4. Set(letter, new) \/ Cleared(letter, new)
            BY <2>4, <3>1, <3>3 DEF Set, Cleared, ch
        <3> QED BY <3>4 DEF Catalogued
    <2>6. CASE ModeFlag
        <3>1. m \in {"i", "t"}
            BY <2>6 DEF ModeFlag, Letter, m
        <3>2. CASE Ruled(setMode(ch, m, job.sign, job.fd))
            <4>1. CASE job.sign \in {"+", "-"}
                BY <2>1, <2>4, <3>1, <3>2, <4>1, Drafts
            <4>2. CASE job.sign = "nul"
                <5>1. setMode(ch, m, job.sign, job.fd) = ch
                    BY <3>1, <4>2 DEF setMode
                <5>2. Put(job.chan, ch)
                    BY <3>2, <5>1 DEF Ruled
                <5>3. Quiet
                    BY <2>1, <5>2 DEF Put, Quiet, MapsInv, ch
                <5> QED BY <1>1, <5>3
            <4> QED BY <2>1, <4>1, <4>2 DEF Signs
        <3> QED BY <2>2, <2>3, <2>6, <3>2 DEF ModeFlag, ch, m
    <2>7. CASE ModeKey
        <3>1. CASE HasValue /\ Ruled(setMode(setKey(ch, w), "k", "+", job.fd))
            <4>1. Draft(ch, setKey(ch, w)) /\ setKey(ch, w).limit = ch.limit
                BY <2>1, <3>1, Drafts
            <4> QED BY <2>4, <3>1, <4>1
        <3>2. CASE Ruled(setMode(setKey(ch, ""), "k", "-", job.fd))
            <4>1. Draft(ch, setKey(ch, "")) /\ setKey(ch, "").limit = ch.limit
                BY <2>1, Drafts, WordsAssumption
            <4> QED BY <2>4, <3>2, <4>1
        <3> QED BY <2>2, <2>3, <2>7, <3>1, <3>2 DEF ModeKey, ch, w
    <2>8. CASE ModeLimit
        <3>1. CASE HasValue /\ IsLimit(w) /\ Ruled(setMode(setLimit(ch, Atoi[w]), "l", "+", job.fd))
            <4>1. Atoi[w] \in MayBeLimit
                BY <3>1 DEF IsLimit, MayBeLimit
            <4>2. Atoi[w] \in Nat
                <5>1. Atoi[w] \in Int /\ Atoi[w] >= 0
                    BY <3>1, WordsAssumption DEF IsLimit
                <5> QED BY <5>1
            <4>3. Draft(ch, setLimit(ch, Atoi[w])) /\ setLimit(ch, Atoi[w]).limit = Atoi[w]
                BY <2>1, <4>2, Drafts
            <4> QED BY <2>4, <3>1, <4>1, <4>3
        <3>2. CASE Ruled(setMode(setLimit(ch, 0), "l", "-", job.fd))
            <4>1. Draft(ch, setLimit(ch, 0)) /\ setLimit(ch, 0).limit = 0
                BY <2>1, Drafts
            <4> QED BY <2>4, <3>2, <4>1
        <3> QED BY <2>2, <2>3, <2>8, <3>1, <3>2 DEF ModeLimit, ch, w
    <2>9. CASE ModeOperator
        <3> DEFINE target == clientList[findClient(w)].fd
        <3>1. CASE /\ ClientsNamed(w) # {} /\ ~SelfTarget(w) /\ diffClientInChannel(ch, target)
                   /\ job.sign # "nul" /\ Ruled(setMode(ch, "o", job.sign, target))
            <4>1. target \in Members(job.chan)
                BY <3>1 DEF diffClientInChannel, Members, ch
            <4>2. target # job.fd
                <5>1. findClient(w) # job.fd /\ target \in {findClient(w), NoFd}
                    BY <3>1, FindClient DEF SelfTarget
                <5> QED BY <2>1, <4>1, <5>1, NoFdNowhere
            <4>3. target \in Fds
                BY <2>1, <4>1, NoFdNowhere DEF MapsInv
            <4> HIDE DEF target
            <4>4. Ranked(target)
                BY <2>1, <3>1, <4>1, <4>2 DEF Ranked, Signs, ch
            <4> QED BY <4>3, <4>4 DEF Catalogued
        <3>2. CASE Quiet
            BY <1>1, <3>2
        <3> QED BY <2>2, <2>3, <2>9, <3>1, <3>2 DEF ModeOperator, Reply, NoEffect, Quiet, ch, w
    <2> QED BY <1>3, <2>6, <2>7, <2>8, <2>9 DEF ModeStep
<1>5. CASE job.letters = <<>>
    BY <1>3, <1>5 DEF ModeStep, ModeSign, ModeFlag, ModeKey, ModeLimit, ModeOperator, ModeUnknown, Letter
<1> QED BY <1>4, <1>5

\* A command is in the catalogue: only TOPIC and INVITE change a channel at once.
LEMMA RunKinds ==
    ASSUME IInv, NEW fd \in Fds, Run(fd)
    PROVE  Catalogued
<1> USE DEF IInv
<1>1. CASE Quiet
    BY <1>1 DEF Catalogued
<1>2. Event(fd) /\ fd \in DOMAIN clientList
    BY DEF Run
<1>3. ASSUME NEW r \in Requests, topic(fd, r) PROVE Catalogued
    <2> DEFINE name == r.args[1][1]
               ch == channelList[name]
               word == NewTopic(r.args[2][1])
    <2>1. CASE /\ ~(argc(r) < 2) /\ argc(r) # 2 /\ name \in DOMAIN channelList
               /\ diffClientInChannel(ch, fd) /\ ~TopicLocked(ch, fd)
               /\ channelList' = [channelList EXCEPT ![name] = setTopic(ch, word)]
        <3>1. r \in Cmds /\ "" \in Words
            BY RequestsAssumption, WordsAssumption
        <3>2. argc(r) >= 3
            <4>1. argc(r) \in Nat
                BY <3>1, FirstArgs
            <4>2. ~(argc(r) < 2) /\ argc(r) # 2
                BY <2>1
            <4> QED BY <4>1, <4>2
        <3>3. word \in Words
            <4>1. r.args[2][1] \in Words
                BY <3>1, <3>2, FirstArgs
            <4> QED BY <3>1, <4>1, WordsAssumption DEF NewTopic
        <3> HIDE DEF word
        <3>4. Retitled(fd, name, word)
            BY <1>2, <2>1, <3>3
               DEF Retitled, Put, diffClientInChannel, TopicLocked, diffMode, diffOperator, Members, Operators
        <3> QED BY <2>1, <3>3, <3>4 DEF Catalogued
    <2> QED BY <1>1, <1>3, <2>1 DEF topic, Reply, Quiet
<1>4. ASSUME NEW r \in Requests, invite(fd, r) PROVE Catalogued
    <2> DEFINE nickname == r.args[1][1]
               name == r.args[2][1]
               ch == channelList[name]
               guest == clientList[findClient(nickname)].fd
    <2>1. CASE /\ ClientsNamed(nickname) # {} /\ name \in DOMAIN channelList
               /\ diffOperator(ch, clientList[fd].fd) /\ ~diffClientInChannel(ch, guest)
               /\ channelList' = [channelList EXCEPT ![name] = appendFdListInvite(@, guest)]
        <3>1. guest \in Fds \cup {NoFd}
            BY <2>1, FindClient DEF MapsInv, Clients
        <3>2. clientList[fd].fd \in Operators(name) /\ guest \notin Members(name)
            BY <2>1 DEF diffOperator, Operators, diffClientInChannel, Members
        <3>3. Operators(name) \subseteq Members(name)
            BY <2>1 DEF MapsInv, GoodChannel, Operators, Members
        <3>4. clientList[fd].fd = fd
            BY <1>2, <2>1, <3>2, <3>3, NoFdNowhere DEF MapsInv, GoodClient
        <3> HIDE DEF guest
        <3>5. Invited(fd, name, guest)
            BY <1>2, <2>1, <3>1, <3>2, <3>4 DEF Invited, Put
        <3> QED BY <2>1, <3>1, <3>5 DEF Catalogued
    <2> QED BY <1>1, <1>4, <2>1 DEF invite, Reply, Quiet
<1>5. ASSUME NEW r, Registering(fd, r) PROVE Quiet
    BY <1>5 DEF Registering, pass, nick, user, Reply, Drop, Register, Quiet
<1>6. ASSUME NEW r, mode(fd, r) \/ privmsg(fd, r) \/ quit(fd, r) \/ part(fd, r) \/ join(fd, r) \/ kick(fd, r)
      PROVE  Quiet
    BY <1>6 DEF mode, ModeQuery, privmsg, quit, part, join, kick, Reply, NoEffect, Quiet
<1>7. ASSUME NEW r, list(fd) \/ ping(fd, r) \/ NoEffect \/ Reply(fd, "421", "") \/ Drop(fd) PROVE Quiet
    BY <1>7 DEF list, ping, Reply, NoEffect, Drop, Quiet
<1> QED BY <1>1, <1>3, <1>4, <1>5, <1>6, <1>7 DEF Run, signUp, signIn, irssiSignUp

\* Every step is in the catalogue.
LEMMA NextKinds ==
    ASSUME IInv, KeysAligned, JoinIters, KickRight, [Next]_vars
    PROVE  Catalogued
<1>1. CASE Quiet
    BY <1>1 DEF Catalogued
<1>2. CASE Shutdown
    BY <1>2 DEF Shutdown, Closed, Catalogued
<1>3. CASE Accept \/ KEvent \/ Flush \/ UNCHANGED vars
    BY <1>1, <1>3 DEF Accept, KEvent, Flush, vars, state, Quiet
<1>4. ASSUME NEW fd \in Fds, Eof(fd) \/ ClientSockError(fd) PROVE Catalogued
    BY <1>4 DEF Eof, ClientSockError, Lost, Catalogued
<1>5. CASE PrivmsgStep
    BY <1>1, <1>5 DEF PrivmsgStep, PrivmsgChannel, PrivmsgClient, PrivmsgDone, Reply, NoEffect,
                      Undefined, Quiet
<1>6. CASE SignUpStep
    <2>1. ASSUME NEW r, Registering(job.fd, r) PROVE Quiet
        BY <2>1 DEF Registering, pass, nick, user, Reply, Drop, Register, Quiet
    <2> QED BY <1>1, <1>6, <2>1 DEF SignUpStep, SignUpLine, Welcome, Reply, NoEffect, Undefined, Quiet
<1>7. CASE JobStep
    BY <1>5, <1>6, <1>7, JoinKinds, LeaveKinds, KickKinds, ModeKinds DEF JobStep
<1> QED BY <1>2, <1>3, <1>4, <1>7, RunKinds
        DEF Next, Serve, ServerSockError, KEventError, BurstError, BrokenPipe

-----------------------------------------------------------------------------
(***************************************************************************)
(* What the kinds of the catalogue do to one channel                       *)
(***************************************************************************)
\* Whoever is served, or whose handler is in progress, is the actor.
LEMMA Actors ==
    /\ \A fd : Event(fd) => Actor = {fd} /\ job = Idle
    /\ job.op # "IDLE" => Actor = {job.fd} /\ job # Idle
BY DEF Event, Actor, Idle

\* Put changes one channel.
LEMMA PutEffect ==
    ASSUME NEW name, NEW ch, Put(name, ch)
    PROVE  /\ DOMAIN channelList' = DOMAIN channelList /\ channelList'[name] = ch
           /\ \A c \in DOMAIN channelList : c # name => channelList'[c] = channelList[c]
BY DEF Put

\* A step that changes at most the channel name is proper when that change is.
Proper == RulingStep /\ LastOperatorStep /\ EntryStep /\ EmptyingStep
LEMMA OneChannel ==
    ASSUME NEW name \in DOMAIN channelList, NEW ch,
           \A c \in Kept : channelList'[c] = IF c = name THEN ch ELSE channelList[c],
           LET old == channelList[name] IN
           /\ \/ Actor \subseteq Operators(name)
              \/ /\ SameSettings(old, ch) /\ ToSet(ch.operatorFdList) \subseteq Operators(name)
                 /\ ToSet(ch.inviteFdList) \subseteq ToSet(old.inviteFdList)
                 /\ Members(name) \ ToSet(ch.clientFdList) \subseteq Actor
           /\ Operators(name) # {} /\ ToSet(ch.operatorFdList) = {} =>
                 job.op \in {"PART", "QUIT"} /\ Operators(name) = {job.fd}
           /\ ToSet(ch.clientFdList) \subseteq Members(name)
           /\ Members(name) # {} => ToSet(ch.clientFdList) # {}
    PROVE  Proper
<1>1. RulingStep
    BY DEF RulingStep, Kept, Members, Operators, SameSettings, SameGuests
<1>2. LastOperatorStep
    BY DEF LastOperatorStep, Kept, Operators
<1>3. EntryStep
    BY DEF EntryStep, Kept, Members
<1>4. EmptyingStep
    BY DEF EmptyingStep, Kept, Members
<1> QED BY <1>1, <1>2, <1>3, <1>4 DEF Proper

\* A connection is lost: one descriptor less in the channels it is in, and nothing else.
LEMMA LostChannel ==
    ASSUME MapsInv, job = Idle, NEW fd \in DOMAIN clientList, NEW c \in DOMAIN channelList
    PROVE  LET new == Disconnected(fd)[c] IN
           /\ fd \in Members(c) =>
                /\ ToSet(new.clientFdList) = Members(c) \ {fd}
                /\ ToSet(new.operatorFdList) = Operators(c) \ {fd}
                /\ ToSet(new.inviteFdList) = ToSet(channelList[c].inviteFdList) \ {fd}
                /\ SameSettings(channelList[c], new)
           /\ fd \notin Members(c) => new = channelList[c]
<1> DEFINE old == channelList[c]
           less == Removed(old, fd)
           new == removeInviteFd(less, fd)
<1>1. findChannelOf(clientList[fd], c) <=> fd \in Members(c)
    BY DEF MapsInv, MembershipAgrees, ListedBy, findChannelOf, Idle
<1>2. Disconnected(fd)[c] = IF fd \in Members(c) THEN new ELSE old
    BY <1>1 DEF Disconnected
<1>3. fd \in Fds /\ GoodChannel(old)
    BY DEF MapsInv
<1>4. /\ GoodChannel(less) /\ ToSet(less.clientFdList) = Members(c) \ {fd}
      /\ ToSet(less.operatorFdList) = Operators(c) \ {fd}
      /\ SameSettings(old, less) /\ SameGuests(old, less)
    BY <1>3, RemovedGood DEF Members, Operators
<1> HIDE DEF less
<1>5. /\ new.clientFdList = less.clientFdList /\ new.operatorFdList = less.operatorFdList
      /\ ToSet(new.inviteFdList) = ToSet(less.inviteFdList) \ {fd} /\ SameSettings(less, new)
    BY <1>3, <1>4, InviteGood
<1> HIDE DEF new
<1> QED BY <1>2, <1>4, <1>5 DEF SameSettings, SameGuests

\* So a lost connection is proper.
LEMMA LostProper ==
    ASSUME IInv, NEW fd \in Fds, Lost(fd)
    PROVE  Proper
<1>1. /\ job = Idle /\ Actor = {fd} /\ fd \in DOMAIN clientList /\ fd \notin sock'
      /\ MapsInv /\ channelList' = Disconnected(fd) /\ DOMAIN channelList' = DOMAIN channelList
    BY Actors DEF Lost, IInv, Disconnected
<1>2. ASSUME NEW c \in DOMAIN channelList
      PROVE  /\ fd \in Members(c) =>
                    /\ Members(c)' = Members(c) \ {fd} /\ Operators(c)' = Operators(c) \ {fd}
                    /\ ToSet(channelList'[c].inviteFdList) \subseteq ToSet(channelList[c].inviteFdList)
                    /\ SameSettings(channelList[c], channelList'[c])
             /\ fd \notin Members(c) => channelList'[c] = channelList[c]
    BY <1>1, LostChannel DEF Members, Operators
<1>3. RulingStep
    BY <1>1, <1>2 DEF RulingStep, Kept, Members, Operators, SameSettings
<1>4. LastOperatorStep
    BY <1>1, <1>2 DEF LastOperatorStep, Kept, Operators
<1>5. EntryStep
    BY <1>1, <1>2 DEF EntryStep, Kept, Members
<1>6. EmptyingStep
    BY <1>1 DEF EmptyingStep
<1> QED BY <1>3, <1>4, <1>5, <1>6 DEF Proper

\* So is JOIN: it lets in who may come in, and does nothing else.
LEMMA JoinProper ==
    ASSUME IInv, Opened \/ \E name \in DOMAIN channelList : Entered(name)
    PROVE  Proper
<1> USE DEF IInv
<1>1. CASE Opened
    <2>1. \A c \in Kept : channelList'[c] = channelList[c]
        BY <1>1 DEF Opened, With, Kept
    <2> QED BY <2>1 DEF Proper, RulingStep, LastOperatorStep, EntryStep, EmptyingStep, Kept, Members, Operators
<1>2. ASSUME NEW name \in DOMAIN channelList, Entered(name) PROVE Proper
    <2> DEFINE old == channelList[name]
               new == appendFdListClient(old, job.fd)
    <2>1. job.op = "JOIN" /\ job.fd \in Fds /\ GoodChannel(old) /\ job.fd \notin Members(name)
        BY <1>2 DEF Entered, JobInv, MapsInv
    <2>2. /\ GoodChannel(new) /\ ToSet(new.clientFdList) = Members(name) \cup {job.fd}
          /\ Len(new.clientFdList) = Len(old.clientFdList) + 1
          /\ new.operatorFdList = old.operatorFdList
          /\ SameSettings(old, new) /\ SameGuests(old, new)
        BY <2>1, AppendClientGood DEF Members
    <2>3. /\ DOMAIN channelList' = DOMAIN channelList /\ channelList'[name] = new
          /\ \A c \in DOMAIN channelList : c # name => channelList'[c] = channelList[c]
        BY <1>2, PutEffect DEF Entered
    <2>4. "l" \in old.modes => Cardinality(ToSet(new.clientFdList)) <= old.limit
        <3>1. new.clientFdList \in Seq(Fds) /\ IsInjective(new.clientFdList)
            BY <2>2 DEF GoodChannel, Channels
        <3>2. Cardinality(ToSet(new.clientFdList)) = Len(old.clientFdList) + 1
            BY <2>2, <3>1, CountList
        <3>3. Len(old.clientFdList) \in Nat /\ old.limit \in Nat
            BY <2>1, LenProperties DEF GoodChannel, Channels
        <3>4. "l" \in old.modes => ~(Len(old.clientFdList) >= old.limit)
            BY <1>2 DEF Entered, Full, diffMode
        <3> QED BY <3>2, <3>3, <3>4
    <2> HIDE DEF new
    <2>5. EntryStep
        <3> SUFFICES ASSUME NEW c \in Kept, NEW f \in Members(c)' \ Members(c)
                     PROVE  /\ job.op = "JOIN" /\ job.fd = f
                            /\ "i" \in channelList[c].modes => f \in ToSet(channelList[c].inviteFdList)
                            /\ "l" \in channelList[c].modes =>
                                 Cardinality(Members(c)') <= channelList[c].limit
                            /\ RightKey(channelList[c])
            BY DEF EntryStep, RightKey
        <3>1. c = name
            BY <2>3 DEF Members, Kept
        <3>2. f = job.fd
            BY <2>2, <2>3, <3>1 DEF Members
        <3> QED BY <1>2, <2>1, <2>3, <2>4, <3>1, <3>2
                DEF Entered, NotInvited, diffMode, diffInvite, Members
    <2>6. RulingStep
        BY <2>2, <2>3 DEF RulingStep, Kept, Members, Operators, SameSettings, SameGuests
    <2>7. LastOperatorStep
        BY <2>2, <2>3 DEF LastOperatorStep, Kept, Operators
    <2>8. EmptyingStep
        BY <2>2, <2>3 DEF EmptyingStep, Kept, Members
    <2> QED BY <2>5, <2>6, <2>7, <2>8 DEF Proper
<1> QED BY <1>1, <1>2

\* What PART and QUIT leave of the channels: the one that is left is gone, or has one
\* descriptor less and is not empty.
LEMMA LeftChannel ==
    ASSUME MapsInv, NEW fd \in Fds, NEW name \in DOMAIN channelList,
           channelList' = Leave(channelList, fd, name)
    PROVE  LET new == Removed(channelList[name], fd) IN
           /\ ToSet(new.clientFdList) = Members(name) \ {fd}
           /\ ToSet(new.operatorFdList) = Operators(name) \ {fd}
           /\ SameSettings(channelList[name], new) /\ SameGuests(channelList[name], new)
           /\ Members(name) \ {fd} = {} => channelList' = Without(channelList, name)
           /\ Members(name) \ {fd} # {} => channelList' = [channelList EXCEPT ![name] = new]
<1> DEFINE new == Removed(channelList[name], fd)
<1>1. /\ GoodChannel(new) /\ ToSet(new.clientFdList) = Members(name) \ {fd}
      /\ ToSet(new.operatorFdList) = Operators(name) \ {fd}
      /\ SameSettings(channelList[name], new) /\ SameGuests(channelList[name], new)
    BY RemovedGood DEF MapsInv, Members, Operators
<1>2. channelList' = IF new.clientFdList = <<>> THEN Without(channelList, name)
                     ELSE [channelList EXCEPT ![name] = new]
    BY DEF Leave
<1> HIDE DEF new
<1>3. new.clientFdList = <<>> <=> ToSet(new.clientFdList) = {}
    <2>1. new.clientFdList \in Seq(Fds)
        BY <1>1 DEF GoodChannel, Channels
    <2>2. new.clientFdList # <<>> => Head(new.clientFdList) \in ToSet(new.clientFdList)
        BY <2>1, TailList
    <2>3. ToSet(<<>>) = {}
        BY DEF ToSet
    <2> QED BY <2>2, <2>3
<1> QED BY <1>1, <1>2, <1>3 DEF new

\* PART and QUIT are proper.
LEMMA LeaveProper ==
    ASSUME IInv, NEW name \in DOMAIN channelList, Left(name)
    PROVE  Proper
<1> DEFINE new == Removed(channelList[name], job.fd)
<1>1. /\ job.op \in {"PART", "QUIT"} /\ job.fd \in Fds /\ MapsInv /\ Actor = {job.fd}
      /\ channelList' = Leave(channelList, job.fd, name)
    BY Actors DEF Left, IInv, JobInv, MapsInv
<1>2. /\ ToSet(new.clientFdList) = Members(name) \ {job.fd}
      /\ ToSet(new.operatorFdList) = Operators(name) \ {job.fd}
      /\ SameSettings(channelList[name], new) /\ SameGuests(channelList[name], new)
      /\ Members(name) \ {job.fd} = {} => channelList' = Without(channelList, name)
      /\ Members(name) \ {job.fd} # {} => channelList' = [channelList EXCEPT ![name] = new]
    BY <1>1, LeftChannel
<1> HIDE DEF new
<1>3. CASE Members(name) \ {job.fd} = {}
    <2>1. \A c \in Kept : channelList'[c] = channelList[c]
        BY <1>2, <1>3 DEF Without, Kept
    <2> QED BY <2>1 DEF Proper, RulingStep, LastOperatorStep, EntryStep, EmptyingStep, Kept, Members, Operators
<1>4. CASE Members(name) \ {job.fd} # {}
    <2>1. \A c \in Kept : channelList'[c] = IF c = name THEN new ELSE channelList[c]
        BY <1>2, <1>4 DEF Kept
    <2> QED BY <1>1, <1>2, <1>4, <2>1, OneChannel DEF SameGuests
<1> QED BY <1>3, <1>4

\* KICK, and whatever MODE and INVITE do, is proper: an operator acts, keeps its own
\* right and does not put itself out.
LEMMA RuleProper ==
    ASSUME IInv,
           \/ \E name \in DOMAIN channelList, victim \in Fds : PutOut(name, victim)
           \/ \E m, new : Set(m, new) \/ Cleared(m, new)
           \/ \E target \in Fds : Ranked(target)
           \/ \E fd \in Fds, name \in DOMAIN channelList, guest \in Fds \cup {NoFd} : Invited(fd, name, guest)
    PROVE  Proper
<1> USE DEF IInv
<1>1. ASSUME NEW name, NEW new, Put(name, new), Actor \subseteq Operators(name), Actor # {},
             ToSet(new.clientFdList) \subseteq Members(name), Actor \subseteq ToSet(new.clientFdList),
             Operators(name) # {} => ToSet(new.operatorFdList) # {}
      PROVE  Proper
    <2>1. name \in DOMAIN channelList /\ \A c \in Kept : channelList'[c] = IF c = name THEN new ELSE channelList[c]
        BY <1>1, PutEffect DEF Kept, Put
    <2> QED BY <1>1, <2>1, OneChannel
<1>2. ASSUME NEW name \in DOMAIN channelList PROVE GoodChannel(channelList[name]) /\ Operators(name) \subseteq Members(name)
    BY <1>2 DEF MapsInv, GoodChannel, Operators, Members
<1>3. ASSUME NEW name \in DOMAIN channelList, NEW victim \in Fds, PutOut(name, victim) PROVE Proper
    <2> DEFINE new == Removed(channelList[name], victim)
    <2>1. /\ ToSet(new.clientFdList) = Members(name) \ {victim}
          /\ ToSet(new.operatorFdList) = Operators(name) \ {victim}
        BY <1>2, RemovedGood DEF Members, Operators
    <2> HIDE DEF new
    <2>2. Actor = {job.fd} /\ job.fd \in Operators(name) /\ victim # job.fd /\ Put(name, new)
        BY <1>3, Actors DEF PutOut, new
    <2> QED BY <1>1, <1>2, <2>1, <2>2
<1>4. ASSUME NEW new, Ruled(new), new.clientFdList = channelList[job.chan].clientFdList,
             job.fd \in ToSet(new.operatorFdList)
      PROVE  Proper
    <2>1. Actor = {job.fd} /\ job.fd \in Operators(job.chan) /\ job.chan \in DOMAIN channelList /\ Put(job.chan, new)
        BY <1>4, Actors DEF Ruled
    <2>2. ToSet(new.clientFdList) = Members(job.chan) /\ job.fd \in Members(job.chan)
        BY <1>2, <1>4, <2>1 DEF Members
    <2> QED BY <1>1, <1>4, <2>1, <2>2
<1>5. ASSUME NEW m, NEW new, Set(m, new) \/ Cleared(m, new) PROVE Proper
    <2>1. Ruled(new) /\ new.clientFdList = channelList[job.chan].clientFdList
          /\ new.operatorFdList = channelList[job.chan].operatorFdList
        BY <1>5 DEF Set, Cleared, Flagged
    <2>2. job.fd \in ToSet(new.operatorFdList)
        BY <2>1 DEF Ruled, Operators
    <2> QED BY <1>4, <2>1, <2>2
<1>6. ASSUME NEW target \in Fds, Ranked(target) PROVE Proper
    <2> DEFINE new == setMode(channelList[job.chan], "o", job.sign, target)
    <2>1. /\ job.chan \in DOMAIN channelList /\ target \in ToSet(channelList[job.chan].clientFdList)
          /\ target # job.fd /\ job.sign \in Signs /\ Ruled(new)
        BY <1>6 DEF Ranked, Members, Signs
    <2>2. /\ new.clientFdList = channelList[job.chan].clientFdList
          /\ Operators(job.chan) \ {target} \subseteq ToSet(new.operatorFdList)
        BY <1>2, <2>1, OperatorGood DEF Operators
    <2>3. job.fd \in ToSet(new.operatorFdList)
        BY <2>1, <2>2 DEF Ruled
    <2> QED BY <1>4, <2>1, <2>2, <2>3
<1>7. ASSUME NEW fd \in Fds, NEW name \in DOMAIN channelList, NEW guest \in Fds \cup {NoFd}, Invited(fd, name, guest)
      PROVE  Proper
    <2> DEFINE new == appendFdListInvite(channelList[name], guest)
    <2>1. new.clientFdList = channelList[name].clientFdList /\ new.operatorFdList = channelList[name].operatorFdList
        BY <1>2, InviteGood
    <2>2. Actor = {fd} /\ fd \in Operators(name) /\ Put(name, new)
        BY <1>7, Actors DEF Invited
    <2> HIDE DEF new
    <2>3. fd \in Members(name) /\ ToSet(new.clientFdList) = Members(name) /\ ToSet(new.operatorFdList) = Operators(name)
        BY <1>2, <2>1, <2>2 DEF Members, Operators
    <2> QED BY <1>1, <2>2, <2>3
<1> QED BY <1>3, <1>5, <1>6, <1>7

\* TOPIC is proper: under +t an operator sets it.
LEMMA TopicProper ==
    ASSUME IInv, NEW fd \in Fds, NEW name \in DOMAIN channelList, NEW word \in Words, Retitled(fd, name, word)
    PROVE  Proper
<1> DEFINE old == channelList[name]
           new == setTopic(old, word)
<1>1. /\ new.clientFdList = old.clientFdList /\ new.operatorFdList = old.operatorFdList
      /\ new.modes = old.modes /\ new.key = old.key /\ new.limit = old.limit /\ SameGuests(old, new)
    BY DEF IInv, MapsInv, Channels, setTopic, SameGuests
<1>2. Actor = {fd} /\ Put(name, new) /\ ("t" \in old.modes => fd \in Operators(name))
    BY Actors DEF Retitled
<1> HIDE DEF new
<1>3. \A c \in Kept : channelList'[c] = IF c = name THEN new ELSE channelList[c]
    BY <1>2, PutEffect DEF Kept
<1>4. RulingStep
    BY <1>1, <1>2, <1>3 DEF RulingStep, Kept, Members, Operators, SameGuests
<1>5. LastOperatorStep /\ EntryStep /\ EmptyingStep
    BY <1>1, <1>3 DEF LastOperatorStep, EntryStep, EmptyingStep, Kept, Members, Operators
<1> QED BY <1>4, <1>5 DEF Proper

\* Every step of the server is proper.
LEMMA NextProper ==
    IInv /\ KeysAligned /\ JoinIters /\ KickRight /\ [Next]_vars => Proper
<1> SUFFICES ASSUME IInv, KeysAligned, JoinIters, KickRight, [Next]_vars PROVE Proper
    OBVIOUS
<1>1. CASE Quiet
    BY <1>1 DEF Quiet, Proper, RulingStep, LastOperatorStep, EntryStep, EmptyingStep, Kept, Members, Operators
<1>2. CASE Closed
    BY <1>2 DEF Closed, EmptyMap, Proper, RulingStep, LastOperatorStep, EntryStep, EmptyingStep, Kept
<1> QED BY <1>1, <1>2, NextKinds, JoinProper, LeaveProper, LostProper, RuleProper, TopicProper DEF Catalogued

-----------------------------------------------------------------------------
(***************************************************************************)
(* The action properties                                                   *)
(***************************************************************************)
\* KICK finds out at its start that it may act on all its channels, and nothing it does
\* itself takes the right away: the own nickname ends it.
LEMMA NextKickRight ==
    IInv /\ KeysAligned /\ JoinIters /\ KickRight /\ [Next]_vars => KickRight'
<1> SUFFICES ASSUME IInv, KeysAligned, JoinIters, KickRight, [Next]_vars PROVE KickRight'
    OBVIOUS
<1> USE DEF IInv
<1>1. CASE NoPairs
    BY <1>1 DEF NoPairs, KickRight
<1>2. CASE JoinAdvances
    <2>1. job \in JoinJobs
        BY <1>2, JobTypes DEF JoinAdvances, JobInv
    <2>2. job'.op = "JOIN"
        BY <1>2, <2>1 DEF JoinAdvances, NextChannel, JoinJobs
    <2> QED BY <2>2 DEF KickRight
<1>3. CASE KickAdvances
    <2>1. job.op = "KICK" /\ job.chans # <<>>
        BY <1>3 DEF KickAdvances, KickChannel
    <2>2. job \in KickJobs
        BY <2>1, JobTypes DEF JobInv
    <2>3. job'.fd = job.fd /\ job'.chans = Tail(job.chans)
        BY <1>3, <2>2 DEF KickAdvances, KickJobs
    <2>4. ToSet(job'.chans) \subseteq ToSet(job.chans)
        BY <2>1, <2>2, <2>3, TailList DEF KickJobs
    <2>5. ASSUME NEW c \in DOMAIN channelList', c \in ToSet(job.chans) PROVE job.fd \in Operators(c)'
        <3>1. Quiet \/ Closed \/ \E name \in DOMAIN channelList, victim \in Fds : PutOut(name, victim)
            <4>1. job # Idle
                BY <2>1 DEF Idle
            <4> QED BY <2>1, <4>1, NextKinds
                    DEF Catalogued, Opened, Entered, Left, Set, Cleared, Flagged, Ranked, Ruled,
                        Retitled, Invited, Lost, Event
        <3>2. CASE Quiet
            BY <2>1, <2>5, <3>2 DEF Quiet, KickRight, Operators
        <3>3. CASE Closed
            BY <2>5, <3>3 DEF Closed, EmptyMap
        <3>4. ASSUME NEW name \in DOMAIN channelList, NEW victim \in Fds, PutOut(name, victim)
              PROVE  job.fd \in Operators(c)'
            <4> DEFINE new == Removed(channelList[name], victim)
            <4>1. ToSet(new.operatorFdList) = Operators(name) \ {victim}
                BY RemovedGood DEF MapsInv, Operators
            <4> HIDE DEF new
            <4>2. /\ DOMAIN channelList' = DOMAIN channelList /\ channelList'[name] = new
                  /\ \A d \in DOMAIN channelList : d # name => channelList'[d] = channelList[d]
                BY <3>4, PutEffect DEF PutOut, new
            <4>3. victim # job.fd
                BY <3>4 DEF PutOut
            <4> QED BY <2>1, <2>5, <4>1, <4>2, <4>3 DEF KickRight, Operators
        <3> QED BY <3>1, <3>2, <3>3, <3>4
    <2> QED BY <2>3, <2>4, <2>5 DEF KickRight
<1>4. CASE UNCHANGED vars
    BY <1>4 DEF vars, state, KickRight, Operators
<1>5. ASSUME NEW fd \in Fds, NEW r, JoinStarts(fd, r) PROVE KickRight'
    BY <1>5 DEF JoinStarts, KickRight
<1>6. ASSUME NEW fd \in Fds, NEW r, KickStarts(fd, r) PROVE KickRight'
    <2>1. job'.fd = fd /\ job'.chans = split(r.args[1]) /\ channelList' = channelList
        BY <1>6 DEF KickStarts, NoEffect
    <2>2. \A c \in ToSet(split(r.args[1])) \cap DOMAIN channelList : fd \in Operators(c)
        BY <1>6 DEF KickStarts, NotOperatorOn, diffOperator, Operators, ToSet
    <2> QED BY <2>1, <2>2 DEF KickRight, Operators
<1> QED BY <1>1, <1>2, <1>3, <1>4, <1>5, <1>6, NextShapes

\* KICK is an operator of every channel it has left to do, at any time.
LEMMA KickRights == Spec => []KickRight
<1>1. Init => KickRight
    BY DEF Init, KickRight, Idle
<1> QED BY <1>1, Invariance, JoinPairs, NextKickRight, PTL DEF Spec

\* Modes, key, limit, operators and invitations of a channel, its topic under +t, and who
\* is put out of it, are decided by the operators of that moment, for any number of
\* clients and channels, in the middle of any batch.
THEOREM OperatorsRule == Spec => RuledByOperators
<1>1. IInv /\ KeysAligned /\ JoinIters /\ KickRight /\ [Next]_vars => RulingStep
    BY NextProper DEF Proper
<1> QED BY <1>1, Invariance, JoinPairs, KickRights, PTL DEF Spec, RuledByOperators

\* Neither KICK nor MODE takes the last operator from a channel.
THEOREM LastOperator == Spec => LastOperatorStays
<1>1. IInv /\ KeysAligned /\ JoinIters /\ KickRight /\ [Next]_vars => LastOperatorStep
    BY NextProper DEF Proper
<1> QED BY <1>1, Invariance, JoinPairs, KickRights, PTL DEF Spec, LastOperatorStays

\* Nobody enters a channel against its +i, +l or +k, however many channels and keys the
\* JOIN has.
THEOREM EntryControl == Spec => EntryControlled
<1>1. IInv /\ KeysAligned /\ JoinIters /\ KickRight /\ [Next]_vars => EntryStep
    BY NextProper DEF Proper
<1> QED BY <1>1, Invariance, JoinPairs, KickRights, PTL DEF Spec, EntryControlled

\* No command leaves an empty channel behind.
THEOREM NoEmptyChannel == Spec => NoChannelEmptied
<1>1. IInv /\ KeysAligned /\ JoinIters /\ KickRight /\ [Next]_vars => EmptyingStep
    BY NextProper DEF Proper
<1> QED BY <1>1, Invariance, JoinPairs, KickRights, PTL DEF Spec, NoChannelEmptied

-----------------------------------------------------------------------------
(***************************************************************************)
(* Server implements ChatRooms, step by step: every kind of the catalogue  *)
(* is an action of ChatRooms or changes no room.                           *)
(***************************************************************************)
\* The rooms the channels are.
Mapped == [c \in DOMAIN channelList |-> RoomOf(channelList[c])]

-----------------------------------------------------------------------------
(***************************************************************************)
(* The room a changed channel is                                           *)
(***************************************************************************)
\* A room put together from its parts.
RoomWith(members, ops, guests, modes, limit, subject) ==
    [members |-> members, ops |-> ops, guests |-> guests, modes |-> modes, limit |-> limit,
     topic |-> subject]

LEMMA RoomParts ==
    ASSUME NEW ch
    PROVE  /\ RoomOf(ch) = RoomWith(ToSet(ch.clientFdList), ToSet(ch.operatorFdList),
                                    ToSet(ch.inviteFdList) \cap Fds, ch.modes, ch.limit, ch.topic)
           /\ RoomOf(ch).members = ToSet(ch.clientFdList) /\ RoomOf(ch).ops = ToSet(ch.operatorFdList)
           /\ RoomOf(ch).guests = ToSet(ch.inviteFdList) \cap Fds
           /\ RoomOf(ch).modes = ch.modes /\ RoomOf(ch).limit = ch.limit /\ RoomOf(ch).topic = ch.topic
BY DEF RoomOf, RoomWith

\* One part of the room of a channel is replaced.
LEMMA ReplacePart ==
    ASSUME NEW ch, NEW x
    PROVE  LET members == ToSet(ch.clientFdList)
               ops == ToSet(ch.operatorFdList)
               guests == ToSet(ch.inviteFdList) \cap Fds
           IN
           /\ [RoomOf(ch) EXCEPT !.members = x] = RoomWith(x, ops, guests, ch.modes, ch.limit, ch.topic)
           /\ [RoomOf(ch) EXCEPT !.ops = x] = RoomWith(members, x, guests, ch.modes, ch.limit, ch.topic)
           /\ [RoomOf(ch) EXCEPT !.guests = x] = RoomWith(members, ops, x, ch.modes, ch.limit, ch.topic)
           /\ [RoomOf(ch) EXCEPT !.topic = x] = RoomWith(members, ops, guests, ch.modes, ch.limit, x)
<1> DEFINE members == ToSet(ch.clientFdList)
           ops == ToSet(ch.operatorFdList)
           guests == ToSet(ch.inviteFdList) \cap Fds
<1>0. RoomOf(ch) = RoomWith(members, ops, guests, ch.modes, ch.limit, ch.topic)
    BY RoomParts
<1> HIDE DEF members, ops, guests
<1>1. [RoomOf(ch) EXCEPT !.members = x] = RoomWith(x, ops, guests, ch.modes, ch.limit, ch.topic)
    BY <1>0 DEF RoomWith
<1>2. [RoomOf(ch) EXCEPT !.ops = x] = RoomWith(members, x, guests, ch.modes, ch.limit, ch.topic)
    BY <1>0 DEF RoomWith
<1>3. [RoomOf(ch) EXCEPT !.guests = x] = RoomWith(members, ops, x, ch.modes, ch.limit, ch.topic)
    BY <1>0 DEF RoomWith
<1>4. [RoomOf(ch) EXCEPT !.topic = x] = RoomWith(members, ops, guests, ch.modes, ch.limit, x)
    BY <1>0 DEF RoomWith
<1> QED BY <1>1, <1>2, <1>3, <1>4, Zenon DEF members, ops, guests

\* Two parts are.
LEMMA ReplaceModes ==
    ASSUME NEW ch, NEW x, NEW y
    PROVE  [RoomOf(ch) EXCEPT !.modes = x, !.limit = y] =
             RoomWith(ToSet(ch.clientFdList), ToSet(ch.operatorFdList),
                      ToSet(ch.inviteFdList) \cap Fds, x, y, ch.topic)
<1> DEFINE members == ToSet(ch.clientFdList)
           ops == ToSet(ch.operatorFdList)
           guests == ToSet(ch.inviteFdList) \cap Fds
           first == [RoomOf(ch) EXCEPT !.modes = x]
<1>1. RoomOf(ch) = RoomWith(members, ops, guests, ch.modes, ch.limit, ch.topic)
    BY RoomParts
<1> HIDE DEF members, ops, guests
<1>2. first = RoomWith(members, ops, guests, x, ch.limit, ch.topic)
    BY <1>1 DEF RoomWith
<1> HIDE DEF first
<1>3. [first EXCEPT !.limit = y] = RoomWith(members, ops, guests, x, y, ch.topic)
    BY <1>2 DEF RoomWith
<1> QED BY <1>3 DEF first, members, ops, guests

LEMMA ReplacePeople ==
    ASSUME NEW ch, NEW x, NEW y
    PROVE  [RoomOf(ch) EXCEPT !.members = x, !.ops = y] =
             RoomWith(x, y, ToSet(ch.inviteFdList) \cap Fds, ch.modes, ch.limit, ch.topic)
<1> DEFINE members == ToSet(ch.clientFdList)
           ops == ToSet(ch.operatorFdList)
           guests == ToSet(ch.inviteFdList) \cap Fds
           first == [RoomOf(ch) EXCEPT !.members = x]
<1>1. RoomOf(ch) = RoomWith(members, ops, guests, ch.modes, ch.limit, ch.topic)
    BY RoomParts
<1> HIDE DEF members, ops, guests
<1>2. first = RoomWith(x, ops, guests, ch.modes, ch.limit, ch.topic)
    BY <1>1 DEF RoomWith
<1> HIDE DEF first
<1>3. [first EXCEPT !.ops = y] = RoomWith(x, y, guests, ch.modes, ch.limit, ch.topic)
    BY <1>2 DEF RoomWith
<1> QED BY <1>3 DEF first, members, ops, guests

\* So a room with a part replaced is the room of the channel with that part changed.
LEMMA RoomMembers ==
    ASSUME NEW old, NEW new, new.operatorFdList = old.operatorFdList, SameSettings(old, new), SameGuests(old, new)
    PROVE  RoomOf(new) = [RoomOf(old) EXCEPT !.members = ToSet(new.clientFdList)]
<1>1. RoomOf(new) = RoomWith(ToSet(new.clientFdList), ToSet(old.operatorFdList), ToSet(old.inviteFdList) \cap Fds,
                             old.modes, old.limit, old.topic)
    BY RoomParts, Zenon DEF SameSettings, SameGuests
<1> QED BY <1>1, ReplacePart, Zenon

LEMMA RoomOps ==
    ASSUME NEW old, NEW new, new.clientFdList = old.clientFdList, SameSettings(old, new), SameGuests(old, new)
    PROVE  RoomOf(new) = [RoomOf(old) EXCEPT !.ops = ToSet(new.operatorFdList)]
<1>1. RoomOf(new) = RoomWith(ToSet(old.clientFdList), ToSet(new.operatorFdList), ToSet(old.inviteFdList) \cap Fds,
                             old.modes, old.limit, old.topic)
    BY RoomParts, Zenon DEF SameSettings, SameGuests
<1> QED BY <1>1, ReplacePart, Zenon

LEMMA RoomGuests ==
    ASSUME NEW old, NEW new, new.clientFdList = old.clientFdList,
           new.operatorFdList = old.operatorFdList, SameSettings(old, new)
    PROVE  RoomOf(new) = [RoomOf(old) EXCEPT !.guests = ToSet(new.inviteFdList) \cap Fds]
<1>1. RoomOf(new) = RoomWith(ToSet(old.clientFdList), ToSet(old.operatorFdList), ToSet(new.inviteFdList) \cap Fds,
                             old.modes, old.limit, old.topic)
    BY RoomParts, Zenon DEF SameSettings, SameGuests
<1> QED BY <1>1, ReplacePart, Zenon

LEMMA RoomTopic ==
    ASSUME NEW old, NEW new, new.clientFdList = old.clientFdList,
           new.operatorFdList = old.operatorFdList, SameGuests(old, new),
           new.modes = old.modes, new.limit = old.limit
    PROVE  RoomOf(new) = [RoomOf(old) EXCEPT !.topic = new.topic]
<1>1. RoomOf(new) = RoomWith(ToSet(old.clientFdList), ToSet(old.operatorFdList), ToSet(old.inviteFdList) \cap Fds,
                             old.modes, old.limit, new.topic)
    BY RoomParts, Zenon DEF SameSettings, SameGuests
<1> QED BY <1>1, ReplacePart, Zenon

LEMMA RoomModes ==
    ASSUME NEW old, NEW new, new.clientFdList = old.clientFdList,
           new.operatorFdList = old.operatorFdList, SameGuests(old, new), new.topic = old.topic
    PROVE  RoomOf(new) = [RoomOf(old) EXCEPT !.modes = new.modes, !.limit = new.limit]
<1>1. RoomOf(new) = RoomWith(ToSet(old.clientFdList), ToSet(old.operatorFdList), ToSet(old.inviteFdList) \cap Fds,
                             new.modes, new.limit, old.topic)
    BY RoomParts, Zenon DEF SameSettings, SameGuests
<1> QED BY <1>1, ReplaceModes, Zenon

LEMMA RoomRest ==
    ASSUME NEW old, NEW new, SameSettings(old, new), SameGuests(old, new)
    PROVE  RoomOf(new) = [RoomOf(old) EXCEPT !.members = ToSet(new.clientFdList),
                                        !.ops = ToSet(new.operatorFdList)]
<1>1. RoomOf(new) = RoomWith(ToSet(new.clientFdList), ToSet(new.operatorFdList), ToSet(old.inviteFdList) \cap Fds,
                             old.modes, old.limit, old.topic)
    BY RoomParts, Zenon DEF SameSettings, SameGuests
<1> QED BY <1>1, ReplacePeople, Zenon

\* Somebody is out of it.
LEMMA RoomLess ==
    ASSUME NEW old, NEW new, NEW p, SameSettings(old, new), SameGuests(old, new),
           ToSet(new.clientFdList) = ToSet(old.clientFdList) \ {p},
           ToSet(new.operatorFdList) = ToSet(old.operatorFdList) \ {p}
    PROVE  RoomOf(new) = Chat!Less(RoomOf(old), p)
<1>1. RoomOf(new) = [RoomOf(old) EXCEPT !.members = ToSet(new.clientFdList),
                                        !.ops = ToSet(new.operatorFdList)]
    BY RoomRest
<1>2. ToSet(new.clientFdList) = RoomOf(old).members \ {p} /\ ToSet(new.operatorFdList) = RoomOf(old).ops \ {p}
    BY RoomParts
<1> QED BY <1>1, <1>2, Zenon DEF Chat!Less

-----------------------------------------------------------------------------
(***************************************************************************)
(* All the rooms                                                           *)
(***************************************************************************)
\* One channel changes, and so does its room.
LEMMA MappedPut ==
    ASSUME NEW name, NEW ch, Put(name, ch)
    PROVE  /\ name \in DOMAIN Mapped /\ Mapped[name] = RoomOf(channelList[name])
           /\ Mapped' = [Mapped EXCEPT ![name] = RoomOf(ch)]
BY DEF Put, Mapped

LEMMA MappedChange ==
    ASSUME NEW r, NEW room, Mapped' = [Mapped EXCEPT ![r] = room]
    PROVE  Chat!Change(r, room)
BY DEF Mapped, Chat!Change

LEMMA MappedTests ==
    ASSUME NEW name \in DOMAIN channelList
    PROVE  \A p : /\ Chat!IsMember(p, name) <=> p \in Members(name)
                  /\ Chat!IsOperator(p, name) <=> p \in Operators(name)
BY RoomParts DEF Chat!IsMember, Chat!IsOperator, Members, Operators

\* ChatRooms counts the way the server's proofs do.
LEMMA SameCount == \A S : Chat!Cardinality(S) = Cardinality(S)
BY Zenon DEF Chat!Cardinality, Cardinality

\* JOIN
LEMMA EnteredRoom ==
    ASSUME IInv, NEW name \in DOMAIN channelList, Entered(name)
    PROVE  Chat!Enter(job.fd, name)
<1> DEFINE old == channelList[name]
           new == appendFdListClient(old, job.fd)
<1>1. job.fd \in Fds /\ GoodChannel(old) /\ job.fd \notin Members(name) /\ Put(name, new)
    BY DEF Entered, IInv, JobInv, MapsInv
<1>2. /\ ToSet(new.clientFdList) = ToSet(old.clientFdList) \cup {job.fd}
      /\ new.operatorFdList = old.operatorFdList
      /\ SameSettings(old, new) /\ SameGuests(old, new)
    BY <1>1, AppendClientGood DEF Members
<1> HIDE DEF new
<1>3. RoomOf(new) = [RoomOf(old) EXCEPT !.members = ToSet(old.clientFdList) \cup {job.fd}]
    BY <1>2, RoomMembers
<1>4. RoomOf(new) = [RoomOf(old) EXCEPT !.members = @ \cup {job.fd}]
    BY <1>3, RoomParts
<1>5. "l" \in old.modes => Cardinality(ToSet(old.clientFdList)) < old.limit
    <2>1. old.clientFdList \in Seq(Fds) /\ IsInjective(old.clientFdList) /\ old.limit \in Nat
        BY <1>1 DEF GoodChannel, Channels
    <2>2. Cardinality(ToSet(old.clientFdList)) = Len(old.clientFdList) /\ Len(old.clientFdList) \in Nat
        BY <2>1, CountList, LenProperties
    <2>3. "l" \in old.modes => ~(Len(old.clientFdList) >= old.limit)
        BY DEF Entered, Full, diffMode
    <2> QED BY <2>1, <2>2, <2>3
<1>6. "i" \in old.modes => job.fd \in ToSet(old.inviteFdList) \cap Fds
    BY <1>1 DEF Entered, NotInvited, diffMode, diffInvite
<1>7. Mapped[name] = RoomOf(old) /\ name \in DOMAIN Mapped
    BY DEF Mapped
<1>8. Mapped' = [Mapped EXCEPT ![name] = [RoomOf(old) EXCEPT !.members = @ \cup {job.fd}]]
    BY <1>1, <1>4, MappedPut
<1>9. /\ job.fd \notin Mapped[name].members
      /\ "i" \in Mapped[name].modes => job.fd \in Mapped[name].guests
      /\ "l" \in Mapped[name].modes => Chat!Cardinality(Mapped[name].members) < Mapped[name].limit
    BY <1>1, <1>5, <1>6, <1>7, RoomParts, SameCount DEF Members
<1>10. Chat!Change(name, [Mapped[name] EXCEPT !.members = @ \cup {job.fd}])
    BY <1>7, <1>8, MappedChange
<1> QED BY <1>7, <1>9, <1>10, Zenon DEF Chat!Enter, Mapped

LEMMA OpenedRoom ==
    ASSUME IInv, Opened
    PROVE  Chat!Open(job.fd, JoinName)
<1> DEFINE new == appendFdListClient(NewChannel(job.fd), job.fd)
<1>1. job.fd \in Fds /\ JoinName \notin DOMAIN channelList /\ channelList' = With(channelList, JoinName, new)
    BY DEF Opened, IInv, JobInv, MapsInv
<1>2. ToSet(new.clientFdList) = {job.fd} /\ ToSet(new.operatorFdList) = {job.fd}
    BY <1>1, NewChannelGood
<1>3. new.inviteFdList = <<>> /\ new.modes = {} /\ new.limit = 0 /\ new.topic = ""
    BY DEF appendFdListClient, NewChannel
<1>4. RoomOf(new) = RoomWith({job.fd}, {job.fd}, {}, {}, 0, "")
    <2> HIDE DEF new
    <2>1. ToSet(<<>>) = {}
        BY DEF ToSet
    <2>2. ToSet(new.inviteFdList) \cap Fds = {}
        BY <1>3, <2>1
    <2> QED BY <1>2, <1>3, <2>2, RoomParts
<1> HIDE DEF new
<1>5. Mapped' = [c \in DOMAIN Mapped \cup {JoinName} |-> IF c = JoinName THEN RoomOf(new) ELSE Mapped[c]]
    BY <1>1 DEF Mapped, With
<1>6. Mapped' = [c \in DOMAIN Mapped \cup {JoinName} |->
                   IF c = JoinName THEN RoomWith({job.fd}, {job.fd}, {}, {}, 0, "") ELSE Mapped[c]]
    BY <1>4, <1>5, Zenon
<1>7. JoinName \notin DOMAIN Mapped
    BY <1>1 DEF Mapped
<1> QED BY <1>6, <1>7, Zenon DEF Chat!Open, Chat!Add, Mapped, RoomWith

\* PART and QUIT
LEMMA LeftRoom ==
    ASSUME IInv, NEW name \in DOMAIN channelList, Left(name)
    PROVE  Chat!Leave(job.fd, name)
<1> DEFINE old == channelList[name]
           new == Removed(old, job.fd)
<1>1. /\ job.fd \in Fds /\ MapsInv /\ job.fd \in Members(name)
      /\ channelList' = Leave(channelList, job.fd, name)
    BY DEF Left, IInv, JobInv, MapsInv
<1>2. /\ ToSet(new.clientFdList) = ToSet(old.clientFdList) \ {job.fd}
      /\ ToSet(new.operatorFdList) = ToSet(old.operatorFdList) \ {job.fd}
      /\ SameSettings(old, new) /\ SameGuests(old, new)
      /\ Members(name) \ {job.fd} = {} => channelList' = Without(channelList, name)
      /\ Members(name) \ {job.fd} # {} => channelList' = [channelList EXCEPT ![name] = new]
    BY <1>1, LeftChannel DEF Members, Operators
<1> HIDE DEF new
<1>3. RoomOf(new) = Chat!Less(RoomOf(old), job.fd)
    BY <1>2, RoomLess
<1>4. Mapped[name] = RoomOf(old) /\ Mapped[name].members = Members(name)
    BY RoomParts DEF Mapped, Members
<1>5. CASE Members(name) = {job.fd}
    <2>1. channelList' = Without(channelList, name)
        BY <1>2, <1>5
    <2>2. Mapped' = [c \in DOMAIN Mapped \ {name} |-> Mapped[c]]
        BY <2>1 DEF Mapped, Without
    <2>3. Chat!Remove(name)
        BY <2>2, Zenon DEF Chat!Remove, Mapped
    <2> QED BY <1>1, <1>4, <1>5, <2>3, MappedTests, Zenon DEF Chat!Leave, Mapped
<1>6. CASE Members(name) # {job.fd}
    <2>1. Put(name, new)
        BY <1>1, <1>2, <1>6 DEF Put
    <2>2. Chat!Change(name, Chat!Less(Mapped[name], job.fd))
        BY <1>3, <1>4, <2>1, MappedPut, MappedChange
    <2> QED BY <1>1, <1>4, <1>6, <2>2, MappedTests, Zenon DEF Chat!Leave, Mapped
<1> QED BY <1>5, <1>6

\* KICK
LEMMA PutOutRoom ==
    ASSUME IInv, NEW name \in DOMAIN channelList, NEW victim \in Fds, PutOut(name, victim)
    PROVE  Chat!PutOut(job.fd, victim, name)
<1> DEFINE old == channelList[name]
           new == Removed(old, victim)
<1>1. /\ ToSet(new.clientFdList) = ToSet(old.clientFdList) \ {victim}
      /\ ToSet(new.operatorFdList) = ToSet(old.operatorFdList) \ {victim}
      /\ SameSettings(old, new) /\ SameGuests(old, new)
    BY RemovedGood DEF IInv, MapsInv
<1>2. Put(name, new)
    BY DEF PutOut
<1> HIDE DEF new
<1>3. RoomOf(new) = Chat!Less(RoomOf(old), victim)
    BY <1>1, RoomLess
<1>4. Mapped[name] = RoomOf(old)
    BY DEF Mapped
<1>5. Chat!Change(name, Chat!Less(Mapped[name], victim))
    BY <1>2, <1>3, <1>4, MappedPut, MappedChange
<1>6. job.fd \in Operators(name) /\ victim \in Members(name) /\ job.fd # victim
    BY DEF PutOut
<1> QED BY <1>5, <1>6, MappedTests, Zenon DEF Chat!PutOut, Mapped

\* MODE
LEMMA FlaggedRoom ==
    ASSUME IInv, NEW m, NEW new, Set(m, new) \/ Cleared(m, new)
    PROVE  /\ m \in Chat!Letters
           /\ Set(m, new) => \E n \in MayBeLimit : Chat!SetMode(job.fd, job.chan, m, n)
           /\ Cleared(m, new) => Chat!ClearMode(job.fd, job.chan, m)
<1> DEFINE old == channelList[job.chan]
<1>1. /\ m \in {"i", "t", "k", "l"} /\ (m # "l" => new.limit = old.limit)
      /\ new.clientFdList = old.clientFdList /\ new.operatorFdList = old.operatorFdList
      /\ SameGuests(old, new) /\ new.topic = old.topic
      /\ job.chan \in DOMAIN channelList /\ job.fd \in Operators(job.chan) /\ Put(job.chan, new)
    BY DEF Set, Cleared, Flagged, Ruled
<1>2. RoomOf(new) = [RoomOf(old) EXCEPT !.modes = new.modes, !.limit = new.limit]
    BY <1>1, RoomModes
<1>3. Mapped[job.chan] = RoomOf(old) /\ Mapped' = [Mapped EXCEPT ![job.chan] = RoomOf(new)]
    BY <1>1, MappedPut
<1>4. Mapped[job.chan].modes = old.modes /\ Mapped[job.chan].limit = old.limit
    BY <1>3, RoomParts
<1>5. Chat!IsOperator(job.fd, job.chan)
    BY <1>1, MappedTests
<1>6. Chat!Change(job.chan, [Mapped[job.chan] EXCEPT !.modes = new.modes, !.limit = new.limit])
    BY <1>2, <1>3, MappedChange, Zenon
<1>7. ASSUME Set(m, new) PROVE \E n \in MayBeLimit : Chat!SetMode(job.fd, job.chan, m, n)
    <2>1. PICK n \in MayBeLimit : m = "l" => n = new.limit
        BY <1>7 DEF Set, MayBeLimit
    <2>2. /\ new.modes = Mapped[job.chan].modes \cup {m}
          /\ new.limit = IF m = "l" THEN n ELSE Mapped[job.chan].limit
        BY <1>1, <1>4, <1>7, <2>1 DEF Set
    <2>3. Chat!Change(job.chan, [Mapped[job.chan] EXCEPT !.modes = @ \cup {m},
                                                         !.limit = IF m = "l" THEN n ELSE @])
        BY <1>6, <2>2, Zenon
    <2> QED BY <1>5, <2>3, Zenon DEF Chat!SetMode, Mapped
<1>8. ASSUME Cleared(m, new) PROVE Chat!ClearMode(job.fd, job.chan, m)
    <2>1. /\ new.modes = Mapped[job.chan].modes \ {m}
          /\ new.limit = IF m = "l" THEN 0 ELSE Mapped[job.chan].limit
        BY <1>1, <1>4, <1>8 DEF Cleared
    <2>2. Chat!Change(job.chan, [Mapped[job.chan] EXCEPT !.modes = @ \ {m},
                                                         !.limit = IF m = "l" THEN 0 ELSE @])
        BY <1>6, <2>1, Zenon
    <2> QED BY <1>5, <2>2, Zenon DEF Chat!ClearMode, Mapped
<1> QED BY <1>1, <1>7, <1>8 DEF Chat!Letters

LEMMA RankedRoom ==
    ASSUME IInv, NEW target \in Fds, Ranked(target)
    PROVE  Chat!Promote(job.fd, target, job.chan) \/ Chat!Demote(job.fd, target, job.chan)
<1> DEFINE old == channelList[job.chan]
           new == setMode(old, "o", job.sign, target)
<1>1. /\ job.chan \in DOMAIN channelList /\ target \in Members(job.chan) /\ job.fd # target
      /\ job.fd \in Operators(job.chan) /\ Put(job.chan, new) /\ job.sign \in {"+", "-"}
    BY DEF Ranked, Ruled
<1>2. /\ new.clientFdList = old.clientFdList /\ SameSettings(old, new) /\ SameGuests(old, new)
      /\ job.sign = "+" => ToSet(new.operatorFdList) = ToSet(old.operatorFdList) \cup {target}
      /\ job.sign = "-" => ToSet(new.operatorFdList) = ToSet(old.operatorFdList) \ {target}
    <2>1. GoodChannel(old) /\ target \in ToSet(old.clientFdList)
        BY <1>1 DEF IInv, MapsInv, Members
    <2>2. job.sign \in Signs
        BY <1>1 DEF Signs
    <2> QED BY <2>1, <2>2, OperatorGood
<1> HIDE DEF new
<1>3. RoomOf(new) = [RoomOf(old) EXCEPT !.ops = ToSet(new.operatorFdList)]
    BY <1>2, RoomOps
<1>4. Mapped[job.chan] = RoomOf(old) /\ Mapped' = [Mapped EXCEPT ![job.chan] = RoomOf(new)]
    BY <1>1, MappedPut
<1>5. Mapped[job.chan].ops = ToSet(old.operatorFdList)
    BY <1>4, RoomParts
<1>6. Chat!Change(job.chan, [Mapped[job.chan] EXCEPT !.ops = ToSet(new.operatorFdList)])
    BY <1>3, <1>4, MappedChange, Zenon
<1>7. Chat!IsOperator(job.fd, job.chan) /\ Chat!IsMember(target, job.chan)
    BY <1>1, MappedTests
<1>8. CASE job.sign = "+"
    <2>1. Chat!Change(job.chan, [Mapped[job.chan] EXCEPT !.ops = @ \cup {target}])
        BY <1>2, <1>5, <1>6, <1>8, Zenon
    <2> QED BY <1>1, <1>7, <2>1, Zenon DEF Chat!Promote, Mapped
<1>9. CASE job.sign = "-"
    <2>1. Chat!Change(job.chan, [Mapped[job.chan] EXCEPT !.ops = @ \ {target}])
        BY <1>2, <1>5, <1>6, <1>9, Zenon
    <2> QED BY <1>1, <1>7, <2>1, Zenon DEF Chat!Demote, Mapped
<1> QED BY <1>1, <1>8, <1>9

\* TOPIC
LEMMA RetitledRoom ==
    ASSUME IInv, NEW fd \in Fds, NEW name \in DOMAIN channelList, NEW word \in Words, Retitled(fd, name, word)
    PROVE  Chat!SetTopic(fd, name, word)
<1> DEFINE old == channelList[name]
           new == setTopic(old, word)
<1>1. /\ new.clientFdList = old.clientFdList /\ new.operatorFdList = old.operatorFdList
      /\ SameGuests(old, new) /\ new.modes = old.modes /\ new.limit = old.limit /\ new.topic = word
    BY DEF IInv, MapsInv, Channels, setTopic, SameGuests
<1>2. Put(name, new) /\ fd \in Members(name) /\ ("t" \in old.modes => fd \in Operators(name))
    BY DEF Retitled
<1> HIDE DEF new
<1>3. RoomOf(new) = [RoomOf(old) EXCEPT !.topic = word]
    BY <1>1, RoomTopic
<1>4. Mapped[name] = RoomOf(old) /\ Mapped' = [Mapped EXCEPT ![name] = RoomOf(new)]
    BY <1>2, MappedPut
<1>5. Chat!Change(name, [Mapped[name] EXCEPT !.topic = word])
    BY <1>3, <1>4, MappedChange, Zenon
<1>6. Chat!IsMember(fd, name) /\ ("t" \in Mapped[name].modes => Chat!IsOperator(fd, name))
    BY <1>2, <1>4, MappedTests, RoomParts
<1> QED BY <1>5, <1>6, Zenon DEF Chat!SetTopic, Mapped

\* INVITE: the -1 of a client that Eof has left behind is no guest.
LEMMA InvitedRoom ==
    ASSUME IInv, NEW fd \in Fds, NEW name \in DOMAIN channelList, NEW guest \in Fds \cup {NoFd},
           Invited(fd, name, guest)
    PROVE  UNCHANGED Mapped \/ (guest \in Fds /\ Chat!Invite(fd, guest, name))
<1> DEFINE old == channelList[name]
           new == appendFdListInvite(old, guest)
<1>1. /\ new.clientFdList = old.clientFdList /\ new.operatorFdList = old.operatorFdList
      /\ SameSettings(old, new) /\ ToSet(new.inviteFdList) = ToSet(old.inviteFdList) \cup {guest}
    BY InviteGood DEF IInv, MapsInv
<1>2. Put(name, new) /\ fd \in Operators(name) /\ guest \notin Members(name)
    BY DEF Invited
<1> HIDE DEF new
<1>3. RoomOf(new) = [RoomOf(old) EXCEPT !.guests = ToSet(new.inviteFdList) \cap Fds]
    BY <1>1, RoomGuests
<1>4. Mapped[name] = RoomOf(old) /\ Mapped' = [Mapped EXCEPT ![name] = RoomOf(new)]
    BY <1>2, MappedPut
<1>5. Mapped[name].guests = ToSet(old.inviteFdList) \cap Fds /\ Mapped[name].members = Members(name)
    BY <1>4, RoomParts DEF Members
<1>6. CASE guest \in Fds
    <2>1. ToSet(new.inviteFdList) \cap Fds = Mapped[name].guests \cup {guest}
        BY <1>1, <1>5, <1>6
    <2>2. Chat!Change(name, [Mapped[name] EXCEPT !.guests = @ \cup {guest}])
        BY <1>3, <1>4, <2>1, MappedChange, Zenon
    <2>3. Chat!IsOperator(fd, name)
        BY <1>2, MappedTests
    <2>4. guest \notin Mapped[name].members
        BY <1>2, <1>5
    <2> QED BY <1>6, <2>2, <2>3, <2>4, Zenon DEF Chat!Invite, Mapped
<1>7. CASE guest \notin Fds
    <2>1. ToSet(new.inviteFdList) \cap Fds = ToSet(old.inviteFdList) \cap Fds
        BY <1>1, <1>7
    <2>2. RoomOf(new) = RoomOf(old)
        <3>1. RoomOf(new) = RoomWith(ToSet(old.clientFdList), ToSet(old.operatorFdList),
                                     ToSet(old.inviteFdList) \cap Fds, old.modes, old.limit, old.topic)
            <4>1. [RoomOf(old) EXCEPT !.guests = ToSet(old.inviteFdList) \cap Fds]
                      = RoomWith(ToSet(old.clientFdList), ToSet(old.operatorFdList),
                                 ToSet(old.inviteFdList) \cap Fds, old.modes, old.limit, old.topic)
                BY ReplacePart
            <4> QED BY <1>3, <2>1, <4>1
        <3> QED BY <3>1, RoomParts
    <2> QED BY <1>4, <2>2 DEF Mapped
<1> QED BY <1>6, <1>7

\* A lost connection
LEMMA LostRoom ==
    ASSUME IInv, NEW fd \in Fds, Lost(fd)
    PROVE  Chat!Vanish(fd)
<1>1. job = Idle /\ fd \in DOMAIN clientList /\ MapsInv /\ channelList' = Disconnected(fd)
    BY DEF Lost, Event, IInv
<1>2. ASSUME NEW c \in DOMAIN channelList
      PROVE  RoomOf(channelList'[c]) =
                IF fd \in Mapped[c].members
                THEN [Chat!Less(Mapped[c], fd) EXCEPT !.guests = @ \ {fd}] ELSE Mapped[c]
    <2> DEFINE old == channelList[c]
               less == Removed(old, fd)
               new == removeInviteFd(less, fd)
    <2>1. Mapped[c] = RoomOf(old) /\ Mapped[c].members = Members(c)
        BY RoomParts DEF Mapped, Members
    <2>2. findChannelOf(clientList[fd], c) <=> fd \in Members(c)
        BY <1>1 DEF MapsInv, MembershipAgrees, ListedBy, findChannelOf, Idle
    <2>3. channelList'[c] = IF fd \in Members(c) THEN new ELSE old
        BY <1>1, <2>2 DEF Disconnected
    <2>4. /\ GoodChannel(less) /\ SameSettings(old, less) /\ SameGuests(old, less)
          /\ ToSet(less.clientFdList) = ToSet(old.clientFdList) \ {fd}
          /\ ToSet(less.operatorFdList) = ToSet(old.operatorFdList) \ {fd}
        BY <1>1, RemovedGood DEF MapsInv
    <2> HIDE DEF less
    <2>5. /\ new.clientFdList = less.clientFdList /\ new.operatorFdList = less.operatorFdList
          /\ ToSet(new.inviteFdList) = ToSet(less.inviteFdList) \ {fd} /\ SameSettings(less, new)
        BY <2>4, InviteGood
    <2> HIDE DEF new
    <2>6. RoomOf(less) = Chat!Less(RoomOf(old), fd)
        BY <2>4, RoomLess
    <2>7. RoomOf(new) = [RoomOf(less) EXCEPT !.guests = ToSet(new.inviteFdList) \cap Fds]
        BY <2>5, RoomGuests
    <2>8. ToSet(new.inviteFdList) \cap Fds = RoomOf(less).guests \ {fd}
        BY <2>5, RoomParts
    <2>9. RoomOf(new) = [Chat!Less(RoomOf(old), fd) EXCEPT !.guests = @ \ {fd}]
        BY <2>6, <2>7, <2>8, Zenon
    <2> QED BY <2>1, <2>3, <2>9, Zenon
<1>3. DOMAIN channelList' = DOMAIN channelList
    BY <1>1 DEF Disconnected
<1>4. Mapped' = [c \in DOMAIN channelList |-> RoomOf(channelList'[c])]
    BY <1>3 DEF Mapped
<1>5. DOMAIN Mapped = DOMAIN channelList
    BY DEF Mapped
<1>6. Mapped' = [c \in DOMAIN Mapped |->
                    IF fd \in Mapped[c].members
                    THEN [Chat!Less(Mapped[c], fd) EXCEPT !.guests = @ \ {fd}] ELSE Mapped[c]]
    BY <1>2, <1>4, <1>5, Zenon
<1> QED BY <1>6, Zenon DEF Chat!Vanish, Mapped

-----------------------------------------------------------------------------
(***************************************************************************)
(* The refinement                                                          *)
(***************************************************************************)
\* Every step of the server is a step of ChatRooms or leaves the rooms alone.
LEMMA NextRooms ==
    IInv /\ KeysAligned /\ JoinIters /\ KickRight /\ [Next]_vars => [Chat!Next]_Mapped
<1> SUFFICES ASSUME IInv, KeysAligned, JoinIters, KickRight, [Next]_vars
             PROVE  Chat!Next \/ UNCHANGED Mapped
    BY DEF Mapped
<1> USE DEF IInv
<1>1. /\ DOMAIN channelList \subseteq ChanNames
      /\ job.op # "IDLE" => job.fd \in Fds
    BY JobTypes DEF MapsInv, JobInv, Idle, SignUpJobs, JoinJobs, PartJobs, KickJobs, QuitJobs, ModeJobs, PrivmsgJobs
<1>2. CASE Quiet
    BY <1>2 DEF Quiet, Mapped
<1>3. CASE Opened
    <2>1. job.op = "JOIN" /\ JoinName \in ChanNames /\ Chat!Open(job.fd, JoinName)
        BY <1>3, OpenedRoom DEF Opened
    <2> QED BY <1>1, <2>1 DEF Chat!Next
<1>4. CASE Closed
    <2>1. Chat!Close
        BY <1>4 DEF Closed, EmptyMap, Chat!Close
    <2> QED BY <2>1 DEF Chat!Next
<1>5. ASSUME NEW name \in DOMAIN channelList, Entered(name) PROVE Chat!Next
    <2>1. job.op = "JOIN" /\ Chat!Enter(job.fd, name)
        BY <1>5, EnteredRoom DEF Entered
    <2> QED BY <1>1, <2>1 DEF Chat!Next
<1>6. ASSUME NEW name \in DOMAIN channelList, Left(name) PROVE Chat!Next
    <2>1. job.op # "IDLE" /\ Chat!Leave(job.fd, name)
        BY <1>6, LeftRoom DEF Left
    <2> QED BY <1>1, <2>1 DEF Chat!Next
<1>7. ASSUME NEW name \in DOMAIN channelList, NEW victim \in Fds, PutOut(name, victim) PROVE Chat!Next
    <2>1. job.op = "KICK" /\ Chat!PutOut(job.fd, victim, name)
        BY <1>7, PutOutRoom DEF PutOut
    <2> QED BY <1>1, <2>1 DEF Chat!Next
<1>8. ASSUME NEW m, NEW new, Set(m, new) \/ Cleared(m, new) PROVE Chat!Next
    <2>1. job.op = "MODE" /\ job.chan \in DOMAIN channelList
        BY <1>8 DEF Set, Cleared, Flagged, Ruled
    <2>2. /\ m \in Chat!Letters
          /\ (\E n \in MayBeLimit : Chat!SetMode(job.fd, job.chan, m, n)) \/ Chat!ClearMode(job.fd, job.chan, m)
        BY <1>8, FlaggedRoom
    <2> QED BY <1>1, <2>1, <2>2 DEF Chat!Next
<1>9. ASSUME NEW target \in Fds, Ranked(target) PROVE Chat!Next
    <2>1. job.op = "MODE" /\ job.chan \in DOMAIN channelList
        BY <1>9 DEF Ranked, Ruled
    <2>2. Chat!Promote(job.fd, target, job.chan) \/ Chat!Demote(job.fd, target, job.chan)
        BY <1>9, RankedRoom
    <2> QED BY <1>1, <2>1, <2>2 DEF Chat!Next
<1>10. ASSUME NEW fd \in Fds, NEW name \in DOMAIN channelList, NEW word \in Words, Retitled(fd, name, word)
       PROVE  Chat!Next
    <2>1. Chat!SetTopic(fd, name, word)
        BY <1>10, RetitledRoom
    <2> QED BY <1>1, <2>1 DEF Chat!Next
<1>11. ASSUME NEW fd \in Fds, NEW name \in DOMAIN channelList, NEW guest \in Fds \cup {NoFd},
              Invited(fd, name, guest)
       PROVE  Chat!Next \/ UNCHANGED Mapped
    <2>1. UNCHANGED Mapped \/ (guest \in Fds /\ Chat!Invite(fd, guest, name))
        BY <1>11, InvitedRoom
    <2> QED BY <1>1, <2>1 DEF Chat!Next
<1>12. ASSUME NEW fd \in Fds, Lost(fd) PROVE Chat!Next
    <2>1. Chat!Vanish(fd)
        BY <1>12, LostRoom
    <2> QED BY <2>1 DEF Chat!Next
<1> QED BY <1>2, <1>3, <1>4, <1>5, <1>6, <1>7, <1>8, <1>9, <1>10, <1>11, <1>12, NextKinds DEF Catalogued

\* The server implements ChatRooms, whatever its clients send, however many there are
\* and whenever their connections are lost.
THEOREM RoomsImplemented == Spec => ImplementsChatRooms
<1>1. Init => Chat!Init
    BY DEF Init, EmptyMap, Chat!Init
<1>2. IInv /\ KeysAligned /\ JoinIters /\ KickRight /\ [Next]_vars => [Chat!Next]_Mapped
    BY NextRooms
<1> QED BY <1>1, <1>2, Invariance, JoinPairs, KickRights, PTL DEF Spec, ImplementsChatRooms, Chat!Spec, Mapped
=============================================================================
