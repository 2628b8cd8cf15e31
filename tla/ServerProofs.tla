---------------------------- MODULE ServerProofs ----------------------------
(***************************************************************************)
(* The safety invariants of Server, for every set of descriptors, words,   *)
(* requests and bursts.                                                    *)
(***************************************************************************)
EXTENDS Server, ListProofs

(***************************************************************************)
(* What the methods of Client and Channel keep of one object: the part of  *)
(* the invariant that looks at a single client or channel.                 *)
(***************************************************************************)
\* A client under key f, when the connections in open are open.
GoodClient(f, cl, open) ==
    /\ cl \in Clients
    /\ IsInjective(cl.channelList)
    /\ cl.channelList # <<>> => getIsRegist(cl)
    /\ cl.regi # {} => "PASS" \in cl.regi
    /\ cl.fd \in {f, NoFd}
    /\ f \notin open => cl = NewClient(NoFd)

GoodChannel(ch) ==
    /\ ch \in Channels
    /\ IsInjective(ch.clientFdList)
    /\ IsInjective(ch.operatorFdList)
    /\ IsInjective(ch.inviteFdList)
    /\ ToSet(ch.operatorFdList) \subseteq ToSet(ch.clientFdList)

\* What MODE, TOPIC and INVITE have made of a channel is the same in old and new.
SameSettings(old, new) ==
    /\ new.modes = old.modes /\ new.key = old.key /\ new.limit = old.limit
    /\ new.topic = old.topic
SameGuests(old, new) == new.inviteFdList = old.inviteFdList

-----------------------------------------------------------------------------
\* Clients

\* The constructors make good clients that are in no channel.
LEMMA NewClientGood ==
    ASSUME NEW f \in Fds, NEW open
    PROVE  /\ GoodClient(f, NewClient(NoFd), open)
           /\ f \in open => GoodClient(f, NewClient(f), open)
           /\ ToSet(NewClient(f).channelList) = {} /\ ToSet(NewClient(NoFd).channelList) = {}
<1>1. Star \in Words
    BY WordsAssumption
<1>2. <<>> \in Seq(ChanNames) /\ IsInjective(<<>>) /\ ToSet(<<>>) = {}
    BY EmptySeq DEF IsInjective, ToSet
<1>3. \A x \in Fds \cup {NoFd} : NewClient(x) \in Clients
    BY <1>1, <1>2 DEF NewClient, Clients
<1> QED BY <1>2, <1>3 DEF GoodClient, NewClient

\* PASS, and NICK or USER after it, keep a client of an open connection good.
LEMMA SetRegiGood ==
    ASSUME NEW f \in Fds, NEW cl, NEW open, GoodClient(f, cl, open), f \in open,
           NEW what \in Registration, what = "PASS" \/ "PASS" \in cl.regi
    PROVE  /\ GoodClient(f, setRegi(cl, what), open)
           /\ setRegi(cl, what).channelList = cl.channelList
BY DEF GoodClient, Clients, setRegi, getIsRegist, Registration

\* So does a new name.
LEMMA SetNicknameGood ==
    ASSUME NEW f \in Fds, NEW cl, NEW open, GoodClient(f, cl, open), f \in open,
           NEW name \in Words
    PROVE  /\ GoodClient(f, setNickname(cl, name), open)
           /\ setNickname(cl, name).channelList = cl.channelList
           /\ setNickname(cl, name).regi = cl.regi
BY DEF GoodClient, Clients, setNickname, getIsRegist

\* appendChannelList on a registered client that is not in the channel.
LEMMA AppendChannelGood ==
    ASSUME NEW f \in Fds, NEW cl, NEW open, GoodClient(f, cl, open), f \in open,
           getIsRegist(cl), NEW name \in ChanNames, name \notin ToSet(cl.channelList)
    PROVE  /\ GoodClient(f, appendChannelList(cl, name), open)
           /\ getIsRegist(appendChannelList(cl, name))
           /\ ToSet(appendChannelList(cl, name).channelList) = ToSet(cl.channelList) \cup {name}
<1>1. cl.channelList \in Seq(ChanNames) /\ IsInjective(cl.channelList)
    BY DEF GoodClient, Clients
<1>2. /\ Append(cl.channelList, name) \in Seq(ChanNames)
      /\ ToSet(Append(cl.channelList, name)) = ToSet(cl.channelList) \cup {name}
      /\ IsInjective(Append(cl.channelList, name))
    BY <1>1, AppendList
<1> QED BY <1>2 DEF GoodClient, Clients, appendChannelList, getIsRegist

\* deleteChannel on a client of an open connection.
LEMMA DeleteChannelGood ==
    ASSUME NEW f \in Fds, NEW cl, NEW open, GoodClient(f, cl, open), f \in open,
           NEW name
    PROVE  /\ GoodClient(f, deleteChannel(cl, name), open)
           /\ getIsRegist(cl) => getIsRegist(deleteChannel(cl, name))
           /\ ToSet(deleteChannel(cl, name).channelList) = ToSet(cl.channelList) \ {name}
<1>1. cl.channelList \in Seq(ChanNames) /\ IsInjective(cl.channelList)
    BY DEF GoodClient, Clients
<1> DEFINE rest == RemoveFirst(cl.channelList, name)
<1>2. /\ rest \in Seq(ChanNames) /\ IsInjective(rest)
      /\ ToSet(rest) \subseteq ToSet(cl.channelList) /\ ToSet(cl.channelList) \ {name} \subseteq ToSet(rest)
      /\ name \notin ToSet(rest)
    BY <1>1, RemoveList
<1>3. ToSet(rest) = ToSet(cl.channelList) \ {name}
    BY <1>2
<1>4. rest # <<>> => cl.channelList # <<>>
    BY <1>2, EmptySeq DEF ToSet
<1> HIDE DEF rest
<1>5. deleteChannel(cl, name) = [cl EXCEPT !.channelList = rest]
    BY DEF deleteChannel, rest
<1> QED BY <1>2, <1>3, <1>4, <1>5 DEF GoodClient, Clients, getIsRegist

-----------------------------------------------------------------------------
\* Channels

\* A channel with its creator in it.
LEMMA NewChannelGood ==
    ASSUME NEW fd \in Fds
    PROVE  LET ch == appendFdListClient(NewChannel(fd), fd) IN
           GoodChannel(ch) /\ ToSet(ch.clientFdList) = {fd} /\ ToSet(ch.operatorFdList) = {fd}
<1>1. "" \in Words
    BY WordsAssumption
<1>2. /\ <<>> \in Seq(Fds) /\ <<>> \in Seq(Fds \cup {NoFd}) /\ IsInjective(<<>>)
      /\ <<fd>> \in Seq(Fds) /\ IsInjective(<<fd>>) /\ ToSet(<<fd>>) = {fd}
    BY DEF IsInjective, ToSet
<1>3. Append(<<>>, fd) = <<fd>>
    OBVIOUS
<1> QED BY <1>1, <1>2, <1>3 DEF GoodChannel, Channels, appendFdListClient, NewChannel

\* appendFdListClient of somebody who is not in the channel.
LEMMA AppendClientGood ==
    ASSUME NEW ch, GoodChannel(ch), NEW fd \in Fds, fd \notin ToSet(ch.clientFdList)
    PROVE  /\ GoodChannel(appendFdListClient(ch, fd))
           /\ ToSet(appendFdListClient(ch, fd).clientFdList) = ToSet(ch.clientFdList) \cup {fd}
           /\ Len(appendFdListClient(ch, fd).clientFdList) = Len(ch.clientFdList) + 1
           /\ appendFdListClient(ch, fd).operatorFdList = ch.operatorFdList
           /\ SameSettings(ch, appendFdListClient(ch, fd))
           /\ SameGuests(ch, appendFdListClient(ch, fd))
<1>1. ch.clientFdList \in Seq(Fds) /\ IsInjective(ch.clientFdList)
    BY DEF GoodChannel, Channels
<1> DEFINE more == Append(ch.clientFdList, fd)
<1>2. /\ more \in Seq(Fds) /\ ToSet(more) = ToSet(ch.clientFdList) \cup {fd} /\ IsInjective(more)
      /\ Len(more) = Len(ch.clientFdList) + 1
    BY <1>1, AppendList, AppendProperties
<1> HIDE DEF more
<1>3. appendFdListClient(ch, fd) = [ch EXCEPT !.clientFdList = more]
    BY DEF appendFdListClient, more
<1> QED BY <1>2, <1>3 DEF GoodChannel, Channels, SameSettings, SameGuests

\* Leaving: fd is out of the clients and out of the operators, and nobody else is.
LEMMA RemovedGood ==
    ASSUME NEW ch, GoodChannel(ch), NEW fd \in Fds
    PROVE  /\ GoodChannel(Removed(ch, fd))
           /\ ToSet(Removed(ch, fd).clientFdList) = ToSet(ch.clientFdList) \ {fd}
           /\ ToSet(Removed(ch, fd).operatorFdList) = ToSet(ch.operatorFdList) \ {fd}
           /\ SameSettings(ch, Removed(ch, fd)) /\ SameGuests(ch, Removed(ch, fd))
<1>1. /\ ch.clientFdList \in Seq(Fds) /\ IsInjective(ch.clientFdList)
      /\ ch.operatorFdList \in Seq(Fds) /\ IsInjective(ch.operatorFdList)
    BY DEF GoodChannel, Channels
<1> DEFINE cs == RemoveFirst(ch.clientFdList, fd)
           os == RemoveFirst(ch.operatorFdList, fd)
<1>2. cs \in Seq(Fds) /\ IsInjective(cs) /\ ToSet(cs) = ToSet(ch.clientFdList) \ {fd}
    BY <1>1, RemoveList
<1>3. os \in Seq(Fds) /\ IsInjective(os) /\ ToSet(os) = ToSet(ch.operatorFdList) \ {fd}
    BY <1>1, RemoveList
<1> HIDE DEF cs, os
<1>4. Removed(ch, fd) = [ch EXCEPT !.clientFdList = cs, !.operatorFdList = os]
    BY DEF Removed, removeOperatorFd, removeFdListClient, cs, os, GoodChannel, Channels
<1> QED BY <1>2, <1>3, <1>4 DEF GoodChannel, Channels, SameSettings, SameGuests

\* The invitations do not touch the clients, the operators or the settings.
LEMMA InviteGood ==
    ASSUME NEW ch, GoodChannel(ch), NEW fd \in Fds \cup {NoFd}
    PROVE  /\ GoodChannel(removeInviteFd(ch, fd))
           /\ GoodChannel(appendFdListInvite(ch, fd))
           /\ removeInviteFd(ch, fd).clientFdList = ch.clientFdList
           /\ appendFdListInvite(ch, fd).clientFdList = ch.clientFdList
           /\ removeInviteFd(ch, fd).operatorFdList = ch.operatorFdList
           /\ appendFdListInvite(ch, fd).operatorFdList = ch.operatorFdList
           /\ SameSettings(ch, removeInviteFd(ch, fd))
           /\ SameSettings(ch, appendFdListInvite(ch, fd))
           /\ ToSet(removeInviteFd(ch, fd).inviteFdList) = ToSet(ch.inviteFdList) \ {fd}
           /\ ToSet(appendFdListInvite(ch, fd).inviteFdList) = ToSet(ch.inviteFdList) \cup {fd}
<1>1. ch.inviteFdList \in Seq(Fds \cup {NoFd}) /\ IsInjective(ch.inviteFdList)
    BY DEF GoodChannel, Channels
<1> DEFINE less == RemoveFirst(ch.inviteFdList, fd)
           more == Append(ch.inviteFdList, fd)
<1>2. less \in Seq(Fds \cup {NoFd}) /\ IsInjective(less) /\ ToSet(less) = ToSet(ch.inviteFdList) \ {fd}
    BY <1>1, RemoveList
<1>3. /\ more \in Seq(Fds \cup {NoFd}) /\ ToSet(more) = ToSet(ch.inviteFdList) \cup {fd}
      /\ fd \notin ToSet(ch.inviteFdList) => IsInjective(more)
    BY <1>1, AppendList
<1> HIDE DEF less, more
<1>4. /\ removeInviteFd(ch, fd) = [ch EXCEPT !.inviteFdList = less]
      /\ appendFdListInvite(ch, fd) = IF fd \in ToSet(ch.inviteFdList) THEN ch
                                      ELSE [ch EXCEPT !.inviteFdList = more]
    BY DEF removeInviteFd, appendFdListInvite, diffInvite, less, more
<1> QED BY <1>2, <1>3, <1>4 DEF GoodChannel, Channels, SameSettings

\* new is as good as old, with the same clients and operators.
SameRanks(old, new) ==
    /\ GoodChannel(new) /\ SameGuests(old, new)
    /\ new.clientFdList = old.clientFdList
    /\ new.operatorFdList = old.operatorFdList

\* Topic, key, limit and flags do not touch the clients or the operators.
LEMMA SettingsGood ==
    ASSUME NEW ch, GoodChannel(ch)
    PROVE  /\ \A w \in Words : SameRanks(ch, setTopic(ch, w)) /\ SameRanks(ch, setKey(ch, w))
           /\ \A n \in Nat : SameRanks(ch, setLimit(ch, n))
           /\ \A m \in {"i", "t", "k", "l"}, sign \in Signs, fd \in Fds :
                SameRanks(ch, setMode(ch, m, sign, fd))
<1>1. \A w \in Words : SameRanks(ch, setTopic(ch, w)) /\ SameRanks(ch, setKey(ch, w))
    BY DEF GoodChannel, Channels, setTopic, setKey, SameRanks, SameGuests
<1>2. \A n \in Nat : SameRanks(ch, setLimit(ch, n))
    BY DEF GoodChannel, Channels, setLimit, SameRanks, SameGuests
<1>3. \A m \in {"i", "t", "k", "l"}, sign \in Signs, fd \in Fds :
        SameRanks(ch, setMode(ch, m, sign, fd))
    <2> SUFFICES ASSUME NEW m \in {"i", "t", "k", "l"}, NEW sign \in Signs, NEW fd \in Fds
                 PROVE  SameRanks(ch, setMode(ch, m, sign, fd))
        OBVIOUS
    <2>1. ch.modes \in SUBSET {"i", "t", "k", "l"}
        BY DEF GoodChannel, Channels
    <2>2. \A flags \in SUBSET {"i", "t", "k", "l"} : SameRanks(ch, [ch EXCEPT !.modes = flags])
        BY DEF GoodChannel, Channels, SameRanks, SameGuests
    <2>3. SameRanks(ch, [ch EXCEPT !.modes = @ \cup {m}])
        BY <2>1, <2>2
    <2>4. SameRanks(ch, [ch EXCEPT !.modes = @ \ {m}])
        BY <2>1, <2>2
    <2>5. SameRanks(ch, ch)
        BY DEF SameRanks, SameGuests
    <2>6. m # "o" /\ sign \in {"+", "-", "nul"}
        BY DEF Signs
    <2> QED BY <2>3, <2>4, <2>5, <2>6 DEF setMode
<1> QED BY <1>1, <1>2, <1>3

\* MODE o on a client of the channel changes its right and nobody else's.
LEMMA OperatorGood ==
    ASSUME NEW ch, GoodChannel(ch), NEW sign \in Signs, NEW fd \in ToSet(ch.clientFdList)
    PROVE  LET new == setMode(ch, "o", sign, fd) IN
           /\ GoodChannel(new)
           /\ new.clientFdList = ch.clientFdList
           /\ SameSettings(ch, new) /\ SameGuests(ch, new)
           /\ ToSet(ch.operatorFdList) \ {fd} \subseteq ToSet(new.operatorFdList)
           /\ sign = "+" => ToSet(new.operatorFdList) = ToSet(ch.operatorFdList) \cup {fd}
           /\ sign = "-" => ToSet(new.operatorFdList) = ToSet(ch.operatorFdList) \ {fd}
           /\ sign = "nul" => new = ch
<1>1. /\ ch.operatorFdList \in Seq(Fds) /\ IsInjective(ch.operatorFdList)
      /\ ch.clientFdList \in Seq(Fds)
    BY DEF GoodChannel, Channels
<1>2. fd \in Fds
    BY <1>1, ElementOfSeq, LenProperties DEF ToSet
<1> DEFINE less == RemoveFirst(ch.operatorFdList, fd)
           more == Append(ch.operatorFdList, fd)
<1>3. /\ less \in Seq(Fds) /\ IsInjective(less)
      /\ ToSet(less) = ToSet(ch.operatorFdList) \ {fd}
    BY <1>1, RemoveList
<1>4. /\ more \in Seq(Fds) /\ ToSet(more) = ToSet(ch.operatorFdList) \cup {fd}
      /\ fd \notin ToSet(ch.operatorFdList) => IsInjective(more)
    BY <1>1, <1>2, AppendList
<1> HIDE DEF less, more
<1> DEFINE new == setMode(ch, "o", sign, fd)
<1>5. /\ sign = "+" => new = IF fd \in ToSet(ch.operatorFdList) THEN ch
                             ELSE [ch EXCEPT !.operatorFdList = more]
      /\ sign = "-" => new = [ch EXCEPT !.operatorFdList = less]
      /\ sign = "nul" => new = ch
    BY DEF setMode, setOperator, addOperatorFd, removeOperatorFd, diffOperator, less, more
<1> HIDE DEF new
<1>6. CASE sign = "+"
    BY <1>3, <1>4, <1>5, <1>6 DEF GoodChannel, Channels, SameSettings, SameGuests, new
<1>7. CASE sign = "-"
    BY <1>3, <1>4, <1>5, <1>7 DEF GoodChannel, Channels, SameSettings, SameGuests, new
<1>8. CASE sign = "nul"
    BY <1>5, <1>8 DEF SameSettings, SameGuests, new
<1> QED BY <1>6, <1>7, <1>8 DEF Signs

-----------------------------------------------------------------------------
(***************************************************************************)
(* The inductive invariant, in three parts.                                *)
(***************************************************************************)
\* The two maps: every object is good, and they agree on who is where.
MapsInv ==
    /\ DOMAIN clientList \subseteq Fds /\ clientList \in [DOMAIN clientList -> Clients]
    /\ DOMAIN channelList \subseteq ChanNames /\ channelList \in [DOMAIN channelList -> Channels]
    /\ sock \subseteq DOMAIN clientList
    /\ eventList \subseteq sock \cup {ServerSock}
    /\ \A f \in DOMAIN clientList : GoodClient(f, clientList[f], sock)
    /\ \A c \in DOMAIN channelList : GoodChannel(channelList[c])
    /\ MembershipAgrees

\* The handler in progress: its client has no event left in the batch and, unless
\* the handler has dropped it, is connected.
JobInv ==
    /\ job \in Jobs
    /\ job.op # "IDLE" => job.fd \notin eventList /\ (job.fd \in DOMAIN clientList => job.fd \in sock)
    /\ job.op \notin {"IDLE", "SIGNUP"} =>
            job.fd \in DOMAIN clientList /\ getIsRegist(clientList[job.fd])
    /\ job.op = "JOIN" => job.iter <= Len(job.chans)
    /\ job.op = "QUIT" => IsInjective(job.chans)
    /\ ModeByOperator

BufInv ==
    /\ reciveBuf \in [Fds -> Seq(Messages)]
    /\ status \in {"running", "stopped", "undefined"}

IInv == MapsInv /\ JobInv /\ BufInv

-----------------------------------------------------------------------------
(***************************************************************************)
(* What each kind of change does to the maps.                              *)
(***************************************************************************)
\* Nothing changes but the batch and the job.
LEMMA MapsQuiet ==
    ASSUME MapsInv, UNCHANGED <<clientList, channelList, sock>>,
           eventList' \subseteq sock \cup {ServerSock},
           \A f \in DOMAIN clientList : ListedBy(f)' = ListedBy(f)
    PROVE  MapsInv'
<1>1. MembershipAgrees'
    BY DEF MapsInv, MembershipAgrees, Members
<1> QED BY <1>1 DEF MapsInv

\* A client changes, but not its channels: PASS, NICK, USER.
LEMMA MapsClient ==
    ASSUME MapsInv, job.op # "QUIT", job'.op # "QUIT",
           NEW fd \in DOMAIN clientList, NEW cl, GoodClient(fd, cl, sock),
           cl.channelList = clientList[fd].channelList,
           clientList' = [clientList EXCEPT ![fd] = cl],
           UNCHANGED <<channelList, sock>>, eventList' \subseteq eventList
    PROVE  MapsInv'
<1>1. /\ DOMAIN clientList' = DOMAIN clientList /\ cl \in Clients
      /\ \A f \in DOMAIN clientList : clientList'[f] = IF f = fd THEN cl ELSE clientList[f]
    BY DEF MapsInv, GoodClient
<1>2. \A f \in DOMAIN clientList : ListedBy(f)' = ListedBy(f)
    BY <1>1 DEF ListedBy
<1>3. MembershipAgrees'
    BY <1>1, <1>2 DEF MapsInv, MembershipAgrees, Members
<1>4. clientList' \in [DOMAIN clientList' -> Clients]
    BY <1>1 DEF MapsInv
<1>5. \A f \in DOMAIN clientList' : GoodClient(f, clientList'[f], sock')
    BY <1>1 DEF MapsInv
<1> QED BY <1>1, <1>3, <1>4, <1>5 DEF MapsInv

\* A client that is in no channel goes: the refusals of sign-up, the end of QUIT.
LEMMA MapsDrop ==
    ASSUME MapsInv, job'.op # "QUIT", NEW fd \in DOMAIN clientList,
           job.op = "QUIT" => job.fd = fd, ListedBy(fd) = {},
           Drop(fd), eventList' \subseteq eventList \ {fd}
    PROVE  MapsInv'
<1>1. /\ DOMAIN clientList' = DOMAIN clientList \ {fd} /\ sock' = sock \ {fd}
      /\ channelList' = channelList
      /\ \A f \in DOMAIN clientList' : clientList'[f] = clientList[f]
      /\ clientList' \in [DOMAIN clientList' -> Clients]
    BY DEF Drop, Without, MapsInv
<1>2. \A f \in DOMAIN clientList' : ListedBy(f)' = ListedBy(f)
    BY <1>1 DEF ListedBy
<1>3. MembershipAgrees'
    <2>1. \A c \in DOMAIN channelList : fd \notin Members(c)
        BY DEF MapsInv, MembershipAgrees
    <2> QED BY <1>1, <1>2, <2>1 DEF MapsInv, MembershipAgrees, Members
<1>4. \A f \in DOMAIN clientList' : GoodClient(f, clientList'[f], sock')
    BY <1>1 DEF MapsInv, GoodClient
<1> QED BY <1>1, <1>3, <1>4 DEF MapsInv

\* A registered client enters a channel it is not in: JOIN.
LEMMA MapsEnter ==
    ASSUME MapsInv, job.op # "QUIT", job'.op # "QUIT",
           NEW fd \in sock, getIsRegist(clientList[fd]), NEW name \in ChanNames, NEW ch,
           \/ name \notin DOMAIN channelList /\ ch = NewChannel(fd)
           \/ name \in DOMAIN channelList /\ ch = channelList[name] /\ ~diffClientInChannel(ch, fd),
           channelList' = With(channelList, name, appendFdListClient(ch, fd)),
           clientList' = [clientList EXCEPT ![fd] = appendChannelList(@, name)],
           UNCHANGED <<sock, eventList>>
    PROVE  MapsInv' /\ getIsRegist(clientList'[fd]) /\ DOMAIN clientList' = DOMAIN clientList
<1> DEFINE new == appendFdListClient(ch, fd)
           cl == appendChannelList(clientList[fd], name)
           old == IF name \in DOMAIN channelList THEN Members(name) ELSE {}
<1>1. fd \in DOMAIN clientList /\ fd \in Fds /\ GoodClient(fd, clientList[fd], sock)
    BY DEF MapsInv
<1>2. fd \notin old
    BY DEF diffClientInChannel, Members
<1>3. name \notin ToSet(clientList[fd].channelList)
    BY <1>1, <1>2 DEF MapsInv, MembershipAgrees, ListedBy
<1>4. /\ GoodClient(fd, cl, sock) /\ getIsRegist(cl)
      /\ ToSet(cl.channelList) = ToSet(clientList[fd].channelList) \cup {name}
    BY <1>1, <1>3, AppendChannelGood
<1>5. GoodChannel(new) /\ ToSet(new.clientFdList) = old \cup {fd}
    <2>1. CASE name \notin DOMAIN channelList
        BY <1>1, <2>1, NewChannelGood
    <2>2. CASE name \in DOMAIN channelList
        BY <1>1, <1>2, <2>2, AppendClientGood DEF MapsInv, Members
    <2> QED BY <2>1, <2>2
<1> HIDE DEF new, cl, old
<1>6. /\ DOMAIN channelList' = DOMAIN channelList \cup {name}
      /\ \A c \in DOMAIN channelList' : channelList'[c] = IF c = name THEN new ELSE channelList[c]
      /\ channelList' \in [DOMAIN channelList' -> Channels]
    BY <1>5 DEF With, new, MapsInv, GoodChannel
<1>7. /\ DOMAIN clientList' = DOMAIN clientList
      /\ \A f \in DOMAIN clientList : clientList'[f] = IF f = fd THEN cl ELSE clientList[f]
      /\ clientList' \in [DOMAIN clientList' -> Clients]
    BY <1>4 DEF cl, MapsInv, GoodClient
<1>8. \A f \in DOMAIN clientList :
        ListedBy(f)' = IF f = fd THEN ListedBy(f) \cup {name} ELSE ListedBy(f)
    BY <1>4, <1>7 DEF ListedBy
<1>9. \A c \in DOMAIN channelList' :
        Members(c)' = IF c = name THEN old \cup {fd} ELSE Members(c)
    BY <1>5, <1>6 DEF Members
<1>10. MembershipAgrees'
    <2>1. \A c \in DOMAIN channelList' : Members(c)' \subseteq DOMAIN clientList'
        BY <1>1, <1>6, <1>7, <1>9 DEF MapsInv, MembershipAgrees, old
    <2>2. \A f \in DOMAIN clientList' : ListedBy(f)' \subseteq DOMAIN channelList'
        BY <1>6, <1>7, <1>8 DEF MapsInv, MembershipAgrees
    <2>3. ASSUME NEW f \in DOMAIN clientList', NEW c \in DOMAIN channelList'
          PROVE  c \in ListedBy(f)' <=> f \in Members(c)'
        <3>1. CASE c = name
            BY <1>6, <1>7, <1>8, <1>9, <3>1 DEF MapsInv, MembershipAgrees, old
        <3>2. CASE c # name
            BY <1>6, <1>7, <1>8, <1>9, <3>2 DEF MapsInv, MembershipAgrees
        <3> QED BY <3>1, <3>2
    <2> QED BY <2>1, <2>2, <2>3 DEF MembershipAgrees
<1> QED BY <1>4, <1>5, <1>6, <1>7, <1>10 DEF MapsInv

\* What Leave makes of the channels: name loses fd, and goes when nobody is left.
LEMMA LeaveEffect ==
    ASSUME MapsInv, NEW fd \in Fds, NEW name \in DOMAIN channelList,
           channelList' = Leave(channelList, fd, name)
    PROVE  /\ channelList' \in [DOMAIN channelList' -> Channels]
           /\ DOMAIN channelList \ {name} \subseteq DOMAIN channelList'
           /\ DOMAIN channelList' \subseteq DOMAIN channelList
           /\ \A c \in DOMAIN channelList' :
                /\ GoodChannel(channelList'[c])
                /\ Members(c)' = IF c = name THEN Members(c) \ {fd} ELSE Members(c)
           /\ name \notin DOMAIN channelList' => Members(name) \subseteq {fd}
<1> DEFINE ch == Removed(channelList[name], fd)
<1>1. GoodChannel(ch) /\ ToSet(ch.clientFdList) = Members(name) \ {fd}
    BY RemovedGood DEF MapsInv, Members
<1> HIDE DEF ch
<1>2. CASE ch.clientFdList = <<>>
    <2>1. channelList' = Without(channelList, name)
        BY <1>2 DEF Leave, ch
    <2>2. Members(name) \subseteq {fd}
        BY <1>1, <1>2 DEF ToSet
    <2> QED BY <2>1, <2>2 DEF Without, MapsInv, Members
<1>3. CASE ch.clientFdList # <<>>
    <2>1. channelList' = [channelList EXCEPT ![name] = ch]
        BY <1>3 DEF Leave, ch
    <2>2. DOMAIN channelList' = DOMAIN channelList
          /\ \A c \in DOMAIN channelList : channelList'[c] = IF c = name THEN ch ELSE channelList[c]
        BY <2>1 DEF MapsInv
    <2> QED BY <1>1, <2>1, <2>2 DEF MapsInv, Members, GoodChannel
<1> QED BY <1>2, <1>3

\* A client leaves a channel: PART.
LEMMA MapsPart ==
    ASSUME MapsInv, job.op # "QUIT", job'.op # "QUIT", NEW fd \in sock, NEW name,
           findChannelOf(clientList[fd], name),
           channelList' = Leave(channelList, fd, name),
           clientList' = [clientList EXCEPT ![fd] = deleteChannel(@, name)],
           UNCHANGED <<sock, eventList>>
    PROVE  /\ MapsInv' /\ DOMAIN clientList' = DOMAIN clientList
           /\ getIsRegist(clientList[fd]) => getIsRegist(clientList'[fd])
<1> DEFINE cl == deleteChannel(clientList[fd], name)
<1>1. fd \in DOMAIN clientList /\ fd \in Fds /\ GoodClient(fd, clientList[fd], sock)
    BY DEF MapsInv
<1>2. name \in ListedBy(fd) /\ name \in DOMAIN channelList
    BY <1>1 DEF MapsInv, MembershipAgrees, ListedBy, findChannelOf
<1>3. /\ GoodClient(fd, cl, sock) /\ (getIsRegist(clientList[fd]) => getIsRegist(cl))
      /\ ToSet(cl.channelList) = ToSet(clientList[fd].channelList) \ {name}
    BY <1>1, DeleteChannelGood
<1> HIDE DEF cl
<1>4. /\ DOMAIN clientList' = DOMAIN clientList
      /\ \A f \in DOMAIN clientList : clientList'[f] = IF f = fd THEN cl ELSE clientList[f]
      /\ clientList' \in [DOMAIN clientList' -> Clients]
    BY <1>3 DEF cl, MapsInv, GoodClient
<1>5. \A f \in DOMAIN clientList :
        ListedBy(f)' = IF f = fd THEN ListedBy(f) \ {name} ELSE ListedBy(f)
    BY <1>3, <1>4 DEF ListedBy
<1>6. /\ channelList' \in [DOMAIN channelList' -> Channels]
      /\ DOMAIN channelList \ {name} \subseteq DOMAIN channelList'
      /\ DOMAIN channelList' \subseteq DOMAIN channelList
      /\ \A c \in DOMAIN channelList' :
           /\ GoodChannel(channelList'[c])
           /\ Members(c)' = IF c = name THEN Members(c) \ {fd} ELSE Members(c)
      /\ name \notin DOMAIN channelList' => Members(name) \subseteq {fd}
    BY <1>1, <1>2, LeaveEffect
<1>7. MembershipAgrees'
    <2>1. \A c \in DOMAIN channelList' : Members(c)' \subseteq DOMAIN clientList'
        BY <1>4, <1>6 DEF MapsInv, MembershipAgrees
    <2>2. \A f \in DOMAIN clientList' : ListedBy(f)' \subseteq DOMAIN channelList'
        BY <1>2, <1>4, <1>5, <1>6 DEF MapsInv, MembershipAgrees
    <2>3. \A f \in DOMAIN clientList', c \in DOMAIN channelList' :
            c \in ListedBy(f)' <=> f \in Members(c)'
        BY <1>4, <1>5, <1>6 DEF MapsInv, MembershipAgrees
    <2> QED BY <2>1, <2>2, <2>3 DEF MembershipAgrees
<1> QED BY <1>3, <1>4, <1>6, <1>7 DEF MapsInv

\* An iteration of QUIT: the client leaves the channel; its own list stays, and the
\* copy in the job gets shorter.
LEMMA MapsQuit ==
    ASSUME MapsInv, job \in QuitJobs, job.chans # <<>>, IsInjective(job.chans),
           job.fd \in DOMAIN clientList,
           channelList' = Leave(channelList, job.fd, Head(job.chans)),
           job'.op = "QUIT", job'.fd = job.fd, job'.chans = Tail(job.chans),
           UNCHANGED <<clientList, sock, eventList>>
    PROVE  MapsInv'
<1> DEFINE fd == job.fd
           name == Head(job.chans)
<1>1. job.op = "QUIT" /\ fd \in Fds /\ fd \in DOMAIN clientList
    BY DEF QuitJobs
<1>2. /\ name \in ToSet(job.chans)
      /\ ToSet(job.chans) = ToSet(Tail(job.chans)) \cup {name}
      /\ name \notin ToSet(Tail(job.chans))
    BY <1>1, TailList DEF QuitJobs
<1>4. \A f \in DOMAIN clientList :
        ListedBy(f)' = IF f = fd THEN ListedBy(f) \ {name} ELSE ListedBy(f)
    BY <1>1, <1>2 DEF ListedBy
<1>5. name \in ListedBy(fd) /\ name \in DOMAIN channelList
    BY <1>1, <1>2 DEF ListedBy, MapsInv, MembershipAgrees
<1>6. /\ channelList' \in [DOMAIN channelList' -> Channels]
      /\ DOMAIN channelList \ {name} \subseteq DOMAIN channelList'
      /\ DOMAIN channelList' \subseteq DOMAIN channelList
      /\ \A c \in DOMAIN channelList' :
           /\ GoodChannel(channelList'[c])
           /\ Members(c)' = IF c = name THEN Members(c) \ {fd} ELSE Members(c)
      /\ name \notin DOMAIN channelList' => Members(name) \subseteq {fd}
    BY <1>1, <1>5, LeaveEffect
<1> HIDE DEF fd, name
<1>7. MembershipAgrees'
    <2>1. \A c \in DOMAIN channelList' : Members(c)' \subseteq DOMAIN clientList'
        BY <1>6 DEF MapsInv, MembershipAgrees
    <2>2. \A f \in DOMAIN clientList' : ListedBy(f)' \subseteq DOMAIN channelList'
        BY <1>4, <1>5, <1>6 DEF MapsInv, MembershipAgrees
    <2>3. \A f \in DOMAIN clientList', c \in DOMAIN channelList' :
            c \in ListedBy(f)' <=> f \in Members(c)'
        BY <1>4, <1>6 DEF MapsInv, MembershipAgrees
    <2> QED BY <2>1, <2>2, <2>3 DEF MembershipAgrees
<1> QED BY <1>6, <1>7 DEF MapsInv

\* An operator puts a client out of a channel: KICK.  The channel stays.
LEMMA MapsKick ==
    ASSUME MapsInv, job.op # "QUIT", job'.op # "QUIT", NEW name \in DOMAIN channelList,
           NEW fd \in Members(name),
           channelList' = [channelList EXCEPT ![name] = Removed(@, fd)],
           clientList' = [clientList EXCEPT ![fd] = deleteChannel(@, name)],
           UNCHANGED <<sock, eventList>>
    PROVE  /\ MapsInv' /\ DOMAIN clientList' = DOMAIN clientList
           /\ \A f \in DOMAIN clientList :
                getIsRegist(clientList[f]) => getIsRegist(clientList'[f])
<1> DEFINE ch == Removed(channelList[name], fd)
           cl == deleteChannel(clientList[fd], name)
<1>1. fd \in DOMAIN clientList /\ fd \in Fds /\ GoodClient(fd, clientList[fd], sock)
    BY DEF MapsInv, MembershipAgrees
<1>2. name \in ToSet(clientList[fd].channelList)
    BY <1>1 DEF MapsInv, MembershipAgrees, ListedBy
<1>3. fd \in sock
    BY <1>1, <1>2, NewClientGood DEF GoodClient
<1>4. /\ GoodClient(fd, cl, sock) /\ (getIsRegist(clientList[fd]) => getIsRegist(cl))
      /\ ToSet(cl.channelList) = ToSet(clientList[fd].channelList) \ {name}
    BY <1>1, <1>3, DeleteChannelGood
<1>5. GoodChannel(ch) /\ ToSet(ch.clientFdList) = Members(name) \ {fd}
    BY <1>1, RemovedGood DEF MapsInv, Members
<1> HIDE DEF cl, ch
<1>6. /\ DOMAIN clientList' = DOMAIN clientList
      /\ \A f \in DOMAIN clientList : clientList'[f] = IF f = fd THEN cl ELSE clientList[f]
      /\ clientList' \in [DOMAIN clientList' -> Clients]
    BY <1>4 DEF cl, MapsInv, GoodClient
<1>7. /\ DOMAIN channelList' = DOMAIN channelList
      /\ \A c \in DOMAIN channelList : channelList'[c] = IF c = name THEN ch ELSE channelList[c]
      /\ channelList' \in [DOMAIN channelList' -> Channels]
    BY <1>5 DEF ch, MapsInv, GoodChannel
<1>8. \A f \in DOMAIN clientList :
        ListedBy(f)' = IF f = fd THEN ListedBy(f) \ {name} ELSE ListedBy(f)
    BY <1>4, <1>6 DEF ListedBy
<1>9. \A c \in DOMAIN channelList :
        Members(c)' = IF c = name THEN Members(c) \ {fd} ELSE Members(c)
    BY <1>5, <1>7 DEF Members
<1>10. MembershipAgrees'
    BY <1>6, <1>7, <1>8, <1>9 DEF MapsInv, MembershipAgrees
<1> QED BY <1>4, <1>5, <1>6, <1>7, <1>10 DEF MapsInv

\* A connection is lost: the client leaves all its channels, and is erased
\* (EV_ERROR) or replaced by a blank one (recv() returns 0).
LEMMA MapsDisconnect ==
    ASSUME MapsInv, job = Idle, job' = Idle, NEW fd \in DOMAIN clientList,
           channelList' = Disconnected(fd),
           \/ clientList' = Without(clientList, fd)
           \/ clientList' = [clientList EXCEPT ![fd] = NewClient(NoFd)],
           sock' = sock \ {fd}, eventList' = eventList \ {fd}
    PROVE  MapsInv'
<1>1. fd \in Fds /\ job.op = "IDLE" /\ job'.op = "IDLE"
    BY DEF MapsInv, Idle
<1>2. /\ GoodClient(fd, NewClient(NoFd), sock') /\ NewClient(NoFd) \in Clients
      /\ ToSet(NewClient(NoFd).channelList) = {}
    BY <1>1, NewClientGood DEF GoodClient
<1>3. /\ DOMAIN clientList \ {fd} \subseteq DOMAIN clientList' /\ DOMAIN clientList' \subseteq DOMAIN clientList
      /\ \A f \in DOMAIN clientList' : clientList'[f] = IF f = fd THEN NewClient(NoFd) ELSE clientList[f]
      /\ clientList' \in [DOMAIN clientList' -> Clients]
    BY <1>2 DEF MapsInv, Without
<1>4. \A f \in DOMAIN clientList' : ListedBy(f)' = IF f = fd THEN {} ELSE ListedBy(f)
    BY <1>1, <1>2, <1>3 DEF ListedBy
<1>5. \A c \in DOMAIN channelList : findChannelOf(clientList[fd], c) <=> fd \in Members(c)
    BY <1>1 DEF MapsInv, MembershipAgrees, ListedBy, findChannelOf
<1>6. DOMAIN channelList' = DOMAIN channelList
    BY DEF Disconnected
<1>7. ASSUME NEW c \in DOMAIN channelList
      PROVE  GoodChannel(channelList'[c]) /\ Members(c)' = Members(c) \ {fd}
    <2> DEFINE ch == Removed(channelList[c], fd)
    <2>1. CASE findChannelOf(clientList[fd], c)
        <3>1. GoodChannel(ch) /\ ToSet(ch.clientFdList) = Members(c) \ {fd}
            BY <1>1, <1>7, RemovedGood DEF MapsInv, Members
        <3> HIDE DEF ch
        <3>2. GoodChannel(removeInviteFd(ch, fd)) /\ removeInviteFd(ch, fd).clientFdList = ch.clientFdList
            BY <1>1, <3>1, InviteGood
        <3>3. channelList'[c] = removeInviteFd(ch, fd)
            BY <1>7, <2>1 DEF Disconnected, ch
        <3> QED BY <3>1, <3>2, <3>3 DEF Members
    <2>2. CASE ~findChannelOf(clientList[fd], c)
        <3>1. channelList'[c] = channelList[c]
            BY <1>7, <2>2 DEF Disconnected
        <3> QED BY <1>5, <1>7, <2>2, <3>1 DEF MapsInv, Members
    <2> QED BY <2>1, <2>2
<1>8. channelList' \in [DOMAIN channelList' -> Channels]
    <2>1. \A c \in DOMAIN channelList : channelList'[c] \in Channels
        BY <1>7 DEF GoodChannel
    <2> QED BY <1>6, <2>1 DEF Disconnected
<1>9. MembershipAgrees'
    BY <1>3, <1>4, <1>6, <1>7 DEF MapsInv, MembershipAgrees
<1>10. \A f \in DOMAIN clientList' : GoodClient(f, clientList'[f], sock')
    BY <1>2, <1>3 DEF MapsInv, GoodClient
<1>11. sock' \subseteq DOMAIN clientList' /\ eventList' \subseteq sock' \cup {ServerSock}
    BY <1>3 DEF MapsInv
<1> QED BY <1>3, <1>6, <1>7, <1>8, <1>9, <1>10, <1>11 DEF MapsInv

\* A channel changes, but not who is in it: MODE, TOPIC, INVITE.
LEMMA MapsChannel ==
    ASSUME MapsInv, job.op # "QUIT", job'.op # "QUIT", NEW name \in DOMAIN channelList,
           NEW ch, GoodChannel(ch), ch.clientFdList = channelList[name].clientFdList,
           channelList' = [channelList EXCEPT ![name] = ch],
           UNCHANGED <<clientList, sock>>, eventList' \subseteq eventList
    PROVE  MapsInv'
<1>1. /\ DOMAIN channelList' = DOMAIN channelList
      /\ \A c \in DOMAIN channelList : channelList'[c] = IF c = name THEN ch ELSE channelList[c]
      /\ channelList' \in [DOMAIN channelList' -> Channels]
    BY DEF MapsInv, GoodChannel
<1>2. \A c \in DOMAIN channelList : Members(c)' = Members(c)
    BY <1>1 DEF Members
<1>3. \A f \in DOMAIN clientList : ListedBy(f)' = ListedBy(f)
    BY DEF ListedBy
<1>4. MembershipAgrees'
    BY <1>1, <1>2, <1>3 DEF MapsInv, MembershipAgrees
<1> QED BY <1>1, <1>4 DEF MapsInv

\* A new connection, on a descriptor that is free.
LEMMA MapsAccept ==
    ASSUME MapsInv, job = Idle, Accept
    PROVE  MapsInv'
<1> DEFINE f0 == LowestFree
<1>1. job' = Idle /\ job.op = "IDLE"
    BY DEF Accept, Idle
<1>2. f0 \in Fds \ sock
    <2>1. FreeFds # {} /\ FreeFds \subseteq Nat
        BY FdsAssumption DEF Accept, FreeFds
    <2>2. \E f \in FreeFds : \A g \in FreeFds : f <= g
        BY <2>1, LeastExists
    <2> QED BY <2>2 DEF LowestFree, FreeFds
<1> HIDE DEF f0
<1> DEFINE cl == IF f0 \in DOMAIN clientList THEN clientList[f0] ELSE NewClient(f0)
<1>3. /\ GoodClient(f0, cl, sock') /\ cl \in Clients /\ ToSet(cl.channelList) = {}
    <2>1. f0 \in sock'
        BY DEF Accept, f0
    <2>2. CASE f0 \in DOMAIN clientList
        <3>1. clientList[f0] = NewClient(NoFd)
            BY <1>2, <2>2 DEF MapsInv, GoodClient
        <3> QED BY <1>2, <2>2, <3>1, NewClientGood DEF GoodClient
    <2>3. CASE f0 \notin DOMAIN clientList
        BY <1>2, <2>1, <2>3, NewClientGood DEF GoodClient
    <2> QED BY <2>2, <2>3
<1> HIDE DEF cl
<1>4. /\ DOMAIN clientList' = DOMAIN clientList \cup {f0}
      /\ \A f \in DOMAIN clientList' : clientList'[f] = IF f = f0 THEN cl ELSE clientList[f]
      /\ clientList' \in [DOMAIN clientList' -> Clients]
    BY <1>3 DEF Accept, With, MapsInv, f0, cl
<1>5. /\ channelList' = channelList /\ sock' = sock \cup {f0}
      /\ eventList' = eventList \ {ServerSock}
    BY DEF Accept, Event, f0
<1>6. \A f \in DOMAIN clientList' : ListedBy(f)' = IF f \in DOMAIN clientList THEN ListedBy(f) ELSE {}
    BY <1>1, <1>3, <1>4 DEF ListedBy, cl
<1>7. \A c \in DOMAIN channelList : Members(c)' = Members(c)
    BY <1>5 DEF Members
<1>8. MembershipAgrees'
    BY <1>4, <1>5, <1>6, <1>7 DEF MapsInv, MembershipAgrees
<1>9. \A f \in DOMAIN clientList' : GoodClient(f, clientList'[f], sock')
    BY <1>3, <1>4, <1>5 DEF MapsInv, GoodClient
<1> QED BY <1>2, <1>4, <1>5, <1>8, <1>9 DEF MapsInv

\* Nothing is left: the state the server starts in, and that of the destructor.
LEMMA MapsEmpty ==
    ASSUME clientList = EmptyMap, channelList = EmptyMap, sock = {}, eventList = {}
    PROVE  MapsInv
<1>1. DOMAIN clientList = {} /\ DOMAIN channelList = {}
    BY DEF EmptyMap
<1> QED BY <1>1 DEF MapsInv, MembershipAgrees, EmptyMap

-----------------------------------------------------------------------------
(***************************************************************************)
(* Messages and jobs                                                       *)
(***************************************************************************)
\* appendReciveBuf keeps the buffers typed.
LEMMA AppendTyped ==
    ASSUME NEW buf \in [Fds -> Seq(Messages)], NEW fds, NEW m \in Messages
    PROVE  appendReciveBuf(buf, fds, m) \in [Fds -> Seq(Messages)]
<1>1. \A f \in Fds : Append(buf[f], m) \in Seq(Messages)
    BY AppendProperties
<1> QED BY <1>1 DEF appendReciveBuf

\* A numeric reply is a message.
LEMMA NumericTyped ==
    ASSUME NEW code \in MessageCmds, NEW chan \in Words
    PROVE  Numeric(code, chan) \in Messages
<1>1. "" \in Words /\ <<>> \in Seq(Pieces)
    BY WordsAssumption, EmptySeq
<1> QED BY <1>1 DEF Numeric, Messages

\* So is what a handler broadcasts.
LEMMA BroadcastTyped ==
    ASSUME MapsInv, NEW buf \in [Fds -> Seq(Messages)], NEW chans, NEW fd \in DOMAIN clientList,
           NEW name \in Words, NEW cmd \in MessageCmds, NEW text \in Seq(Pieces)
    PROVE  messageAllChannel(buf, chans, fd, name, cmd, text) \in [Fds -> Seq(Messages)]
<1>1. clientList[fd].nickName \in Words /\ "" \in Words
    BY WordsAssumption DEF MapsInv, Clients
<1> DEFINE m == [cmd |-> cmd, from |-> IF cmd = "TOPIC" THEN "" ELSE clientList[fd].nickName,
                 chan |-> IF cmd = "QUIT" THEN "" ELSE name, text |-> text]
<1>2. m \in Messages
    BY <1>1 DEF Messages
<1> HIDE DEF m
<1> QED BY <1>2, AppendTyped DEF messageAllChannel, m

\* A reply to a client leaves the maps alone and the buffers typed.
LEMMA ReplyTyped ==
    ASSUME BufInv, NEW fd, NEW code \in MessageCmds, NEW chan \in Words, Reply(fd, code, chan)
    PROVE  BufInv' /\ UNCHANGED <<clientList, channelList, sock>>
BY NumericTyped, AppendTyped DEF BufInv, Reply

\* A job is of the type its op names.
LEMMA JobTypes ==
    ASSUME NEW j \in Jobs
    PROVE  /\ j.op = "IDLE"    => j = Idle
           /\ j.op = "SIGNUP"  => j \in SignUpJobs
           /\ j.op = "JOIN"    => j \in JoinJobs
           /\ j.op = "PART"    => j \in PartJobs
           /\ j.op = "QUIT"    => j \in QuitJobs
           /\ j.op = "KICK"    => j \in KickJobs
           /\ j.op = "MODE"    => j \in ModeJobs
           /\ j.op = "PRIVMSG" => j \in PrivmsgJobs
           /\ Idle \in Jobs /\ Idle.op = "IDLE"
BY DEF Jobs, Idle, SignUpJobs, JoinJobs, PartJobs, QuitJobs, KickJobs, ModeJobs, PrivmsgJobs

\* The pieces of a parameter are words, and there is a first one.
LEMMA ArgTyped ==
    ASSUME NEW r \in Cmds, NEW i \in 1 .. Len(r.args)
    PROVE  r.args[i] \in Seq(Words) /\ r.args[i] # <<>> /\ r.args[i][1] \in Words
<1>1. r.args[i] \in Seq(Words) \ {<<>>}
    BY ElementOfSeq DEF Cmds
<1> QED BY <1>1, EmptySeq, LenProperties, ElementOfSeq

\* argc counts the command word, which the parameters leave out.
LEMMA ArgcTyped ==
    ASSUME NEW r \in Cmds
    PROVE  /\ r.args \in Seq(Seq(Words) \ {<<>>}) /\ Len(r.args) \in Nat
           /\ argc(r) = Len(r.args) + 1 /\ argc(r) \in Nat
BY LenProperties DEF Cmds, argc

\* How the tests of argc in the handlers relate.
LEMMA ArgcTests ==
    ASSUME NEW r \in Cmds
    PROVE  /\ argc(r) >= 3 => argc(r) >= 2 /\ argc(r) # 2
           /\ argc(r) = 2 => argc(r) >= 2
           /\ argc(r) > 2 <=> argc(r) >= 3
           /\ argc(r) < 2 <=> ~(argc(r) >= 2)
           /\ argc(r) < 3 <=> ~(argc(r) >= 3)
<1> DEFINE n == argc(r)
<1>1. n \in Nat
    BY ArgcTyped
<1> HIDE DEF n
<1>2. /\ n >= 3 => n >= 2 /\ n # 2
      /\ n = 2 => n >= 2
      /\ n > 2 <=> n >= 3
      /\ n < 2 <=> ~(n >= 2)
      /\ n < 3 <=> ~(n >= 3)
    BY <1>1
<1> QED BY <1>2 DEF n

\* The first two parameters, when argc says that they are there.
LEMMA FirstArgs ==
    ASSUME NEW r \in Cmds
    PROVE  /\ argc(r) \in Nat
           /\ argc(r) >= 2 => r.args[1] \in Seq(Words) /\ r.args[1][1] \in Words
           /\ argc(r) >= 3 => r.args[2] \in Seq(Words) /\ r.args[2][1] \in Words
<1>1. Len(r.args) \in Nat /\ argc(r) = Len(r.args) + 1 /\ argc(r) \in Nat
    BY ArgcTyped
<1>2. ASSUME argc(r) >= 2 PROVE 1 \in 1 .. Len(r.args)
    BY <1>1, <1>2
<1>3. ASSUME argc(r) >= 3 PROVE 2 \in 1 .. Len(r.args)
    BY <1>1, <1>3
<1>4. \A i \in 1 .. Len(r.args) : r.args[i] \in Seq(Words) /\ r.args[i][1] \in Words
    BY ArgTyped
<1> QED BY <1>1, <1>2, <1>3, <1>4

\* The pieces of a list are words.
LEMMA SplitTyped ==
    ASSUME NEW arg \in Seq(Words)
    PROVE  split(arg) \in Seq(Words)
BY EmptySeq DEF split

\* A line of a burst is a command as well.
LEMMA BurstLineTyped ==
    ASSUME NEW r \in Cmds
    PROVE  BurstLine(r) \in Cmds
<1>1. CASE BurstLine(r) = r
    BY <1>1
<1>2. CASE argc(r) > 5 /\ BurstLine(r) = [r EXCEPT !.args = SubSeq(@, 1, 4)]
    <2>1. r.args \in Seq(Seq(Words) \ {<<>>}) /\ Len(r.args) \in Nat /\ Len(r.args) > 4
        <3>1. argc(r) = Len(r.args) + 1 /\ Len(r.args) \in Nat
            BY ArgcTyped
        <3>2. r.args \in Seq(Seq(Words) \ {<<>>})
            BY ArgcTyped
        <3> QED BY <1>2, <3>1, <3>2
    <2>2. \A i \in 1 .. 4 : r.args[i] \in Seq(Words) \ {<<>>}
        BY <2>1, ElementOfSeq
    <2>3. SubSeq(r.args, 1, 4) \in Seq(Seq(Words) \ {<<>>})
        BY <2>1, <2>2, SubSeqProperties
    <2> QED BY <1>2, <2>3 DEF Cmds
<1>3. CASE BurstLine(r) = [r EXCEPT !.args = Append(@, <<"CR">>)]
    <2>1. <<"CR">> \in Seq(Words) \ {<<>>}
        BY WordsAssumption, OneElement
    <2>2. Append(r.args, <<"CR">>) \in Seq(Seq(Words) \ {<<>>})
        BY <2>1, ArgcTyped, AppendProperties
    <2> QED BY <1>3, <2>2 DEF Cmds
<1>4. \/ BurstLine(r) = r
      \/ argc(r) > 5 /\ BurstLine(r) = [r EXCEPT !.args = SubSeq(@, 1, 4)]
      \/ BurstLine(r) = [r EXCEPT !.args = Append(@, <<"CR">>)]
    <2> DEFINE short == r.cmd = "USER" /\ argc(r) = 4
               long  == r.cmd = "USER" /\ argc(r) > 5
    <2>1. CASE short
        BY <2>1, ArgcTyped DEF BurstLine
    <2>2. CASE ~short /\ long
        BY <2>2 DEF BurstLine
    <2>3. CASE ~short /\ ~long
        BY <2>3 DEF BurstLine
    <2> QED BY <2>1, <2>2, <2>3
<1> QED BY <1>1, <1>2, <1>3, <1>4

\* A reason or text is a sequence of strings.
LEMMA TextTyped ==
    ASSUME NEW r \in Cmds, NEW i \in Nat \ {0}
    PROVE  channelMessage(r.args, i) \in Seq(Pieces)
<1>1. \A w \in Words : w \in Pieces /\ <<w>> \in Seq(Pieces) /\ DropFirst[w] \in Words
    BY WordsAssumption, OneElement DEF Pieces
<1>2. <<"NO REASON">> \in Seq(Pieces)
    BY <1>1, WordsAssumption
<1>3. CASE Len(r.args) < i
    BY <1>2, <1>3 DEF channelMessage
<1>4. CASE ~(Len(r.args) < i)
    <2>1. i \in 1 .. Len(r.args)
        BY <1>4, ArgcTyped
    <2>2. r.args[i][1] \in Words
        BY <2>1, ArgTyped
    <2> QED BY <1>1, <1>2, <2>2 DEF channelMessage
<1> QED BY <1>3, <1>4

\* findClient finds somebody with the name, if there is one.
LEMMA FindClient ==
    ASSUME MapsInv, NEW nickname, ClientsNamed(nickname) # {}
    PROVE  /\ findClient(nickname) \in DOMAIN clientList
           /\ clientList[findClient(nickname)].nickName = nickname
           /\ clientList[findClient(nickname)].fd \in {findClient(nickname), NoFd}
<1>1. ClientsNamed(nickname) \subseteq Nat
    BY FdsAssumption DEF ClientsNamed, MapsInv
<1>2. \E f \in ClientsNamed(nickname) : \A g \in ClientsNamed(nickname) : f <= g
    BY <1>1, LeastExists
<1>3. findClient(nickname) \in ClientsNamed(nickname)
    BY <1>2 DEF findClient
<1> QED BY <1>3 DEF ClientsNamed, MapsInv, GoodClient

\* -1 is nobody's descriptor, and no channel lists it.
LEMMA NoFdNowhere ==
    ASSUME MapsInv, NEW c \in DOMAIN channelList
    PROVE  NoFd \notin Fds /\ NoFd \notin Members(c) /\ Members(c) \subseteq DOMAIN clientList
BY FdsAssumption DEF MapsInv, MembershipAgrees, NoFd

-----------------------------------------------------------------------------
(***************************************************************************)
(* Steps that leave the maps alone.                                        *)
(***************************************************************************)
\* Such a step, if the job it leaves is right.
LEMMA QuietStep ==
    ASSUME IInv, UNCHANGED <<clientList, channelList, sock>>, eventList' \subseteq eventList,
           BufInv', JobInv', job.op # "QUIT", job'.op # "QUIT"
    PROVE  IInv'
<1>1. \A f \in DOMAIN clientList : ListedBy(f)' = ListedBy(f)
    BY DEF ListedBy
<1>2. eventList' \subseteq sock \cup {ServerSock}
    BY DEF IInv, MapsInv
<1> QED BY <1>1, <1>2, MapsQuiet DEF IInv

\* No job is always right.
LEMMA IdleFits ==
    ASSUME job' = Idle
    PROVE  JobInv' /\ job'.op = "IDLE" /\ job'.op # "QUIT"
BY DEF JobInv, ModeByOperator, Jobs, Idle

\* Such a step at the end of a handler.
LEMMA QuietEnd ==
    ASSUME IInv, UNCHANGED <<clientList, channelList, sock>>, eventList' \subseteq eventList,
           BufInv', job.op # "QUIT", job' = Idle
    PROVE  IInv'
BY QuietStep, IdleFits

\* The job goes on for the same client.
LEMMA SameJobFits ==
    ASSUME IInv, job.op # "IDLE", UNCHANGED <<sock, eventList>>,
           DOMAIN clientList' = DOMAIN clientList,
           job.fd \in DOMAIN clientList /\ getIsRegist(clientList[job.fd]) => getIsRegist(clientList'[job.fd]),
           job' \in Jobs, job'.op = job.op, job'.fd = job.fd, job.op # "QUIT",
           job.op = "JOIN" => job'.iter <= Len(job'.chans),
           job.op = "MODE" => job'.chan = job.chan /\ job.chan \in DOMAIN channelList'
                              /\ job.fd \in Operators(job.chan)'
    PROVE  JobInv'
<1>1. ModeByOperator'
    BY DEF ModeByOperator, Operators
<1>2. job'.op # "IDLE" => job'.fd \notin eventList' /\ (job'.fd \in DOMAIN clientList' => job'.fd \in sock')
    BY DEF IInv, JobInv
<1>3. job'.op \notin {"IDLE", "SIGNUP"} =>
        job'.fd \in DOMAIN clientList' /\ getIsRegist(clientList'[job'.fd])
    BY DEF IInv, JobInv
<1> QED BY <1>1, <1>2, <1>3 DEF JobInv

\* Such a step within a handler.
LEMMA QuietNext ==
    ASSUME IInv, UNCHANGED <<clientList, channelList, sock, eventList>>,
           BufInv', job.op # "IDLE", job' \in Jobs, job'.op = job.op, job'.fd = job.fd, job.op # "QUIT",
           job.op = "JOIN" => job'.iter <= Len(job'.chans),
           job.op = "MODE" => job'.chan = job.chan
    PROVE  IInv'
<1>1. job.op = "MODE" => job.chan \in DOMAIN channelList' /\ job.fd \in Operators(job.chan)'
    BY DEF IInv, JobInv, ModeByOperator, Operators
<1>2. JobInv'
    BY <1>1, SameJobFits
<1> QED BY <1>2, QuietStep

-----------------------------------------------------------------------------
(***************************************************************************)
(* The steps of the handlers                                               *)
(***************************************************************************)
\* PRIVMSG
LEMMA PrivmsgStepInv ==
    ASSUME IInv, PrivmsgStep, UNCHANGED eventList
    PROVE  IInv'
<1> USE DEF IInv
<1>1. job \in PrivmsgJobs /\ job.op = "PRIVMSG" /\ job.fd \in DOMAIN clientList
    BY JobTypes DEF PrivmsgStep, PrivmsgChannel, PrivmsgClient, PrivmsgDone, JobInv
<1>2. job.targets \in Seq(Words) /\ job.text \in Seq(Pieces) /\ job.fd \in Fds
    BY <1>1 DEF PrivmsgJobs
<1>3. ASSUME job.targets # <<>>
      PROVE  Head(job.targets) \in Words /\ Tail(job.targets) \in Seq(Words)
    BY <1>2, <1>3, TailList
<1>4. ASSUME UNCHANGED <<clientList, channelList, sock>>, BufInv', NextTarget, job.targets # <<>>
      PROVE  IInv'
    <2>1. job' \in PrivmsgJobs /\ job'.op = job.op /\ job'.fd = job.fd
        BY <1>1, <1>3, <1>4 DEF NextTarget, PrivmsgJobs
    <2>2. job' \in Jobs
        BY <2>1 DEF Jobs
    <2> QED BY <1>1, <1>4, <2>1, <2>2, QuietNext
<1>5. ASSUME UNCHANGED <<clientList, channelList, sock>>, BufInv', job' = Idle
      PROVE  IInv'
    BY <1>1, <1>5, QuietEnd
<1>6. CASE PrivmsgChannel
    <2>1. job.targets # <<>>
        BY <1>6 DEF PrivmsgChannel
    <2>2. CASE Reply(job.fd, "404", Head(job.targets)) /\ job' = Idle
        BY <1>3, <1>5, <2>1, <2>2, ReplyTyped DEF MessageCmds
    <2>3. CASE /\ reciveBuf' = messageAllChannel(reciveBuf, channelList, job.fd, Head(job.targets),
                                                 "PRIVMSG", job.text)
               /\ UNCHANGED <<clientList, channelList, sock, status>> /\ NextTarget
        <3>1. BufInv'
            BY <1>1, <1>2, <1>3, <2>1, <2>3, BroadcastTyped DEF MessageCmds, BufInv
        <3> QED BY <1>4, <2>1, <2>3, <3>1
    <2> QED BY <1>6, <2>2, <2>3 DEF PrivmsgChannel
<1>7. CASE PrivmsgClient
    <2> DEFINE m == [cmd |-> "PRIVMSG", from |-> clientList[job.fd].nickName,
                     chan |-> clientList[job.fd].nickName, text |-> job.text]
    <2>1. job.targets # <<>>
        BY <1>7 DEF PrivmsgClient
    <2>2. CASE /\ reciveBuf' = appendReciveBuf(reciveBuf, {findClient(Head(job.targets))}, m)
               /\ UNCHANGED <<clientList, channelList, sock, status>> /\ NextTarget
        <3>1. m \in Messages
            BY <1>1, <1>2 DEF Messages, MessageCmds, MapsInv, Clients
        <3> HIDE DEF m
        <3>2. BufInv'
            BY <2>2, <3>1, AppendTyped DEF BufInv
        <3> QED BY <1>4, <2>1, <2>2, <3>2
    <2>3. CASE Undefined /\ job' = Idle
        BY <1>5, <2>3 DEF Undefined, BufInv
    <2>4. CASE NoEffect /\ NextTarget
        BY <1>4, <2>1, <2>4 DEF NoEffect, BufInv
    <2> QED BY <1>7, <2>2, <2>3, <2>4 DEF PrivmsgClient
<1>8. CASE PrivmsgDone
    BY <1>5, <1>8 DEF PrivmsgDone, NoEffect, BufInv
<1> QED BY <1>6, <1>7, <1>8 DEF PrivmsgStep

\* PART and QUIT
LEMMA LeaveStepInv ==
    ASSUME IInv, LeaveStep, UNCHANGED eventList
    PROVE  IInv'
<1> USE DEF IInv
<1>1. CASE PartChannel
    <2>1. /\ job \in PartJobs /\ job.op = "PART" /\ job.fd \in DOMAIN clientList /\ job.fd \in sock
          /\ getIsRegist(clientList[job.fd]) /\ job.chans # <<>>
        BY <1>1, JobTypes DEF PartChannel, JobInv
    <2> DEFINE name == Head(job.chans)
    <2>2. job.fd \in Fds /\ job.reason \in Seq(Pieces) /\ name \in Words /\ Tail(job.chans) \in Seq(Words)
        BY <2>1, TailList DEF PartJobs
    <2>3. job' \in PartJobs /\ job'.op = "PART" /\ job'.fd = job.fd
        BY <1>1, <2>1, <2>2 DEF PartChannel, PartJobs
    <2>4. job' \in Jobs
        BY <2>3 DEF Jobs
    <2>5. CASE /\ findChannelOf(clientList[job.fd], name)
               /\ reciveBuf' = messageAllChannel(reciveBuf, channelList, job.fd, name, "PART", job.reason)
               /\ channelList' = Leave(channelList, job.fd, name)
               /\ clientList' = [clientList EXCEPT ![job.fd] = deleteChannel(@, name)]
               /\ UNCHANGED <<sock, status>>
        <3>1. /\ MapsInv' /\ DOMAIN clientList' = DOMAIN clientList
              /\ getIsRegist(clientList'[job.fd])
            BY <2>1, <2>3, <2>5, MapsPart
        <3>2. BufInv'
            BY <2>1, <2>2, <2>5, BroadcastTyped DEF MessageCmds, BufInv
        <3>3. JobInv'
            BY <2>1, <2>3, <2>4, <2>5, <3>1, SameJobFits
        <3> QED BY <3>1, <3>2, <3>3
    <2>6. CASE Reply(job.fd, "442", name) \/ Reply(job.fd, "403", name)
        <3>1. BufInv' /\ UNCHANGED <<clientList, channelList, sock>>
            BY <2>2, <2>6, ReplyTyped DEF MessageCmds
        <3> QED BY <2>1, <2>3, <2>4, <3>1, QuietNext
    <2> QED BY <1>1, <2>5, <2>6 DEF PartChannel
<1>2. CASE PartDone
    BY <1>2, QuietEnd DEF PartDone, NoEffect, BufInv
<1>3. CASE QuitChannel
    <2>1. /\ job \in QuitJobs /\ job.op = "QUIT" /\ job.fd \in DOMAIN clientList /\ job.fd \in sock
          /\ getIsRegist(clientList[job.fd]) /\ job.chans # <<>> /\ IsInjective(job.chans)
          /\ job.fd \notin eventList
        BY <1>3, JobTypes DEF QuitChannel, JobInv
    <2>2. /\ job.reason \in Seq(Pieces) /\ Head(job.chans) \in Words
          /\ Tail(job.chans) \in Seq(Words) /\ IsInjective(Tail(job.chans))
        BY <2>1, TailList DEF QuitJobs
    <2>3. job' \in QuitJobs /\ job'.op = "QUIT" /\ job'.fd = job.fd /\ job'.chans = Tail(job.chans)
        BY <1>3, <2>1, <2>2 DEF QuitChannel, QuitJobs
    <2>4. MapsInv'
        <3>1. /\ channelList' = Leave(channelList, job.fd, Head(job.chans))
              /\ UNCHANGED <<clientList, sock, eventList>>
            BY <1>3 DEF QuitChannel
        <3> QED BY <2>1, <2>3, <3>1, MapsQuit
    <2>5. BufInv'
        <3>1. /\ reciveBuf' = messageAllChannel(reciveBuf,
                     [channelList EXCEPT ![Head(job.chans)] = Removed(@, job.fd)],
                     job.fd, Head(job.chans), "QUIT", job.reason)
              /\ status' = status
            BY <1>3 DEF QuitChannel
        <3> QED BY <2>1, <2>2, <3>1, BroadcastTyped DEF MessageCmds, BufInv
    <2>6. JobInv'
        BY <1>3, <2>1, <2>2, <2>3 DEF QuitChannel, JobInv, Jobs, ModeByOperator
    <2> QED BY <2>4, <2>5, <2>6
<1>4. CASE QuitDone
    <2>1. job.fd \in DOMAIN clientList /\ job.op = "QUIT" /\ job.fd \notin eventList /\ job.chans = <<>>
        BY <1>4 DEF QuitDone, JobInv
    <2>2. ListedBy(job.fd) = {}
        BY <2>1 DEF ListedBy, ToSet
    <2>3. Drop(job.fd) /\ job' = Idle
        BY <1>4 DEF QuitDone
    <2>4. MapsInv'
        BY <2>1, <2>2, <2>3, IdleFits, MapsDrop
    <2>5. BufInv'
        BY <2>3, EmptySeq DEF Drop, BufInv
    <2> QED BY <2>3, <2>4, <2>5, IdleFits
<1> QED BY <1>1, <1>2, <1>3, <1>4 DEF LeaveStep

\* KICK goes on with the next channel and the next nickname.
LEMMA KickAdvance ==
    ASSUME NEW j \in KickJobs, j.chans # <<>>
    PROVE  LET next == [j EXCEPT !.chans = Tail(@), !.nickIter = @ + 1] IN
           next \in KickJobs /\ next.op = "KICK" /\ next.fd = j.fd
<1> DEFINE cs == Tail(j.chans)
           n == j.nickIter + 1
<1>1. cs \in Seq(Words) /\ n \in Nat
    BY TailList DEF KickJobs
<1> HIDE DEF cs, n
<1>2. [j EXCEPT !.chans = cs, !.nickIter = n] \in KickJobs
    BY <1>1 DEF KickJobs
<1>3. [j EXCEPT !.chans = cs, !.nickIter = n].op = "KICK"
      /\ [j EXCEPT !.chans = cs, !.nickIter = n].fd = j.fd
    BY DEF KickJobs
<1> QED BY <1>2, <1>3 DEF cs, n

\* The rest of an iteration of KICK, whatever the nickname is.
LEMMA KickTargetInv ==
    ASSUME IInv, job.op = "KICK", job.chans # <<>>, NEW nickname \in Words,
           Head(job.chans) \in DOMAIN channelList,
           KickTarget(Head(job.chans), nickname), UNCHANGED eventList
    PROVE  IInv'
<1> USE DEF IInv
<1> DEFINE name == Head(job.chans)
           target == findClient(nickname)
           victim == clientList[target].fd
           advance == job' = [job EXCEPT !.chans = Tail(@), !.nickIter = @ + 1]
<1>1. /\ job \in KickJobs /\ job.fd \in DOMAIN clientList /\ getIsRegist(clientList[job.fd])
    BY JobTypes DEF JobInv
<1>2. name \in Words /\ Tail(job.chans) \in Seq(Words) /\ "" \in Words
    BY <1>1, TailList, WordsAssumption DEF KickJobs
<1>3. ASSUME advance
      PROVE  job' \in Jobs /\ job'.op = "KICK" /\ job'.fd = job.fd
    <2>1. job' \in KickJobs
        BY <1>1, <1>3, KickAdvance
    <2> QED BY <1>1, <1>3, <2>1 DEF Jobs, KickJobs
<1>4. CASE Reply(job.fd, "401", "") /\ job' = Idle
    BY <1>2, <1>4, ReplyTyped, QuietEnd DEF MessageCmds
<1>5. CASE NoEffect /\ job' = Idle
    BY <1>5, QuietEnd DEF NoEffect, BufInv
<1>6. CASE Reply(job.fd, "441", name) /\ advance
    <2>1. BufInv' /\ UNCHANGED <<clientList, channelList, sock>>
        BY <1>2, <1>6, ReplyTyped DEF MessageCmds
    <2> QED BY <1>3, <1>6, <2>1, QuietNext
<1>7. CASE /\ ClientsNamed(nickname) # {} /\ victim # NoFd
           /\ diffClientInChannel(channelList[name], victim)
           /\ reciveBuf' = messageAllChannel(reciveBuf, channelList, job.fd, name, "KICK", <<nickname>>)
           /\ channelList' = [channelList EXCEPT ![name] = Removed(@, victim)]
           /\ clientList' = [clientList EXCEPT ![target] = deleteChannel(@, name)]
           /\ UNCHANGED <<sock, status>> /\ advance
    <2>1. victim = target
        BY <1>7, FindClient
    <2>2. victim \in Members(name)
        BY <1>7 DEF diffClientInChannel, Members
    <2>3. /\ MapsInv' /\ DOMAIN clientList' = DOMAIN clientList
          /\ \A f \in DOMAIN clientList : getIsRegist(clientList[f]) => getIsRegist(clientList'[f])
        <3> HIDE DEF victim, target, name
        <3>1. name \in DOMAIN channelList /\ job'.op # "QUIT"
            BY <1>3, <1>7 DEF name
        <3> QED BY <1>7, <2>1, <2>2, <3>1, MapsKick
    <2>4. BufInv'
        <3>1. <<nickname>> \in Seq(Pieces)
            BY OneElement DEF Pieces
        <3> QED BY <1>1, <1>2, <1>7, <3>1, BroadcastTyped DEF MessageCmds, BufInv
    <2>5. JobInv'
        BY <1>1, <1>3, <1>7, <2>3, SameJobFits
    <2> QED BY <2>3, <2>4, <2>5
<1> QED BY <1>4, <1>5, <1>6, <1>7 DEF KickTarget

\* KICK
LEMMA KickStepInv ==
    ASSUME IInv, KickStep, UNCHANGED eventList
    PROVE  IInv'
<1> USE DEF IInv
<1>1. CASE KickChannel
    <2>1. job \in KickJobs /\ job.op = "KICK" /\ job.chans # <<>>
        BY <1>1, JobTypes DEF KickChannel, JobInv
    <2>2. /\ Head(job.chans) \in Words /\ Tail(job.chans) \in Seq(Words)
          /\ job.nicks \in Seq(Words) /\ job.nickIter \in Nat
        BY <2>1, TailList DEF KickJobs
    <2>3. CASE /\ Reply(job.fd, "403", Head(job.chans))
               /\ job' = [job EXCEPT !.chans = Tail(@), !.nickIter = @ + 1]
        <3>1. job' \in KickJobs /\ job'.op = "KICK" /\ job'.fd = job.fd
            BY <2>1, <2>3, KickAdvance
        <3>2. job' \in Jobs
            BY <3>1 DEF Jobs
        <3>3. BufInv' /\ UNCHANGED <<clientList, channelList, sock>>
            BY <2>2, <2>3, ReplyTyped DEF MessageCmds
        <3> QED BY <2>1, <3>1, <3>2, <3>3, QuietNext
    <2>4. CASE /\ Head(job.chans) \in DOMAIN channelList /\ job.nickIter < Len(job.nicks)
               /\ KickTarget(Head(job.chans), job.nicks[job.nickIter + 1])
        <3>1. job.nickIter + 1 \in 1 .. Len(job.nicks)
            BY <2>2, <2>4, LenProperties
        <3>2. job.nicks[job.nickIter + 1] \in Words
            BY <2>2, <3>1, ElementOfSeq
        <3> QED BY <2>1, <2>4, <3>2, KickTargetInv
    <2>5. CASE Undefined /\ job' = Idle
        BY <2>1, <2>5, QuietEnd DEF Undefined, BufInv
    <2>6. CASE /\ Head(job.chans) \in DOMAIN channelList
               /\ \E nickname \in Words : KickTarget(Head(job.chans), nickname)
        BY <2>1, <2>6, KickTargetInv
    <2> QED BY <1>1, <2>3, <2>4, <2>5, <2>6 DEF KickChannel
<1>2. CASE KickDone
    BY <1>2, QuietEnd DEF KickDone, NoEffect, BufInv
<1> QED BY <1>1, <1>2 DEF KickStep

\* The newcomer's messages are typed: every name is that of a client.
LEMMA WelcomedTyped ==
    ASSUME MapsInv, BufInv, NEW fd \in DOMAIN clientList, NEW name \in Words,
           NEW chans, chans[name] \in Channels,
           ToSet(chans[name].clientFdList) \subseteq DOMAIN clientList
    PROVE  Welcomed(chans, fd, name) \in [Fds -> Seq(Messages)]
<1> DEFINE ch == chans[name]
           names == [i \in DOMAIN ch.clientFdList |-> clientList[ch.clientFdList[i]].nickName]
           joined == messageAllChannel(reciveBuf, chans, fd, name, "JOIN", <<>>)
           m332 == [Numeric("332", name) EXCEPT !.text = <<DropFirst[ch.topic]>>]
           m353 == [Numeric("353", name) EXCEPT !.text = names]
           topic2 == IF ch.topic = "" THEN joined ELSE appendReciveBuf(joined, {fd}, m332)
<1>1. joined \in [Fds -> Seq(Messages)]
    BY BroadcastTyped, EmptySeq DEF MessageCmds, BufInv
<1>2. m332 \in Messages
    <2>1. DropFirst[ch.topic] \in Pieces
        BY WordsAssumption DEF Channels, Pieces
    <2>2. <<DropFirst[ch.topic]>> \in Seq(Pieces)
        BY <2>1, OneElement
    <2>3. Numeric("332", name) \in Messages
        BY NumericTyped DEF MessageCmds
    <2> QED BY <2>2, <2>3 DEF Messages
<1>3. m353 \in Messages
    <2>1. ch.clientFdList \in Seq(Fds)
        BY DEF Channels
    <2>2. DOMAIN ch.clientFdList = 1 .. Len(ch.clientFdList) /\ Len(ch.clientFdList) \in Nat
        BY <2>1, LenProperties
    <2>3. \A i \in 1 .. Len(ch.clientFdList) : clientList[ch.clientFdList[i]].nickName \in Pieces
        BY <2>2 DEF ToSet, MapsInv, Clients, Pieces
    <2>4. names \in Seq(Pieces)
        BY <2>2, <2>3, IsASeq
    <2>5. Numeric("353", name) \in Messages
        BY NumericTyped DEF MessageCmds
    <2> HIDE DEF names
    <2> QED BY <2>4, <2>5 DEF Messages
<1>4. Numeric("366", name) \in Messages
    BY NumericTyped DEF MessageCmds
<1> HIDE DEF joined, m332, m353
<1>5. topic2 \in [Fds -> Seq(Messages)]
    BY <1>1, <1>2, AppendTyped
<1> HIDE DEF topic2
<1>6. appendReciveBuf(topic2, {fd}, m353) \in [Fds -> Seq(Messages)]
    BY <1>3, <1>5, AppendTyped
<1>7. appendReciveBuf(appendReciveBuf(topic2, {fd}, m353), {fd}, Numeric("366", name))
        \in [Fds -> Seq(Messages)]
    BY <1>4, <1>6, AppendTyped
<1> QED BY <1>7 DEF Welcomed, topic2, joined, m332, m353

\* JOIN goes on with the next channel, and perhaps the next key.
LEMMA JoinAdvance ==
    ASSUME job \in JoinJobs, job.iter < Len(job.chans), NEW step, NextChannel(step)
    PROVE  /\ job' \in Jobs /\ job'.op = "JOIN" /\ job'.fd = job.fd
           /\ job'.iter <= Len(job'.chans)
<1> DEFINE i == job.iter + 1
           k == IF step THEN job.keyIter + 1 ELSE job.keyIter
           next == [job EXCEPT !.iter = i, !.keyIter = k]
<1>1. /\ i \in Nat /\ k \in Nat /\ i <= Len(job.chans)
    BY LenProperties DEF JoinJobs
<1>2. job' = next
    BY DEF NextChannel
<1> HIDE DEF i, k
<1>3. next \in JoinJobs
    BY <1>1 DEF JoinJobs
<1>4. next.op = "JOIN" /\ next.fd = job.fd /\ next.iter = i /\ next.chans = job.chans
    BY DEF JoinJobs
<1> HIDE DEF next
<1> QED BY <1>1, <1>2, <1>3, <1>4 DEF Jobs

\* JOIN lets its client in.
LEMMA EnterInv ==
    ASSUME IInv, Joining, JoinName \in ChanNames, NEW ch,
           \/ JoinName \notin DOMAIN channelList /\ ch = NewChannel(job.fd)
           \/ /\ JoinName \in DOMAIN channelList /\ ch = channelList[JoinName]
              /\ ~diffClientInChannel(ch, job.fd),
           Enter(job.fd, JoinName, ch), UNCHANGED eventList
    PROVE  IInv'
<1> USE DEF IInv
<1> DEFINE fd == job.fd
           name == JoinName
           chans == With(channelList, name, appendFdListClient(ch, fd))
<1>1. /\ job \in JoinJobs /\ job.op = "JOIN" /\ job.iter < Len(job.chans)
      /\ fd \in DOMAIN clientList /\ fd \in sock /\ getIsRegist(clientList[fd])
    BY JobTypes DEF Joining, JobInv
<1>2. /\ job' \in Jobs /\ job'.op = "JOIN" /\ job'.fd = job.fd
      /\ job'.iter <= Len(job'.chans)
    BY <1>1, JoinAdvance DEF Enter
<1>3. /\ channelList' = chans
      /\ clientList' = [clientList EXCEPT ![fd] = appendChannelList(@, name)]
      /\ reciveBuf' = Welcomed(chans, fd, name) /\ UNCHANGED <<sock, status>>
    BY DEF Enter
<1> HIDE DEF fd, name, chans
<1>4. MapsInv' /\ getIsRegist(clientList'[fd]) /\ DOMAIN clientList' = DOMAIN clientList
    BY <1>1, <1>2, <1>3, MapsEnter DEF chans, fd, name
<1>5. BufInv'
    <2>1. name \in DOMAIN chans /\ name \in Words
        BY WordsAssumption DEF chans, With, name
    <2>2. chans[name] \in Channels /\ ToSet(chans[name].clientFdList) \subseteq DOMAIN clientList
        BY <1>3, <1>4, <2>1 DEF MapsInv, MembershipAgrees, Members
    <2>3. Welcomed(chans, fd, name) \in [Fds -> Seq(Messages)]
        BY <1>1, <2>1, <2>2, WelcomedTyped
    <2> QED BY <1>3, <2>3 DEF BufInv
<1>6. JobInv'
    BY <1>1, <1>2, <1>3, <1>4, SameJobFits DEF fd
<1> QED BY <1>4, <1>5, <1>6

\* JOIN
LEMMA JoinStepInv ==
    ASSUME IInv, JoinStep, UNCHANGED eventList
    PROVE  IInv'
<1> USE DEF IInv
<1>1. job.op = "JOIN" /\ job \in JoinJobs /\ job.iter \in Nat /\ job.chans \in Seq(Words)
    <2>1. job.op = "JOIN"
        BY DEF JoinStep, JoinBadName, JoinNewChannel, JoinExisting, JoinDone, Joining
    <2> QED BY <2>1, JobTypes DEF JobInv, JoinJobs
<1>2. ASSUME Joining, NEW code \in MessageCmds, Reply(job.fd, code, JoinName), NEW step, NextChannel(step)
      PROVE  IInv'
    <2>1. job.iter + 1 \in 1 .. Len(job.chans) /\ job.iter < Len(job.chans)
        BY <1>1, <1>2, LenProperties DEF Joining
    <2>2. JoinName \in Words
        BY <1>1, <2>1, ElementOfSeq DEF JoinName
    <2>3. BufInv' /\ UNCHANGED <<clientList, channelList, sock>>
        BY <1>2, <2>2, ReplyTyped
    <2>4. /\ job' \in Jobs /\ job'.op = "JOIN" /\ job'.fd = job.fd
          /\ job'.iter <= Len(job'.chans)
        BY <1>1, <1>2, <2>1, JoinAdvance
    <2> QED BY <1>1, <2>3, <2>4, QuietNext
<1>3. CASE JoinBadName
    <2>1. Joining /\ Reply(job.fd, "403", JoinName) /\ NextChannel(job.argc > 2 /\ ~AtEnd)
        BY <1>3 DEF JoinBadName
    <2> QED BY <1>2, <2>1 DEF MessageCmds
<1>4. CASE JoinNewChannel
    BY <1>4, EnterInv DEF JoinNewChannel
<1>5. CASE JoinExisting
    <2> DEFINE ch == channelList[JoinName]
               Refuse(code) == Reply(job.fd, code, JoinName) /\ NextChannel(KeyStep)
    <2>1. Joining /\ JoinName \in ChanNames /\ JoinName \in DOMAIN channelList
        BY <1>5 DEF JoinExisting
    <2>2. CASE Refuse("443") \/ Refuse("475") \/ Refuse("473") \/ Refuse("471")
        <3>1. PICK code \in {"443", "475", "473", "471"} : Refuse(code)
            BY <2>2
        <3>2. code \in MessageCmds
            BY DEF MessageCmds
        <3> QED BY <1>2, <2>1, <3>1, <3>2
    <2>3. CASE Reply(job.fd, "475", JoinName) /\ job' = Idle
        <3>1. JoinName \in Words
            BY <2>1, WordsAssumption
        <3>2. BufInv' /\ UNCHANGED <<clientList, channelList, sock>>
            BY <2>3, <3>1, ReplyTyped DEF MessageCmds
        <3> QED BY <1>1, <2>3, <3>2, QuietEnd
    <2>4. CASE Undefined /\ job' = Idle
        BY <1>1, <2>4, QuietEnd DEF Undefined, BufInv
    <2>5. CASE ~diffClientInChannel(ch, job.fd) /\ Enter(job.fd, JoinName, ch)
        BY <2>1, <2>5, EnterInv
    <2> QED BY <1>5, <2>2, <2>3, <2>4, <2>5 DEF JoinExisting
<1>6. CASE JoinDone
    BY <1>1, <1>6, QuietEnd DEF JoinDone, NoEffect, BufInv
<1> QED BY <1>3, <1>4, <1>5, <1>6 DEF JoinStep

\* MODE at a letter: the job, and the channel and the operator it works for.
LEMMA ModeFacts ==
    ASSUME IInv, job.op = "MODE", job.letters # <<>>
    PROVE  /\ job \in ModeJobs /\ job.fd \in DOMAIN clientList /\ job.fd \in sock /\ job.fd \in Fds
           /\ job.chan \in DOMAIN channelList /\ job.chan \in Words
           /\ GoodChannel(channelList[job.chan])
           /\ job.fd \in ToSet(channelList[job.chan].operatorFdList)
           /\ Head(job.letters) \in Words /\ Tail(job.letters) \in Seq(Words)
           /\ job.values \in Seq(Words) /\ job.shown \in Seq(Pieces) /\ job.plus \in Words
           /\ job.sign \in Signs
           /\ job.values # <<>> => /\ Head(job.values) \in Words /\ Tail(job.values) \in Seq(Words)
                                   /\ Append(job.shown, Head(job.values)) \in Seq(Pieces)
<1>1. job \in ModeJobs /\ job.fd \in DOMAIN clientList /\ job.fd \in sock
    BY JobTypes DEF IInv, JobInv
<1>2. /\ job.fd \in Fds /\ job.letters \in Seq(Words) /\ job.values \in Seq(Words) /\ job.chan \in Words
      /\ job.shown \in Seq(Pieces) /\ job.plus \in Words /\ job.sign \in Signs
    BY <1>1 DEF ModeJobs
<1>3. job.chan \in DOMAIN channelList /\ job.fd \in ToSet(channelList[job.chan].operatorFdList)
    BY DEF IInv, JobInv, ModeByOperator, Operators
<1>4. Head(job.letters) \in Words /\ Tail(job.letters) \in Seq(Words)
    BY <1>2, TailList
<1>5. ASSUME job.values # <<>>
      PROVE  /\ Head(job.values) \in Words /\ Tail(job.values) \in Seq(Words)
             /\ Append(job.shown, Head(job.values)) \in Seq(Pieces)
    <2>1. Head(job.values) \in Words /\ Tail(job.values) \in Seq(Words) /\ Head(job.values) \in Pieces
        BY <1>2, <1>5, TailList DEF Pieces
    <2> QED BY <1>2, <2>1, AppendList
<1> QED BY <1>1, <1>2, <1>3, <1>4, <1>5 DEF IInv, MapsInv

\* The next letter after no change.
LEMMA SkipInv ==
    ASSUME IInv, job.op = "MODE", job.letters # <<>>, NEW values \in Seq(Words), Skip(values),
           UNCHANGED eventList
    PROVE  IInv'
<1>1. job \in ModeJobs /\ Tail(job.letters) \in Seq(Words)
    BY ModeFacts
<1> DEFINE ls == Tail(job.letters)
           next == [job EXCEPT !.letters = ls, !.values = values]
<1> HIDE DEF ls
<1>2. next \in ModeJobs /\ next.op = "MODE" /\ next.fd = job.fd /\ next.chan = job.chan
    BY <1>1 DEF ModeJobs, ls
<1>3. job' = next
    BY DEF Skip, ls
<1> HIDE DEF next
<1>4. job' \in Jobs
    BY <1>2, <1>3 DEF Jobs
<1>5. UNCHANGED <<clientList, channelList, sock>> /\ BufInv'
    BY DEF Skip, NoEffect, IInv, BufInv
<1> QED BY <1>2, <1>3, <1>4, <1>5, QuietNext

\* The next letter after the channel has been changed to ch.
LEMMA ApplyInv ==
    ASSUME IInv, job.op = "MODE", job.letters # <<>>,
           NEW ch, GoodChannel(ch), ch.clientFdList = channelList[job.chan].clientFdList,
           job.fd \in ToSet(ch.operatorFdList),
           NEW values \in Seq(Words), NEW shown \in Seq(Pieces), NEW plus \in Words,
           Apply(ch, values, shown, plus), UNCHANGED eventList
    PROVE  IInv'
<1> DEFINE ls == Tail(job.letters)
           m == Announced(Head(job.letters))
           next == [job EXCEPT !.letters = ls, !.message = m, !.values = values,
                               !.shown = shown, !.plus = plus]
<1>1. job \in ModeJobs /\ ls \in Seq(Words) /\ job.chan \in DOMAIN channelList
      /\ job.sign \in Pieces /\ Head(job.letters) \in Pieces
    BY ModeFacts DEF Signs, Pieces
<1>2. m \in Seq(Pieces)
    <2>1. job.message \in Seq(Pieces)
        BY <1>1 DEF ModeJobs
    <2>2. Append(job.message, Head(job.letters)) \in Seq(Pieces)
        BY <1>1, <2>1, AppendList
    <2>3. <<job.sign, Head(job.letters)>> \in Seq(Pieces)
        BY <1>1
    <2> QED BY <2>2, <2>3 DEF Announced
<1>3. job' = next
    BY DEF Apply
<1> HIDE DEF ls, m
<1>4. next \in ModeJobs /\ next.op = "MODE" /\ next.fd = job.fd /\ next.chan = job.chan
    BY <1>1, <1>2 DEF ModeJobs
<1> HIDE DEF next
<1>5. job' \in Jobs /\ job'.op = "MODE" /\ job'.fd = job.fd /\ job'.chan = job.chan
    BY <1>3, <1>4 DEF Jobs
<1>6. /\ channelList' = [channelList EXCEPT ![job.chan] = ch]
      /\ UNCHANGED <<clientList, reciveBuf, sock, status>>
    BY DEF Apply
<1>7. MapsInv'
    BY <1>1, <1>5, <1>6, MapsChannel DEF IInv
<1>8. job.chan \in DOMAIN channelList' /\ job.fd \in Operators(job.chan)'
    BY <1>1, <1>5, <1>6 DEF Operators, IInv, MapsInv
<1>9. JobInv'
    BY <1>5, <1>6, <1>8, SameJobFits
<1>10. BufInv'
    BY <1>6 DEF IInv, BufInv
<1> QED BY <1>7, <1>9, <1>10 DEF IInv

\* MODE
LEMMA ModeStepInv ==
    ASSUME IInv, ModeStep, UNCHANGED eventList
    PROVE  IInv'
<1>1. job.op = "MODE"
    BY DEF ModeStep, ModeSign, ModeFlag, ModeKey, ModeLimit, ModeOperator, ModeUnknown, ModeDone, Letter
<1> DEFINE ch == channelList[job.chan]
<1>2. ASSUME UNCHANGED <<clientList, channelList, sock>>, BufInv', job' = Idle
      PROVE  IInv'
    BY <1>1, <1>2, QuietEnd
<1>3. CASE ModeDone
    <2>1. /\ job \in ModeJobs /\ job.fd \in DOMAIN clientList
        BY <1>1, JobTypes DEF IInv, JobInv
    <2>2. /\ job.message \in Seq(Pieces) /\ job.shown \in Seq(Pieces) /\ job.plus \in Pieces
          /\ job.chan \in Words
        BY <2>1 DEF ModeJobs, Pieces
    <2> DEFINE text == IF diffOperator(ch, job.fd) THEN job.message \o job.shown ELSE job.message
    <2>3. text \in Seq(Pieces)
        BY <2>2, ConcatProperties
    <2> HIDE DEF text
    <2>4. Append(text, job.plus) \in Seq(Pieces)
        BY <2>2, <2>3, AppendList
    <2>5. messageAllChannel(reciveBuf, channelList, job.fd, job.chan, "MODE", Append(text, job.plus))
            \in [Fds -> Seq(Messages)]
        BY <2>1, <2>2, <2>4, BroadcastTyped DEF MessageCmds, IInv, BufInv
    <2>6. BufInv' /\ UNCHANGED <<clientList, channelList, sock>> /\ job' = Idle
        BY <1>3, <2>5 DEF ModeDone, text, IInv, BufInv
    <2> QED BY <1>2, <2>6
<1>4. CASE job.letters # <<>>
    <2>1. /\ job \in ModeJobs /\ job.fd \in DOMAIN clientList /\ job.fd \in Fds
          /\ job.chan \in DOMAIN channelList /\ job.chan \in Words /\ GoodChannel(ch)
          /\ job.fd \in ToSet(ch.operatorFdList)
          /\ Head(job.letters) \in Words /\ Tail(job.letters) \in Seq(Words)
          /\ job.values \in Seq(Words) /\ job.shown \in Seq(Pieces) /\ job.plus \in Words
          /\ job.sign \in Signs
          /\ HasValue => /\ Head(job.values) \in Words /\ Tail(job.values) \in Seq(Words)
                         /\ Append(job.shown, Head(job.values)) \in Seq(Pieces)
        BY <1>1, <1>4, ModeFacts DEF HasValue
    <2>2. ASSUME NEW new, SameRanks(ch, new),
                 NEW values \in Seq(Words), NEW shown \in Seq(Pieces), NEW plus \in Words,
                 Apply(new, values, shown, plus)
          PROVE  IInv'
        BY <1>1, <1>4, <2>1, <2>2, ApplyInv DEF SameRanks
    <2>3. ASSUME NEW values \in Seq(Words), Skip(values) PROVE IInv'
        BY <1>1, <1>4, <2>3, SkipInv
    <2>4. "" \in Words /\ "+" \in Signs /\ "-" \in Signs
        BY WordsAssumption DEF Signs
    <2>5. ASSUME NEW old, GoodChannel(old), old.clientFdList = ch.clientFdList,
                 old.operatorFdList = ch.operatorFdList, SameGuests(ch, old),
                 NEW m \in {"i", "t", "k", "l"}, NEW sign \in Signs
          PROVE  SameRanks(ch, setMode(old, m, sign, job.fd))
        <3> HIDE DEF ch
        <3>1. job.fd \in Fds
            BY <2>1
        <3>2. SameRanks(old, setMode(old, m, sign, job.fd))
            BY <2>5, <3>1, SettingsGood
        <3> QED BY <2>5, <3>2 DEF SameRanks, SameGuests
    <2>6. CASE ModeSign
        <3> DEFINE ls == Tail(job.letters)
                   s == Head(job.letters)
                   next == [job EXCEPT !.letters = ls, !.sign = s]
        <3>1. job' = next /\ s \in Signs /\ UNCHANGED <<clientList, channelList, sock>> /\ BufInv'
            BY <2>6 DEF ModeSign, Letter, NoEffect, Signs, IInv, BufInv
        <3> HIDE DEF ls, s
        <3>2. next \in ModeJobs /\ next.op = "MODE" /\ next.fd = job.fd /\ next.chan = job.chan
            BY <2>1, <3>1 DEF ModeJobs, ls
        <3> HIDE DEF next
        <3>3. job' \in Jobs
            BY <3>1, <3>2 DEF Jobs
        <3> QED BY <1>1, <3>1, <3>2, <3>3, QuietNext
    <2>7. CASE ModeFlag
        <3>1. CASE Skip(job.values)
            BY <2>1, <2>3, <3>1
        <3>2. CASE Apply(setMode(ch, Head(job.letters), job.sign, job.fd), job.values, job.shown, job.plus)
            <4>1. Head(job.letters) \in {"i", "t"}
                BY <2>7 DEF ModeFlag, Letter
            <4>2. SameRanks(ch, setMode(ch, Head(job.letters), job.sign, job.fd))
                BY <2>1, <2>5, <4>1 DEF SameGuests
            <4> QED BY <2>1, <2>2, <3>2, <4>2
        <3> QED BY <2>7, <3>1, <3>2 DEF ModeFlag
    <2>8. CASE ModeKey
        <3>1. CASE /\ HasValue
                   /\ Apply(setMode(setKey(ch, Head(job.values)), "k", "+", job.fd),
                            Tail(job.values), Append(job.shown, Head(job.values)), job.plus)
            <4>1. SameRanks(ch, setKey(ch, Head(job.values)))
                BY <2>1, <3>1, SettingsGood
            <4>2. SameRanks(ch, setMode(setKey(ch, Head(job.values)), "k", "+", job.fd))
                BY <2>4, <2>5, <4>1 DEF SameRanks
            <4> QED BY <2>1, <2>2, <3>1, <4>2
        <3>2. CASE Apply(setMode(setKey(ch, ""), "k", "-", job.fd), job.values, job.shown, job.plus)
            <4>1. SameRanks(ch, setKey(ch, ""))
                BY <2>1, <2>4, SettingsGood
            <4>2. SameRanks(ch, setMode(setKey(ch, ""), "k", "-", job.fd))
                BY <2>4, <2>5, <4>1 DEF SameRanks
            <4> QED BY <2>1, <2>2, <3>2, <4>2
        <3>3. CASE Skip(job.values)
            BY <2>1, <2>3, <3>3
        <3> QED BY <2>8, <3>1, <3>2, <3>3 DEF ModeKey
    <2>9. CASE ModeLimit
        <3>1. CASE /\ HasValue /\ Head(job.values) \in DOMAIN Atoi /\ Atoi[Head(job.values)] >= 0
                   /\ Apply(setMode(setLimit(ch, Atoi[Head(job.values)]), "l", "+", job.fd),
                            Tail(job.values), Append(job.shown, Head(job.values)), job.plus)
            <4> DEFINE n == Atoi[Head(job.values)]
            <4>1. n \in Nat
                <5>1. n \in Int
                    BY <3>1, WordsAssumption
                <5>2. n >= 0
                    BY <3>1
                <5> QED BY <5>1, <5>2
            <4> HIDE DEF n
            <4>2. SameRanks(ch, setLimit(ch, n))
                BY <2>1, <4>1, SettingsGood
            <4>3. SameRanks(ch, setMode(setLimit(ch, n), "l", "+", job.fd))
                BY <2>4, <2>5, <4>2 DEF SameRanks
            <4> QED BY <2>1, <2>2, <3>1, <4>3 DEF n
        <3>2. CASE Apply(setMode(setLimit(ch, 0), "l", "-", job.fd), job.values, job.shown, job.plus)
            <4>1. SameRanks(ch, setLimit(ch, 0))
                BY <2>1, SettingsGood
            <4>2. SameRanks(ch, setMode(setLimit(ch, 0), "l", "-", job.fd))
                BY <2>4, <2>5, <4>1 DEF SameRanks
            <4> QED BY <2>1, <2>2, <3>2, <4>2
        <3>3. CASE Skip(job.values) \/ (HasValue /\ Skip(Tail(job.values)))
            BY <2>1, <2>3, <3>3
        <3> QED BY <2>9, <3>1, <3>2, <3>3 DEF ModeLimit, IsLimit
    <2>10. CASE ModeOperator
        <3> DEFINE nickname == Head(job.values)
                   target == clientList[findClient(nickname)].fd
        <3>1. CASE Skip(job.values)
            BY <2>1, <2>3, <3>1
        <3>2. CASE (Reply(job.fd, "401", "") \/ Reply(job.fd, "441", job.chan) \/ Reply(job.fd, "482", job.chan))
                   /\ job' = Idle
            <4>1. BufInv' /\ UNCHANGED <<clientList, channelList, sock>>
                BY <2>1, <2>4, <3>2, ReplyTyped DEF MessageCmds, IInv
            <4> QED BY <1>2, <3>2, <4>1
        <3>3. CASE NoEffect /\ job' = Idle
            BY <1>2, <3>3 DEF NoEffect, IInv, BufInv
        <3>4. CASE /\ HasValue /\ ClientsNamed(nickname) # {} /\ ~SelfTarget(nickname)
                   /\ diffClientInChannel(ch, target)
                   /\ Apply(setMode(ch, "o", job.sign, target), Tail(job.values), job.shown, nickname)
            <4>1. target # job.fd
                <5>1. findClient(nickname) # job.fd /\ target \in {findClient(nickname), NoFd}
                    BY <3>4, FindClient DEF SelfTarget, IInv
                <5>2. target \in Members(job.chan)
                    BY <3>4 DEF diffClientInChannel, Members
                <5> QED BY <2>1, <5>1, <5>2, NoFdNowhere DEF IInv
            <4>2. target \in ToSet(ch.clientFdList)
                BY <3>4 DEF diffClientInChannel
            <4> HIDE DEF target
            <4> DEFINE new == setMode(ch, "o", job.sign, target)
            <4>3. /\ GoodChannel(new) /\ new.clientFdList = ch.clientFdList
                  /\ ToSet(ch.operatorFdList) \ {target} \subseteq ToSet(new.operatorFdList)
                BY <2>1, <4>2, OperatorGood
            <4>4. job.fd \in ToSet(new.operatorFdList)
                BY <2>1, <4>1, <4>3
            <4> HIDE DEF new
            <4> QED BY <1>1, <1>4, <2>1, <3>4, <4>3, <4>4, ApplyInv DEF new
        <3> QED BY <2>10, <3>1, <3>2, <3>3, <3>4 DEF ModeOperator
    <2>11. CASE ModeUnknown
        <3> DEFINE ls == Tail(job.letters)
                   next == [job EXCEPT !.letters = ls]
        <3>1. job' = next /\ Reply(job.fd, "472", job.chan)
            BY <2>11 DEF ModeUnknown
        <3> HIDE DEF ls
        <3>2. next \in ModeJobs /\ next.op = "MODE" /\ next.fd = job.fd /\ next.chan = job.chan
            BY <2>1 DEF ModeJobs, ls
        <3> HIDE DEF next
        <3>3. job' \in Jobs
            BY <3>1, <3>2 DEF Jobs
        <3>4. BufInv' /\ UNCHANGED <<clientList, channelList, sock>>
            BY <2>1, <3>1, ReplyTyped DEF MessageCmds, IInv
        <3> QED BY <1>1, <3>1, <3>2, <3>3, <3>4, QuietNext
    <2>12. ~ModeDone
        BY <1>4 DEF ModeDone
    <2> QED BY <2>6, <2>7, <2>8, <2>9, <2>10, <2>11, <2>12 DEF ModeStep
<1>5. CASE job.letters = <<>>
    BY <1>3, <1>5 DEF ModeStep, ModeSign, ModeFlag, ModeKey, ModeLimit, ModeOperator, ModeUnknown, Letter
<1> QED BY <1>4, <1>5

-----------------------------------------------------------------------------
(***************************************************************************)
(* Registration                                                            *)
(***************************************************************************)
\* A client that is not registered can be dropped: it is in no channel.
LEMMA DropInv ==
    ASSUME MapsInv, BufInv, NEW fd \in sock, ~getIsRegist(clientList[fd]), Drop(fd),
           job.op # "QUIT", job'.op # "QUIT", eventList' \subseteq eventList \ {fd}
    PROVE  MapsInv' /\ BufInv' /\ fd \notin DOMAIN clientList'
<1>1. fd \in DOMAIN clientList /\ clientList[fd].channelList = <<>>
    BY DEF MapsInv, GoodClient
<1>2. ListedBy(fd) = {}
    BY <1>1 DEF ListedBy, ToSet
<1>3. MapsInv'
    BY <1>1, <1>2, MapsDrop
<1>4. BufInv'
    BY EmptySeq DEF Drop, BufInv
<1> QED BY <1>3, <1>4 DEF Drop, Without

\* PASS, NICK and USER keep the maps and the buffers right.
LEMMA RegisteringInv ==
    ASSUME MapsInv, BufInv, NEW fd \in sock, NEW r \in Cmds, Registering(fd, r),
           job.op # "QUIT", job'.op # "QUIT", eventList' \subseteq eventList \ {fd}
    PROVE  MapsInv' /\ BufInv' /\ (fd \in DOMAIN clientList' => fd \in sock')
<1> DEFINE cl == clientList[fd]
<1>1. fd \in DOMAIN clientList /\ fd \in Fds /\ GoodClient(fd, cl, sock) /\ "" \in Words
    BY WordsAssumption DEF MapsInv
<1>2. ASSUME NEW code \in MessageCmds, Reply(fd, code, "")
      PROVE  MapsInv' /\ BufInv' /\ fd \in sock'
    <2>1. BufInv' /\ UNCHANGED <<clientList, channelList, sock>>
        BY <1>1, <1>2, ReplyTyped
    <2>2. \A f \in DOMAIN clientList : ListedBy(f)' = ListedBy(f)
        BY <2>1 DEF ListedBy
    <2>3. eventList' \subseteq sock \cup {ServerSock}
        BY DEF MapsInv
    <2> QED BY <2>1, <2>2, <2>3, MapsQuiet
<1>3. ASSUME "PASS" \notin cl.regi \/ "USER" \notin cl.regi, Drop(fd)
      PROVE  MapsInv' /\ BufInv' /\ fd \notin DOMAIN clientList'
    <2>1. ~getIsRegist(cl)
        BY <1>3 DEF getIsRegist, Registration
    <2> QED BY <1>3, <2>1, DropInv
<1>4. ASSUME NEW what \in Registration, what = "PASS" \/ "PASS" \in cl.regi,
             Register(fd, setRegi(cl, what))
      PROVE  MapsInv' /\ BufInv' /\ fd \in sock'
    <2> DEFINE new == setRegi(cl, what)
    <2>1. GoodClient(fd, new, sock) /\ new.channelList = cl.channelList
        BY <1>1, <1>4, SetRegiGood
    <2>2. /\ clientList' = [clientList EXCEPT ![fd] = new]
          /\ UNCHANGED <<channelList, reciveBuf, sock, status>>
        BY <1>4 DEF Register
    <2> HIDE DEF new
    <2>3. MapsInv'
        BY <1>1, <2>1, <2>2, MapsClient
    <2> QED BY <2>2, <2>3 DEF BufInv
<1>5. CASE r.cmd = "PASS" /\ pass(fd, r)
    BY <1>2, <1>3, <1>4, <1>5 DEF pass, HasPass, MessageCmds, Registration
<1>6. CASE r.cmd = "USER" /\ user(fd, r)
    BY <1>2, <1>3, <1>4, <1>6 DEF user, HasPass, MessageCmds, Registration
<1>7. CASE r.cmd = "NICK" /\ nick(fd, r)
    <2>1. CASE ~HasPass(fd) /\ Drop(fd)
        BY <1>3, <2>1 DEF HasPass
    <2>2. CASE Reply(fd, "431", "") \/ Reply(fd, "432", "") \/ Reply(fd, "433", "")
        BY <1>2, <2>2 DEF MessageCmds
    <2>3. CASE /\ HasPass(fd)
               /\ \E name \in ValidNicks :
                    /\ reciveBuf' = appendReciveBuf(reciveBuf, NickAudience(fd),
                           [cmd |-> "NICK", from |-> clientList[fd].nickName, chan |-> "",
                            text |-> <<name>>])
                    /\ clientList' = [clientList EXCEPT ![fd] = setRegi(setNickname(@, name), "NICK")]
                    /\ UNCHANGED <<channelList, sock, status>>
        <3>1. PICK name \in ValidNicks :
                    /\ reciveBuf' = appendReciveBuf(reciveBuf, NickAudience(fd),
                           [cmd |-> "NICK", from |-> clientList[fd].nickName, chan |-> "",
                            text |-> <<name>>])
                    /\ clientList' = [clientList EXCEPT ![fd] = setRegi(setNickname(@, name), "NICK")]
                    /\ UNCHANGED <<channelList, sock, status>>
            BY <2>3
        <3> DEFINE new == setRegi(setNickname(cl, name), "NICK")
                   m == [cmd |-> "NICK", from |-> cl.nickName, chan |-> "", text |-> <<name>>]
        <3>2. name \in Words /\ "PASS" \in cl.regi /\ "NICK" \in Registration
            BY <2>3, WordsAssumption DEF HasPass, Registration
        <3>3. GoodClient(fd, new, sock) /\ new.channelList = cl.channelList
            <4> DEFINE named == setNickname(cl, name)
            <4>1. /\ GoodClient(fd, named, sock) /\ named.channelList = cl.channelList
                  /\ named.regi = cl.regi
                <5>1. GoodClient(fd, cl, sock) /\ fd \in sock /\ fd \in Fds
                    BY <1>1
                <5>2. /\ GoodClient(fd, setNickname(cl, name), sock)
                      /\ setNickname(cl, name).channelList = cl.channelList
                      /\ setNickname(cl, name).regi = cl.regi
                    BY <3>2, <5>1, SetNicknameGood
                <5> QED BY <5>2
            <4> HIDE DEF named
            <4>2. GoodClient(fd, setRegi(named, "NICK"), sock)
                  /\ setRegi(named, "NICK").channelList = named.channelList
                BY <1>1, <3>2, <4>1, SetRegiGood
            <4> QED BY <4>1, <4>2 DEF named
        <3>4. m \in Messages
            <4>1. <<name>> \in Seq(Pieces)
                BY <3>2, OneElement DEF Pieces
            <4> QED BY <1>1, <4>1 DEF Messages, MessageCmds, GoodClient, Clients
        <3>5. clientList' = [clientList EXCEPT ![fd] = new]
            BY <3>1
        <3>6. BufInv'
            <4>1. reciveBuf' = appendReciveBuf(reciveBuf, NickAudience(fd), m)
                BY <3>1
            <4>2. status' = status
                BY <3>1
            <4> HIDE DEF m
            <4> QED BY <3>4, <4>1, <4>2, AppendTyped DEF BufInv
        <3> HIDE DEF new
        <3>7. MapsInv'
            BY <1>1, <3>1, <3>3, <3>5, MapsClient
        <3> QED BY <3>1, <3>6, <3>7
    <2> QED BY <1>7, <2>1, <2>2, <2>3 DEF nick, nickNameValidate
<1> QED BY <1>2, <1>5, <1>6, <1>7 DEF Registering

\* The lines of a burst, and the welcome
LEMMA SignUpStepInv ==
    ASSUME IInv, SignUpStep, UNCHANGED eventList
    PROVE  IInv'
<1> USE DEF IInv
<1>1. job \in SignUpJobs /\ job.op = "SIGNUP" /\ job.fd \notin eventList
      /\ (job.fd \in DOMAIN clientList => job.fd \in sock)
    BY JobTypes DEF SignUpStep, SignUpLine, Welcome, JobInv
<1>2. CASE Welcome
    <2>1. BufInv' /\ UNCHANGED <<clientList, channelList, sock>>
        <3>1. CASE NoEffect
            BY <3>1 DEF NoEffect, BufInv
        <3>2. CASE Reply(job.fd, "001", "")
            BY <3>2, ReplyTyped, WordsAssumption DEF MessageCmds
        <3> QED BY <1>2, <3>1, <3>2 DEF Welcome
    <2>2. job' = Idle
        BY <1>2 DEF Welcome
    <2> QED BY <1>1, <2>1, <2>2, QuietEnd
<1>3. CASE SignUpLine
    <2>1. job.lines # <<>> /\ job' = SigningUp(job.fd, Tail(job.lines))
        BY <1>3 DEF SignUpLine
    <2> DEFINE r == BurstLine(Head(job.lines))
    <2>2. r \in Cmds /\ Tail(job.lines) \in Seq(Cmds) /\ job.fd \in Fds
        BY <1>1, <2>1, TailList, BurstLineTyped DEF SignUpJobs
    <2> HIDE DEF r
    <2>3. job' \in Jobs /\ job'.op = "SIGNUP" /\ job'.fd = job.fd
        BY <2>1, <2>2 DEF SigningUp, SignUpJobs, Jobs
    <2>4. CASE job.fd \in DOMAIN clientList /\ Registering(job.fd, r)
        <3>1. MapsInv' /\ BufInv' /\ (job.fd \in DOMAIN clientList' => job.fd \in sock')
            BY <1>1, <2>2, <2>3, <2>4, RegisteringInv
        <3>2. JobInv'
            BY <1>1, <2>3, <3>1 DEF JobInv, ModeByOperator
        <3> QED BY <3>1, <3>2
    <2>5. CASE NoEffect \/ Undefined
        <3>1. BufInv' /\ UNCHANGED <<clientList, channelList, sock>>
            BY <2>5 DEF NoEffect, Undefined, BufInv
        <3> QED BY <1>1, <2>3, <3>1, QuietNext
    <2> QED BY <1>3, <2>4, <2>5 DEF SignUpLine, r
<1> QED BY <1>2, <1>3 DEF SignUpStep

-----------------------------------------------------------------------------
(***************************************************************************)
(* The event loop                                                          *)
(***************************************************************************)
\* A ready descriptor that is not the listening one is an open connection.
LEMMA EventFacts ==
    ASSUME IInv, NEW fd \in Fds, Event(fd)
    PROVE  /\ fd \in sock /\ fd \in DOMAIN clientList /\ job = Idle /\ job.op = "IDLE"
           /\ eventList' = eventList \ {fd}
BY ServerAssumption DEF Event, IInv, MapsInv, Idle

\* A handler that answers at once.
LEMMA AnswerInv ==
    ASSUME IInv, NEW fd \in Fds, Event(fd), UNCHANGED <<clientList, channelList, sock>>, BufInv',
           job' = Idle
    PROVE  IInv'
BY EventFacts, QuietEnd

\* A handler that starts a job.
LEMMA StartInv ==
    ASSUME IInv, NEW fd \in Fds, Event(fd), NoEffect, job' \in Jobs, job'.fd = fd, job'.op # "QUIT",
           job'.op \notin {"IDLE", "SIGNUP"} => getIsRegist(clientList[fd]),
           job'.op = "JOIN" => job'.iter <= Len(job'.chans),
           job'.op = "MODE" => /\ job'.chan \in DOMAIN channelList
                               /\ diffOperator(channelList[job'.chan], fd)
    PROVE  IInv'
<1>1. /\ fd \in sock /\ fd \in DOMAIN clientList /\ job.op = "IDLE" /\ eventList' = eventList \ {fd}
      /\ UNCHANGED <<clientList, channelList, sock, reciveBuf, status>>
    BY EventFacts DEF NoEffect
<1>2. ModeByOperator'
    BY <1>1 DEF ModeByOperator, Operators, diffOperator
<1>3. JobInv'
    BY <1>1, <1>2 DEF JobInv
<1>4. BufInv'
    BY <1>1 DEF IInv, BufInv
<1> QED BY <1>1, <1>3, <1>4, QuietStep

\* A handler that changes a channel but not who is in it: TOPIC, INVITE.
LEMMA ChangeInv ==
    ASSUME IInv, NEW fd \in Fds, Event(fd), NEW name \in DOMAIN channelList, NEW ch, GoodChannel(ch),
           ch.clientFdList = channelList[name].clientFdList,
           channelList' = [channelList EXCEPT ![name] = ch],
           UNCHANGED <<clientList, sock>>, BufInv', job' = Idle
    PROVE  IInv'
<1>1. job.op # "QUIT" /\ eventList' \subseteq eventList
    BY EventFacts
<1>2. JobInv' /\ job'.op # "QUIT"
    BY IdleFits
<1> QED BY <1>1, <1>2, MapsChannel DEF IInv

\* The commands that start a loop.
LEMMA LoopsInv ==
    ASSUME IInv, NEW fd \in Fds, Event(fd), getIsRegist(clientList[fd]), NEW r \in Cmds,
           privmsg(fd, r) \/ part(fd, r) \/ join(fd, r) \/ kick(fd, r)
    PROVE  IInv'
<1>1. argc(r) \in Nat /\ "" \in Words /\ (argc(r) >= 3 => argc(r) >= 2)
    BY FirstArgs, ArgcTests, WordsAssumption
<1>2. ASSUME argc(r) >= 2
      PROVE  /\ r.args[1] \in Seq(Words) /\ Len(r.args[1]) \in Nat
             /\ split(r.args[1]) \in Seq(Words)
    BY <1>2, FirstArgs, LenProperties, SplitTyped
<1>3. ASSUME argc(r) >= 3
      PROVE  r.args[2] \in Seq(Words) /\ split(r.args[2]) \in Seq(Words)
    BY <1>3, FirstArgs, SplitTyped
<1>4. channelMessage(r.args, 2) \in Seq(Pieces)
    BY TextTyped
<1>5. CASE Reply(fd, "461", "") /\ job' = Idle
    <2>1. BufInv' /\ UNCHANGED <<clientList, channelList, sock>>
        BY <1>1, <1>5, ReplyTyped DEF MessageCmds, IInv
    <2> QED BY <1>5, <2>1, AnswerInv
<1>6. CASE /\ argc(r) >= 3 /\ NoEffect
           /\ job' = [op |-> "PRIVMSG", fd |-> fd, targets |-> split(r.args[1]),
                      text |-> channelMessage(r.args, 2)]
    <2>1. job' \in PrivmsgJobs /\ job'.op = "PRIVMSG" /\ job'.fd = fd
        BY <1>1, <1>2, <1>4, <1>6 DEF PrivmsgJobs
    <2>2. job' \in Jobs
        BY <2>1 DEF Jobs
    <2> QED BY <1>6, <2>1, <2>2, StartInv
<1>7. CASE /\ argc(r) >= 2 /\ NoEffect
           /\ job' = [op |-> "PART", fd |-> fd, chans |-> split(r.args[1]),
                      reason |-> channelMessage(r.args, 2)]
    <2>1. job' \in PartJobs /\ job'.op = "PART" /\ job'.fd = fd
        BY <1>2, <1>4, <1>7 DEF PartJobs
    <2>2. job' \in Jobs
        BY <2>1 DEF Jobs
    <2> QED BY <1>7, <2>1, <2>2, StartInv
<1>8. CASE argc(r) >= 2 /\ join(fd, r)
    <2> DEFINE ks == IF argc(r) >= 3 THEN r.args[2]
                     ELSE IF Len(r.args[1]) > 1 THEN <<>> ELSE <<"">>
    <2>1. ks \in Seq(Words)
        BY <1>1, <1>3, EmptySeq, OneElement
    <2>2. NoEffect /\ job' = [op |-> "JOIN", fd |-> fd, chans |-> r.args[1], iter |-> 0,
                              keys |-> ks, keyIter |-> 0, argc |-> argc(r)]
        BY <1>8, ArgcTests DEF join
    <2> HIDE DEF ks
    <2>3. job' \in JoinJobs /\ job'.op = "JOIN" /\ job'.fd = fd /\ job'.iter = 0 /\ job'.chans = r.args[1]
        BY <1>1, <1>2, <1>8, <2>1, <2>2 DEF JoinJobs
    <2>4. job' \in Jobs /\ job'.iter <= Len(job'.chans)
        BY <1>2, <1>8, <2>3 DEF Jobs
    <2> QED BY <2>2, <2>3, <2>4, StartInv
<1>9. CASE argc(r) >= 3 /\ kick(fd, r)
    <2> DEFINE chans == split(r.args[1])
               refused == NotOperatorOn(fd, chans)
    <2>1. chans \in Seq(Words)
        BY <1>1, <1>2, <1>9
    <2> HIDE DEF chans
    <2>2. CASE refused # {}
        <3>1. refused \subseteq DOMAIN chans /\ DOMAIN chans \subseteq Nat
            BY <2>1, LenProperties DEF NotOperatorOn
        <3> DEFINE i == CHOOSE i \in refused : \A j \in refused : i <= j
        <3>2. \E x \in refused : \A y \in refused : x <= y
            BY <2>2, <3>1, LeastExists
        <3>3. i \in refused
            BY <3>2
        <3> HIDE DEF i, refused
        <3>4. chans[i] \in Words
            BY <2>1, <3>1, <3>3, ElementOfSeq, LenProperties
        <3>5. Reply(fd, "482", chans[i]) /\ job' = Idle
            BY <1>9, <2>2, ArgcTests DEF kick, i, refused, chans
        <3>6. BufInv' /\ UNCHANGED <<clientList, channelList, sock>>
            BY <3>4, <3>5, ReplyTyped DEF MessageCmds, IInv
        <3> QED BY <3>5, <3>6, AnswerInv
    <2>3. CASE refused = {}
        <3>1. NoEffect /\ job' = [op |-> "KICK", fd |-> fd, chans |-> chans, nicks |-> split(r.args[2]),
                                  nickIter |-> 0]
            BY <1>9, <2>3, ArgcTests DEF kick, chans
        <3>2. job' \in KickJobs /\ job'.op = "KICK" /\ job'.fd = fd
            BY <1>3, <1>9, <2>1, <3>1 DEF KickJobs
        <3>3. job' \in Jobs
            BY <3>2 DEF Jobs
        <3> QED BY <3>1, <3>2, <3>3, StartInv
    <2> QED BY <2>2, <2>3
<1> QED BY <1>5, <1>6, <1>7, <1>8, <1>9 DEF privmsg, part, join, kick

\* QUIT starts: the copy of the client's list stands for the list from now on.
LEMMA QuitInv ==
    ASSUME IInv, NEW fd \in Fds, Event(fd), getIsRegist(clientList[fd]), NEW r \in Cmds, quit(fd, r)
    PROVE  IInv'
<1> DEFINE chans == clientList[fd].channelList
           reason == channelMessage(r.args, 1)
<1>1. /\ fd \in sock /\ fd \in DOMAIN clientList /\ job.op = "IDLE" /\ eventList' = eventList \ {fd}
      /\ UNCHANGED <<clientList, channelList, sock, reciveBuf, status>>
    BY EventFacts DEF quit, NoEffect
<1>2. chans \in Seq(ChanNames) /\ IsInjective(chans)
    BY <1>1 DEF IInv, MapsInv, GoodClient, Clients
<1>3. chans \in Seq(Words)
    <2>1. ChanNames \subseteq Words
        BY WordsAssumption
    <2> HIDE DEF chans
    <2> QED BY <1>2, <2>1, SeqMonotonic
<1>4. reason \in Seq(Pieces)
    BY TextTyped
<1>5. job' = [op |-> "QUIT", fd |-> fd, chans |-> chans, reason |-> reason]
    BY DEF quit
<1> HIDE DEF chans, reason
<1>6. /\ job' \in QuitJobs /\ job'.op = "QUIT" /\ job'.fd = fd /\ job'.chans = chans
    BY <1>3, <1>4, <1>5 DEF QuitJobs
<1>7. \A f \in DOMAIN clientList : ListedBy(f)' = ListedBy(f)
    BY <1>1, <1>6 DEF ListedBy, chans
<1>8. eventList' \subseteq sock \cup {ServerSock}
    BY <1>1 DEF IInv, MapsInv
<1>9. MapsInv'
    BY <1>1, <1>7, <1>8, MapsQuiet DEF IInv
<1>10. JobInv'
    BY <1>1, <1>2, <1>6 DEF JobInv, Jobs, ModeByOperator
<1> QED BY <1>1, <1>9, <1>10 DEF IInv, BufInv

\* MODE
LEMMA ModeInv ==
    ASSUME IInv, NEW fd \in Fds, Event(fd), getIsRegist(clientList[fd]), NEW r \in Cmds, mode(fd, r)
    PROVE  IInv'
<1> DEFINE name == r.args[1][1]
<1>1. "" \in Words /\ (argc(r) >= 2 => name \in Words) /\ (argc(r) > 2 => argc(r) >= 2 /\ argc(r) >= 3)
    BY FirstArgs, ArgcTests, WordsAssumption
<1>2. CASE NoEffect /\ job' = Idle
    BY <1>2, AnswerInv DEF NoEffect, IInv, BufInv
<1>3. ASSUME NEW code \in MessageCmds, NEW chan \in Words, Reply(fd, code, chan), job' = Idle
      PROVE  IInv'
    <2>1. BufInv' /\ UNCHANGED <<clientList, channelList, sock>>
        BY <1>3, ReplyTyped DEF IInv
    <2> QED BY <1>3, <2>1, AnswerInv
<1>4. CASE \/ Reply(fd, "461", "") /\ job' = Idle
           \/ argc(r) >= 2 /\ (Reply(fd, "403", name) \/ Reply(fd, "482", name)) /\ job' = Idle
    BY <1>1, <1>3, <1>4 DEF MessageCmds
<1>5. CASE argc(r) >= 2 /\ name \in DOMAIN channelList /\ ModeQuery(fd, name) /\ job' = Idle
    <2> DEFINE ch == channelList[name]
               text == IF ~diffMode(ch, "k") THEN <<>>
                       ELSE <<IF diffOperator(ch, fd) THEN ch.key ELSE "<key>">>
               m == [Numeric("324", name) EXCEPT !.text = text]
    <2>1. ch.key \in Pieces /\ "<key>" \in Pieces
        BY <1>5 DEF IInv, MapsInv, Channels, Pieces
    <2>2. text \in Seq(Pieces)
        BY <2>1, EmptySeq, OneElement
    <2>3. Numeric("324", name) \in Messages
        BY <1>1, <1>5, NumericTyped DEF MessageCmds
    <2>4. /\ reciveBuf' = appendReciveBuf(reciveBuf, {fd}, m)
          /\ UNCHANGED <<clientList, channelList, sock, status>>
        BY <1>5 DEF ModeQuery
    <2> HIDE DEF text
    <2>5. m \in Messages
        BY <2>2, <2>3 DEF Messages
    <2> HIDE DEF m
    <2>6. BufInv'
        BY <2>4, <2>5, AppendTyped DEF IInv, BufInv
    <2> QED BY <1>5, <2>4, <2>6, AnswerInv
<1>6. CASE /\ argc(r) > 2 /\ name \in DOMAIN channelList /\ diffOperator(channelList[name], fd)
           /\ NoEffect
           /\ job' = [op |-> "MODE", fd |-> fd, chan |-> name, letters |-> split(r.args[2]),
                      values |-> [i \in 1 .. Len(r.args) - 2 |-> r.args[i + 2][1]],
                      sign |-> "nul", message |-> <<>>, shown |-> <<>>, plus |-> ""]
    <2> DEFINE vs == [i \in 1 .. Len(r.args) - 2 |-> r.args[i + 2][1]]
    <2>1. Len(r.args) \in Nat /\ Len(r.args) >= 2
        <3>1. Len(r.args) \in Nat /\ argc(r) = Len(r.args) + 1
            BY ArgcTyped
        <3>2. argc(r) > 2
            BY <1>6
        <3> QED BY <3>1, <3>2
    <2>2. \A i \in 1 .. Len(r.args) - 2 : r.args[i + 2][1] \in Words
        <3>1. \A i \in 1 .. Len(r.args) - 2 : i + 2 \in 1 .. Len(r.args)
            BY <2>1
        <3> QED BY <3>1, ArgTyped
    <2>3. vs \in Seq(Words)
        <3>1. Len(r.args) - 2 \in Nat
            BY <2>1
        <3> QED BY <2>2, <3>1, IsASeq
    <2>4. split(r.args[2]) \in Seq(Words) /\ name \in Words
        BY <1>1, <1>6, FirstArgs, SplitTyped
    <2> HIDE DEF vs
    <2>5. job' = [op |-> "MODE", fd |-> fd, chan |-> name, letters |-> split(r.args[2]), values |-> vs,
                  sign |-> "nul", message |-> <<>>, shown |-> <<>>, plus |-> ""]
        BY <1>6 DEF vs
    <2>6. <<>> \in Seq(Pieces) /\ "nul" \in Signs
        BY EmptySeq DEF Signs
    <2>7. job' \in ModeJobs /\ job'.op = "MODE" /\ job'.fd = fd /\ job'.chan = name
        BY <1>1, <2>3, <2>4, <2>5, <2>6 DEF ModeJobs
    <2>8. job' \in Jobs
        BY <2>7 DEF Jobs
    <2> QED BY <1>6, <2>7, <2>8, StartInv
<1> QED BY <1>1, <1>2, <1>4, <1>5, <1>6 DEF mode

\* TOPIC
LEMMA TopicInv ==
    ASSUME IInv, NEW fd \in Fds, Event(fd), NEW r \in Cmds, topic(fd, r)
    PROVE  IInv'
<1> DEFINE name == r.args[1][1]
           ch == channelList[name]
           word == NewTopic(r.args[2][1])
<1>1. /\ "" \in Words /\ (argc(r) < 2 \/ name \in Words) /\ job' = Idle
      /\ fd \in DOMAIN clientList
    BY FirstArgs, ArgcTests, WordsAssumption, EventFacts DEF topic
<1>2. CASE \/ Reply(fd, "461", "")
           \/ /\ ~(argc(r) < 2)
              /\ Reply(fd, "403", name) \/ Reply(fd, "442", name) \/ Reply(fd, "482", name)
    <2>1. BufInv' /\ UNCHANGED <<clientList, channelList, sock>>
        BY <1>1, <1>2, ReplyTyped DEF MessageCmds, IInv
    <2> QED BY <1>1, <2>1, AnswerInv
<1>3. CASE /\ ~(argc(r) < 2) /\ name \in DOMAIN channelList
           /\ reciveBuf' = appendReciveBuf(reciveBuf, {fd},
                  IF ch.topic = "" THEN Numeric("331", name)
                  ELSE [Numeric("332", name) EXCEPT !.text = <<ch.topic>>])
           /\ UNCHANGED <<clientList, channelList, sock, status>>
    <2> DEFINE m == IF ch.topic = "" THEN Numeric("331", name)
                    ELSE [Numeric("332", name) EXCEPT !.text = <<ch.topic>>]
    <2>1. <<ch.topic>> \in Seq(Pieces)
        <3>1. ch.topic \in Pieces
            BY <1>3 DEF IInv, MapsInv, Channels, Pieces
        <3> QED BY <3>1, OneElement
    <2>2. Numeric("331", name) \in Messages /\ Numeric("332", name) \in Messages
        BY <1>1, <1>3, NumericTyped DEF MessageCmds
    <2>3. m \in Messages
        BY <2>1, <2>2 DEF Messages
    <2> HIDE DEF m
    <2>4. appendReciveBuf(reciveBuf, {fd}, m) \in [Fds -> Seq(Messages)]
        BY <2>3, AppendTyped DEF IInv, BufInv
    <2>5. BufInv'
        BY <1>3, <2>4 DEF IInv, BufInv, m
    <2> QED BY <1>1, <1>3, <2>5, AnswerInv
<1>4. CASE /\ ~(argc(r) < 2) /\ argc(r) # 2 /\ name \in DOMAIN channelList
           /\ channelList' = [channelList EXCEPT ![name] = setTopic(ch, word)]
           /\ reciveBuf' = messageAllChannel(reciveBuf, channelList, fd, name, "TOPIC", <<word>>)
           /\ UNCHANGED <<clientList, sock, status>>
    <2>1. argc(r) >= 3
        <3>1. argc(r) \in Nat
            BY FirstArgs
        <3>2. ~(argc(r) < 2) /\ argc(r) # 2
            BY <1>4
        <3> QED BY <3>1, <3>2
    <2>2. word \in Words
        <3>1. r.args[2][1] \in Words
            BY <2>1, FirstArgs
        <3> QED BY <1>1, <3>1, WordsAssumption DEF NewTopic
    <2> HIDE DEF word
    <2>3. <<word>> \in Seq(Pieces)
        BY <2>2, OneElement DEF Pieces
    <2>4. SameRanks(ch, setTopic(ch, word))
        BY <1>4, <2>2, SettingsGood DEF IInv, MapsInv
    <2>5. BufInv'
        BY <1>1, <1>4, <2>3, BroadcastTyped DEF MessageCmds, IInv, BufInv
    <2> QED BY <1>1, <1>4, <2>4, <2>5, ChangeInv DEF SameRanks
<1> QED BY <1>2, <1>3, <1>4 DEF topic

\* INVITE
LEMMA InviteInv ==
    ASSUME IInv, NEW fd \in Fds, Event(fd), NEW r \in Cmds, invite(fd, r)
    PROVE  IInv'
<1> DEFINE nickname == r.args[1][1]
           name == r.args[2][1]
           target == findClient(nickname)
           who == clientList[target].fd
           m == [cmd |-> "INVITE", from |-> clientList[fd].nickName, chan |-> name, text |-> <<>>]
<1>1. "" \in Words /\ job' = Idle /\ fd \in DOMAIN clientList
    BY WordsAssumption, EventFacts DEF invite
<1>2. argc(r) >= 3 => name \in Words
    BY FirstArgs
<1>3. CASE \/ Reply(fd, "461", "") \/ Reply(fd, "401", "")
           \/ /\ argc(r) >= 3
              /\ Reply(fd, "403", name) \/ Reply(fd, "442", name) \/ Reply(fd, "482", name)
                 \/ Reply(fd, "443", name)
    <2> HIDE DEF name
    <2>1. BufInv' /\ UNCHANGED <<clientList, channelList, sock>>
        BY <1>1, <1>2, <1>3, ReplyTyped DEF MessageCmds, IInv
    <2> QED BY <1>1, <2>1, AnswerInv
<1>4. CASE /\ argc(r) >= 3 /\ ClientsNamed(nickname) # {} /\ name \in DOMAIN channelList
           /\ reciveBuf' = appendReciveBuf(appendReciveBuf(reciveBuf, {target}, m), {fd}, Numeric("341", name))
           /\ channelList' = [channelList EXCEPT ![name] = appendFdListInvite(@, who)]
           /\ UNCHANGED <<clientList, sock, status>>
    <2>1. target \in DOMAIN clientList /\ who \in Fds \cup {NoFd}
        BY <1>4, FindClient DEF IInv, MapsInv, Clients
    <2>2. m \in Messages
        <3>1. clientList[fd].nickName \in Words /\ name \in Words
            BY <1>1, <1>2, <1>4 DEF IInv, MapsInv, Clients
        <3> QED BY <3>1, EmptySeq DEF Messages, MessageCmds
    <2>3. Numeric("341", name) \in Messages
        BY <1>2, <1>4, NumericTyped DEF MessageCmds
    <2> HIDE DEF m, name, target, who
    <2>4. appendReciveBuf(reciveBuf, {target}, m) \in [Fds -> Seq(Messages)]
        BY <2>2, AppendTyped DEF IInv, BufInv
    <2>5. appendReciveBuf(appendReciveBuf(reciveBuf, {target}, m), {fd}, Numeric("341", name))
            \in [Fds -> Seq(Messages)]
        BY <2>3, <2>4, AppendTyped
    <2>6. BufInv'
        BY <1>4, <2>5 DEF IInv, BufInv
    <2>7. /\ GoodChannel(appendFdListInvite(channelList[name], who))
          /\ appendFdListInvite(channelList[name], who).clientFdList = channelList[name].clientFdList
        BY <1>4, <2>1, InviteGood DEF IInv, MapsInv
    <2> QED BY <1>1, <1>4, <2>6, <2>7, ChangeInv
<1> QED BY <1>1, <1>3, <1>4 DEF invite

\* A command of a client that is registered.
LEMMA SignInInv ==
    ASSUME IInv, NEW fd \in Fds, Event(fd), getIsRegist(clientList[fd]), NEW r \in Cmds, signIn(fd, r)
    PROVE  IInv'
<1>1. /\ fd \in sock /\ fd \in DOMAIN clientList /\ job.op = "IDLE" /\ eventList' = eventList \ {fd}
      /\ "" \in Words
    BY EventFacts, WordsAssumption
<1>2. CASE Registering(fd, r) /\ job' = Idle
    <2>1. JobInv' /\ job'.op # "QUIT"
        BY <1>2, IdleFits
    <2>2. MapsInv' /\ BufInv'
        BY <1>1, <1>2, <2>1, RegisteringInv DEF IInv
    <2> QED BY <2>1, <2>2 DEF IInv
<1>3. CASE list(fd) /\ job' = Idle
    <2>1. BufInv' /\ UNCHANGED <<clientList, channelList, sock>>
        BY <1>3, EmptySeq DEF list, IInv, BufInv
    <2> QED BY <1>3, <2>1, AnswerInv
<1>4. CASE (ping(fd, r) \/ Reply(fd, "421", "")) /\ job' = Idle
    <2>1. BufInv' /\ UNCHANGED <<clientList, channelList, sock>>
        BY <1>1, <1>4, ReplyTyped DEF ping, MessageCmds, IInv
    <2> QED BY <1>4, <2>1, AnswerInv
<1>5. CASE NoEffect /\ job' = Idle
    BY <1>5, AnswerInv DEF NoEffect, IInv, BufInv
<1> QED BY <1>2, <1>3, <1>4, <1>5, LoopsInv, QuitInv, ModeInv, TopicInv, InviteInv DEF signIn

\* A command of a client that is not.
LEMMA SignUpInv ==
    ASSUME IInv, NEW fd \in Fds, Event(fd), NEW r \in Cmds, signUp(fd, r)
    PROVE  IInv'
<1>1. /\ fd \in sock /\ fd \in DOMAIN clientList /\ job.op = "IDLE" /\ eventList' = eventList \ {fd}
    BY EventFacts
<1>2. job' \in Jobs /\ job'.op = "SIGNUP" /\ job'.fd = fd
    BY EmptySeq DEF signUp, SigningUp, Jobs, SignUpJobs
<1>3. MapsInv' /\ BufInv' /\ (fd \in DOMAIN clientList' => fd \in sock')
    <2>1. CASE Registering(fd, r)
        BY <1>1, <1>2, <2>1, RegisteringInv DEF IInv
    <2>2. CASE Drop(fd)
        BY <1>1, <1>2, <2>2, DropInv DEF signUp, IInv
    <2> QED BY <2>1, <2>2 DEF signUp
<1>4. JobInv'
    BY <1>1, <1>2, <1>3 DEF JobInv, ModeByOperator
<1> QED BY <1>3, <1>4 DEF IInv

\* An event on a connection.
LEMMA RunInv ==
    ASSUME IInv, NEW fd \in Fds, Run(fd)
    PROVE  IInv'
<1>1. Event(fd)
    BY DEF Run
<1>2. ASSUME NEW r \in Requests, ~getIsRegist(clientList[fd]), signUp(fd, r)
      PROVE  IInv'
    BY <1>1, <1>2, SignUpInv, RequestsAssumption
<1>3. ASSUME NEW r \in Requests, getIsRegist(clientList[fd]), signIn(fd, r)
      PROVE  IInv'
    BY <1>1, <1>3, SignInInv, RequestsAssumption
<1>4. ASSUME NEW lines \in Chunks, irssiSignUp(fd, lines)
      PROVE  IInv'
    <2>1. job' \in Jobs /\ job'.op = "SIGNUP" /\ job'.fd = fd /\ NoEffect
        BY <1>4, RequestsAssumption DEF irssiSignUp, SigningUp, Jobs, SignUpJobs
    <2> QED BY <1>1, <2>1, StartInv
<1>5. CASE NoEffect /\ UNCHANGED job
    <2>1. job' = Idle /\ BufInv' /\ UNCHANGED <<clientList, channelList, sock>>
        BY <1>1, <1>5, EventFacts DEF NoEffect, IInv, BufInv
    <2> QED BY <1>1, <2>1, AnswerInv
<1> QED BY <1>2, <1>3, <1>4, <1>5 DEF Run

\* A lost connection.
LEMMA LostInv ==
    ASSUME IInv, NEW fd \in Fds, Eof(fd) \/ ClientSockError(fd)
    PROVE  IInv'
<1>1. Event(fd) /\ fd \in DOMAIN clientList
    BY DEF Eof, ClientSockError
<1>2. job = Idle /\ eventList' = eventList \ {fd} /\ job' = Idle
    BY <1>1, EventFacts DEF Eof, ClientSockError
<1>3. MapsInv'
    BY <1>1, <1>2, MapsDisconnect DEF Eof, ClientSockError, IInv
<1>4. BufInv'
    BY EmptySeq DEF Eof, ClientSockError, IInv, BufInv
<1> QED BY <1>2, <1>3, <1>4, IdleFits DEF IInv

\* An exception leaves execute().
LEMMA ShutdownInv ==
    ASSUME IInv, Shutdown
    PROVE  IInv'
<1>1. MapsInv'
    <2>1. DOMAIN clientList' = {} /\ DOMAIN channelList' = {}
        BY DEF Shutdown, EmptyMap
    <2> QED BY <2>1 DEF Shutdown, MapsInv, MembershipAgrees, EmptyMap
<1>2. BufInv'
    BY EmptySeq DEF Shutdown, BufInv
<1>3. job' = Idle
    BY DEF Shutdown
<1> QED BY <1>1, <1>2, <1>3, IdleFits DEF IInv

\* A new batch, a new connection, the end of a batch.
LEMMA LoopInv ==
    ASSUME IInv, KEvent \/ Accept \/ Flush
    PROVE  IInv'
<1>1. job = Idle /\ job' = Idle
    BY DEF KEvent, Accept, Flush, Event, state
<1>2. CASE KEvent
    <2>1. UNCHANGED <<clientList, channelList, sock>> /\ BufInv' /\ eventList' \subseteq sock \cup {ServerSock}
        BY <1>2 DEF KEvent, state, IInv, BufInv
    <2>2. \A f \in DOMAIN clientList : ListedBy(f)' = ListedBy(f)
        BY <1>1, <2>1 DEF ListedBy
    <2> QED BY <1>1, <2>1, <2>2, MapsQuiet, IdleFits DEF IInv
<1>3. CASE Accept
    BY <1>1, <1>3, MapsAccept, IdleFits DEF IInv, BufInv, Accept
<1>4. CASE Flush
    <2>1. UNCHANGED <<clientList, channelList, sock, eventList>> /\ BufInv'
        BY <1>4, EmptySeq DEF Flush, IInv, BufInv
    <2> QED BY <1>1, <2>1, QuietEnd, IdleFits
<1> QED BY <1>2, <1>3, <1>4

-----------------------------------------------------------------------------
\* The server starts with the invariant: nobody is there.
LEMMA InitInv == Init => IInv
<1> SUFFICES ASSUME Init PROVE IInv
    OBVIOUS
<1>1. MapsInv
    BY MapsEmpty DEF Init
<1>2. JobInv
    BY DEF Init, JobInv, Idle, Jobs, ModeByOperator
<1>3. BufInv
    BY EmptySeq DEF Init, BufInv
<1> QED BY <1>1, <1>2, <1>3 DEF IInv

\* Every step keeps it.
LEMMA NextInv == IInv /\ [Next]_vars => IInv'
<1> SUFFICES ASSUME IInv, [Next]_vars PROVE IInv'
    OBVIOUS
<1>1. CASE UNCHANGED vars
    <2>1. UNCHANGED <<clientList, channelList, reciveBuf, sock, job, status, eventList>>
        BY <1>1 DEF vars, state
    <2> QED BY <2>1 DEF IInv, MapsInv, JobInv, BufInv, MembershipAgrees, ModeByOperator,
                        Members, Operators, ListedBy
<1>2. CASE JobStep
    BY <1>2, JoinStepInv, LeaveStepInv, KickStepInv, ModeStepInv, PrivmsgStepInv, SignUpStepInv
       DEF JobStep
<1>3. CASE \E fd \in Fds : Run(fd) \/ Eof(fd) \/ ClientSockError(fd)
    BY <1>3, RunInv, LostInv
<1>4. CASE ServerSockError \/ KEventError \/ BurstError \/ BrokenPipe
    BY <1>4, ShutdownInv DEF ServerSockError, KEventError, BurstError, BrokenPipe
<1>5. CASE KEvent \/ Accept \/ Flush
    BY <1>5, LoopInv
<1> QED BY <1>1, <1>2, <1>3, <1>4, <1>5 DEF Next, Serve

\* What the invariant says, in the terms of Server.
LEMMA InvImplies ==
    ASSUME IInv
    PROVE  /\ TypeOK /\ MembershipAgrees /\ NoDuplicates /\ OperatorsAreMembers
           /\ MembersAreRegistered /\ ConnectionsHaveClients /\ ModeByOperator
<1>1. TypeOK
    BY DEF IInv, MapsInv, JobInv, BufInv, TypeOK
<1>2. NoDuplicates
    BY DEF IInv, MapsInv, JobInv, GoodClient, GoodChannel, NoDuplicates
<1>3. OperatorsAreMembers
    BY DEF IInv, MapsInv, GoodChannel, OperatorsAreMembers, Operators, Members
<1>4. MembersAreRegistered
    BY DEF IInv, MapsInv, JobInv, GoodClient, MembersAreRegistered
<1>5. ConnectionsHaveClients
    BY DEF IInv, MapsInv, GoodClient, ConnectionsHaveClients
<1> QED BY <1>1, <1>2, <1>3, <1>4, <1>5 DEF IInv, MapsInv, JobInv

\* The inductive invariant holds in every reachable state.
THEOREM Invariance == Spec => []IInv
BY InitInv, NextInv, PTL DEF Spec

\* Every variable keeps its type, for all commands, errors and disconnections.
THEOREM TypeCorrectness == Spec => []TypeOK
BY Invariance, InvImplies, PTL

\* Client::_channelList and Channel::_clientFdList agree after every iteration of every
\* handler, and the unchecked look-ups find what they look for.
THEOREM MembershipConsistency == Spec => []MembershipAgrees
BY Invariance, InvImplies, PTL

\* No list of clients, operators or channels has an element twice, so erasing the
\* first occurrence erases the element.
THEOREM DuplicateFreedom == Spec => []NoDuplicates
BY Invariance, InvImplies, PTL

\* Whoever leaves a channel, in any way, leaves no operator right behind.
THEOREM OperatorMembership == Spec => []OperatorsAreMembers
BY Invariance, InvImplies, PTL

\* Who is in a channel, or has a command executed, has given the password.
THEOREM RegistrationFirst == Spec => []MembersAreRegistered
BY Invariance, InvImplies, PTL

\* Every open connection has its client, and every other client is blank.
THEOREM ConnectionConsistency == Spec => []ConnectionsHaveClients
BY Invariance, InvImplies, PTL

\* MODE works for an operator of its channel from the first letter to the last.
THEOREM ModeAuthority == Spec => []ModeByOperator
BY Invariance, InvImplies, PTL
=============================================================================
