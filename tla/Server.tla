------------------------------- MODULE Server -------------------------------
(***************************************************************************)
(* The event loop (Server::execute, src/Server.cpp) and the dispatch of    *)
(* commands (Command::run and signIn, src/Command.cpp): the whole server.  *)
(*                                                                         *)
(* kevent() hands over a batch of ready descriptors; the loop serves them  *)
(* one after the other, each command changing the clients, the channels    *)
(* and the buffers of other clients, and sends the buffers at the end of   *)
(* the batch.                                                              *)
(***************************************************************************)
EXTENDS SignUp, Membership, Modes, Talk

CONSTANTS
    ServerSock,    \* the descriptor of the listening socket
    MaxEvents      \* the size of _eventList

ASSUME ServerAssumption ==
    /\ ServerSock \in Nat \ Fds
    /\ MaxEvents \in Nat \ {0}

VARIABLE eventList \* the events of the batch not served yet

vars == <<state, eventList>>

EmptyMap == [k \in {} |-> k]

Init ==
    /\ clientList = EmptyMap
    /\ channelList = EmptyMap
    /\ reciveBuf = [f \in Fds |-> <<>>]
    /\ sock = {}
    /\ job = Idle
    /\ status = "running"
    /\ eventList = {}

-----------------------------------------------------------------------------
\* The loop

AllSent == \A f \in Fds : reciveBuf[f] = <<>>

\* kevent(): a new batch, any ready descriptors in any order.
KEvent ==
    /\ job = Idle /\ eventList = {} /\ AllSent
    /\ \E ready \in SUBSET (sock \cup {ServerSock}) :
        /\ ready # {} /\ Cardinality(ready) <= MaxEvents
        /\ eventList' = ready
    /\ UNCHANGED state

\* The event for fd is served next.
Event(fd) ==
    /\ job = Idle /\ fd \in eventList
    /\ eventList' = eventList \ {fd}

\* accept() gives the lowest free descriptor (external).
FreeFds == Fds \ sock
\* Mutant: the -1 of a failed accept() is used.
LowestFree_Mut == NoFd
LowestFree == CHOOSE f \in FreeFds : \A g \in FreeFds : f <= g

\* insert() keeps a client that is already listed under the descriptor.
Accept ==
    /\ Event(ServerSock)
    /\ FreeFds # {}
    /\ sock' = sock \cup {LowestFree}
    /\ clientList' = IF LowestFree \in DOMAIN clientList THEN clientList
                     ELSE With(clientList, LowestFree, NewClient(LowestFree))
    /\ UNCHANGED <<channelList, reciveBuf, job, status>>

\* An exception leaves execute(), and the destructor closes every connection.
Shutdown ==
    /\ status' = "stopped"
    /\ clientList' = EmptyMap /\ channelList' = EmptyMap
    /\ reciveBuf' = [f \in Fds |-> <<>>]
    /\ sock' = {} /\ eventList' = {}
    /\ job' = Idle

\* accept() fails, or the listening socket reports EV_ERROR.
ServerSockError == job = Idle /\ ServerSock \in eventList /\ Shutdown

\* kevent() fails.
KEventError == job = Idle /\ eventList = {} /\ AllSent /\ Shutdown

\* A line of a burst throws, and nothing catches it before main().
BurstError ==
    /\ job.op = "SIGNUP" /\ job.lines # <<>>
    /\ \E ending \in Endings : Throws(Head(job.lines), ending)
    /\ Shutdown

\* The handlers that call send() themselves: the errors that drop a client which has
\* not given the password, and LIST.
SendsAtOnce(fd, r) ==
    \/ r.cmd = "PASS" /\ ~HasPass(fd) /\ argc(r) >= 2 /\ r.args[1][1] # Password
    \/ r.cmd \in {"NICK", "USER"} /\ ~HasPass(fd)
    \/ r.cmd \notin Registration /\ ~getIsRegist(clientList[fd])
    \/ r.cmd = "LIST" /\ getIsRegist(clientList[fd])

\* send() on a connection the peer has reset raises SIGPIPE, which nothing handles:
\* the process ends, and the kernel closes every connection.
BrokenPipe ==
    /\ \/ job = Idle /\ eventList = {} /\ ~AllSent
       \/ /\ job = Idle
          /\ \E fd \in eventList \cap DOMAIN clientList, r \in Requests : SendsAtOnce(fd, r)
       \/ /\ job.op = "SIGNUP" /\ job.lines # <<>> /\ job.fd \in DOMAIN clientList
          /\ Head(job.lines).cmd \in Registration /\ SendsAtOnce(job.fd, Head(job.lines))
    /\ Shutdown

\* Mutant: the operator right is not taken away.
Disconnected_Mut(fd) ==
    [c \in DOMAIN channelList |->
        IF findChannelOf(clientList[fd], c)
        THEN removeInviteFd(removeFdListClient(channelList[c], fd), fd)
        ELSE channelList[c]]
\* Server::disconnectClient, up to the erase: fd leaves its channels, and a channel
\* stays when it leaves as the last one.
Disconnected(fd) ==
    [c \in DOMAIN channelList |->
        IF findChannelOf(clientList[fd], c)
        THEN removeInviteFd(Removed(channelList[c], fd), fd)
        ELSE channelList[c]]

\* EV_ERROR on a connection.
ClientSockError(fd) ==
    /\ Event(fd) /\ fd \in DOMAIN clientList
    /\ channelList' = Disconnected(fd)
    /\ clientList' = Without(clientList, fd)
    /\ reciveBuf' = [reciveBuf EXCEPT ![fd] = <<>>]
    /\ sock' = sock \ {fd}
    /\ UNCHANGED <<job, status>>

\* recv() returns 0 or fails: disconnectClient, and then run() goes on with an empty
\* message, which has no newline: clientList[fd] makes a new Client() for the
\* descriptor that was just closed.
Eof(fd) ==
    /\ Event(fd) /\ fd \in DOMAIN clientList
    /\ channelList' = Disconnected(fd)
    /\ clientList' = [clientList EXCEPT ![fd] = NewClient(NoFd)]
    /\ reciveBuf' = [reciveBuf EXCEPT ![fd] = <<>>]
    /\ sock' = sock \ {fd}
    /\ UNCHANGED <<job, status>>

\* Command::signIn for a registered client.
signIn(fd, r) ==
    \/ Registering(fd, r) /\ job' = Idle
    \/ r.cmd = "PRIVMSG" /\ privmsg(fd, r)
    \/ r.cmd = "QUIT"    /\ quit(fd, r)
    \/ r.cmd = "PART"    /\ part(fd, r)
    \/ r.cmd = "JOIN"    /\ join(fd, r)
    \/ r.cmd = "KICK"    /\ kick(fd, r)
    \/ r.cmd = "MODE"    /\ mode(fd, r)
    \/ r.cmd = "TOPIC"   /\ topic(fd, r)
    \/ r.cmd = "INVITE"  /\ invite(fd, r)
    \/ r.cmd = "LIST"    /\ list(fd) /\ job' = Idle
    \/ r.cmd = "PING"    /\ ping(fd, r) /\ job' = Idle
    \/ r.cmd \in {"WHOIS", "WHO"} /\ NoEffect /\ job' = Idle
    \/ r.cmd \notin Known /\ Reply(fd, "421", "") /\ job' = Idle

\* Command::run: a command, a sign-up burst, or a text that is put aside (a fragment
\* without newline) or dropped (CAP LS).
Run(fd) ==
    /\ Event(fd) /\ fd \in DOMAIN clientList
    /\ \/ \E r \in Requests :
            \/ ~getIsRegist(clientList[fd]) /\ signUp(fd, r)
            \/ getIsRegist(clientList[fd]) /\ signIn(fd, r)
       \/ \E lines \in Chunks : irssiSignUp(fd, lines)
       \/ NoEffect /\ UNCHANGED job

\* Mutant: a client whose own descriptor is wrong is passed over.
Flush_Mut ==
    /\ job = Idle /\ eventList = {} /\ ~AllSent
    /\ reciveBuf' = [f \in Fds |-> IF f \in DOMAIN clientList /\ clientList[f].fd = f
                                   THEN <<>> ELSE reciveBuf[f]]
    /\ UNCHANGED <<clientList, channelList, sock, job, status, eventList>>
\* The end of a batch: every buffer is sent and cleared.
Flush ==
    /\ job = Idle /\ eventList = {} /\ ~AllSent
    /\ reciveBuf' = [f \in Fds |-> <<>>]
    /\ UNCHANGED <<clientList, channelList, sock, job, status, eventList>>

-----------------------------------------------------------------------------
\* The next iteration of the handler in progress.
JoinStep    == JoinBadName \/ JoinNewChannel \/ JoinExisting \/ JoinDone
LeaveStep   == PartChannel \/ PartDone \/ QuitChannel \/ QuitDone
KickStep    == KickChannel \/ KickDone
ModeStep    == ModeSign \/ ModeFlag \/ ModeKey \/ ModeLimit \/ ModeOperator \/ ModeUnknown
               \/ ModeDone
PrivmsgStep == PrivmsgChannel \/ PrivmsgClient \/ PrivmsgDone
SignUpStep  == SignUpLine \/ Welcome

JobStep ==
    /\ JoinStep \/ LeaveStep \/ KickStep \/ ModeStep \/ PrivmsgStep \/ SignUpStep
    /\ UNCHANGED eventList

\* What the thread does by itself once kevent() has returned.
Serve ==
    /\ status = "running"
    /\ \/ JobStep
       \/ Accept
       \/ \E fd \in Fds : Run(fd) \/ Eof(fd) \/ ClientSockError(fd)
       \/ ServerSockError \/ BurstError
       \/ Flush

Next == Serve \/ (status = "running" /\ (KEvent \/ KEventError \/ BrokenPipe))

Spec == Init /\ [][Next]_vars

\* The thread is never suspended for ever, and nothing in a batch blocks it: connections
\* are non-blocking, and recv() and accept() are called on ready descriptors only.
Fairness == WF_vars(Serve)

FairSpec == Spec /\ Fairness

-----------------------------------------------------------------------------
(***************************************************************************)
(* Types                                                                   *)
(***************************************************************************)
Clients  == [fd : Fds \cup {NoFd}, nickName : Words, regi : SUBSET Registration,
             channelList : Seq(ChanNames)]
Channels == [operatorFdList : Seq(Fds), clientFdList : Seq(Fds),
             inviteFdList : Seq(Fds \cup {NoFd}), topic : Words, key : Words,
             modes : SUBSET {"i", "t", "k", "l"}, limit : Nat]
Jobs     == {Idle} \cup SignUpJobs \cup JoinJobs \cup PartJobs \cup QuitJobs \cup KickJobs
            \cup ModeJobs \cup PrivmsgJobs

\* Every variable has its type.
TypeOK ==
    /\ DOMAIN clientList \subseteq Fds /\ clientList \in [DOMAIN clientList -> Clients]
    /\ DOMAIN channelList \subseteq ChanNames /\ channelList \in [DOMAIN channelList -> Channels]
    /\ reciveBuf \in [Fds -> Seq(Messages)]
    /\ sock \in SUBSET Fds
    /\ job \in Jobs
    /\ status \in {"running", "stopped", "undefined"}
    /\ eventList \in SUBSET (Fds \cup {ServerSock})

-----------------------------------------------------------------------------
(***************************************************************************)
(* Safety                                                                  *)
(***************************************************************************)
Members(c)   == ToSet(channelList[c].clientFdList)
Operators(c) == ToSet(channelList[c].operatorFdList)

\* The channels a client is in by its own list; QUIT works on a copy of that list
\* and erases the client only at its end.
ListedBy(f) == IF job.op = "QUIT" /\ job.fd = f THEN ToSet(job.chans)
               ELSE ToSet(clientList[f].channelList)

\* The server keeps who is in which channel twice, in Client::_channelList and in
\* Channel::_clientFdList.  The two agree after every iteration of every handler,
\* and every descriptor in a channel is a key of _clientList: messageAllChannel and
\* nameListMsg use find(fd)->second, disconnectClient _channelList[name], unchecked.
MembershipAgrees ==
    /\ \A c \in DOMAIN channelList : Members(c) \subseteq DOMAIN clientList
    /\ \A f \in DOMAIN clientList : ListedBy(f) \subseteq DOMAIN channelList
    /\ \A f \in DOMAIN clientList, c \in DOMAIN channelList :
            c \in ListedBy(f) <=> f \in Members(c)

\* No descriptor is twice in a channel and no channel twice in a client's list: the
\* erase of the first occurrence, which is all that leaving does, is enough.
NoDuplicates ==
    /\ \A c \in DOMAIN channelList :
            /\ IsInjective(channelList[c].clientFdList)
            /\ IsInjective(channelList[c].operatorFdList)
    /\ \A f \in DOMAIN clientList : IsInjective(clientList[f].channelList)
    /\ job.op = "QUIT" => IsInjective(job.chans)

\* An operator of a channel is in it: leaving in any way (PART, KICK, QUIT, a lost
\* connection) takes the right away, so that the next owner of the descriptor does
\* not inherit it.
OperatorsAreMembers == \A c \in DOMAIN channelList : Operators(c) \subseteq Members(c)

\* A client that is in a channel, or whose command is being executed after
\* registration, has given the password, a nickname and a user name.
MembersAreRegistered ==
    /\ \A f \in DOMAIN clientList :
            /\ clientList[f].channelList # <<>> => getIsRegist(clientList[f])
            /\ clientList[f].regi # {} => "PASS" \in clientList[f].regi
    /\ job.op \notin {"IDLE", "SIGNUP"} =>
            job.fd \in DOMAIN clientList /\ getIsRegist(clientList[job.fd])

\* Two clients never have the same nickname, other than the "*" of the clients that
\* have none yet.
NicknamesUnique ==
    \A f, g \in DOMAIN clientList :
        clientList[f].nickName = clientList[g].nickName => f = g \/ clientList[f].nickName = Star

\* Every open connection has its client, whose own descriptor is right or is the -1
\* that Eof left; a client without connection is the blank one Eof left, so nobody
\* can find it in a channel or by a nickname.
ConnectionsHaveClients ==
    /\ sock \subseteq DOMAIN clientList
    /\ eventList \subseteq sock \cup {ServerSock}
    /\ \A f \in DOMAIN clientList :
            /\ clientList[f].fd \in {f, NoFd}
            /\ f \notin sock => clientList[f] = NewClient(NoFd)

\* While JOIN works through its list, the key it is about to compare is the one
\* given for that channel, however the channels before it were disposed of.
KeysAligned ==
    job.op = "JOIN" /\ job.argc > 2 /\ job.keyIter < Len(job.keys) => job.keyIter = job.iter

\* MODE never works on a channel that is gone, nor for somebody who is not (any
\* more) its operator, after any of its letters.
ModeByOperator ==
    job.op = "MODE" => /\ job.chan \in DOMAIN channelList
                       /\ job.fd \in Operators(job.chan)

-----------------------------------------------------------------------------
(***************************************************************************)
(* What a step may never do                                                *)
(***************************************************************************)
Kept == DOMAIN channelList \cap (DOMAIN channelList)'

\* The client whose command a step executes, as a set.
Actor == IF job = Idle THEN eventList \ eventList' ELSE {job.fd}

\* Whatever rules a channel is changed by its operators only, and by those who are
\* operators at that moment: the modes with key and limit, who is an operator, who is
\* invited, the topic under +t, and who is put out.
RulingStep ==
    \A c \in Kept :
        LET old == channelList[c]
            new == channelList'[c]
        IN  \/ old.modes # new.modes \/ old.key # new.key \/ old.limit # new.limit
            \/ Operators(c)' \ Operators(c) # {}
            \/ ~(ToSet(new.inviteFdList) \subseteq ToSet(old.inviteFdList))
            \/ "t" \in old.modes /\ old.topic # new.topic
            \/ ~(Members(c) \ Members(c)' \subseteq Actor)
            => Actor \subseteq Operators(c)
RuledByOperators == [][RulingStep]_vars

\* A channel loses its last operator only when that client leaves by itself, never
\* by KICK or MODE: the tests against the own nickname see to that.
LastOperatorStep ==
    \A c \in Kept : Operators(c) # {} /\ Operators(c)' = {} =>
        \/ job.op \in {"PART", "QUIT"} /\ Operators(c) = {job.fd}
        \/ job = Idle /\ Operators(c) \cap sock' = {}
LastOperatorStays == [][LastOperatorStep]_vars

\* A client enters an existing channel only by JOIN and within its modes: invited
\* if +i, below the limit if +l, and if +k with the right key, given at the place
\* the channel has in the list.  (When the command has too few keys, and JOIN reads
\* beyond them, nothing can be said of the key.)
EntryStep ==
    \A c \in Kept : \A f \in Members(c)' \ Members(c) :
        LET ch == channelList[c] IN
        /\ job.op = "JOIN" /\ job.fd = f
        /\ "i" \in ch.modes => f \in ToSet(ch.inviteFdList)
        /\ "l" \in ch.modes => Cardinality(Members(c)') <= ch.limit
        /\ "k" \in ch.modes => /\ job.argc > 2
                               /\ job.iter <= Len(job.keys) =>
                                    job.iter < Len(job.keys) /\ job.keys[job.iter + 1] = ch.key
EntryControlled == [][EntryStep]_vars

\* PART, KICK and QUIT leave no channel without members; a lost connection may.
EmptyingStep ==
    \A c \in Kept : Members(c) # {} /\ Members(c)' = {} => job = Idle
NoChannelEmptied == [][EmptyingStep]_vars

\* What is said in a channel is said by a member and reaches members only.  A nickname
\* may be the name of a channel (nickNameValidate looks at the first character for
\* digits only), and the line of a private message names its sender: such a message
\* looks like the channel's and is excepted.
TalkStep ==
    \A f \in Fds : \A i \in Len(reciveBuf[f]) + 1 .. Len(reciveBuf'[f]) :
        LET m == reciveBuf'[f][i] IN
        m.cmd = "PRIVMSG" /\ m.chan \in DOMAIN channelList =>
            \/ f \in Members(m.chan) /\ job.fd \in Members(m.chan)
            \/ m.chan = clientList[job.fd].nickName /\ Head(job.targets) \notin ChanNames
ChannelTalkStaysInside == [][TalkStep]_vars

\* What the parameters of r say of the KICK in progress: r may be its command.
MayBeKick(r) ==
    /\ r.cmd = "KICK" /\ argc(r) >= 3
    /\ job.nicks = split(r.args[2]) /\ IsSuffix(job.chans, split(r.args[1]))

\* The process comes to undefined behaviour only by these: a JOIN that has keys, but at
\* least two fewer than channels; a KICK with fewer nicknames than channels; a PRIVMSG
\* to a nickname nobody has; and a burst that goes on after its client was dropped.  In
\* every other command the iterators that run beside one another stay in their lists.
UndefinedStep ==
    status' = "undefined" =>
        \/ job.op = "JOIN" /\ job.argc > 2 /\ Len(job.keys) + 2 <= Len(job.chans)
        \/ /\ job.op = "KICK"
           /\ \E r \in Requests :
                 MayBeKick(r) /\ Len(split(r.args[2])) < Len(split(r.args[1]))
        \/ job.op = "PRIVMSG" /\ ClientsNamed(Head(job.targets)) = {}
        \/ job.op = "SIGNUP" /\ job.fd \notin DOMAIN clientList
UndefinedOnlyWhenShort == [][UndefinedStep]_vars

-----------------------------------------------------------------------------
(***************************************************************************)
(* Liveness, with Fairness                                                  *)
(***************************************************************************)
\* Every handler comes to its end, QUIT's loop over channels included, unless the
\* process ends first.
HandlerTerminates == job # Idle ~> (job = Idle \/ status # "running")

\* What has been appended to a buffer is sent, or dropped with its client.
BuffersSent ==
    \A f \in Fds : reciveBuf[f] # <<>> ~> (reciveBuf[f] = <<>> \/ status # "running")
=============================================================================
