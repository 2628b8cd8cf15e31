--------------------------- MODULE HandlerProofs ----------------------------
(***************************************************************************)
(* Properties of the handlers that rest on the invariant of ServerProofs:  *)
(* nicknames stay unique, JOIN pairs channels and keys, which commands are *)
(* undefined, and what is said in a channel stays in it.                   *)
(***************************************************************************)
EXTENDS ServerProofs

-----------------------------------------------------------------------------
(***************************************************************************)
(* Nicknames                                                               *)
(***************************************************************************)
\* A client that has given a nickname.
Named(cl) == "NICK" \in cl.regi

\* Those who have given one have different ones, "*" included: NicknamesUnique says
\* nothing of a client that calls itself "*".
NamedApart ==
    \A f, g \in DOMAIN clientList :
        Named(clientList[f]) /\ Named(clientList[g]) /\ clientList[f].nickName = clientList[g].nickName
            => f = g

NamesInv == NicknamesUnique /\ NamedApart

\* A step after which every client has the name it had before, or "*" and has given none.
SameNames ==
    \A f \in DOMAIN clientList' :
        \/ /\ f \in DOMAIN clientList /\ clientList'[f].nickName = clientList[f].nickName
           /\ Named(clientList'[f]) => Named(clientList[f])
        \/ clientList'[f].nickName = Star /\ ~Named(clientList'[f])

\* Such a step makes no two names equal.
LEMMA SameNamesUnique ==
    ASSUME NamesInv, SameNames
    PROVE  NamesInv'
BY DEF NamesInv, NicknamesUnique, NamedApart, SameNames

\* A step that leaves the clients alone is one.
LEMMA NamesUnchanged ==
    ASSUME UNCHANGED clientList
    PROVE  SameNames
BY DEF SameNames

\* One client is changed, but not its name.
LEMMA NamesUpdate ==
    ASSUME MapsInv, NEW fd \in DOMAIN clientList, NEW cl, cl.nickName = clientList[fd].nickName,
           Named(cl) => Named(clientList[fd]),
           clientList' = [clientList EXCEPT ![fd] = cl]
    PROVE  SameNames
BY DEF SameNames, MapsInv

\* So are the changes of a client that are not NICK.
LEMMA NamesKept ==
    ASSUME MapsInv, NEW fd \in DOMAIN clientList
    PROVE  /\ \A what : what # "NICK" /\ Register(fd, setRegi(clientList[fd], what)) => SameNames
           /\ \A name : clientList' = [clientList EXCEPT ![fd] = appendChannelList(@, name)] => SameNames
           /\ \A name : clientList' = [clientList EXCEPT ![fd] = deleteChannel(@, name)] => SameNames
           /\ clientList' = [clientList EXCEPT ![fd] = NewClient(NoFd)] => SameNames
           /\ clientList' = Without(clientList, fd) => SameNames
<1> DEFINE cl == clientList[fd]
<1>1. cl \in Clients
    BY DEF MapsInv
<1>2. ASSUME NEW what, what # "NICK", Register(fd, setRegi(cl, what)) PROVE SameNames
    <2>1. setRegi(cl, what).nickName = cl.nickName /\ (Named(setRegi(cl, what)) => Named(cl))
        BY <1>1, <1>2 DEF setRegi, Clients, Named
    <2> QED BY <1>2, <2>1, NamesUpdate DEF Register
<1>3. ASSUME NEW name, clientList' = [clientList EXCEPT ![fd] = appendChannelList(@, name)] PROVE SameNames
    <2>1. appendChannelList(cl, name).nickName = cl.nickName /\ (Named(appendChannelList(cl, name)) => Named(cl))
        BY <1>1 DEF appendChannelList, Clients, Named
    <2> QED BY <1>3, <2>1, NamesUpdate
<1>4. ASSUME NEW name, clientList' = [clientList EXCEPT ![fd] = deleteChannel(@, name)] PROVE SameNames
    <2>1. deleteChannel(cl, name).nickName = cl.nickName /\ (Named(deleteChannel(cl, name)) => Named(cl))
        BY <1>1 DEF deleteChannel, Clients, Named
    <2> QED BY <1>4, <2>1, NamesUpdate
<1>5. ASSUME clientList' = [clientList EXCEPT ![fd] = NewClient(NoFd)] PROVE SameNames
    BY <1>5 DEF SameNames, NewClient, MapsInv, Named
<1>6. ASSUME clientList' = Without(clientList, fd) PROVE SameNames
    BY <1>6 DEF SameNames, Without
<1> QED BY <1>2, <1>3, <1>4, <1>5, <1>6

\* NICK gives a name nobody has.
LEMMA NickUnique ==
    ASSUME IInv, NamesInv, NEW fd \in DOMAIN clientList, NEW r, nick(fd, r)
    PROVE  NamesInv'
<1>1. CASE Drop(fd)
    BY <1>1, NamesKept, SameNamesUnique DEF Drop, IInv
<1>2. CASE UNCHANGED clientList
    BY <1>2, NamesUnchanged, SameNamesUnique
<1>3. CASE \E new : /\ ClientsNamed(new) = {}
                    /\ clientList' = [clientList EXCEPT ![fd] = setRegi(setNickname(@, new), "NICK")]
    <2>1. PICK new : /\ ClientsNamed(new) = {}
                     /\ clientList' = [clientList EXCEPT ![fd] = setRegi(setNickname(@, new), "NICK")]
        BY <1>3
    <2> DEFINE cl == setRegi(setNickname(clientList[fd], new), "NICK")
    <2>2. cl.nickName = new
        BY DEF setRegi, setNickname, IInv, MapsInv, Clients
    <2> HIDE DEF cl
    <2>3. /\ DOMAIN clientList' = DOMAIN clientList
          /\ \A f \in DOMAIN clientList : clientList'[f] = IF f = fd THEN cl ELSE clientList[f]
        BY <2>1 DEF cl, IInv, MapsInv
    <2>4. \A f \in DOMAIN clientList : clientList[f].nickName # new
        BY <2>1 DEF ClientsNamed
    <2> QED BY <2>2, <2>3, <2>4 DEF NamesInv, NicknamesUnique, NamedApart
<1> QED BY <1>1, <1>2, <1>3 DEF nick, Reply, nicknameDuplicate, Taken

\* PASS, NICK and USER keep the names unique.
LEMMA RegisteringUnique ==
    ASSUME IInv, NamesInv, NEW fd \in DOMAIN clientList, NEW r, Registering(fd, r)
    PROVE  NamesInv'
<1>1. CASE Drop(fd)
    BY <1>1, NamesKept, SameNamesUnique DEF Drop, IInv
<1>2. CASE UNCHANGED clientList
    BY <1>2, NamesUnchanged, SameNamesUnique
<1>3. CASE \E what \in {"PASS", "USER"} : Register(fd, setRegi(clientList[fd], what))
    BY <1>3, NamesKept, SameNamesUnique DEF IInv
<1>4. CASE nick(fd, r)
    BY <1>4, NickUnique
<1>5. CASE pass(fd, r)
    BY <1>1, <1>2, <1>3, <1>5 DEF pass, Reply
<1>6. CASE user(fd, r)
    BY <1>1, <1>2, <1>3, <1>6 DEF user, Reply
<1> QED BY <1>4, <1>5, <1>6 DEF Registering

\* The steps of a handler keep the names, but for the lines of a burst.
LEMMA JobNames ==
    ASSUME IInv, NamesInv, JobStep
    PROVE  NamesInv'
<1> USE DEF IInv
<1>1. CASE UNCHANGED clientList
    BY <1>1, NamesUnchanged, SameNamesUnique
<1>2. CASE JoinStep
    <2>1. CASE \E ch : Enter(job.fd, JoinName, ch) /\ job.op = "JOIN"
        <3>1. job.fd \in DOMAIN clientList
            BY <2>1 DEF JobInv
        <3> QED BY <2>1, <3>1, NamesKept, SameNamesUnique DEF Enter
    <2> QED BY <1>1, <1>2, <2>1
            DEF JoinStep, JoinBadName, JoinNewChannel, JoinExisting, JoinDone, Reply, NoEffect,
                Undefined, Joining
<1>3. CASE LeaveStep
    <2>1. CASE PartChannel
        <3>1. job.fd \in DOMAIN clientList
            BY <2>1 DEF PartChannel, JobInv
        <3> QED BY <1>1, <2>1, <3>1, NamesKept, SameNamesUnique DEF PartChannel, Reply
    <2>2. CASE QuitDone
        <3>1. job.fd \in DOMAIN clientList
            BY <2>2 DEF QuitDone, JobInv
        <3> QED BY <2>2, <3>1, NamesKept, SameNamesUnique DEF QuitDone, Drop
    <2> QED BY <1>1, <1>3, <2>1, <2>2 DEF LeaveStep, PartDone, QuitChannel, NoEffect
<1>4. CASE KickStep
    <2>1. ASSUME NEW name, NEW nickname, KickTarget(name, nickname) PROVE NamesInv'
        <3>1. CASE /\ ClientsNamed(nickname) # {}
                   /\ clientList' = [clientList EXCEPT ![findClient(nickname)] = deleteChannel(@, name)]
            <4>1. findClient(nickname) \in DOMAIN clientList
                BY <3>1, FindClient
            <4> QED BY <3>1, <4>1, NamesKept, SameNamesUnique
        <3> QED BY <1>1, <2>1, <3>1 DEF KickTarget, Reply, NoEffect
    <2> QED BY <1>1, <1>4, <2>1 DEF KickStep, KickChannel, KickDone, Reply, NoEffect, Undefined
<1>5. CASE ModeStep
    <2>1. CASE ModeSign \/ ModeUnknown \/ ModeDone
        BY <1>1, <2>1 DEF ModeSign, ModeUnknown, ModeDone, NoEffect, Reply
    <2>2. CASE ModeFlag
        BY <1>1, <2>2 DEF ModeFlag, Skip, Apply, NoEffect
    <2>3. CASE ModeKey
        BY <1>1, <2>3 DEF ModeKey, Skip, Apply, NoEffect
    <2>4. CASE ModeLimit
        BY <1>1, <2>4 DEF ModeLimit, Skip, Apply, NoEffect
    <2>5. CASE ModeOperator
        BY <1>1, <2>5 DEF ModeOperator, Skip, Apply, NoEffect, Reply
    <2> QED BY <1>5, <2>1, <2>2, <2>3, <2>4, <2>5 DEF ModeStep
<1>6. CASE PrivmsgStep
    BY <1>1, <1>6 DEF PrivmsgStep, PrivmsgChannel, PrivmsgClient, PrivmsgDone, Reply, NoEffect, Undefined
<1>7. CASE SignUpStep
    BY <1>1, <1>7, RegisteringUnique DEF SignUpStep, SignUpLine, Welcome, Reply, NoEffect, Undefined
<1> QED BY <1>2, <1>3, <1>4, <1>5, <1>6, <1>7 DEF JobStep

\* A command keeps the names unique.
LEMMA RunNames ==
    ASSUME IInv, NamesInv, NEW fd \in Fds, Run(fd)
    PROVE  NamesInv'
<1>1. CASE UNCHANGED clientList
    BY <1>1, NamesUnchanged, SameNamesUnique
<1>2. fd \in DOMAIN clientList
    BY DEF Run
<1>3. ASSUME NEW r, signIn(fd, r) PROVE NamesInv'
    <2>1. CASE Registering(fd, r)
        BY <1>2, <2>1, RegisteringUnique
    <2>2. CASE mode(fd, r) \/ topic(fd, r) \/ invite(fd, r)
        BY <1>1, <2>2 DEF mode, topic, invite, ModeQuery, Reply, NoEffect
    <2>3. CASE privmsg(fd, r) \/ quit(fd, r) \/ part(fd, r) \/ join(fd, r) \/ kick(fd, r)
        BY <1>1, <2>3 DEF privmsg, quit, part, join, kick, Reply, NoEffect
    <2>4. CASE list(fd) \/ ping(fd, r) \/ NoEffect \/ Reply(fd, "421", "")
        BY <1>1, <2>4 DEF list, ping, Reply, NoEffect
    <2> QED BY <1>3, <2>1, <2>2, <2>3, <2>4 DEF signIn
<1>4. ASSUME NEW r, signUp(fd, r) PROVE NamesInv'
    <2>1. CASE Drop(fd)
        BY <1>2, <2>1, NamesKept, SameNamesUnique DEF Drop, IInv
    <2> QED BY <1>2, <1>4, <2>1, RegisteringUnique DEF signUp
<1> QED BY <1>1, <1>3, <1>4 DEF Run, irssiSignUp, NoEffect

\* Every step keeps the names unique.
LEMMA NextNames == IInv /\ NamesInv /\ [Next]_vars => NamesInv'
<1> SUFFICES ASSUME IInv, NamesInv, [Next]_vars PROVE NamesInv'
    OBVIOUS
<1>1. CASE UNCHANGED clientList
    BY <1>1, NamesUnchanged, SameNamesUnique
<1>2. CASE Shutdown
    BY <1>2 DEF Shutdown, EmptyMap, NamesInv, NicknamesUnique, NamedApart
<1>3. CASE Accept
    <2>1. SameNames
        BY <1>3 DEF Accept, With, NewClient, SameNames, Named
    <2> QED BY <2>1, SameNamesUnique
<1>4. ASSUME NEW fd \in Fds, Eof(fd) \/ ClientSockError(fd) PROVE NamesInv'
    BY <1>4, NamesKept, SameNamesUnique DEF Eof, ClientSockError, IInv
<1>5. CASE KEvent \/ Flush \/ UNCHANGED vars
    BY <1>1, <1>5 DEF KEvent, Flush, vars, state
<1> QED BY <1>2, <1>3, <1>4, <1>5, JobNames, RunNames
        DEF Next, Serve, ServerSockError, KEventError, BurstError, BrokenPipe

\* What the names keep.
LEMMA NamesInvariance == Spec => []NamesInv
<1>1. Init => NamesInv
    BY DEF Init, EmptyMap, NamesInv, NicknamesUnique, NamedApart
<1> QED BY <1>1, Invariance, NextNames, PTL DEF Spec

\* No two clients ever have the same nickname, other than "*": NICK, a second NICK, a
\* burst, and a descriptor that is used again included.
THEOREM NicknameUniqueness == Spec => []NicknamesUnique
<1>1. NamesInv => NicknamesUnique
    BY DEF NamesInv
<1> QED BY <1>1, NamesInvariance, PTL

-----------------------------------------------------------------------------
(***************************************************************************)
(* The handlers that advance over two lists at once                        *)
(***************************************************************************)
\* JOIN and KICK start.
JoinStarts(fd, r) ==
    /\ join(fd, r) /\ argc(r) >= 2
    /\ job'.op = "JOIN" /\ job'.iter = 0 /\ job'.keyIter = 0
KickStarts(fd, r) ==
    /\ NoEffect /\ r.cmd = "KICK" /\ argc(r) >= 3 /\ NotOperatorOn(fd, split(r.args[1])) = {}
    /\ job' = [op |-> "KICK", fd |-> fd, chans |-> split(r.args[1]), nicks |-> split(r.args[2]),
               nickIter |-> 0]

\* They go on to the next channel.
JoinAdvances ==
    /\ job.op = "JOIN"
    /\ NextChannel(KeyStep) \/ NextChannel(job.argc > 2 /\ ~AtEnd)
KickAdvances ==
    /\ KickChannel /\ UNCHANGED eventList
    /\ job' = [job EXCEPT !.chans = Tail(@), !.nickIter = @ + 1]

\* No other step leaves a JOIN or a KICK in progress.
NoPairs == job'.op \notin {"JOIN", "KICK"}

\* The steps of a handler.
LEMMA JobShapes ==
    ASSUME IInv, JobStep
    PROVE  NoPairs \/ JoinAdvances \/ KickAdvances
<1> USE DEF IInv, JobInv
<1>1. CASE job' = Idle
    BY <1>1 DEF Idle, NoPairs
<1>2. CASE JoinStep
    <2>1. job.op = "JOIN"
        BY <1>2 DEF JoinStep, JoinBadName, JoinNewChannel, JoinExisting, JoinDone, Joining
    <2>2. job' = Idle \/ NextChannel(KeyStep) \/ NextChannel(job.argc > 2 /\ ~AtEnd)
        BY <1>2 DEF JoinStep, JoinBadName, JoinNewChannel, JoinExisting, JoinDone, Enter
    <2> QED BY <1>1, <2>1, <2>2 DEF JoinAdvances
<1>3. CASE LeaveStep
    <2>1. CASE PartChannel \/ QuitChannel
        <3>1. /\ job.op \in {"PART", "QUIT"} /\ job \in PartJobs \cup QuitJobs
              /\ job' = [job EXCEPT !.chans = Tail(@)]
            BY <2>1, JobTypes DEF PartChannel, QuitChannel
        <3>2. job'.op = job.op
            BY <3>1 DEF PartJobs, QuitJobs
        <3> QED BY <3>1, <3>2 DEF NoPairs
    <2> QED BY <1>1, <1>3, <2>1 DEF LeaveStep, PartDone, QuitDone
<1>4. CASE KickStep
    <2>1. job' = Idle \/ (KickChannel /\ job' = [job EXCEPT !.chans = Tail(@), !.nickIter = @ + 1])
        BY <1>4 DEF KickStep, KickChannel, KickDone, KickTarget
    <2> QED BY <1>1, <2>1 DEF KickAdvances, JobStep
<1>5. CASE ModeStep
    <2>1. job.op = "MODE" /\ job \in ModeJobs
        BY <1>5, JobTypes DEF ModeStep, ModeSign, ModeFlag, ModeKey, ModeLimit, ModeOperator,
                              ModeUnknown, ModeDone, Letter
    <2>2. ASSUME NEW values, Skip(values) PROVE job'.op = "MODE"
        BY <2>1, <2>2 DEF Skip, ModeJobs
    <2>3. ASSUME NEW ch, NEW values, NEW shown, NEW plus, Apply(ch, values, shown, plus)
          PROVE  job'.op = "MODE"
        BY <2>1, <2>3 DEF Apply, ModeJobs
    <2>4. ASSUME job'.op = "MODE" PROVE NoPairs
        BY <2>4 DEF NoPairs
    <2>5. CASE ModeSign \/ ModeUnknown
        <3>1. job'.op = "MODE"
            BY <2>1, <2>5 DEF ModeSign, ModeUnknown, ModeJobs
        <3> QED BY <2>4, <3>1
    <2>6. CASE ModeFlag
        BY <2>2, <2>3, <2>4, <2>6 DEF ModeFlag
    <2>7. CASE ModeKey
        BY <2>2, <2>3, <2>4, <2>7 DEF ModeKey
    <2>8. CASE ModeLimit
        BY <2>2, <2>3, <2>4, <2>8 DEF ModeLimit
    <2>9. CASE ModeOperator
        BY <1>1, <2>2, <2>3, <2>4, <2>9 DEF ModeOperator
    <2>10. CASE ModeDone
        BY <1>1, <2>10 DEF ModeDone
    <2> QED BY <1>5, <2>5, <2>6, <2>7, <2>8, <2>9, <2>10 DEF ModeStep
<1>6. CASE PrivmsgStep
    <2>1. job.op = "PRIVMSG" /\ job \in PrivmsgJobs
        BY <1>6, JobTypes DEF PrivmsgStep, PrivmsgChannel, PrivmsgClient, PrivmsgDone
    <2>2. ASSUME NextTarget PROVE NoPairs
        BY <2>1, <2>2 DEF NextTarget, PrivmsgJobs, NoPairs
    <2> QED BY <1>1, <1>6, <2>2 DEF PrivmsgStep, PrivmsgChannel, PrivmsgClient, PrivmsgDone
<1>7. CASE SignUpStep
    <2>1. ASSUME NEW lines, job' = SigningUp(job.fd, lines) PROVE NoPairs
        BY <2>1 DEF SigningUp, NoPairs
    <2> QED BY <1>1, <1>7, <2>1 DEF SignUpStep, SignUpLine, Welcome
<1> QED BY <1>2, <1>3, <1>4, <1>5, <1>6, <1>7 DEF JobStep

\* A command.
LEMMA RunShapes ==
    ASSUME IInv, NEW fd \in Fds, Run(fd)
    PROVE  NoPairs \/ \E r \in Requests : JoinStarts(fd, r) \/ KickStarts(fd, r)
<1>1. ASSUME job' = Idle \/ job' = job PROVE NoPairs
    BY <1>1 DEF Run, Event, Idle, NoPairs
<1>2. ASSUME NEW r \in Requests, signIn(fd, r)
      PROVE  NoPairs \/ JoinStarts(fd, r) \/ KickStarts(fd, r)
    <2>1. CASE join(fd, r)
        <3>1. job' = Idle \/ (argc(r) >= 2 /\ \E n, chans, keys :
                job' = [op |-> "JOIN", fd |-> fd, chans |-> chans, iter |-> 0, keys |-> keys,
                        keyIter |-> 0, argc |-> n])
            BY <2>1, Zenon DEF join
        <3>2. job' = Idle \/ (argc(r) >= 2 /\ job'.op = "JOIN" /\ job'.iter = 0 /\ job'.keyIter = 0)
            BY <3>1
        <3> QED BY <1>1, <2>1, <3>2 DEF JoinStarts
    <2>2. CASE mode(fd, r)
        <3>1. job' = Idle \/ \E chan, letters, values, none :
                job' = [op |-> "MODE", fd |-> fd, chan |-> chan, letters |-> letters, values |-> values,
                        sign |-> "nul", message |-> none, shown |-> none, plus |-> ""]
            BY <2>2, Zenon DEF mode
        <3>2. ASSUME NEW chan, NEW letters, NEW values, NEW none,
                     job' = [op |-> "MODE", fd |-> fd, chan |-> chan, letters |-> letters,
                             values |-> values, sign |-> "nul", message |-> none, shown |-> none,
                             plus |-> ""]
              PROVE  NoPairs
            BY ONLY <3>2 DEF NoPairs
        <3> QED BY <1>1, <3>1, <3>2
    <2>3. CASE topic(fd, r) \/ invite(fd, r)
        BY <1>1, <2>3 DEF topic, invite
    <2>4. CASE privmsg(fd, r) \/ quit(fd, r) \/ part(fd, r)
        <3>1. \/ job' = Idle
              \/ \E targets, text : job' = [op |-> "PRIVMSG", fd |-> fd, targets |-> targets, text |-> text]
              \/ \E chans, reason : job' = [op |-> "QUIT", fd |-> fd, chans |-> chans, reason |-> reason]
              \/ \E chans, reason : job' = [op |-> "PART", fd |-> fd, chans |-> chans, reason |-> reason]
            BY <2>4, Zenon DEF privmsg, quit, part
        <3>2. job' = Idle \/ NoPairs
            BY <3>1 DEF NoPairs
        <3> QED BY <1>1, <3>2
    <2>5. CASE r.cmd = "KICK" /\ kick(fd, r)
        BY <1>1, <2>5, Zenon DEF kick, KickStarts
    <2> QED BY <1>1, <1>2, <2>1, <2>2, <2>3, <2>4, <2>5 DEF signIn
<1>3. ASSUME NEW lines, job' = SigningUp(fd, lines) PROVE NoPairs
    BY <1>3 DEF SigningUp, NoPairs
<1> QED BY <1>1, <1>2, <1>3 DEF Run, signUp, irssiSignUp

\* Every step.
LEMMA NextShapes ==
    ASSUME IInv, [Next]_vars
    PROVE  \/ NoPairs \/ JoinAdvances \/ KickAdvances \/ UNCHANGED vars
           \/ \E fd \in Fds : Run(fd) /\ \E r \in Requests : JoinStarts(fd, r) \/ KickStarts(fd, r)
<1>1. ASSUME job = Idle, job' = job PROVE NoPairs
    BY <1>1 DEF NoPairs, Idle
<1>2. CASE Accept \/ KEvent \/ Flush
    BY <1>1, <1>2 DEF Accept, Event, KEvent, Flush, state
<1>3. ASSUME NEW fd \in Fds, Eof(fd) \/ ClientSockError(fd) PROVE NoPairs
    BY <1>1, <1>3 DEF Eof, ClientSockError, Event
<1>4. CASE Shutdown
    BY <1>4 DEF NoPairs, Shutdown, Idle
<1> QED BY <1>2, <1>3, <1>4, JobShapes, RunShapes
        DEF Next, Serve, ServerSockError, KEventError, BurstError, BrokenPipe

-----------------------------------------------------------------------------
(***************************************************************************)
(* Channels and keys of JOIN                                               *)
(***************************************************************************)
\* Where the two iterators are: keyIter never ahead of iter, and never beyond end()
\* when the command has no keys.
JoinIters ==
    job.op = "JOIN" => /\ job.keyIter <= job.iter
                       /\ job.argc <= 2 => job.keyIter <= Len(job.keys)

\* Advancing to the next channel keeps the two iterators together: with keys left
\* both advance, and beyond the last key nothing is claimed.
LEMMA NextChannelAligned ==
    ASSUME IInv, KeysAligned, JoinIters, JoinAdvances
    PROVE  KeysAligned' /\ JoinIters'
<1>1. job \in JoinJobs
    BY JobTypes DEF IInv, JobInv, JoinAdvances
<1>2. job.iter \in Nat /\ job.keyIter \in Nat /\ job.argc \in Nat /\ Len(job.keys) \in Nat
    BY <1>1, LenProperties DEF JoinJobs
<1>3. /\ job'.iter = job.iter + 1 /\ job'.keys = job.keys /\ job'.argc = job.argc
      /\ job'.keyIter = job.keyIter \/ job'.keyIter = job.keyIter + 1
      /\ job.argc > 2 /\ job.keyIter < Len(job.keys) => job'.keyIter = job.keyIter + 1
      /\ job.argc <= 2 /\ job.keyIter = Len(job.keys) => job'.keyIter = job.keyIter
    <2>1. CASE NextChannel(KeyStep)
        BY <1>1, <1>2, <2>1 DEF NextChannel, KeyStep, AtEnd, JoinJobs
    <2>2. CASE NextChannel(job.argc > 2 /\ ~AtEnd)
        BY <1>1, <1>2, <2>2 DEF NextChannel, AtEnd, JoinJobs
    <2> QED BY <2>1, <2>2 DEF JoinAdvances
<1>4. job.keyIter <= job.iter /\ (job.argc <= 2 => job.keyIter <= Len(job.keys))
    BY DEF JoinIters, JoinAdvances
<1>5. KeysAligned'
    BY <1>2, <1>3 DEF KeysAligned, JoinAdvances
<1>6. JoinIters'
    BY <1>2, <1>3, <1>4 DEF JoinIters
<1> QED BY <1>5, <1>6

\* Every step keeps channels and keys together.
LEMMA NextAligned ==
    IInv /\ KeysAligned /\ JoinIters /\ [Next]_vars => KeysAligned' /\ JoinIters'
<1> SUFFICES ASSUME IInv, KeysAligned, JoinIters, [Next]_vars PROVE KeysAligned' /\ JoinIters'
    OBVIOUS
<1>1. CASE NoPairs
    BY <1>1 DEF NoPairs, KeysAligned, JoinIters
<1>2. CASE KickAdvances
    <2>1. job \in KickJobs /\ job.op = "KICK"
        BY <1>2, JobTypes DEF KickAdvances, KickChannel, IInv, JobInv
    <2>2. job'.op = "KICK"
        BY <1>2, <2>1 DEF KickAdvances, KickJobs
    <2> QED BY <2>2 DEF KeysAligned, JoinIters
<1>3. CASE UNCHANGED vars
    BY <1>3 DEF vars, state, KeysAligned, JoinIters
<1>4. ASSUME NEW fd, NEW r, JoinStarts(fd, r) PROVE KeysAligned' /\ JoinIters'
    <2>1. IInv'
        BY NextInv
    <2>2. job' \in JoinJobs
        BY <1>4, <2>1, JobTypes DEF JoinStarts, IInv, JobInv
    <2>3. Len(job'.keys) \in Nat
        BY <2>2, LenProperties DEF JoinJobs
    <2> QED BY <1>4, <2>3 DEF JoinStarts, KeysAligned, JoinIters
<1>5. ASSUME NEW fd, NEW r, KickStarts(fd, r) PROVE KeysAligned' /\ JoinIters'
    <2>1. job'.op = "KICK"
        BY <1>5 DEF KickStarts
    <2> QED BY <2>1 DEF KeysAligned, JoinIters
<1> QED BY <1>1, <1>2, <1>3, <1>4, <1>5, NextShapes, NextChannelAligned

\* JOIN's iterators, at any time.
LEMMA JoinPairs == Spec => [](KeysAligned /\ JoinIters)
<1>1. Init => KeysAligned /\ JoinIters
    BY DEF Init, Idle, KeysAligned, JoinIters
<1> QED BY <1>1, Invariance, NextAligned, PTL DEF Spec

\* While JOIN works through its list, the key it is about to compare is the one given
\* for that channel, for lists of any length and whatever became of the channels before.
THEOREM KeyPairing == Spec => []KeysAligned
BY JoinPairs, PTL

-----------------------------------------------------------------------------
(***************************************************************************)
(* Undefined behaviour                                                     *)
(***************************************************************************)
\* The command a KICK in progress comes from: nickIter has passed as many nicknames as
\* channels are done.
KickCommand ==
    job.op = "KICK" =>
        \E r \in Requests : MayBeKick(r) /\ Len(split(r.args[1])) = Len(job.chans) + job.nickIter

\* What a KICK says of its channels and nicknames.
LEMMA KickLists ==
    ASSUME NEW r \in Requests, argc(r) >= 3
    PROVE  split(r.args[1]) \in Seq(Words) /\ split(r.args[2]) \in Seq(Words)
<1>1. r \in Cmds /\ argc(r) \in Nat
    BY RequestsAssumption, FirstArgs
<1>2. r.args[1] \in Seq(Words) /\ r.args[2] \in Seq(Words)
    BY <1>1, FirstArgs
<1> QED BY <1>2, SplitTyped

\* Every step keeps channels and nicknames of KICK together.
LEMMA NextKickCommand == IInv /\ KickCommand /\ [Next]_vars => KickCommand'
<1> SUFFICES ASSUME IInv, KickCommand, [Next]_vars PROVE KickCommand'
    OBVIOUS
<1> USE DEF IInv
<1>1. CASE NoPairs
    BY <1>1 DEF NoPairs, KickCommand
<1>2. CASE JoinAdvances
    <2>1. job \in JoinJobs
        BY <1>2, JobTypes DEF JoinAdvances, JobInv
    <2>2. job'.op = "JOIN"
        BY <1>2, <2>1 DEF JoinAdvances, NextChannel, JoinJobs
    <2> QED BY <2>2 DEF KickCommand
<1>3. CASE KickAdvances
    <2>1. job.op = "KICK" /\ job.chans # <<>>
        BY <1>3 DEF KickAdvances, KickChannel
    <2>2. job \in KickJobs
        BY <2>1, JobTypes DEF JobInv
    <2>3. job'.nicks = job.nicks /\ job'.chans = Tail(job.chans) /\ job'.nickIter = job.nickIter + 1
        BY <1>3, <2>2 DEF KickAdvances, KickJobs
    <2>4. PICK r \in Requests : MayBeKick(r) /\ Len(split(r.args[1])) = Len(job.chans) + job.nickIter
        BY <2>1 DEF KickCommand
    <2>5. job.chans \in Seq(Words) /\ job.nickIter \in Nat
        BY <2>2 DEF KickJobs
    <2>6. Len(job.chans) \in Nat \ {0} /\ Len(Tail(job.chans)) = Len(job.chans) - 1
        BY <2>1, <2>5, HeadTailProperties, LenProperties, EmptySeq
    <2>7. Len(split(r.args[1])) = Len(job'.chans) + job'.nickIter
        BY <2>3, <2>4, <2>5, <2>6
    <2>8. IsSuffix(Tail(job.chans), split(r.args[1]))
        BY <2>1, <2>4, <2>5, KickLists, SuffixTail DEF MayBeKick
    <2>9. MayBeKick(r)'
        BY <2>3, <2>4, <2>8 DEF MayBeKick
    <2> QED BY <2>7, <2>9 DEF KickCommand
<1>4. CASE UNCHANGED vars
    BY <1>4 DEF vars, state, KickCommand, MayBeKick
<1>5. ASSUME NEW fd, NEW r, JoinStarts(fd, r) PROVE KickCommand'
    BY <1>5 DEF JoinStarts, KickCommand
<1>6. ASSUME NEW fd, NEW r \in Requests, KickStarts(fd, r) PROVE KickCommand'
    <2>1. /\ job'.chans = split(r.args[1]) /\ job'.nicks = split(r.args[2]) /\ job'.nickIter = 0
          /\ r.cmd = "KICK" /\ argc(r) >= 3
        BY <1>6 DEF KickStarts
    <2>2. split(r.args[1]) \in Seq(Words)
        BY <2>1, KickLists
    <2>3. Len(split(r.args[1])) = Len(job'.chans) + job'.nickIter
        BY <2>1, <2>2, LenProperties
    <2>4. MayBeKick(r)'
        BY <2>1, <2>2, SuffixSelf DEF MayBeKick
    <2> QED BY <2>3, <2>4 DEF KickCommand
<1> QED BY <1>1, <1>2, <1>3, <1>4, <1>5, <1>6, NextShapes

\* KICK's iterators, at any time.
LEMMA KickPairs == Spec => []KickCommand
<1>1. Init => KickCommand
    BY DEF Init, Idle, KickCommand
<1> QED BY <1>1, Invariance, NextKickCommand, PTL DEF Spec

\* The four places of undefined behaviour.
Misread ==
    \/ Joining /\ PastEnd
    \/ KickChannel /\ job.nickIter >= Len(job.nicks)
    \/ job.op = "PRIVMSG" /\ ClientsNamed(Head(job.targets)) = {}
    \/ job.op = "SIGNUP" /\ job.fd \notin DOMAIN clientList

\* Every other step leaves the process running, or ends it in order.
LEMMA Misreadings ==
    ASSUME IInv, Next, status' = "undefined"
    PROVE  Misread
<1>1. status = "running"
    BY DEF Next, Serve
<1>2. CASE UNCHANGED status
    BY <1>1, <1>2
<1>3. CASE JoinStep
    BY <1>2, <1>3 DEF JoinStep, JoinBadName, JoinNewChannel, JoinExisting, JoinDone, Reply, NoEffect, Enter, Misread
<1>4. CASE LeaveStep
    BY <1>2, <1>4 DEF LeaveStep, PartChannel, PartDone, QuitChannel, QuitDone, Reply, NoEffect, Drop
<1>5. CASE KickStep
    <2>1. ASSUME NEW name, NEW nickname, KickTarget(name, nickname) PROVE UNCHANGED status
        BY <2>1 DEF KickTarget, Reply, NoEffect
    <2>2. CASE KickChannel
        BY <1>2, <2>1, <2>2 DEF KickChannel, Reply, Misread
    <2>3. CASE KickDone
        BY <1>2, <2>3 DEF KickDone, NoEffect
    <2> QED BY <1>5, <2>2, <2>3 DEF KickStep
<1>6. CASE ModeStep
    <2>1. ASSUME NEW values, Skip(values) PROVE UNCHANGED status
        BY <2>1 DEF Skip, NoEffect
    <2>2. ASSUME NEW ch, NEW values, NEW shown, NEW plus, Apply(ch, values, shown, plus) PROVE UNCHANGED status
        BY <2>2 DEF Apply
    <2>3. CASE ModeSign \/ ModeUnknown \/ ModeDone
        BY <1>2, <2>3 DEF ModeSign, ModeUnknown, ModeDone, NoEffect, Reply
    <2>4. CASE ModeFlag
        BY <1>2, <2>1, <2>2, <2>4 DEF ModeFlag
    <2>5. CASE ModeKey
        BY <1>2, <2>1, <2>2, <2>5 DEF ModeKey
    <2>6. CASE ModeLimit
        BY <1>2, <2>1, <2>2, <2>6 DEF ModeLimit
    <2>7. CASE ModeOperator
        BY <1>2, <2>1, <2>2, <2>7 DEF ModeOperator, Reply, NoEffect
    <2> QED BY <1>6, <2>3, <2>4, <2>5, <2>6, <2>7 DEF ModeStep
<1>7. CASE PrivmsgStep
    BY <1>2, <1>7 DEF PrivmsgStep, PrivmsgChannel, PrivmsgClient, PrivmsgDone, Reply, NoEffect, Misread
<1>8. ASSUME NEW fd, NEW r, Registering(fd, r) PROVE UNCHANGED status
    BY <1>8 DEF Registering, pass, nick, user, Reply, Drop, Register
<1>9. CASE SignUpStep
    BY <1>2, <1>8, <1>9 DEF SignUpStep, SignUpLine, Welcome, Reply, NoEffect, Misread
<1>10. ASSUME NEW fd \in Fds, Run(fd) PROVE UNCHANGED status
    <2>1. ASSUME NEW r, topic(fd, r) \/ invite(fd, r) \/ mode(fd, r) PROVE UNCHANGED status
        BY <2>1 DEF topic, invite, mode, ModeQuery, Reply, NoEffect
    <2>2. ASSUME NEW r, privmsg(fd, r) \/ quit(fd, r) \/ part(fd, r) \/ join(fd, r) \/ kick(fd, r)
          PROVE  UNCHANGED status
        BY <2>2 DEF privmsg, quit, part, join, kick, Reply, NoEffect
    <2>3. ASSUME NEW r, list(fd) \/ ping(fd, r) \/ NoEffect \/ Reply(fd, "421", "") \/ Drop(fd)
          PROVE  UNCHANGED status
        BY <2>3 DEF list, ping, Reply, NoEffect, Drop
    <2> QED BY <1>8, <1>10, <2>1, <2>2, <2>3 DEF Run, signUp, signIn, irssiSignUp
<1>11. CASE Shutdown
    BY <1>11 DEF Shutdown
<1>12. CASE Accept \/ KEvent \/ Flush
    BY <1>2, <1>12 DEF Accept, KEvent, Flush, state
<1>13. ASSUME NEW fd, Eof(fd) \/ ClientSockError(fd) PROVE UNCHANGED status
    BY <1>13 DEF Eof, ClientSockError
<1> QED BY <1>2, <1>3, <1>4, <1>5, <1>6, <1>7, <1>9, <1>10, <1>11, <1>12, <1>13
        DEF Next, Serve, JobStep, ServerSockError, KEventError, BurstError, BrokenPipe

\* The four are what the property says of the commands.
LEMMA NextUndefined == IInv /\ JoinIters /\ KickCommand /\ Next => UndefinedStep
<1> SUFFICES ASSUME IInv, JoinIters, KickCommand, Next, status' = "undefined" PROVE UndefinedStep
    BY DEF UndefinedStep
<1> USE DEF IInv
<1>1. CASE Joining /\ PastEnd
    <2>1. job.op = "JOIN" /\ job \in JoinJobs
        BY <1>1, JobTypes DEF Joining, JobInv
    <2>2. /\ job.iter \in Nat /\ job.keyIter \in Nat /\ job.argc \in Nat /\ Len(job.keys) \in Nat
          /\ Len(job.chans) \in Nat
        BY <2>1, LenProperties DEF JoinJobs
    <2>3. job.keyIter <= job.iter /\ (job.argc <= 2 => job.keyIter <= Len(job.keys))
        BY <2>1 DEF JoinIters
    <2>4. job.argc > 2 /\ Len(job.keys) + 2 <= Len(job.chans)
        BY <1>1, <2>2, <2>3 DEF Joining, PastEnd
    <2> QED BY <2>1, <2>4 DEF UndefinedStep
<1>2. CASE KickChannel /\ job.nickIter >= Len(job.nicks)
    <2>1. job.op = "KICK" /\ job \in KickJobs /\ job.chans # <<>>
        BY <1>2, JobTypes DEF KickChannel, JobInv
    <2>2. PICK r \in Requests : MayBeKick(r) /\ Len(split(r.args[1])) = Len(job.chans) + job.nickIter
        BY <2>1 DEF KickCommand
    <2>3. Len(job.chans) \in Nat \ {0} /\ job.nickIter \in Nat /\ Len(job.nicks) \in Nat
        BY <2>1, LenProperties, EmptySeq DEF KickJobs
    <2>4. Len(split(r.args[2])) = Len(job.nicks)
        BY <2>2 DEF MayBeKick
    <2>5. Len(split(r.args[2])) < Len(split(r.args[1]))
        BY <1>2, <2>2, <2>3, <2>4
    <2> QED BY <2>1, <2>2, <2>5 DEF UndefinedStep
<1> QED BY <1>1, <1>2, Misreadings DEF Misread, UndefinedStep

\* Undefined behaviour comes from the four kinds of commands named and from nothing
\* else, whatever commands the clients send.
THEOREM UndefinedCommands == Spec => UndefinedOnlyWhenShort
<1>1. IInv /\ KeysAligned /\ JoinIters /\ KickCommand /\ [Next]_vars => [UndefinedStep]_vars
    BY NextUndefined
<1> QED BY <1>1, Invariance, JoinPairs, KickPairs, PTL DEF Spec, UndefinedOnlyWhenShort

-----------------------------------------------------------------------------
(***************************************************************************)
(* What a step appends to the buffers.  Only PRIVMSG appends what somebody *)
(* says; everything else of the server is mute.                            *)
(***************************************************************************)
Lists(buf) == \A f \in Fds : \E S : buf[f] \in Seq(S)

\* b is a with more messages at the end of its lists, none of them a PRIVMSG.
Mute(a, b) ==
    /\ Lists(b)
    /\ \A f \in Fds :
        /\ Len(a[f]) <= Len(b[f])
        /\ \A i \in 1 .. Len(a[f]) : b[f][i] = a[f][i]
        /\ \A i \in Len(a[f]) + 1 .. Len(b[f]) : b[f][i].cmd # "PRIVMSG"

\* The step appends no PRIVMSG.
MuteStep ==
    \A f \in Fds : \A i \in Len(reciveBuf[f]) + 1 .. Len(reciveBuf'[f]) :
        reciveBuf'[f][i].cmd # "PRIVMSG"

-----------------------------------------------------------------------------
(***************************************************************************)
(* The ways the handlers append                                            *)
(***************************************************************************)
\* One list grows by one message.
LEMMA AppendOne ==
    ASSUME NEW S, NEW s \in Seq(S), NEW m
    PROVE  /\ Append(s, m) \in Seq(S \cup {m})
           /\ Len(s) \in Nat /\ Len(Append(s, m)) = Len(s) + 1
           /\ \A i \in 1 .. Len(s) : Append(s, m)[i] = s[i]
           /\ Append(s, m)[Len(s) + 1] = m
<1>1. s \in Seq(S \cup {m})
    <2>1. Len(s) \in Nat /\ \A i \in 1 .. Len(s) : s[i] \in S \cup {m}
        BY LenProperties, ElementOfSeq
    <2> QED BY <2>1
<1> QED BY <1>1, AppendProperties, LenProperties

\* Anything but a PRIVMSG may be appended, to anybody's buffer.
LEMMA AppendMute ==
    ASSUME NEW buf, Lists(buf), NEW fds, NEW m, m.cmd # "PRIVMSG"
    PROVE  Mute(buf, appendReciveBuf(buf, fds, m))
<1> DEFINE b == appendReciveBuf(buf, fds, m)
<1>1. ASSUME NEW f \in Fds
      PROVE  /\ \E S : b[f] \in Seq(S)
             /\ Len(buf[f]) <= Len(b[f])
             /\ \A i \in 1 .. Len(buf[f]) : b[f][i] = buf[f][i]
             /\ \A i \in Len(buf[f]) + 1 .. Len(b[f]) : b[f][i].cmd # "PRIVMSG"
    <2>1. PICK S : buf[f] \in Seq(S)
        BY DEF Lists
    <2>2. b[f] = IF f \in fds THEN Append(buf[f], m) ELSE buf[f]
        BY DEF appendReciveBuf
    <2>3. Len(buf[f]) \in Nat
        BY <2>1, LenProperties
    <2> HIDE DEF b
    <2>4. CASE f \in fds
        <3>1. b[f] = Append(buf[f], m)
            BY <2>2, <2>4
        <3>2. /\ b[f] \in Seq(S \cup {m}) /\ Len(b[f]) = Len(buf[f]) + 1
              /\ \A i \in 1 .. Len(buf[f]) : b[f][i] = buf[f][i]
              /\ b[f][Len(buf[f]) + 1] = m
            BY <2>1, <3>1, AppendOne
        <3>3. \A i \in Len(buf[f]) + 1 .. Len(b[f]) : i = Len(buf[f]) + 1
            BY <2>3, <3>2
        <3> QED BY <2>3, <3>2, <3>3
    <2>5. CASE f \notin fds
        BY <2>1, <2>2, <2>3, <2>5
    <2> QED BY <2>4, <2>5
<1> QED BY <1>1 DEF Mute, Lists

\* Two mute changes are one.
LEMMA MuteTwice ==
    ASSUME NEW a, NEW b, NEW c, Lists(a), Mute(a, b), Mute(b, c)
    PROVE  Mute(a, c)
<1>1. ASSUME NEW f \in Fds
      PROVE  Len(a[f]) \in Nat /\ Len(b[f]) \in Nat /\ Len(c[f]) \in Nat
    BY LenProperties DEF Lists, Mute
<1>2. ASSUME NEW f \in Fds
      PROVE  /\ Len(a[f]) <= Len(c[f])
             /\ \A i \in 1 .. Len(a[f]) : c[f][i] = a[f][i]
             /\ \A i \in Len(a[f]) + 1 .. Len(c[f]) : c[f][i].cmd # "PRIVMSG"
    <2>1. Len(a[f]) <= Len(b[f]) /\ Len(b[f]) <= Len(c[f])
        BY DEF Mute
    <2>2. \A i \in 1 .. Len(a[f]) : c[f][i] = a[f][i]
        BY <1>1, <2>1 DEF Mute
    <2>3. ASSUME NEW i \in Len(a[f]) + 1 .. Len(c[f]) PROVE c[f][i].cmd # "PRIVMSG"
        <3>1. CASE i <= Len(b[f])
            <4>1. i \in 1 .. Len(b[f]) /\ i \in Len(a[f]) + 1 .. Len(b[f])
                BY <1>1, <3>1
            <4>2. c[f][i] = b[f][i] /\ b[f][i].cmd # "PRIVMSG"
                BY <4>1 DEF Mute
            <4> QED BY <4>2
        <3>2. CASE ~(i <= Len(b[f]))
            <4>1. i \in Len(b[f]) + 1 .. Len(c[f])
                BY <1>1, <3>2
            <4> QED BY <4>1 DEF Mute
        <3> QED BY <3>1, <3>2
    <2> QED BY <1>1, <2>1, <2>2, <2>3
<1> QED BY <1>2 DEF Mute

\* A broadcast other than PRIVMSG.
LEMMA BroadcastMute ==
    ASSUME NEW buf, Lists(buf), NEW chans, NEW fd, NEW name, NEW cmd, NEW text, cmd # "PRIVMSG"
    PROVE  Mute(buf, messageAllChannel(buf, chans, fd, name, cmd, text))
<1> DEFINE m == [cmd |-> cmd, from |-> IF cmd = "TOPIC" THEN "" ELSE clientList[fd].nickName,
                 chan |-> IF cmd = "QUIT" THEN "" ELSE name, text |-> text]
<1>1. m.cmd # "PRIVMSG"
    OBVIOUS
<1> HIDE DEF m
<1>2. Mute(buf, appendReciveBuf(buf, Audience(chans, name), m))
    BY <1>1, AppendMute
<1> QED BY <1>2 DEF messageAllChannel, m

\* The welcome of JOIN.
LEMMA WelcomedMute ==
    ASSUME Lists(reciveBuf), NEW chans, NEW fd, NEW name
    PROVE  Mute(reciveBuf, Welcomed(chans, fd, name))
<1> DEFINE ch == chans[name]
           names == [i \in DOMAIN ch.clientFdList |-> clientList[ch.clientFdList[i]].nickName]
           joined == messageAllChannel(reciveBuf, chans, fd, name, "JOIN", <<>>)
           m332 == [Numeric("332", name) EXCEPT !.text = <<DropFirst[ch.topic]>>]
           m353 == [Numeric("353", name) EXCEPT !.text = names]
           m366 == Numeric("366", name)
           titled == IF ch.topic = "" THEN joined ELSE appendReciveBuf(joined, {fd}, m332)
           named == appendReciveBuf(titled, {fd}, m353)
<1>1. m332.cmd # "PRIVMSG" /\ m353.cmd # "PRIVMSG" /\ m366.cmd # "PRIVMSG"
    BY DEF Numeric
<1>2. Mute(reciveBuf, joined) /\ Lists(joined)
    BY BroadcastMute DEF Mute
<1> HIDE DEF joined, m332, m353, m366
<1>3. Mute(joined, appendReciveBuf(joined, {fd}, m332))
    BY <1>1, <1>2, AppendMute
<1>4. Mute(reciveBuf, titled) /\ Lists(titled)
    <2>1. Mute(reciveBuf, titled)
        BY <1>2, <1>3, MuteTwice
    <2> QED BY <2>1 DEF Mute
<1> HIDE DEF titled
<1>5. Mute(titled, named)
    BY <1>1, <1>4, AppendMute
<1>6. Mute(reciveBuf, named) /\ Lists(named)
    <2>1. Mute(reciveBuf, named)
        BY <1>4, <1>5, MuteTwice
    <2> QED BY <2>1 DEF Mute
<1> HIDE DEF named
<1>7. Mute(named, appendReciveBuf(named, {fd}, m366))
    BY <1>1, <1>6, AppendMute
<1>8. Mute(reciveBuf, appendReciveBuf(named, {fd}, m366))
    BY <1>6, <1>7, MuteTwice
<1> QED BY <1>8 DEF Welcomed, named, titled, joined, m332, m353, m366

-----------------------------------------------------------------------------
(***************************************************************************)
(* Every handler but PRIVMSG is mute.                                      *)
(***************************************************************************)
\* A buffer that only grows by other messages gets no PRIVMSG, and neither does one that
\* stays as it is or is cleared.
LEMMA MuteSteps ==
    ASSUME BufInv
    PROVE  /\ Lists(reciveBuf)
           /\ Mute(reciveBuf, reciveBuf') => MuteStep
           /\ UNCHANGED reciveBuf => MuteStep
           /\ reciveBuf' = [f \in Fds |-> <<>>] => MuteStep
           /\ \A fd : reciveBuf' = [reciveBuf EXCEPT ![fd] = <<>>] => MuteStep
<1>1. \A f \in Fds : reciveBuf[f] \in Seq(Messages) /\ Len(reciveBuf[f]) \in Nat
    BY LenProperties DEF BufInv
<1>2. Lists(reciveBuf)
    BY <1>1 DEF Lists
<1>3. Mute(reciveBuf, reciveBuf') => MuteStep
    BY DEF Mute, MuteStep
<1>4. UNCHANGED reciveBuf => MuteStep
    BY <1>1 DEF MuteStep
<1>5. reciveBuf' = [f \in Fds |-> <<>>] => MuteStep
    BY <1>1 DEF MuteStep
<1>6. ASSUME NEW fd, reciveBuf' = [reciveBuf EXCEPT ![fd] = <<>>] PROVE MuteStep
    <2>1. \A f \in Fds : reciveBuf'[f] = <<>> \/ reciveBuf'[f] = reciveBuf[f]
        BY <1>6 DEF BufInv
    <2> QED BY <1>1, <2>1 DEF MuteStep
<1> QED BY <1>2, <1>3, <1>4, <1>5, <1>6

\* The effects handlers end in.
LEMMA EffectsMute ==
    ASSUME BufInv
    PROVE  /\ \A fds, m : m.cmd # "PRIVMSG" /\ reciveBuf' = appendReciveBuf(reciveBuf, fds, m)
                    => MuteStep
           /\ \A chans, fd, name, cmd, text :
                cmd # "PRIVMSG" /\ reciveBuf' = messageAllChannel(reciveBuf, chans, fd, name, cmd, text)
                    => MuteStep
           /\ \A fd, code, chan : code # "PRIVMSG" /\ Reply(fd, code, chan) => MuteStep
           /\ \A fd : Drop(fd) => MuteStep
           /\ NoEffect \/ Undefined => MuteStep
<1>1. ASSUME NEW fds, NEW m, m.cmd # "PRIVMSG", reciveBuf' = appendReciveBuf(reciveBuf, fds, m)
      PROVE  MuteStep
    BY <1>1, AppendMute, MuteSteps
<1>2. ASSUME NEW chans, NEW fd, NEW name, NEW cmd, NEW text, cmd # "PRIVMSG",
             reciveBuf' = messageAllChannel(reciveBuf, chans, fd, name, cmd, text)
      PROVE  MuteStep
    BY <1>2, BroadcastMute, MuteSteps
<1>3. ASSUME NEW fd, NEW code, NEW chan, code # "PRIVMSG", Reply(fd, code, chan) PROVE MuteStep
    <2>1. Numeric(code, chan).cmd # "PRIVMSG"
        BY <1>3 DEF Numeric
    <2> QED BY <1>1, <1>3, <2>1 DEF Reply
<1>4. ASSUME NEW fd, Drop(fd) PROVE MuteStep
    BY <1>4, MuteSteps DEF Drop
<1>5. NoEffect \/ Undefined => MuteStep
    BY MuteSteps DEF NoEffect, Undefined
<1> QED BY <1>1, <1>2, <1>3, <1>4, <1>5, Zenon

\* JOIN
LEMMA JoinMute ==
    ASSUME BufInv, JoinStep
    PROVE  MuteStep
<1>1. ASSUME NEW fd, NEW name, NEW ch, Enter(fd, name, ch) PROVE MuteStep
    BY <1>1, MuteSteps, WelcomedMute DEF Enter
<1>2. CASE JoinExisting
    BY <1>1, <1>2, EffectsMute DEF JoinExisting
<1> QED BY <1>1, <1>2, EffectsMute DEF JoinStep, JoinBadName, JoinNewChannel, JoinDone

\* PART and QUIT
LEMMA LeaveMute ==
    ASSUME BufInv, LeaveStep
    PROVE  MuteStep
BY EffectsMute DEF LeaveStep, PartChannel, PartDone, QuitChannel, QuitDone

\* KICK
LEMMA KickMute ==
    ASSUME BufInv, KickStep
    PROVE  MuteStep
<1>1. ASSUME NEW name, NEW nickname, KickTarget(name, nickname) PROVE MuteStep
    BY <1>1, EffectsMute DEF KickTarget
<1> QED BY <1>1, EffectsMute DEF KickStep, KickChannel, KickDone

\* MODE
LEMMA ModeMute ==
    ASSUME BufInv, ModeStep
    PROVE  MuteStep
<1>1. ASSUME NEW values, Skip(values) PROVE MuteStep
    BY <1>1, EffectsMute DEF Skip
<1>2. ASSUME NEW ch, NEW values, NEW shown, NEW plus, Apply(ch, values, shown, plus) PROVE MuteStep
    BY <1>2, MuteSteps DEF Apply
<1>3. CASE ModeFlag \/ ModeKey
    BY <1>1, <1>2, <1>3 DEF ModeFlag, ModeKey
<1>4. CASE ModeLimit
    BY <1>1, <1>2, <1>4 DEF ModeLimit
<1>5. CASE ModeOperator
    BY <1>1, <1>2, <1>5, EffectsMute DEF ModeOperator
<1>6. CASE ModeSign \/ ModeUnknown
    BY <1>6, EffectsMute DEF ModeSign, ModeUnknown
<1>7. CASE ModeDone
    BY <1>7, EffectsMute, MuteSteps DEF ModeDone
<1> QED BY <1>3, <1>4, <1>5, <1>6, <1>7 DEF ModeStep

\* PASS, NICK and USER
LEMMA RegisteringMute ==
    ASSUME BufInv, NEW fd, NEW r, Registering(fd, r)
    PROVE  MuteStep
<1>1. ASSUME NEW cl, Register(fd, cl) PROVE MuteStep
    BY <1>1, MuteSteps DEF Register
<1>2. CASE pass(fd, r)
    BY <1>1, <1>2, EffectsMute DEF pass
<1>3. CASE user(fd, r)
    BY <1>1, <1>3, EffectsMute DEF user
<1>4. CASE nick(fd, r)
    <2>1. ASSUME NEW fds, NEW from, NEW text,
                 reciveBuf' = appendReciveBuf(reciveBuf, fds,
                     [cmd |-> "NICK", from |-> from, chan |-> "", text |-> text])
          PROVE  MuteStep
        BY <2>1, EffectsMute
    <2> QED BY <1>4, <2>1, EffectsMute DEF nick
<1> QED BY <1>2, <1>3, <1>4 DEF Registering

\* A burst, and the welcome.
LEMMA SignUpMute ==
    ASSUME BufInv, SignUpStep
    PROVE  MuteStep
BY RegisteringMute, EffectsMute DEF SignUpStep, SignUpLine, Welcome

\* The commands of a registered client, as they start.
LEMMA RunMute ==
    ASSUME BufInv, NEW fd \in Fds, Run(fd)
    PROVE  MuteStep
<1>1. ASSUME NEW r, topic(fd, r) PROVE MuteStep
    <2> DEFINE told(name) == [Numeric("332", name) EXCEPT !.text = <<channelList[name].topic>>]
    <2>1. ASSUME NEW name, reciveBuf' = appendReciveBuf(reciveBuf, {fd},
                     IF channelList[name].topic = "" THEN Numeric("331", name) ELSE told(name))
          PROVE  MuteStep
        <3>1. Numeric("331", name).cmd # "PRIVMSG" /\ told(name).cmd # "PRIVMSG"
            BY DEF Numeric
        <3> HIDE DEF told
        <3> QED BY <2>1, <3>1, EffectsMute
    <2> QED BY <1>1, <2>1, EffectsMute DEF topic
<1>2. ASSUME NEW r, invite(fd, r) PROVE MuteStep
    <2>1. ASSUME NEW target, NEW from, NEW name,
                 reciveBuf' = appendReciveBuf(
                     appendReciveBuf(reciveBuf, {target},
                         [cmd |-> "INVITE", from |-> from, chan |-> name, text |-> <<>>]),
                     {fd}, Numeric("341", name))
          PROVE  MuteStep
        <3> DEFINE m == [cmd |-> "INVITE", from |-> from, chan |-> name, text |-> <<>>]
                   asked == appendReciveBuf(reciveBuf, {target}, m)
        <3>1. m.cmd # "PRIVMSG" /\ Numeric("341", name).cmd # "PRIVMSG"
            BY DEF Numeric
        <3> HIDE DEF m
        <3>2. Mute(reciveBuf, asked)
            BY <3>1, AppendMute, MuteSteps
        <3>3. Lists(asked)
            BY <3>2 DEF Mute
        <3> HIDE DEF asked
        <3>4. Mute(asked, appendReciveBuf(asked, {fd}, Numeric("341", name)))
            BY <3>1, <3>3, AppendMute
        <3>5. Mute(reciveBuf, appendReciveBuf(asked, {fd}, Numeric("341", name)))
            BY <3>2, <3>4, MuteTwice, MuteSteps
        <3> QED BY <2>1, <3>5, MuteSteps DEF asked, m
    <2> QED BY <1>2, <2>1, EffectsMute DEF invite
<1>3. ASSUME NEW r, mode(fd, r) PROVE MuteStep
    <2>1. ASSUME NEW name, ModeQuery(fd, name) PROVE MuteStep
        <3> DEFINE ch == channelList[name]
                   text == IF ~diffMode(ch, "k") THEN <<>>
                           ELSE <<IF diffOperator(ch, fd) THEN ch.key ELSE "<key>">>
                   m == [Numeric("324", name) EXCEPT !.text = text]
        <3>1. m.cmd # "PRIVMSG"
            BY DEF Numeric
        <3>2. reciveBuf' = appendReciveBuf(reciveBuf, {fd}, m)
            BY <2>1 DEF ModeQuery
        <3> HIDE DEF m
        <3> QED BY <3>1, <3>2, EffectsMute
    <2> QED BY <1>3, <2>1, EffectsMute DEF mode
<1>4. ASSUME NEW r, privmsg(fd, r) \/ quit(fd, r) \/ part(fd, r) \/ join(fd, r) \/ kick(fd, r)
      PROVE  MuteStep
    BY <1>4, EffectsMute DEF privmsg, quit, part, join, kick
<1>5. ASSUME NEW r, list(fd) \/ ping(fd, r) PROVE MuteStep
    BY <1>5, EffectsMute, MuteSteps DEF list, ping
<1>6. ASSUME NEW r, signIn(fd, r) PROVE MuteStep
    BY <1>1, <1>2, <1>3, <1>4, <1>5, <1>6, RegisteringMute, EffectsMute DEF signIn
<1>7. ASSUME NEW r, signUp(fd, r) PROVE MuteStep
    BY <1>7, RegisteringMute, EffectsMute DEF signUp
<1> QED BY <1>6, <1>7, EffectsMute DEF Run, irssiSignUp

-----------------------------------------------------------------------------
(***************************************************************************)
(* What is said in a channel                                               *)
(***************************************************************************)
\* Of one message appended to the buffers of some clients, a step tells exactly these.
LEMMA AppendedOne ==
    ASSUME BufInv, NEW fds, NEW m, reciveBuf' = appendReciveBuf(reciveBuf, fds, m),
           NEW f \in Fds, NEW i \in Len(reciveBuf[f]) + 1 .. Len(reciveBuf'[f])
    PROVE  f \in fds /\ reciveBuf'[f][i] = m
<1>1. reciveBuf[f] \in Seq(Messages) /\ Len(reciveBuf[f]) \in Nat
    BY LenProperties DEF BufInv
<1>2. reciveBuf'[f] = IF f \in fds THEN Append(reciveBuf[f], m) ELSE reciveBuf[f]
    BY DEF appendReciveBuf
<1>3. f \in fds
    BY <1>1, <1>2
<1>4. /\ Len(reciveBuf'[f]) = Len(reciveBuf[f]) + 1
      /\ reciveBuf'[f][Len(reciveBuf[f]) + 1] = m
    BY <1>1, <1>2, <1>3, AppendOne
<1>5. i = Len(reciveBuf[f]) + 1
    BY <1>1, <1>4
<1> QED BY <1>3, <1>4, <1>5

\* PRIVMSG to a channel: the sender has the channel in its list, hence is a member.
LEMMA PrivmsgTalk ==
    ASSUME IInv, PrivmsgStep
    PROVE  TalkStep
<1> USE DEF IInv
<1> DEFINE name == Head(job.targets)
           sender == clientList[job.fd].nickName
<1>1. job \in PrivmsgJobs /\ job.op = "PRIVMSG" /\ job.fd \in DOMAIN clientList
    BY JobTypes DEF PrivmsgStep, PrivmsgChannel, PrivmsgClient, PrivmsgDone, JobInv
<1>2. CASE MuteStep
    BY <1>2 DEF MuteStep, TalkStep
<1>3. CASE /\ MayWrite(job.fd, name)
           /\ reciveBuf' = messageAllChannel(reciveBuf, channelList, job.fd, name, "PRIVMSG", job.text)
    <2> DEFINE m == [cmd |-> "PRIVMSG", from |-> sender, chan |-> name, text |-> job.text]
               others == Audience(channelList, name) \ {job.fd}
    <2>1. name \in ListedBy(job.fd)
        BY <1>1, <1>3 DEF MayWrite, findChannelOf, ListedBy
    <2>2. name \in DOMAIN channelList /\ job.fd \in Members(name)
        BY <1>1, <2>1 DEF MapsInv, MembershipAgrees
    <2>3. others \subseteq Members(name)
        BY DEF Audience, Members
    <2>4. reciveBuf' = appendReciveBuf(reciveBuf, others, m)
        BY <1>3 DEF messageAllChannel
    <2>5. m.chan = name
        OBVIOUS
    <2> HIDE DEF m, others, name
    <2>6. ASSUME NEW f \in Fds, NEW i \in Len(reciveBuf[f]) + 1 .. Len(reciveBuf'[f])
          PROVE  reciveBuf'[f][i] = m /\ f \in Members(name)
        BY <2>3, <2>4, <2>6, AppendedOne
    <2> QED BY <2>2, <2>5, <2>6 DEF TalkStep
<1>4. CASE /\ name \notin ChanNames
           /\ reciveBuf' = appendReciveBuf(reciveBuf, {findClient(name)},
                  [cmd |-> "PRIVMSG", from |-> sender, chan |-> sender, text |-> job.text])
    <2> DEFINE m == [cmd |-> "PRIVMSG", from |-> sender, chan |-> sender, text |-> job.text]
               target == findClient(name)
    <2>1. reciveBuf' = appendReciveBuf(reciveBuf, {target}, m)
        BY <1>4
    <2>2. m.chan = sender
        OBVIOUS
    <2> HIDE DEF m, target
    <2>3. ASSUME NEW f \in Fds, NEW i \in Len(reciveBuf[f]) + 1 .. Len(reciveBuf'[f])
          PROVE  reciveBuf'[f][i] = m
        <3>1. BufInv
            OBVIOUS
        <3> HIDE DEF IInv
        <3> QED BY <2>1, <2>3, <3>1, AppendedOne
    <2> QED BY <1>4, <2>2, <2>3 DEF TalkStep
<1>5. CASE PrivmsgChannel
    BY <1>2, <1>3, <1>5, EffectsMute DEF PrivmsgChannel
<1>6. CASE PrivmsgClient
    BY <1>2, <1>4, <1>6, EffectsMute DEF PrivmsgClient
<1>7. CASE PrivmsgDone
    BY <1>2, <1>7, EffectsMute DEF PrivmsgDone
<1> QED BY <1>5, <1>6, <1>7 DEF PrivmsgStep

\* Every other step is mute.
LEMMA NextTalk == IInv /\ [Next]_vars => TalkStep
<1> SUFFICES ASSUME IInv, [Next]_vars PROVE TalkStep
    OBVIOUS
<1> USE DEF IInv
<1>1. MuteStep => TalkStep
    BY DEF MuteStep, TalkStep
<1>2. CASE Shutdown
    BY <1>1, <1>2, MuteSteps DEF Shutdown
<1>3. CASE Accept \/ KEvent \/ Flush \/ UNCHANGED vars
    BY <1>1, <1>3, MuteSteps DEF Accept, KEvent, Flush, vars, state
<1>4. ASSUME NEW fd \in Fds, Eof(fd) \/ ClientSockError(fd) PROVE TalkStep
    BY <1>1, <1>4, MuteSteps DEF Eof, ClientSockError
<1>5. CASE JobStep
    BY <1>1, <1>5, PrivmsgTalk, JoinMute, LeaveMute, KickMute, ModeMute, SignUpMute DEF JobStep
<1>6. ASSUME NEW fd \in Fds, Run(fd) PROVE TalkStep
    BY <1>1, <1>6, RunMute
<1> QED BY <1>2, <1>3, <1>4, <1>5, <1>6
        DEF Next, Serve, ServerSockError, KEventError, BurstError, BrokenPipe

\* What is said in a channel is said by one of its members and read by members only, for
\* any number of clients and channels: the test of PRIVMSG looks at the sender's own list of
\* channels, the broadcast at the channel's list of clients, and the two agree.
THEOREM TalkInside == Spec => ChannelTalkStaysInside
BY Invariance, NextTalk, PTL DEF Spec, ChannelTalkStaysInside
=============================================================================
