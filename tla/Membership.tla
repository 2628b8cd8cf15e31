----------------------------- MODULE Membership -----------------------------
(***************************************************************************)
(* The commands that put clients into channels and take them out:          *)
(* command/Join.cpp, Part.cpp, Kick.cpp, Quit.cpp and Invite.cpp.          *)
(***************************************************************************)
EXTENDS Command

JoinJobs == [op : {"JOIN"}, fd : Fds, chans : Seq(Words), iter : Nat,
             keys : Seq(Words), keyIter : Nat, argc : Nat]
PartJobs == [op : {"PART"}, fd : Fds, chans : Seq(Words), reason : Seq(Pieces)]
KickJobs == [op : {"KICK"}, fd : Fds, chans : Seq(Words), nicks : Seq(Words), nickIter : Nat]
QuitJobs == [op : {"QUIT"}, fd : Fds, chans : Seq(Words), reason : Seq(Pieces)]

-----------------------------------------------------------------------------
(***************************************************************************)
(* JOIN <channel>{,<channel>} [<key>{,<key>}].  iter and keyIter index     *)
(* chans and keys from 0, so keyIter = Len(keys) is end().  The key of a   *)
(* single channel is taken whole: it is one piece.                         *)
(***************************************************************************)
join(fd, r) ==
    \/ /\ argc(r) < 2
       /\ Reply(fd, "461", "") /\ job' = Idle
    \/ /\ argc(r) >= 2
       /\ NoEffect
       /\ job' = [op |-> "JOIN", fd |-> fd, chans |-> r.args[1], iter |-> 0,
                  keys |-> IF argc(r) >= 3 THEN r.args[2]
                           ELSE IF Len(r.args[1]) > 1 THEN <<>> ELSE <<"">>,
                  keyIter |-> 0, argc |-> argc(r)]

Joining == job.op = "JOIN" /\ job.iter < Len(job.chans)
JoinName == job.chans[job.iter + 1]

AtEnd   == job.keyIter = Len(job.keys)
PastEnd == job.keyIter > Len(job.keys)

\* Mutant: the key is passed twice.
NextChannel_Mut(step) ==
    job' = [job EXCEPT !.iter = @ + 1, !.keyIter = IF step THEN @ + 2 ELSE @]
\* The next channel, with keyIter++ when step holds.
NextChannel(step) ==
    job' = [job EXCEPT !.iter = @ + 1, !.keyIter = IF step THEN @ + 1 ELSE @]

\* Mutant: the keys are not advanced.
KeyStep_Mut == FALSE
\* Every branch but the one for a bad name advances beyond end() when a key was given.
KeyStep == job.argc > 2 \/ ~AtEnd

\* The +k test: no key given, none left, or a wrong one.
KeyRefused(ch) == job.argc <= 2 \/ AtEnd \/ ~diffKey(ch, job.keys[job.keyIter + 1])

\* Mutant: a full channel still lets one client in.
Full_Mut(ch) == diffMode(ch, "l") /\ Len(ch.clientFdList) > ch.limit
Full(ch) == diffMode(ch, "l") /\ Len(ch.clientFdList) >= ch.limit

NotInvited(ch, fd) == diffMode(ch, "i") /\ ~diffInvite(ch, fd)

\* Mutant: the newcomer is told of itself only.
Welcomed_Mut(chans, fd, name) == messageAllChannel(reciveBuf, chans, fd, name, "JOIN", <<>>)
\* JOIN is broadcast to the channel, the newcomer gets the topic (332, without the
\* first character of what is stored) and the names (353, 366).
Welcomed(chans, fd, name) ==
    LET ch == chans[name]
        names == [i \in DOMAIN ch.clientFdList |-> clientList[ch.clientFdList[i]].nickName]
        joined == messageAllChannel(reciveBuf, chans, fd, name, "JOIN", <<>>)
        topic == IF ch.topic = "" THEN joined
                 ELSE appendReciveBuf(joined, {fd},
                        [Numeric("332", name) EXCEPT !.text = <<DropFirst[ch.topic]>>])
    IN  appendReciveBuf(
            appendReciveBuf(topic, {fd}, [Numeric("353", name) EXCEPT !.text = names]),
            {fd}, Numeric("366", name))

Enter(fd, name, ch) ==
    LET chans == With(channelList, name, appendFdListClient(ch, fd)) IN
    /\ channelList' = chans
    /\ clientList' = [clientList EXCEPT ![fd] = appendChannelList(@, name)]
    /\ reciveBuf' = Welcomed(chans, fd, name)
    /\ UNCHANGED <<sock, status>>
    /\ NextChannel(KeyStep)

JoinBadName ==
    /\ Joining
    /\ JoinName \notin ChanNames
    /\ Reply(job.fd, "403", JoinName)
    /\ NextChannel(job.argc > 2 /\ ~AtEnd)

JoinNewChannel ==
    /\ Joining
    /\ JoinName \in ChanNames \ DOMAIN channelList
    /\ Enter(job.fd, JoinName, NewChannel(job.fd))

\* Reading a key beyond end() may fail, or find a text that is the key or is not.
JoinExisting ==
    /\ Joining
    /\ JoinName \in ChanNames \cap DOMAIN channelList
    /\ LET fd == job.fd
           name == JoinName
           ch == channelList[name]
           Refuse(code) == Reply(fd, code, name) /\ NextChannel(KeyStep)
           Admission ==
               \/ NotInvited(ch, fd) /\ Refuse("473")
               \/ ~NotInvited(ch, fd) /\ Full(ch) /\ Refuse("471")
               \/ ~NotInvited(ch, fd) /\ ~Full(ch) /\ Enter(fd, name, ch)
       IN
       \/ diffClientInChannel(ch, fd) /\ Refuse("443")
       \/ /\ ~diffClientInChannel(ch, fd) /\ ~diffMode(ch, "k")
          /\ Admission
       \/ /\ ~diffClientInChannel(ch, fd) /\ diffMode(ch, "k")
          /\ \/ /\ job.keys = <<>>
                /\ Reply(fd, "475", name) /\ job' = Idle
             \/ /\ job.keys # <<>> /\ ~PastEnd
                /\ IF KeyRefused(ch) THEN Refuse("475") ELSE Admission
             \/ /\ job.keys # <<>> /\ PastEnd
                /\ \/ Undefined /\ job' = Idle
                   \/ Refuse("475")
                   \/ Admission

JoinDone ==
    /\ job.op = "JOIN" /\ job.iter = Len(job.chans)
    /\ NoEffect /\ job' = Idle

-----------------------------------------------------------------------------
\* Mutant: the operator right stays when its owner leaves.
Removed_Mut(ch, fd) == removeFdListClient(ch, fd)
\* fd leaves a channel; PART and QUIT remove the channel with its last client.
Removed(ch, fd) == removeOperatorFd(removeFdListClient(ch, fd), fd)

\* Mutant: the last client leaves the channel behind.
Leave_Mut(chans, fd, name) == [chans EXCEPT ![name] = Removed(@, fd)]
Leave(chans, fd, name) ==
    LET ch == Removed(chans[name], fd)
    IN  IF ch.clientFdList = <<>> THEN Without(chans, name)
        ELSE [chans EXCEPT ![name] = ch]

\* PART <channel>{,<channel>} [<reason>]
part(fd, r) ==
    \/ /\ argc(r) < 2
       /\ Reply(fd, "461", "") /\ job' = Idle
    \/ /\ argc(r) >= 2
       /\ NoEffect
       /\ job' = [op |-> "PART", fd |-> fd, chans |-> split(r.args[1]),
                  reason |-> channelMessage(r.args, 2)]

PartChannel ==
    /\ job.op = "PART" /\ job.chans # <<>>
    /\ job' = [job EXCEPT !.chans = Tail(@)]
    /\ LET fd == job.fd
           name == Head(job.chans)
       IN
       \/ /\ findChannelOf(clientList[fd], name)
          /\ reciveBuf' = messageAllChannel(reciveBuf, channelList, fd, name, "PART", job.reason)
          /\ channelList' = Leave(channelList, fd, name)
          /\ clientList' = [clientList EXCEPT ![fd] = deleteChannel(@, name)]
          /\ UNCHANGED <<sock, status>>
       \/ /\ ~findChannelOf(clientList[fd], name) /\ name \in DOMAIN channelList
          /\ Reply(fd, "442", name)
       \/ /\ ~findChannelOf(clientList[fd], name) /\ name \notin DOMAIN channelList
          /\ Reply(fd, "403", name)

PartDone ==
    /\ job.op = "PART" /\ job.chans = <<>>
    /\ NoEffect /\ job' = Idle

-----------------------------------------------------------------------------
(***************************************************************************)
(* QUIT [<reason>].  The channels are walked over a copy of the client's   *)
(* list.  A name the server has no channel for is never passed (continue   *)
(* without channelIter++): the loop, and with it this specification, would *)
(* stay there for ever.                                                    *)
(***************************************************************************)
quit(fd, r) ==
    /\ NoEffect
    /\ job' = [op |-> "QUIT", fd |-> fd, chans |-> clientList[fd].channelList,
               reason |-> channelMessage(r.args, 1)]

\* Mutant: the iterator is not advanced past a channel that was removed.
QuitChannel_Mut ==
    /\ job.op = "QUIT" /\ job.chans # <<>>
    /\ Head(job.chans) \in DOMAIN channelList
    /\ channelList' = Leave(channelList, job.fd, Head(job.chans))
    /\ job' = IF Head(job.chans) \in DOMAIN channelList' THEN [job EXCEPT !.chans = Tail(@)] ELSE job
    /\ UNCHANGED <<clientList, reciveBuf, sock, status>>
QuitChannel ==
    /\ job.op = "QUIT" /\ job.chans # <<>>
    /\ Head(job.chans) \in DOMAIN channelList
    /\ LET name == Head(job.chans)
           gone == [channelList EXCEPT ![name] = Removed(@, job.fd)]
       IN  /\ reciveBuf' = messageAllChannel(reciveBuf, gone, job.fd, name, "QUIT", job.reason)
           /\ channelList' = Leave(channelList, job.fd, name)
    /\ job' = [job EXCEPT !.chans = Tail(@)]
    /\ UNCHANGED <<clientList, sock, status>>

QuitDone ==
    /\ job.op = "QUIT" /\ job.chans = <<>>
    /\ Drop(job.fd)
    /\ job' = Idle

-----------------------------------------------------------------------------
(***************************************************************************)
(* KICK <channel>{,<channel>} <nick>{,<nick>} [<comment>].  The operator   *)
(* right is checked on every channel first; then channel and nick advance  *)
(* together.                                                               *)
(***************************************************************************)
\* Mutant: to be in the channel is enough.
NotOperatorOn_Mut(fd, names) ==
    {i \in DOMAIN names : names[i] \in DOMAIN channelList /\ ~diffClientInChannel(channelList[names[i]], fd)}
NotOperatorOn(fd, names) ==
    {i \in DOMAIN names : names[i] \in DOMAIN channelList /\ ~diffOperator(channelList[names[i]], fd)}

\* Mutant: the first nickname is passed over.
kick_Mut(fd, r) ==
    /\ argc(r) >= 3 /\ NotOperatorOn(fd, split(r.args[1])) = {}
    /\ NoEffect
    /\ job' = [op |-> "KICK", fd |-> fd, chans |-> split(r.args[1]), nicks |-> split(r.args[2]),
               nickIter |-> 1]
kick(fd, r) ==
    \/ /\ argc(r) < 3
       /\ Reply(fd, "461", "") /\ job' = Idle
    \/ /\ argc(r) >= 3
       /\ LET chans == split(r.args[1])
              refused == NotOperatorOn(fd, chans)
          IN
          IF refused # {}
          THEN /\ Reply(fd, "482", chans[CHOOSE i \in refused : \A j \in refused : i <= j])
               /\ job' = Idle
          ELSE /\ NoEffect
               /\ job' = [op |-> "KICK", fd |-> fd, chans |-> chans, nicks |-> split(r.args[2]),
                          nickIter |-> 0]

\* The rest of an iteration, for the nickname *nickIter.
KickTarget(name, nickname) ==
    LET fd == job.fd
        target == findClient(nickname)
        victim == clientList[target].fd
        advance == job' = [job EXCEPT !.chans = Tail(@), !.nickIter = @ + 1]
    IN
    IF ClientsNamed(nickname) = {} THEN Reply(fd, "401", "") /\ job' = Idle
    ELSE IF victim = NoFd THEN Reply(fd, "401", "") /\ job' = Idle
    ELSE IF nickname = clientList[fd].nickName THEN NoEffect /\ job' = Idle
    ELSE IF ~diffClientInChannel(channelList[name], victim) THEN Reply(fd, "441", name) /\ advance
    ELSE /\ reciveBuf' = messageAllChannel(reciveBuf, channelList, fd, name, "KICK", <<nickname>>)
         /\ channelList' = [channelList EXCEPT ![name] = Removed(@, victim)]
         /\ clientList' = [clientList EXCEPT ![target] = deleteChannel(@, name)]
         /\ UNCHANGED <<sock, status>>
         /\ advance

\* With fewer nicks than channels, nickIter is read beyond end(): the process may
\* fail, or find some text there.
KickChannel ==
    /\ job.op = "KICK" /\ job.chans # <<>>
    /\ LET name == Head(job.chans) IN
       \/ /\ name \notin DOMAIN channelList
          /\ Reply(job.fd, "403", name)
          /\ job' = [job EXCEPT !.chans = Tail(@), !.nickIter = @ + 1]
       \/ /\ name \in DOMAIN channelList /\ job.nickIter < Len(job.nicks)
          /\ KickTarget(name, job.nicks[job.nickIter + 1])
       \/ /\ name \in DOMAIN channelList /\ job.nickIter >= Len(job.nicks)
          /\ \/ Undefined /\ job' = Idle
             \/ \E nickname \in Words : KickTarget(name, nickname)

KickDone ==
    /\ job.op = "KICK" /\ job.chans = <<>>
    /\ NoEffect /\ job' = Idle

-----------------------------------------------------------------------------
\* INVITE <nick> <channel>.  Both ends are named by getClientFd().
invite(fd, r) ==
    /\ job' = Idle
    /\ \/ argc(r) < 3 /\ Reply(fd, "461", "")
       \/ /\ argc(r) >= 3
          /\ LET target == findClient(r.args[1][1])
                 name == r.args[2][1]
                 ch == channelList[name]
                 me == clientList[fd]
             IN
             IF ClientsNamed(r.args[1][1]) = {} THEN Reply(fd, "401", "")
             ELSE IF name \notin DOMAIN channelList THEN Reply(fd, "403", name)
             ELSE IF ~diffClientInChannel(ch, me.fd) THEN Reply(fd, "442", name)
             ELSE IF ~diffOperator(ch, me.fd) THEN Reply(fd, "482", name)
             ELSE IF diffClientInChannel(ch, clientList[target].fd) THEN Reply(fd, "443", name)
             ELSE /\ reciveBuf' = appendReciveBuf(
                         appendReciveBuf(reciveBuf, {target},
                             [cmd |-> "INVITE", from |-> me.nickName, chan |-> name, text |-> <<>>]),
                         {fd}, Numeric("341", name))
                  /\ channelList' = [channelList EXCEPT
                         ![name] = appendFdListInvite(@, clientList[target].fd)]
                  /\ UNCHANGED <<clientList, sock, status>>
=============================================================================
