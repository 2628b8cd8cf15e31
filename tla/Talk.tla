-------------------------------- MODULE Talk --------------------------------
(***************************************************************************)
(* The commands that change no client and no channel: command/Privmsg.cpp, *)
(* List.cpp and Ping.cpp, and the ones signIn ignores or does not know.    *)
(***************************************************************************)
EXTENDS Command

PrivmsgJobs == [op : {"PRIVMSG"}, fd : Fds, targets : Seq(Words), text : Seq(Pieces)]

\* PRIVMSG <target>{,<target>} <text>
privmsg(fd, r) ==
    \/ /\ argc(r) < 3
       /\ Reply(fd, "461", "") /\ job' = Idle
    \/ /\ argc(r) >= 3
       /\ NoEffect
       /\ job' = [op |-> "PRIVMSG", fd |-> fd, targets |-> split(r.args[1]),
                  text |-> channelMessage(r.args, 2)]

NextTarget == job' = [job EXCEPT !.targets = Tail(@)]

\* Mutant: anybody may write to a channel.
MayWrite_Mut(fd, name) == name \in DOMAIN channelList
MayWrite(fd, name) == findChannelOf(clientList[fd], name)

PrivmsgChannel ==
    /\ job.op = "PRIVMSG" /\ job.targets # <<>>
    /\ Head(job.targets) \in ChanNames
    /\ \/ /\ ~MayWrite(job.fd, Head(job.targets))
          /\ Reply(job.fd, "404", Head(job.targets)) /\ job' = Idle
       \/ /\ MayWrite(job.fd, Head(job.targets))
          /\ reciveBuf' = messageAllChannel(reciveBuf, channelList, job.fd, Head(job.targets),
                                            "PRIVMSG", job.text)
          /\ UNCHANGED <<clientList, channelList, sock, status>>
          /\ NextTarget

\* To a nickname: the line names the sender where the recipient belongs.  The 401
\* for an unknown nickname is written through clientList.end().
PrivmsgClient ==
    /\ job.op = "PRIVMSG" /\ job.targets # <<>>
    /\ Head(job.targets) \notin ChanNames
    /\ \/ /\ ClientsNamed(Head(job.targets)) # {}
          /\ reciveBuf' = appendReciveBuf(reciveBuf, {findClient(Head(job.targets))},
                 [cmd |-> "PRIVMSG", from |-> clientList[job.fd].nickName,
                  chan |-> clientList[job.fd].nickName, text |-> job.text])
          /\ UNCHANGED <<clientList, channelList, sock, status>>
          /\ NextTarget
       \/ /\ ClientsNamed(Head(job.targets)) = {}
          /\ \/ Undefined /\ job' = Idle
             \/ NoEffect /\ NextTarget

PrivmsgDone ==
    /\ job.op = "PRIVMSG" /\ job.targets = <<>>
    /\ NoEffect /\ job' = Idle

-----------------------------------------------------------------------------
\* LIST is sent at once, with all that was waiting for the client.
list(fd) ==
    /\ reciveBuf' = [reciveBuf EXCEPT ![fd] = <<>>]
    /\ UNCHANGED <<clientList, channelList, sock, status>>

ping(fd, r) == Reply(fd, IF argc(r) < 2 THEN "461" ELSE "PONG", "")

Known == {"USER", "NICK", "PASS", "PRIVMSG", "QUIT", "PART", "JOIN", "KICK", "MODE",
          "TOPIC", "INVITE", "LIST", "PING", "WHOIS", "WHO"}
=============================================================================
