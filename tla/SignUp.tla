------------------------------- MODULE SignUp -------------------------------
(***************************************************************************)
(* Registration: PASS, NICK and USER, before and after a client is         *)
(* registered (command/Pass.cpp, Nick.cpp, User.cpp; signUp, notRegister   *)
(* and irssiSignUp of src/Command.cpp).                                    *)
(***************************************************************************)
EXTENDS Command

SignUpJobs == [op : {"SIGNUP"}, fd : Fds, lines : Seq(Cmds)]

\* The welcome that ends signUp, and the lines of a burst still to be executed.
SigningUp(fd, lines) == [op |-> "SIGNUP", fd |-> fd, lines |-> lines]

-----------------------------------------------------------------------------
HasPass(fd) == "PASS" \in clientList[fd].regi

Register(fd, cl) ==
    /\ clientList' = [clientList EXCEPT ![fd] = cl]
    /\ UNCHANGED <<channelList, reciveBuf, sock, status>>

pass(fd, r) ==
    \/ /\ HasPass(fd)
       /\ Reply(fd, "462", "")
    \/ /\ ~HasPass(fd) /\ argc(r) < 2
       /\ Reply(fd, "461", "")
    \/ /\ ~HasPass(fd) /\ argc(r) >= 2 /\ r.args[1][1] # Password
       /\ Drop(fd)                                       \* 464
    \/ /\ ~HasPass(fd) /\ argc(r) >= 2 /\ r.args[1][1] = Password
       /\ Register(fd, setRegi(clientList[fd], "PASS"))

\* Mutant: USER is accepted before PASS.
user_Mut(fd, r) ==
    /\ "USER" \notin clientList[fd].regi
    /\ Register(fd, setRegi(clientList[fd], "USER"))
user(fd, r) ==
    \/ /\ "USER" \in clientList[fd].regi
       /\ Reply(fd, "462", "")
    \/ /\ "USER" \notin clientList[fd].regi /\ ~HasPass(fd)
       /\ Drop(fd)                                       \* 451
    \/ /\ "USER" \notin clientList[fd].regi /\ HasPass(fd)
       /\ argc(r) < 5 \/ (argc(r) > 5 /\ r.args[4][1] \notin ColonWords)
       /\ Reply(fd, "461", "")
    \/ /\ "USER" \notin clientList[fd].regi /\ HasPass(fd)
       /\ argc(r) = 5 \/ (argc(r) > 5 /\ r.args[4][1] \in ColonWords)
       /\ Register(fd, setRegi(clientList[fd], "USER"))

-----------------------------------------------------------------------------
(***************************************************************************)
(* NICK.  The wanted name gets underscores until nobody has it, and only   *)
(* then is it validated.                                                   *)
(***************************************************************************)
\* Mutant: the last client of the list is not looked at.
Taken_Mut(nick) == \E f \in ClientsNamed(nick), g \in DOMAIN clientList : f < g
Taken(nick) == ClientsNamed(nick) # {}

\* The names the while (1) loop can reach: one more than there can be clients.
Candidates(nick) ==
    LET next[k \in 0 .. Cardinality(Fds)] ==
            IF k = 0 THEN nick ELSE Underscore[next[k - 1]]
    IN  next

FreshNick(nick) ==
    LET cand == Candidates(nick)
    IN  cand[CHOOSE k \in DOMAIN cand :
                /\ ~Taken(cand[k]) \/ k = Cardinality(Fds)
                /\ \A j \in 0 .. k - 1 : Taken(cand[j])]

nicknameDuplicate(nick) == ~Taken(nick)
nickNameValidate(nick)  == nick \in ValidNicks

\* Mutant: only the client itself is told.
NickAudience_Mut(fd) == {fd}
(***************************************************************************)
(* Who is told of a new nickname: the client itself when it is in no       *)
(* channel, else the members of its channels in the order they are         *)
(* visited, skipping a client whose getClientFd() is in _sendNickList      *)
(* already.                                                                *)
(***************************************************************************)
NickAudience(fd) ==
    LET chans == clientList[fd].channelList
        members(i) == IF chans[i] \in DOMAIN channelList
                      THEN channelList[chans[i]].clientFdList ELSE <<>>
        Visits == UNION {{i} \X DOMAIN members(i) : i \in DOMAIN chans}
        who(v) == members(v[1])[v[2]]
        Before(u, v) == u[1] < v[1] \/ (u[1] = v[1] /\ u[2] < v[2])
        Sent(v) == \A u \in Visits : Before(u, v) =>
                        clientList[who(u)].fd # clientList[who(v)].fd
    IN  IF chans = <<>> THEN {fd} ELSE {who(v) : v \in {u \in Visits : Sent(u)}}

nick(fd, r) ==
    \/ /\ ~HasPass(fd)
       /\ Drop(fd)                                       \* 451
    \/ /\ HasPass(fd) /\ argc(r) < 2
       /\ Reply(fd, "431", "")
    \/ /\ HasPass(fd) /\ argc(r) >= 2
       /\ LET new == FreshNick(r.args[1][1]) IN
            IF ~nickNameValidate(new) THEN Reply(fd, "432", "")
            ELSE IF ~nicknameDuplicate(new) THEN Reply(fd, "433", "")
            ELSE
            /\ reciveBuf' = appendReciveBuf(reciveBuf, NickAudience(fd),
                   [cmd |-> "NICK", from |-> clientList[fd].nickName,
                    chan |-> "", text |-> <<new>>])
            /\ clientList' = [clientList EXCEPT ![fd] = setRegi(setNickname(@, new), "NICK")]
            /\ UNCHANGED <<channelList, sock, status>>

-----------------------------------------------------------------------------
\* One of the three commands.
Registering(fd, r) ==
    \/ r.cmd = "PASS" /\ pass(fd, r)
    \/ r.cmd = "NICK" /\ nick(fd, r)
    \/ r.cmd = "USER" /\ user(fd, r)

\* Command::signUp for a client that is not registered; any other command is
\* notRegister, which ends the connection.
signUp(fd, r) ==
    /\ ~getIsRegist(clientList[fd])
    /\ \/ Registering(fd, r)
       \/ r.cmd \notin Registration /\ Drop(fd)
    /\ job' = SigningUp(fd, <<>>)

\* Command::irssiSignUp: a burst that holds PASS, NICK and USER is executed line
\* by line, whether the client is registered or not.
irssiSignUp(fd, lines) ==
    /\ NoEffect
    /\ job' = SigningUp(fd, lines)

\* In a burst all that follows the third parameter of USER is one real name, with the CR
\* of the line; without a character of it substr(npos) throws std::out_of_range.  A line
\* of three parameters throws when it ends with a bare LF only: its CR is a real name.
Endings == {"LF", "CR LF"}
Throws(r, ending) == r.cmd = "USER" /\ argc(r) \in 2 .. (IF ending = "LF" THEN 4 ELSE 3)
BurstLine(r) ==
    CASE r.cmd = "USER" /\ argc(r) = 4 -> [r EXCEPT !.args = Append(@, <<"CR">>)]
      [] r.cmd = "USER" /\ argc(r) > 5 -> [r EXCEPT !.args = SubSeq(@, 1, 4)]
      [] OTHER -> r

\* One line.  When an earlier line has erased the client, the handler goes on with
\* the iterator clientList.end(): the process may fail or nothing may be seen of it.
SignUpLine ==
    /\ job.op = "SIGNUP" /\ job.lines # <<>>
    /\ \E ending \in Endings : ~Throws(Head(job.lines), ending)
    /\ LET r == BurstLine(Head(job.lines)) IN
        \/ /\ job.fd \in DOMAIN clientList
           /\ \/ Registering(job.fd, r)
              \/ r.cmd \notin Registration /\ NoEffect
        \/ /\ job.fd \notin DOMAIN clientList
           /\ \/ r.cmd \in Registration /\ Undefined
              \/ NoEffect
    /\ job' = SigningUp(job.fd, Tail(job.lines))

\* The end of signUp and of irssiSignUp: 001 for a registered client.
Welcome ==
    /\ job.op = "SIGNUP" /\ job.lines = <<>>
    /\ IF job.fd \in DOMAIN clientList /\ getIsRegist(clientList[job.fd])
       THEN Reply(job.fd, "001", "")
       ELSE NoEffect
    /\ job' = Idle
=============================================================================
