------------------------------- MODULE Modes --------------------------------
(***************************************************************************)
(* The commands that change what a channel allows: command/Mode.cpp and    *)
(* command/Topic.cpp.                                                      *)
(***************************************************************************)
EXTENDS Command

\* sign is "nul" ('\0') until a '+' or '-' has been read.
Signs == {"+", "-", "nul"}
ModeJobs == [op : {"MODE"}, fd : Fds, chan : Words, letters : Seq(Words), values : Seq(Words),
             sign : Signs, message : Seq(Pieces), shown : Seq(Pieces), plus : Words]

\* The 324 reply: the key is shown to the operators only.
ModeQuery(fd, name) ==
    LET ch == channelList[name] IN
    /\ reciveBuf' = appendReciveBuf(reciveBuf, {fd},
           [Numeric("324", name) EXCEPT !.text =
               IF ~diffMode(ch, "k") THEN <<>>
               ELSE <<IF diffOperator(ch, fd) THEN ch.key ELSE "<key>">>])
    /\ UNCHANGED <<clientList, channelList, sock, status>>

\* MODE <channel> [<letters> {<value>}]
mode(fd, r) ==
    LET name == r.args[1][1] IN
    \/ /\ argc(r) < 2
       /\ Reply(fd, "461", "") /\ job' = Idle
    \/ /\ argc(r) >= 2 /\ name = clientList[fd].nickName
       /\ NoEffect /\ job' = Idle
    \/ /\ argc(r) >= 2 /\ name # clientList[fd].nickName /\ name \notin DOMAIN channelList
       /\ Reply(fd, "403", name) /\ job' = Idle
    \/ /\ argc(r) >= 2 /\ name # clientList[fd].nickName /\ name \in DOMAIN channelList
       /\ \/ argc(r) = 2 /\ ModeQuery(fd, name) /\ job' = Idle
          \/ argc(r) > 2 /\ Len(split(r.args[2])) = 1 /\ NoEffect /\ job' = Idle
          \/ /\ argc(r) > 2 /\ Len(split(r.args[2])) # 1 /\ ~diffOperator(channelList[name], fd)
             /\ Reply(fd, "482", name) /\ job' = Idle
          \/ /\ argc(r) > 2 /\ Len(split(r.args[2])) # 1 /\ diffOperator(channelList[name], fd)
             /\ NoEffect
             /\ job' = [op |-> "MODE", fd |-> fd, chan |-> name, letters |-> split(r.args[2]),
                        values |-> [i \in 1 .. Len(r.args) - 2 |-> r.args[i + 2][1]],
                        sign |-> "nul", message |-> <<>>, shown |-> <<>>, plus |-> ""]

-----------------------------------------------------------------------------
\* The loop over the letters, one action for each kind of letter.

Letter(set) == job.op = "MODE" /\ job.letters # <<>> /\ Head(job.letters) \in set
HasValue    == job.values # <<>>

\* The next letter, after nothing has been changed (continue).
Skip(values) ==
    /\ NoEffect
    /\ job' = [job EXCEPT !.letters = Tail(@), !.values = values]

\* isSetMode: the letter joins the message, which starts with the sign of its first.
Announced(m) ==
    IF job.message = <<>> THEN <<job.sign, m>> ELSE Append(job.message, m)

\* The channel has been changed to ch and the letter counts as set.
Apply(ch, values, shown, plus) ==
    /\ channelList' = [channelList EXCEPT ![job.chan] = ch]
    /\ job' = [job EXCEPT !.letters = Tail(@), !.message = Announced(Head(job.letters)),
                          !.values = values, !.shown = shown, !.plus = plus]
    /\ UNCHANGED <<clientList, reciveBuf, sock, status>>

ModeSign ==
    /\ Letter({"+", "-"})
    /\ NoEffect
    /\ job' = [job EXCEPT !.letters = Tail(@), !.sign = Head(job.letters)]

\* i and t: with no sign the flag stays, but the letter is announced.
ModeFlag ==
    /\ Letter({"i", "t"})
    /\ LET m == Head(job.letters)
           ch == channelList[job.chan]
           already == \/ job.sign = "+" /\ diffMode(ch, m)
                      \/ job.sign = "-" /\ ~diffMode(ch, m)
       IN  \/ already /\ Skip(job.values)
           \/ ~already /\ Apply(setMode(ch, m, job.sign, job.fd), job.values, job.shown, job.plus)

ModeKey ==
    /\ Letter({"k"})
    /\ LET ch == channelList[job.chan] IN
       \/ /\ job.sign = "+" /\ HasValue
          /\ Apply(setMode(setKey(ch, Head(job.values)), "k", "+", job.fd),
                   Tail(job.values), Append(job.shown, Head(job.values)), job.plus)
       \/ /\ job.sign = "-" /\ diffMode(ch, "k")
          /\ Apply(setMode(setKey(ch, ""), "k", "-", job.fd), job.values, job.shown, job.plus)
       \/ /\ \/ job.sign = "+" /\ ~HasValue
             \/ job.sign = "-" /\ ~diffMode(ch, "k")
             \/ job.sign = "nul"
          /\ Skip(job.values)

\* Mutant: what atoi() makes of the digits is not looked at.
IsLimit_Mut(word) == word \in DOMAIN Atoi
\* Digits only, and not negative as an int.
IsLimit(word) == word \in DOMAIN Atoi /\ Atoi[word] >= 0

\* A value that is not a number is used up, by -l too.
ModeLimit ==
    /\ Letter({"l"})
    /\ LET ch == channelList[job.chan]
           unset == job.sign = "-" /\ ~diffMode(ch, "l")
           number == HasValue /\ IsLimit(Head(job.values))
       IN
       \/ unset /\ Skip(job.values)
       \/ ~unset /\ HasValue /\ ~number /\ Skip(Tail(job.values))
       \/ /\ job.sign = "+" /\ number
          /\ Apply(setMode(setLimit(ch, Atoi[Head(job.values)]), "l", "+", job.fd),
                   Tail(job.values), Append(job.shown, Head(job.values)), job.plus)
       \/ /\ job.sign = "-" /\ ~unset /\ (HasValue => number)
          /\ Apply(setMode(setLimit(ch, 0), "l", "-", job.fd), job.values, job.shown, job.plus)
       \/ /\ \/ job.sign = "+" /\ ~HasValue
             \/ job.sign = "nul" /\ (HasValue => number)
          /\ Skip(job.values)

\* Mutant: nothing keeps an operator from naming itself.
SelfTarget_Mut(nickname) == FALSE
SelfTarget(nickname) == nickname = clientList[job.fd].nickName

\* o: an unknown, own or absent nickname ends the command, without the broadcast.
ModeOperator ==
    /\ Letter({"o"})
    /\ \/ ~HasValue /\ Skip(job.values)
       \/ /\ HasValue
          /\ LET ch == channelList[job.chan]
                 nickname == Head(job.values)
                 target == clientList[findClient(nickname)].fd
             IN
             IF ClientsNamed(nickname) = {} THEN Reply(job.fd, "401", "") /\ job' = Idle
             ELSE IF SelfTarget(nickname) THEN NoEffect /\ job' = Idle
             ELSE IF ~diffClientInChannel(ch, target) THEN Reply(job.fd, "441", job.chan) /\ job' = Idle
             ELSE IF job.sign = "nul" THEN Skip(job.values)
             ELSE IF job.sign = "-" /\ ~diffOperator(ch, job.fd)
                  THEN Reply(job.fd, "482", job.chan) /\ job' = Idle
             ELSE Apply(setMode(ch, "o", job.sign, target), Tail(job.values), job.shown, nickname)

ModeUnknown ==
    /\ job.op = "MODE" /\ job.letters # <<>>
    /\ Head(job.letters) \notin {"+", "-", "i", "t", "k", "l", "o"}
    /\ Reply(job.fd, "472", job.chan)
    /\ job' = [job EXCEPT !.letters = Tail(@)]

\* The end: the values are added for an operator, and what was set is broadcast.
ModeDone ==
    /\ job.op = "MODE" /\ job.letters = <<>>
    /\ LET text == IF diffOperator(channelList[job.chan], job.fd)
                   THEN job.message \o job.shown ELSE job.message
       IN  reciveBuf' = IF text = <<>> THEN reciveBuf
                        ELSE messageAllChannel(reciveBuf, channelList, job.fd, job.chan, "MODE",
                                               Append(text, job.plus))
    /\ UNCHANGED <<clientList, channelList, sock, status>>
    /\ job' = Idle

-----------------------------------------------------------------------------
\* TOPIC <channel> [<topic>]
NewTopic(word) ==
    CASE word = ":" -> ""
      [] word # ":" /\ word \in ColonWords -> DropFirst[word]
      [] OTHER -> word

TopicLocked(ch, fd) == diffMode(ch, "t") /\ ~diffOperator(ch, fd)

topic(fd, r) ==
    /\ job' = Idle
    /\ LET name == r.args[1][1]
           ch == channelList[name]
       IN
       IF argc(r) < 2 THEN Reply(fd, "461", "")
       ELSE IF name \notin DOMAIN channelList THEN Reply(fd, "403", name)
       ELSE IF ~diffClientInChannel(ch, fd) THEN Reply(fd, "442", name)
       ELSE IF argc(r) = 2 THEN
            /\ reciveBuf' = appendReciveBuf(reciveBuf, {fd},
                   IF ch.topic = "" THEN Numeric("331", name)
                   ELSE [Numeric("332", name) EXCEPT !.text = <<ch.topic>>])
            /\ UNCHANGED <<clientList, channelList, sock, status>>
       ELSE IF TopicLocked(ch, fd) THEN Reply(fd, "482", name)
       ELSE /\ channelList' = [channelList EXCEPT ![name] = setTopic(ch, NewTopic(r.args[2][1]))]
            /\ reciveBuf' = messageAllChannel(reciveBuf, channelList, fd, name, "TOPIC",
                                              <<NewTopic(r.args[2][1])>>)
            /\ UNCHANGED <<clientList, sock, status>>
=============================================================================
