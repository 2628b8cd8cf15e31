------------------------------ MODULE Command ------------------------------
(***************************************************************************)
(* The state the command handlers share, and the helpers they are written  *)
(* with (src/Command.cpp, src/Util.cpp, the look-ups of src/Server.cpp).   *)
(*                                                                         *)
(* The server is one thread, so a handler runs to its end before the next  *)
(* event is looked at.  A handler that loops over the channels, targets or *)
(* mode letters of its command is cut into one step per iteration: job     *)
(* holds what is left of it, and every other action waits until job is     *)
(* Idle again.                                                             *)
(***************************************************************************)
EXTENDS Channel, Client, FiniteSets

CONSTANTS
    Fds,           \* the descriptors the process can get for connections
    Words,         \* the words of the protocol lines
    ChanNames,     \* the words that start with '#' or '&'
    ColonWords,    \* the words that start with ':'
    DropFirst,     \* [Words -> Words], a word without its first character
    Underscore,    \* [Words -> Words], a word followed by "_"
    ValidNicks,    \* the words nickNameValidate accepts
    Atoi,          \* [words of digits only -> Int], the C conversion
    Password,      \* the password the server was started with
    Requests,      \* the commands the clients may send
    Chunks         \* the sign-up bursts of several lines the clients may send

\* A parsed command (cmdVector).  A parameter is the sequence of its pieces: the
\* parts of a comma list, the characters of a mode string, else one word.
Cmds == [cmd : STRING, args : Seq(Seq(Words) \ {<<>>})]

ASSUME FdsAssumption == Fds \subseteq Nat /\ IsFiniteSet(Fds)
ASSUME WordsAssumption ==
    /\ {"", Star, "NO REASON", "CR"} \cup ChanNames \cup ColonWords \cup ValidNicks \subseteq Words
    /\ DropFirst  \in [Words -> Words]
    /\ Underscore \in [Words -> Words]
    /\ DOMAIN Atoi \subseteq Words /\ \A w \in DOMAIN Atoi : Atoi[w] \in Int
ASSUME RequestsAssumption ==
    /\ \A r \in Requests : r \in Cmds
    /\ \A lines \in Chunks : lines \in Seq(Cmds)

VARIABLES
    clientList,    \* Server::_clientList, descriptor -> Client
    channelList,   \* Server::_channelList, name -> Channel
    reciveBuf,     \* Client::_reciveBuf of every client, messages not yet sent
    sock,          \* the descriptors of the open connections
    job,           \* the handler being executed
    status         \* "running", "stopped" or "undefined" (behaviour)

state == <<clientList, channelList, reciveBuf, sock, job, status>>

Idle == [op |-> "IDLE"]

-----------------------------------------------------------------------------
(***************************************************************************)
(* Messages.  from is the nickname in the prefix of a relayed command and  *)
(* "" in a numeric reply; chan the channel the text names, or "".          *)
(***************************************************************************)
MessageCmds == {"NICK", "JOIN", "PART", "KICK", "QUIT", "INVITE", "MODE", "TOPIC", "PRIVMSG", "PONG",
                "001", "324", "331", "332", "341", "353", "366", "401", "403", "404", "421",
                "431", "432", "433", "441", "442", "443", "461", "462", "471", "472", "473",
                "475", "482"}
Pieces   == Words \cup {"+", "-", "nul", "<key>"}
Messages == [cmd : MessageCmds, from : Words, chan : Words, text : Seq(Pieces)]

Numeric(code, chan) == [cmd |-> code, from |-> "", chan |-> chan, text |-> <<>>]

\* Client::appendReciveBuf on every client of a set.
appendReciveBuf(buf, fds, m) ==
    [f \in Fds |-> IF f \in fds THEN Append(buf[f], m) ELSE buf[f]]

\* Everybody in channel name, if the server has such a channel.
Audience(chans, name) ==
    IF name \in DOMAIN chans THEN ToSet(chans[name].clientFdList) ELSE {}

\* messageAllChannel and plus_messageAllChannel, except for NICK: the text goes
\* to all of the channel, but the sender does not get its own PRIVMSG.
messageAllChannel(buf, chans, fd, name, cmd, text) ==
    appendReciveBuf(buf,
        IF cmd = "PRIVMSG" THEN Audience(chans, name) \ {fd} ELSE Audience(chans, name),
        [cmd |-> cmd, from |-> IF cmd = "TOPIC" THEN "" ELSE clientList[fd].nickName,
         chan |-> IF cmd = "QUIT" THEN "" ELSE name, text |-> text])

\* channelMessage: the words from an index on, without a leading ':'.
channelMessage(args, i) ==
    IF Len(args) < i \/ args[i][1] \in {"", ":"} THEN <<"NO REASON">>
    ELSE <<IF args[i][1] \in ColonWords THEN DropFirst[args[i][1]] ELSE args[i][1]>>

-----------------------------------------------------------------------------
\* Look-ups and updates of the two maps

\* Server::findClient: the keys whose client has the nickname, and the first.
ClientsNamed(nick) == {f \in DOMAIN clientList : clientList[f].nickName = nick}
findClient(nick)   == CHOOSE f \in ClientsNamed(nick) : \A g \in ClientsNamed(nick) : f <= g

Without(map, key) == [k \in DOMAIN map \ {key} |-> map[k]]
With(map, key, value) ==
    [k \in DOMAIN map \cup {key} |-> IF k = key THEN value ELSE map[k]]

argc(r) == Len(r.args) + 1

\* split, or the characters of a text: an empty text has none.
split(arg) == IF arg = <<"">> THEN <<>> ELSE arg

-----------------------------------------------------------------------------
\* Effects handlers end in; each leaves job to the caller.

\* A handler that only answers its client.
Reply(fd, code, chan) ==
    /\ reciveBuf' = appendReciveBuf(reciveBuf, {fd}, Numeric(code, chan))
    /\ UNCHANGED <<clientList, channelList, sock, status>>

NoEffect == UNCHANGED <<clientList, channelList, reciveBuf, sock, status>>

\* Behaviour the language leaves undefined, taken to end the process.
Undefined ==
    /\ status' = "undefined"
    /\ UNCHANGED <<clientList, channelList, reciveBuf, sock>>

\* Mutant: the descriptor is not closed.
Drop_Mut(fd) ==
    /\ clientList' = Without(clientList, fd)
    /\ reciveBuf' = [reciveBuf EXCEPT ![fd] = <<>>]
    /\ UNCHANGED <<channelList, sock, status>>
\* send, resetClient, erase, close: the client is gone, with what it had to read.
Drop(fd) ==
    /\ clientList' = Without(clientList, fd)
    /\ reciveBuf' = [reciveBuf EXCEPT ![fd] = <<>>]
    /\ sock' = sock \ {fd}
    /\ UNCHANGED <<channelList, status>>
=============================================================================
