------------------------------- MODULE Claims -------------------------------
(***************************************************************************)
(* What comments and documents of the repository say of the program and    *)
(* the code does not do.  TLC finds a counterexample for each of them; the *)
(* README tells them.                                                      *)
(***************************************************************************)
EXTENDS MCServer

\* The messages a step appends to the buffer of f.
NewMessages(f) ==
    {reciveBuf'[f][i] : i \in Len(reciveBuf[f]) + 1 .. Len(reciveBuf'[f])}

-----------------------------------------------------------------------------
\* Kick.cpp:65: descriptor -1 means a client that has been reset.  Hence a client
\* that is in a channel has its own descriptor.
MembersHaveTheirFd ==
    \A c \in DOMAIN channelList : \A f \in Members(c) : clientList[f].fd = f

GhostRequests == {Join(<<"#x">>, <<>>)}

\* User.cpp:26: USER with less than five words is not enough, and user() answers 461;
\* the same holds for the USER line of a burst, here with one parameter or two.
ShortUserAnswered ==
    [][job.op = "SIGNUP" /\ job.lines # <<>> /\ Throws(Head(job.lines), "CR LF") /\ job.fd \in DOMAIN clientList
       => \E m \in NewMessages(job.fd) : m.cmd = "461"]_vars

\* Mode.cpp:260 and 280: a mode that has been set is sent to the channel, at the end
\* of the command that has set it.  Everybody in the channel is told, and what is said
\* of i and t is so.
ModesTold ==
    [][job.op = "MODE" /\ job' = Idle /\ job.message # <<>> =>
        \A f \in Members(job.chan) : \E m \in NewMessages(f) :
            /\ m.cmd = "MODE"
            /\ \A flag \in {"i", "t"} \cap ToSet(m.text) :
                  m.text[1] = "+" <=> diffMode(channelList'[job.chan], flag)]_vars

ModesToldRequests ==
    {Join(<<"#x">>, <<>>), Mode("#x", <<"+", "i", "o">>, <<"b">>), Mode("#x", <<"+", "i", "-", "i">>, <<>>)}
=============================================================================
