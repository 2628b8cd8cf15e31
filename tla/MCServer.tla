------------------------------ MODULE MCServer ------------------------------
(***************************************************************************)
(* Small instances of Server for TLC.  Each run has its own set of         *)
(* requests, chosen for one group of commands.                             *)
(***************************************************************************)
EXTENDS Rooms

-----------------------------------------------------------------------------
\* Words.  Nicknames get at most two underscores ("length is under 10"), "b" and "#x"
\* none, as names of full length; "9" is a name nickNameValidate refuses.
MCNicks      == {"a", "a_", "a__", "b", "*", "*_", "*__", "#x"}
MCChanNames  == {"#x", "#y", "#x_"}
MCColonWords == {":", ":t", ":r"}
MCWords      == {"", "NO REASON", "CR", "a___", "b_", "*___", "9", "9_", "k", "kk", "t", "tt", "r", "u",
                 "0", "1", "2", "4294967295", "x", "+", "-", "i", "l", "o", "q", "pw"}
                \cup MCNicks \cup MCChanNames \cup MCColonWords
MCDropFirst  == [w \in MCWords |-> CASE w = ":t" -> "t" [] w = ":r" -> "r" [] w = "tt" -> "t"
                                     [] OTHER -> ""]
MCUnderscore == [w \in MCWords |->
    CASE w = "a" -> "a_" [] w = "a_" -> "a__" [] w = "a__" -> "a___"
      [] w = "*" -> "*_" [] w = "*_" -> "*__" [] w = "*__" -> "*___"
      [] w = "b" -> "b_" [] w = "9" -> "9_" [] w = "#x" -> "#x_"
      [] OTHER -> w]
\* The last one does not fit into an int: the conversion keeps its low 32 bits.
MCAtoi == [w \in {"0", "1", "2", "4294967295"} |->
    CASE w = "0" -> 0 [] w = "1" -> 1 [] w = "2" -> 2 [] w = "4294967295" -> -1]

\* A command whose parameters are single words.
Cmd(name, words) == [cmd |-> name, args |-> [i \in DOMAIN words |-> <<words[i]>>]]

-----------------------------------------------------------------------------
\* Sign-up bursts: all three lines, with the right and with a wrong password, with a
\* real name of several words and without one, and with a parameter less than that.
BurstOf(password, nickname, parameters) ==
    <<Cmd("PASS", <<password>>), Cmd("NICK", <<nickname>>), Cmd("USER", parameters)>>
Burst(password, nickname) == BurstOf(password, nickname, <<"u", "u", "u", ":r">>)
Bursts      == {Burst("pw", "a")}
ShortBursts == {BurstOf("pw", "a", <<"u", "u">>)}
BadBursts   == {Burst("pw", "a"), Burst("x", "a"), BurstOf("pw", "a", <<"u", "u", "u">>),
                <<Cmd("PASS", <<"pw">>), Cmd("USER", <<"u", "u", "u", "r", "r">>), Cmd("NICK", <<"a">>)>>}
               \cup ShortBursts

SignUpRequests ==
    {Cmd("PASS", <<"pw">>), Cmd("PASS", <<"x">>), Cmd("PASS", <<>>),
     Cmd("NICK", <<>>), Cmd("NICK", <<"a">>), Cmd("NICK", <<"9">>), Cmd("NICK", <<"*">>),
     Cmd("USER", <<"u">>), Cmd("USER", <<"u", "u", "u", "r">>),
     Cmd("USER", <<"u", "u", "u", "r", "r">>), Cmd("USER", <<"u", "u", "u", ":r", "r">>),
     Cmd("PING", <<>>)}

Join(chans, keys) ==
    [cmd |-> "JOIN", args |-> IF keys = <<>> THEN <<chans>> ELSE <<chans, keys>>]
Kick(chans, nicks) == [cmd |-> "KICK", args |-> <<chans, nicks>>]

Mode(chan, letters, values) ==
    [cmd |-> "MODE", args |-> <<<<chan>>, letters>> \o [i \in DOMAIN values |-> <<values[i]>>]]

\* Coming and going, two channels.
MembershipRequests ==
    {Join(<<"#x">>, <<>>), Join(<<"#x", "#y">>, <<>>), Join(<<"x">>, <<>>), Cmd("JOIN", <<>>),
     [cmd |-> "PART", args |-> <<<<"#y", "#x">>, <<":r">>>>], Cmd("PART", <<>>), Cmd("PART", <<"">>),
     Cmd("PART", <<"#x">>), Cmd("QUIT", <<":r">>), Kick(<<"#y", "#x">>, <<"a", "a_">>), Cmd("KICK", <<"#x">>)}

\* Keys, the limit and invitations, and the lists JOIN takes them with.
EntryRequests ==
    {Join(<<"#x">>, <<>>), Join(<<"#x", "#y">>, <<>>), Join(<<"#y", "#x">>, <<"x", "k">>),
     Join(<<"x", "#x", "#x">>, <<"x", "k">>), Join(<<"#y", "#y", "#x">>, <<"k">>), Cmd("PART", <<"#x">>),
     Mode("#x", <<"+", "k">>, <<"k">>), Mode("#x", <<"+", "l", "i">>, <<"1">>),
     Cmd("INVITE", <<"a_", "#x">>)}

\* All that only operators may do; every letter with every sign.
RightsRequests ==
    {Join(<<"#x">>, <<>>), Cmd("MODE", <<>>), Cmd("MODE", <<"a">>), Cmd("MODE", <<"#x">>),
     Mode("#x", <<"o">>, <<>>), Mode("#x", <<"+", "o">>, <<"a_">>), Mode("#x", <<"-", "o">>, <<"a_">>),
     Mode("#x", <<"-", "o">>, <<"a">>), Mode("#x", <<"+", "o">>, <<"b">>),
     Mode("#x", <<"i", "k", "l", "o">>, <<"a_">>), Mode("#x", <<"o", "l">>, <<"a", "2">>),
     Mode("#x", <<"+", "l", "t", "i">>, <<"1">>),
     Mode("#x", <<"+", "k", "l", "-", "k", "q", "l">>, <<"k", "4294967295">>),
     Mode("#x", <<"-", "k", "l", "t", "i">>, <<>>),
     Kick(<<"#x">>, <<"a">>), Kick(<<"#x", "#x">>, <<"a_">>), Cmd("INVITE", <<"a_", "#x">>),
     Cmd("TOPIC", <<>>), Cmd("TOPIC", <<"#x">>), Cmd("TOPIC", <<"#x", ":">>), Cmd("TOPIC", <<"#x", ":t">>)}

\* Who hears what, and every loop, with more than one iteration where the command has
\* a list.
TalkRequests ==
    {Join(<<"x", "#x">>, <<>>), [cmd |-> "PART", args |-> <<<<"#y", "#x">>, <<":r">>>>],
     Kick(<<"#y", "#x">>, <<"a", "a_">>), Cmd("QUIT", <<>>), Mode("#x", <<"i", "o">>, <<"a_">>),
     Cmd("PRIVMSG", <<"a">>), [cmd |-> "PRIVMSG", args |-> <<<<"a", "#x">>, <<":t">>>>],
     Cmd("NICK", <<"#x">>), Cmd("INVITE", <<"a">>), Cmd("LIST", <<>>), Cmd("PING", <<"u">>),
     Cmd("WHO", <<>>), Cmd("x", <<>>)}

\* Three clients in one channel.
CrowdRequests ==
    {Join(<<"#x">>, <<>>), Kick(<<"#x">>, <<"a_">>), Mode("#x", <<"+", "o">>, <<"a_">>),
     Mode("#x", <<"-", "o">>, <<"a">>), Cmd("QUIT", <<>>)}
=============================================================================
