---------------------------- MODULE MCConnection ----------------------------
(***************************************************************************)
(* Small instances of Connection for TLC.                                  *)
(***************************************************************************)
EXTENDS Connection

MCSymbols == {SP, CR, LF, NUL, "PASS", "NICK", "USER", "CAP", "LS", "join", "JOIN", "#", "x"}
MCUpper   == [s \in MCSymbols |-> IF s = "join" THEN "JOIN" ELSE s]

Word(w)  == <<w>>
JoinLine == <<Word("join"), <<"#", "x">>>>

\* A line of n words x after its command.
With(command, n) == [i \in 1 .. n + 1 |-> IF i = 1 THEN Word(command) ELSE Word("x")]

\* Scripts: a sign-up of exactly the limit with a real name of one word; one that may
\* overtake the line before it; USER lines that are bursts by themselves, having the three
\* words in them, without a real name, with one of two words, and with too few parameters;
\* an empty word in a line of exactly the limit; a line the code ignores; a line with the
\* three words that is no sign-up line, and one with a NUL; and a sign-up line with an
\* empty word.
MCScripts ==
    {<<<<Word("PASS")>>, <<Word("NICK")>>, With("USER", 4)>>,
     <<JoinLine, <<Word("PASS")>>, <<Word("NICK")>>, <<Word("USER")>>>>,
     <<<<Word("USER"), Word("PASS"), Word("NICK"), Word("x")>>, JoinLine>>,
     <<<<Word("USER"), Word("PASS"), Word("NICK"), Word("x"), Word("x"), Word("x")>>>>,
     <<<<Word("USER"), Word("PASS"), Word("NICK")>>, JoinLine>>,
     <<JoinLine, <<Word("x"), <<>>, <<"#", "x">>, Word("x"), Word("x"), Word("x"), Word("x"), Word("x")>>>>,
     <<<<Word("CAP"), Word("LS")>>, JoinLine, <<Word("NICK")>>>>,
     <<<<Word("x"), Word("PASS"), Word("NICK"), Word("USER")>>, <<<<"x", NUL>>, Word("x")>>>>,
     <<<<Word("PASS"), <<>>, Word("NICK"), Word("USER")>>>>}

\* Two lines, which may come together.
TwoLines == {<<JoinLine, JoinLine>>}
=============================================================================
