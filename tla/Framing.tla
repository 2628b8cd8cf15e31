------------------------------ MODULE Framing -------------------------------
(***************************************************************************)
(* How the bytes of one connection become commands: Server::getMessage     *)
(* (src/Server.cpp) and the first half of Command::run (src/Command.cpp),  *)
(* with the fragment buffer of class Client.                               *)
(*                                                                         *)
(* A text is a sequence of symbols.  A symbol is a character, or a run of  *)
(* characters the code only looks for as a whole, such as "PASS"; the      *)
(* limit on the length of a text counts symbols.                           *)
(***************************************************************************)
EXTENDS Integers, Sequences, SequencesExt, FiniteSets, FiniteSetsExt

CONSTANTS
    Symbols,     \* the symbols the clients may send
    Upper,       \* [Symbols -> Symbols], toupper
    Scripts,     \* what a client may write: sequences of lines, a line being its words
    Limit        \* the 512 of getMessage

SP  == "SP"
CR  == "CR"
LF  == "LF"
NUL == "NUL"
Registration == {"PASS", "NICK", "USER"}

ASSUME FramingAssumption ==
    /\ {SP, CR, LF, NUL} \cup Registration \subseteq Symbols
    /\ Upper \in [Symbols -> Symbols]
    /\ \A script \in Scripts : script \in Seq(Seq(Seq(Symbols \ {SP, CR, LF})) \ {<<>>})
    /\ Limit \in Nat /\ Limit > 2

\* toupper changes no mark, and nothing that it has changed.
ASSUME UpperAssumption ==
    /\ \A c \in {SP, CR, LF, NUL} : Upper[c] = c
    /\ \A c \in Symbols : Upper[Upper[c]] = Upper[c]

VARIABLES
    wire,        \* what the client has sent and the server has not read
    eofBuffer,   \* Client::_eofBuffer
    eofFlag,     \* Client::_eofFlag
    executed,    \* the cmdVectors that reached a handler, for this connection
    running,     \* no burst has thrown: the process runs
    written,     \* history: the lines the client has written
    tidy         \* history: every recv() so far was a tidy one

framing == <<wire, eofBuffer, eofFlag, executed, running, written, tidy>>

-----------------------------------------------------------------------------
\* Texts

Has(t, s) == s \in ToSet(t)

\* The k-th number of a finite set of them, and the elements of q at the places S, in order.
Nth(S, k) == CHOOSE i \in S : Cardinality({j \in S : j <= i}) = k
Chosen(q, S) == [k \in 1 .. Cardinality(S) |-> q[Nth(S, k)]]

\* Where the pieces of t end: at every sep, and at the end of a text with something after
\* its last sep.
Ends(t, sep) ==
    {i \in 1 .. Len(t) + 1 : IF i <= Len(t) THEN t[i] = sep ELSE t # <<>> /\ t[Len(t)] # sep}

\* Successive getline(t, sep): the piece after the last sep only if there is any.
getline(t, sep) ==
    LET ends == Ends(t, sep)
        start(k) == IF k = 1 THEN 1 ELSE Nth(ends, k - 1) + 1
    IN  [k \in 1 .. Cardinality(ends) |-> SubSeq(t, start(k), Nth(ends, k) - 1)]

\* substr(0, find_last_not_of("\r\n") + 1)
TrimEnd(w) == SubSeq(w, 1, Max({0} \cup {i \in DOMAIN w : w[i] \notin {CR, LF}}))

UpperFirst(ws) == [ws EXCEPT ![1] = [i \in DOMAIN @ |-> Upper[@[i]]]]

\* The loop of run that makes cmdVector from a text.
cmdVector(t) ==
    LET ws == getline(t, SP) IN UpperFirst([i \in DOMAIN ws |-> TrimEnd(ws[i])])

\* Where t first has one of the symbols S, what is before that place, and the rest.
Cut(t, S)   == Min({Len(t) + 1} \cup {i \in DOMAIN t : t[i] \in S})
UpTo(t, S)  == SubSeq(t, 1, Cut(t, S) - 1)
From(t, S)  == SubSeq(t, Cut(t, S), Len(t))

\* operator>>: the next word of a text, and what it leaves.
Blanks == {SP, CR}
NextWord(t)  == UpTo(From(t, Symbols \ Blanks), Blanks)
AfterWord(t) == From(From(t, Symbols \ Blanks), Blanks)

\* All words of a line, one operator>> after the other.
Words(line) ==
    LET ws == getline([i \in DOMAIN line |-> IF line[i] = CR THEN SP ELSE line[i]], SP)
    IN  Chosen(ws, {i \in DOMAIN ws : ws[i] # <<>>})

\* Mutant: the real name keeps the blank in front of it.
RealName_Mut(line) == AfterWord(AfterWord(AfterWord(AfterWord(line))))
\* What follows the fourth word of a line, with its blanks and its CR.
RealName(line) == From(AfterWord(AfterWord(AfterWord(AfterWord(line)))), Symbols \ {SP})

\* USER with a parameter has five words in a burst, the real name being one; without a
\* real name substr(npos) throws std::out_of_range.
IsUser(line) == Len(Words(line)) > 1 /\ Words(line)[1] = <<"USER">>
Throws(line) == IsUser(line) /\ RealName(line) = <<>>
UserWords(line) ==
    LET second == AfterWord(line)
        third  == AfterWord(second)
    IN  <<NextWord(line), NextWord(second), NextWord(third), NextWord(AfterWord(third)), RealName(line)>>
LineWords(line) == IF IsUser(line) THEN UserWords(line) ELSE Words(line)

\* irssiSignUp: the lines of a burst whose command is one of the three, up to one that throws.
BurstCommands(t) ==
    LET ls == getline(t, LF)
        done == Min({Len(ls) + 1} \cup {i \in DOMAIN ls : Throws(ls[i])}) - 1
        cmds == [i \in 1 .. done |-> LineWords(ls[i])]
        known == Chosen(cmds, {i \in DOMAIN cmds :
                     cmds[i] # <<>> /\ \E k \in Registration : UpperFirst(cmds[i])[1] = <<k>>})
    IN  [i \in DOMAIN known |-> UpperFirst(known[i])]
BurstThrows(t) == \E line \in ToSet(getline(t, LF)) : Throws(line)

CapLs(t) == \E i \in 1 .. Len(t) - 2 : SubSeq(t, i, i + 2) = <<"CAP", SP, "LS">>
IsBurst(t) == Registration \subseteq ToSet(t)

\* recv() gave bytes: a longer text is cut, keeping the final NUL, and another one ends
\* at its first NUL, being read as a C string.
getMessage(bytes) ==
    IF Len(bytes) > Limit THEN SubSeq(bytes, 1, Limit - 2) \o <<CR, LF, NUL>>
    ELSE SubSeq(bytes, 1, Min({Len(bytes)} \cup {i - 1 : i \in {j \in DOMAIN bytes : bytes[j] = NUL}}))

-----------------------------------------------------------------------------
\* Command::run, up to the handler

Ignore == UNCHANGED <<eofBuffer, eofFlag, executed, running>>

PutAside(t) ==
    /\ eofBuffer' = eofBuffer \o t
    /\ eofFlag' = TRUE
    /\ UNCHANGED <<executed, running>>

\* A burst is executed without what has been put aside before it; an exception ends
\* the process.
SignUpBurst(t) ==
    /\ executed' = executed \o BurstCommands(t)
    /\ running' = ~BurstThrows(t)
    /\ UNCHANGED <<eofBuffer, eofFlag>>

\* The command, with what has been put aside in front of it.
Execute(t) ==
    /\ executed' = Append(executed, cmdVector(IF eofFlag THEN eofBuffer \o t ELSE t))
    /\ eofFlag' = FALSE
    /\ eofBuffer' = IF eofFlag THEN <<>> ELSE eofBuffer
    /\ UNCHANGED running

\* Mutant: a text that is nothing but the newline is ignored.
run_Mut(t) ==
    \/ (CapLs(t) \/ t = <<LF>>) /\ Ignore
    \/ ~CapLs(t) /\ ~Has(t, LF) /\ PutAside(t)
    \/ ~CapLs(t) /\ Has(t, LF) /\ IsBurst(t) /\ SignUpBurst(t)
    \/ ~CapLs(t) /\ Has(t, LF) /\ ~IsBurst(t) /\ t # <<LF>> /\ Execute(t)
\* Mutant: a text that does not end with a newline is put aside.
run_AtEnd(t) ==
    LET ended == t # <<>> /\ Last(t) = LF IN
    \/ CapLs(t) /\ Ignore
    \/ ~CapLs(t) /\ ~ended /\ PutAside(t)
    \/ ~CapLs(t) /\ ended /\ IsBurst(t) /\ SignUpBurst(t)
    \/ ~CapLs(t) /\ ended /\ ~IsBurst(t) /\ Execute(t)
run(t) ==
    \/ CapLs(t) /\ Ignore
    \/ ~CapLs(t) /\ ~Has(t, LF) /\ PutAside(t)
    \/ ~CapLs(t) /\ Has(t, LF) /\ IsBurst(t) /\ SignUpBurst(t)
    \/ ~CapLs(t) /\ Has(t, LF) /\ ~IsBurst(t) /\ Execute(t)

-----------------------------------------------------------------------------
\* The client

\* A line as it is sent.
Encode(line) ==
    FlattenSeq([i \in DOMAIN line |-> line[i] \o IF i = Len(line) THEN <<CR, LF>> ELSE <<SP>>])
Stream(lines) == FlattenSeq([i \in DOMAIN lines |-> Encode(lines[i])])

\* The next line of a script.
Write(script) ==
    /\ running /\ IsStrictPrefix(written, script)
    /\ written' = Append(written, script[Len(written) + 1])
    /\ wire' = wire \o Encode(script[Len(written) + 1])
    /\ UNCHANGED <<eofBuffer, eofFlag, executed, running, tidy>>

(***************************************************************************)
(* A recv() that gives the code what it is made for: no more than the      *)
(* limit, no NUL, no "CAP LS", and part of a line, the rest of one, or,    *)
(* with nothing put aside, complete PASS, NICK and USER lines and no       *)
(* others, with single blanks between their words only.                    *)
(***************************************************************************)
OneLine(bytes) == \A i \in DOMAIN bytes : bytes[i] = LF => i = Len(bytes)
SingleBlanks(bytes) ==
    \A i \in DOMAIN bytes : bytes[i] = SP =>
        i > 1 /\ bytes[i - 1] \notin {SP, LF} /\ bytes[i + 1] \notin {SP, CR}
SignUpOnly(bytes) ==
    /\ eofBuffer = <<>> /\ Last(bytes) = LF /\ SingleBlanks(bytes)
    /\ Len(BurstCommands(bytes)) = Len(getline(bytes, LF))
TidyText(bytes) ==
    /\ Len(bytes) <= Limit /\ ~Has(bytes, NUL) /\ ~CapLs(bytes)
    /\ IF Has(bytes, LF) /\ IsBurst(bytes) THEN SignUpOnly(bytes) ELSE OneLine(bytes)

\* The n bytes that had come when kevent() returned are read.
Read(n) ==
    /\ running
    /\ wire' = SubSeq(wire, n + 1, Len(wire))
    /\ run(getMessage(SubSeq(wire, 1, n)))
    /\ tidy' = (tidy /\ TidyText(SubSeq(wire, 1, n)))
    /\ UNCHANGED written

\* Mutant: the next connection finds the fragments of the one before.
NewConnection_Mut ==
    /\ wire' = <<>> /\ executed' = <<>> /\ written' = <<>> /\ tidy' = TRUE
    /\ running /\ UNCHANGED <<eofBuffer, eofFlag, running>>
\* The connection ends, and another one gets the descriptor.  Its client is the blank
\* one run() made of the end of file, with the flag set, or a copy by Client's copy
\* constructor, which leaves the flag uninitialized: the flag may have any value.
NewConnection ==
    /\ running /\ UNCHANGED running
    /\ wire' = <<>> /\ executed' = <<>> /\ written' = <<>> /\ tidy' = TRUE
    /\ eofBuffer' = <<>>
    /\ eofFlag' \in BOOLEAN

FramingInit ==
    /\ running = TRUE
    /\ wire = <<>> /\ executed = <<>> /\ written = <<>> /\ tidy = TRUE
    /\ eofBuffer = <<>>
    /\ eofFlag \in BOOLEAN

-----------------------------------------------------------------------------
\* What a handler gets of a line: its words, or, of a USER line in a burst, four words
\* and all that follows them as one, as it was sent but for the LF.
Rest(line) == IF Len(line) = 4 THEN <<CR>> ELSE Front(Encode(SubSeq(line, 5, Len(line))))
IsCommandOf(cmd, line) ==
    \/ cmd = UpperFirst(line)
    \/ /\ line[1] = <<"USER">> /\ Len(line) > 3
       /\ cmd = UpperFirst(Append(SubSeq(line, 1, 4), Rest(line)))

\* As long as every recv() was a tidy one, the commands executed are the first of the
\* lines written, in order and complete, and the rest of the stream is in the fragment
\* buffer and on the wire, however the stream was cut into pieces and whoever had the
\* descriptor before.
LinesExact ==
    tidy => LET n == Len(executed) IN
            /\ n <= Len(written)
            /\ \A i \in 1 .. n : IsCommandOf(executed[i], written[i])
            /\ eofBuffer \o wire = Stream(SubSeq(written, n + 1, Len(written)))

\* How often s is in a text, whatever its case, and in the lines as they are sent.
Count(s, t) == Cardinality({i \in DOMAIN t : Upper[t[i]] = s})
Occurrences(s, lines) == Count(s, Stream(lines))

\* Nothing a client has sent is executed twice, and nothing else is executed in its
\* name, tidy or not: of each symbol of a word, there are as many in commands, fragment
\* buffer and on the wire as the client has written, or fewer.
NothingTwice ==
    \A s \in Symbols \ {SP, CR, LF, NUL} :
        Occurrences(s, executed) + Count(s, eofBuffer \o wire) <= Occurrences(s, written)
=============================================================================
