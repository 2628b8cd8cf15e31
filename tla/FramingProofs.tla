--------------------------- MODULE FramingProofs ----------------------------
(***************************************************************************)
(* How the bytes of a connection become commands, for every alphabet, script *)
(* and limit: the types, that lines are executed exactly as long as every  *)
(* recv() is a tidy one, and that nothing is executed twice.               *)
(***************************************************************************)
EXTENDS TextProofs

(***************************************************************************)
(* The types of what is read                                               *)
(***************************************************************************)
\* The marks are texts.
LEMMA Marks == {<<SP>>, <<CR, LF>>, <<CR, LF, NUL>>} \subseteq Text
<1>1. SP \in Symbols /\ CR \in Symbols /\ LF \in Symbols /\ NUL \in Symbols
    BY FramingAssumption
<1> HIDE DEF SP, CR, LF, NUL
<1> QED BY <1>1 DEF Text

\* A line as it is sent is a text.
LEMMA EncodeText ==
    ASSUME NEW line \in Seq(Text)
    PROVE  Encode(line) \in Text
<1> DEFINE part(i) == line[i] \o IF i = Len(line) THEN <<CR, LF>> ELSE <<SP>>
<1>1. Len(line) \in Nat /\ DOMAIN line = 1 .. Len(line)
    BY LenProperties
<1>2. ASSUME NEW i \in 1 .. Len(line) PROVE part(i) \in Text
    <2>1. line[i] \in Text
        BY ElementOfSeq
    <2> QED BY <2>1, Marks, ConcatProperties DEF Text
<1> HIDE DEF part
<1>3. [i \in 1 .. Len(line) |-> part(i)] \in Seq(Text)
    BY <1>1, <1>2
<1>4. FlattenSeq([i \in 1 .. Len(line) |-> part(i)]) \in Text
    BY <1>3, FlattenList DEF Text
<1> QED BY <1>1, <1>4 DEF Encode, part

\* A command in capitals is a list of words.
LEMMA UpperFirstWords ==
    ASSUME NEW ws \in Seq(Text)
    PROVE  UpperFirst(ws) \in Seq(Text)
<1> DEFINE first == [i \in DOMAIN ws[1] |-> Upper[ws[1][i]]]
<1>1. Len(ws) \in Nat /\ ws \in [1 .. Len(ws) -> Text]
    BY LenProperties
<1>2. ASSUME 1 \in DOMAIN ws PROVE first \in Text
    <2>1. ws[1] \in Seq(Symbols)
        BY <1>1, <1>2 DEF Text
    <2>2. Len(ws[1]) \in Nat /\ DOMAIN ws[1] = 1 .. Len(ws[1])
        BY <2>1, LenProperties
    <2>3. \A i \in 1 .. Len(ws[1]) : Upper[ws[1][i]] \in Symbols
        BY <2>1, <2>2, ElementOfSeq, FramingAssumption
    <2> QED BY <2>2, <2>3 DEF Text
<1>3. UpperFirst(ws) = [ws EXCEPT ![1] = first]
    BY DEF UpperFirst
<1> HIDE DEF first
<1>4. UpperFirst(ws) \in [1 .. Len(ws) -> Text]
    BY <1>1, <1>2, <1>3
<1> QED BY <1>1, <1>4

\* A word without the end of its line is its first part.
LEMMA TrimmedPart ==
    ASSUME NEW w \in Text
    PROVE  \E n \in 0 .. Len(w) : TrimEnd(w) = SubSeq(w, 1, n)
<1> DEFINE T == {0} \cup {i \in DOMAIN w : w[i] \notin {CR, LF}}
<1>1. Len(w) \in Nat /\ DOMAIN w = 1 .. Len(w)
    BY LenProperties DEF Text
<1>2. T \subseteq 0 .. Len(w) /\ T # {}
    BY <1>1
<1>3. TrimEnd(w) = SubSeq(w, 1, Max(T))
    BY DEF TrimEnd
<1> HIDE DEF T
<1>4. Max(T) \in T
    BY <1>1, <1>2, GreatestIn
<1> QED BY <1>2, <1>3, <1>4

\* A word without the end of its line is a text.
LEMMA TrimmedText ==
    ASSUME NEW w \in Text
    PROVE  TrimEnd(w) \in Text
<1>1. PICK n \in 0 .. Len(w) : TrimEnd(w) = SubSeq(w, 1, n)
    BY TrimmedPart
<1>2. n \in Int /\ n <= Len(w)
    BY LenProperties DEF Text
<1> QED BY <1>1, <1>2, PartOfList DEF Text

\* cmdVector gives words.
LEMMA CmdVectorWords ==
    ASSUME NEW t \in Text
    PROVE  cmdVector(t) \in Seq(Text)
<1> DEFINE ws == getline(t, SP)
<1>1. ws \in Seq(Text)
    BY GetlineList DEF Text
<1> HIDE DEF ws
<1>2. Len(ws) \in Nat /\ DOMAIN ws = 1 .. Len(ws) /\ \A i \in 1 .. Len(ws) : TrimEnd(ws[i]) \in Text
    BY <1>1, LenProperties, ElementOfSeq, TrimmedText
<1>3. [i \in DOMAIN ws |-> TrimEnd(ws[i])] \in Seq(Text)
    BY <1>2
<1>4. UpperFirst([i \in DOMAIN ws |-> TrimEnd(ws[i])]) \in Seq(Text)
    BY <1>3, UpperFirstWords
<1> QED BY <1>4 DEF cmdVector, ws

\* The words of a line of a burst are texts.
LEMMA WordsText ==
    ASSUME NEW line \in Text
    PROVE  Words(line) \in Seq(Text)
<1> DEFINE blank == [i \in DOMAIN line |-> IF line[i] = CR THEN SP ELSE line[i]]
           ws == getline(blank, SP)
           P == {i \in DOMAIN ws : ws[i] # <<>>}
<1>1. SP \in Symbols /\ Len(line) \in Nat /\ DOMAIN line = 1 .. Len(line)
    BY FramingAssumption, LenProperties DEF Text
<1>2. \A i \in 1 .. Len(line) : line[i] \in Symbols
    BY ElementOfSeq DEF Text
<1>3. blank \in Text
    <2> HIDE DEF SP, CR
    <2> QED BY <1>1, <1>2 DEF Text
<1> HIDE DEF blank
<1>4. ws \in Seq(Text)
    BY <1>3, GetlineList DEF Text
<1>5. P \subseteq DOMAIN ws
    OBVIOUS
<1> HIDE DEF ws, P
<1>6. Chosen(ws, P) \in Seq(Text)
    BY <1>4, <1>5, ChosenList
<1> QED BY <1>6 DEF Words, ws, P, blank

\* The next word of a text and the rest are texts, and no symbol is in both.
LEMMA NextTexts ==
    ASSUME NEW t \in Text
    PROVE  /\ NextWord(t) \in Text /\ AfterWord(t) \in Text
           /\ \A s : Count(s, NextWord(t)) + Count(s, AfterWord(t)) <= Count(s, t)
<1>1. PICK u \in Text : u = From(t, Symbols \ Blanks) /\ \A s : Count(s, u) <= Count(s, t)
    <2>1. /\ UpTo(t, Symbols \ Blanks) \in Text /\ From(t, Symbols \ Blanks) \in Text
          /\ \A s : Count(s, t) = Count(s, UpTo(t, Symbols \ Blanks)) + Count(s, From(t, Symbols \ Blanks))
        BY CutParts
    <2>2. ASSUME NEW s PROVE Count(s, From(t, Symbols \ Blanks)) <= Count(s, t)
        <3>1. PICK x \in Nat, y \in Nat :
                  x = Count(s, UpTo(t, Symbols \ Blanks)) /\ y = Count(s, From(t, Symbols \ Blanks))
            BY <2>1, CountNat
        <3> QED BY <2>1, <3>1
    <2> QED BY <2>1, <2>2
<1>2. /\ NextWord(t) \in Text /\ AfterWord(t) \in Text
      /\ \A s : Count(s, u) = Count(s, NextWord(t)) + Count(s, AfterWord(t))
    BY <1>1, CutParts DEF NextWord, AfterWord
<1>3. ASSUME NEW s PROVE Count(s, NextWord(t)) + Count(s, AfterWord(t)) <= Count(s, t)
    BY <1>1, <1>2
<1> QED BY <1>2, <1>3

\* So are the five words of a USER line, which are cut from it one after the other.
LEMMA UserTexts ==
    ASSUME NEW line \in Text
    PROVE  \E a \in Text, b \in Text, c \in Text, d \in Text, e \in Text :
               /\ UserWords(line) = <<a, b, c, d, e>>
               /\ \A s : Count(s, a) + (Count(s, b) + (Count(s, c) + (Count(s, d) + Count(s, e))))
                             <= Count(s, line)
<1>1. PICK a \in Text, x \in Text :
          /\ a = NextWord(line) /\ x = AfterWord(line)
          /\ \A s : Count(s, a) + Count(s, x) <= Count(s, line)
    BY NextTexts
<1>2. PICK b \in Text, y \in Text :
          b = NextWord(x) /\ y = AfterWord(x) /\ \A s : Count(s, b) + Count(s, y) <= Count(s, x)
    BY NextTexts
<1>3. PICK c \in Text, z \in Text :
          c = NextWord(y) /\ z = AfterWord(y) /\ \A s : Count(s, c) + Count(s, z) <= Count(s, y)
    BY NextTexts
<1>4. PICK d \in Text, w \in Text :
          d = NextWord(z) /\ w = AfterWord(z) /\ \A s : Count(s, d) + Count(s, w) <= Count(s, z)
    BY NextTexts
<1>5. PICK v \in Text, e \in Text :
          /\ v = UpTo(w, Symbols \ {SP}) /\ e = From(w, Symbols \ {SP})
          /\ \A s : Count(s, w) = Count(s, v) + Count(s, e)
    BY CutParts
<1>6. UserWords(line) = <<a, b, c, d, e>>
    BY <1>1, <1>2, <1>3, <1>4, <1>5 DEF UserWords, RealName
<1>7. ASSUME NEW s
      PROVE  Count(s, a) + (Count(s, b) + (Count(s, c) + (Count(s, d) + Count(s, e)))) <= Count(s, line)
    <2>1. PICK na \in Nat, nb \in Nat, nc \in Nat, nd \in Nat, ne \in Nat :
              /\ na = Count(s, a) /\ nb = Count(s, b) /\ nc = Count(s, c) /\ nd = Count(s, d)
              /\ ne = Count(s, e)
        BY CountNat
    <2>2. PICK nx \in Nat, ny \in Nat, nz \in Nat, nw \in Nat, nv \in Nat, nl \in Nat :
              /\ nx = Count(s, x) /\ ny = Count(s, y) /\ nz = Count(s, z) /\ nw = Count(s, w)
              /\ nv = Count(s, v) /\ nl = Count(s, line)
        BY CountNat
    <2>3. na + nx <= nl /\ nb + ny <= nx /\ nc + nz <= ny /\ nd + nw <= nz /\ nw = nv + ne
        BY <1>1, <1>2, <1>3, <1>4, <1>5, <2>1, <2>2
    <2>4. na + (nb + (nc + (nd + ne))) <= nl
        BY <2>3
    <2> QED BY <2>1, <2>2, <2>4
<1> QED BY <1>6, <1>7

\* What a handler gets of a line of a burst are words.
LEMMA LineWordsText ==
    ASSUME NEW line \in Text
    PROVE  LineWords(line) \in Seq(Text)
<1>1. UserWords(line) \in Seq(Text)
    <2>1. PICK a \in Text, b \in Text, c \in Text, d \in Text, e \in Text :
              UserWords(line) = <<a, b, c, d, e>>
        BY UserTexts
    <2> QED BY <2>1
<1> QED BY <1>1, WordsText DEF LineWords

\* How many lines of a burst are executed before one that throws.
Done(ls) == Min({Len(ls) + 1} \cup {i \in DOMAIN ls : Throws(ls[i])}) - 1

\* None of them throws.
LEMMA DoneIs ==
    ASSUME NEW ls \in Seq(Text)
    PROVE  Done(ls) \in 0 .. Len(ls) /\ \A i \in 1 .. Done(ls) : ~Throws(ls[i])
<1> DEFINE T == {Len(ls) + 1} \cup {i \in DOMAIN ls : Throws(ls[i])}
<1>1. Len(ls) \in Nat /\ DOMAIN ls = 1 .. Len(ls)
    BY LenProperties
<1>2. /\ T \subseteq 1 .. Len(ls) + 1 /\ T \subseteq Nat /\ T # {}
      /\ \A i \in 1 .. Len(ls) : Throws(ls[i]) => i \in T
    BY <1>1
<1>3. Done(ls) = Min(T) - 1
    BY DEF Done
<1> HIDE DEF T
<1>4. \E x \in T : \A y \in T : x <= y
    BY <1>2, LeastExists
<1>5. Min(T) \in T /\ \A y \in T : Min(T) <= y
    BY <1>4 DEF Min
<1>6. PICK m \in T : m = Min(T) /\ \A y \in T : m <= y
    BY <1>5
<1>7. m \in 1 .. Len(ls) + 1 /\ Done(ls) = m - 1
    BY <1>2, <1>3, <1>6
<1>8. ASSUME NEW i \in 1 .. m - 1 PROVE ~Throws(ls[i])
    <2>1. i \in 1 .. Len(ls) /\ ~(m <= i)
        BY <1>1, <1>7
    <2> QED BY <1>2, <1>6, <2>1
<1> QED BY <1>1, <1>7, <1>8

\* What is made of them, and which of it is PASS, NICK or USER.
Commands(ls) == [i \in 1 .. Done(ls) |-> LineWords(ls[i])]
Signing(cmds) == {i \in DOMAIN cmds :
                     cmds[i] # <<>> /\ \E k \in Registration : UpperFirst(cmds[i])[1] = <<k>>}

\* The lines that are executed are lists of words.
LEMMA CommandsAre ==
    ASSUME NEW ls \in Seq(Text)
    PROVE  /\ Commands(ls) \in Lines /\ Len(Commands(ls)) = Done(ls)
           /\ DOMAIN Commands(ls) = 1 .. Done(ls)
           /\ \A i \in 1 .. Done(ls) : Commands(ls)[i] = LineWords(ls[i]) /\ ls[i] \in Text
<1>1. PICK m \in 0 .. Len(ls) : m = Done(ls)
    BY DoneIs
<1>2. Len(ls) \in Nat /\ m \in Nat
    BY LenProperties
<1>3. \A i \in 1 .. m : ls[i] \in Text
    <2> TAKE i \in 1 .. m
    <2>1. i \in 1 .. Len(ls)
        BY <1>2
    <2> QED BY <2>1, ElementOfSeq
<1>4. \A i \in 1 .. m : LineWords(ls[i]) \in Seq(Text)
    BY <1>3, LineWordsText
<1>5. Commands(ls) = [i \in 1 .. m |-> LineWords(ls[i])]
    BY <1>1 DEF Commands
<1>6. Commands(ls) \in Lines
    BY <1>2, <1>4, <1>5 DEF Lines
<1>7. Len(Commands(ls)) = m /\ DOMAIN Commands(ls) = 1 .. m
    BY <1>2, <1>5
<1> QED BY <1>1, <1>3, <1>5, <1>6, <1>7

\* BurstCommands, by its parts.
LEMMA BurstIs ==
    ASSUME NEW t, NEW cmds, cmds = Commands(getline(t, LF)), NEW known, known = Chosen(cmds, Signing(cmds))
    PROVE  BurstCommands(t) = [i \in DOMAIN known |-> UpperFirst(known[i])]
BY DEF BurstCommands, Commands, Done, Signing

\* irssiSignUp gives lines.
LEMMA BurstLines ==
    ASSUME NEW t \in Text
    PROVE  BurstCommands(t) \in Lines
<1>1. PICK ls \in Seq(Text) : ls = getline(t, LF)
    BY GetlineList DEF Text
<1>2. PICK cmds \in Lines : cmds = Commands(ls)
    BY CommandsAre
<1>3. Signing(cmds) \subseteq DOMAIN cmds
    BY DEF Signing
<1>4. PICK known \in Lines : known = Chosen(cmds, Signing(cmds))
    BY <1>3, ChosenList DEF Lines
<1>5. Len(known) \in Nat /\ DOMAIN known = 1 .. Len(known)
      /\ \A i \in 1 .. Len(known) : UpperFirst(known[i]) \in Seq(Text)
    BY <1>4, LenProperties, ElementOfSeq, UpperFirstWords DEF Lines
<1>6. [i \in DOMAIN known |-> UpperFirst(known[i])] \in Lines
    BY <1>5 DEF Lines
<1>7. BurstCommands(t) = [i \in DOMAIN known |-> UpperFirst(known[i])]
    BY <1>1, <1>2, <1>4, BurstIs
<1> QED BY <1>6, <1>7

\* getMessage gives a text.
LEMMA MessageText ==
    ASSUME NEW bytes \in Text
    PROVE  getMessage(bytes) \in Text
<1> DEFINE T == {Len(bytes)} \cup {i - 1 : i \in {j \in DOMAIN bytes : bytes[j] = NUL}}
<1>1. Len(bytes) \in Nat /\ DOMAIN bytes = 1 .. Len(bytes) /\ Limit \in Nat
    BY LenProperties, FramingAssumption DEF Text
<1>2. CASE Len(bytes) > Limit
    <2>1. SubSeq(bytes, 1, Limit - 2) \in Text
        <3>1. Limit - 2 \in Int /\ Limit - 2 <= Len(bytes)
            BY <1>1, <1>2
        <3> QED BY <3>1, PartOfList DEF Text
    <2>2. SubSeq(bytes, 1, Limit - 2) \o <<CR, LF, NUL>> \in Text
        BY <2>1, Marks, ConcatProperties DEF Text
    <2> QED BY <1>2, <2>2 DEF getMessage
<1>3. CASE ~(Len(bytes) > Limit)
    <2>1. T \subseteq 0 .. Len(bytes) /\ T \subseteq Nat /\ T # {}
        BY <1>1
    <2> HIDE DEF T
    <2>2. Min(T) \in T
        BY <2>1, LeastExists DEF Min
    <2>3. PICK n \in 0 .. Len(bytes) : n = Min(T)
        BY <2>1, <2>2
    <2>4. n \in Int /\ n <= Len(bytes)
        BY <1>1
    <2>5. SubSeq(bytes, 1, Min(T)) \in Text
        BY <2>3, <2>4, PartOfList DEF Text
    <2> QED BY <1>3, <2>5 DEF getMessage, T
<1> QED BY <1>2, <1>3

\* The types of what Framing keeps.
FramingTypes ==
    /\ wire \in Text /\ eofBuffer \in Text /\ eofFlag \in BOOLEAN /\ running \in BOOLEAN
    /\ eofBuffer \in Seq(Symbols \ {LF})
    /\ executed \in Lines /\ written \in Lines /\ tidy \in BOOLEAN

\* A text is run: the commands executed grow, if at all.
LEMMA RunTypes ==
    ASSUME FramingTypes, NEW t \in Text, run(t)
    PROVE  /\ eofBuffer' \in Text /\ eofFlag' \in BOOLEAN /\ executed' \in Lines
           /\ running' \in BOOLEAN /\ eofBuffer' \in Seq(Symbols \ {LF})
           /\ Len(executed') - Len(executed) \in Nat
<1> USE DEF FramingTypes
<1>1. Len(executed) \in Nat
    BY LenProperties DEF Lines
<1>2. CASE Ignore
    BY <1>1, <1>2 DEF Ignore
<1>3. CASE ~Has(t, LF) /\ PutAside(t)
    <2>1. t \in Seq(Symbols \ {LF})
        <3>1. Len(t) \in Nat /\ t = [i \in 1 .. Len(t) |-> t[i]] /\ \A i \in 1 .. Len(t) : t[i] \in Symbols
            BY LenProperties, ElementOfSeq DEF Text
        <3>2. \A i \in 1 .. Len(t) : t[i] # LF
            BY <1>3, <3>1 DEF Has, ToSet
        <3>3. [i \in 1 .. Len(t) |-> t[i]] \in Seq(Symbols \ {LF})
            BY <3>1, <3>2
        <3> QED BY <3>1, <3>3
    <2>2. eofBuffer \o t \in Seq(Symbols \ {LF}) /\ eofBuffer \o t \in Text
        BY <2>1, ConcatProperties DEF Text
    <2> QED BY <1>1, <1>3, <2>2 DEF PutAside
<1>4. CASE SignUpBurst(t)
    <2>1. BurstCommands(t) \in Lines
        BY BurstLines
    <2>2. Len(BurstCommands(t)) \in Nat
        BY <2>1, LenProperties DEF Lines
    <2>3. executed' \in Lines /\ Len(executed') = Len(executed) + Len(BurstCommands(t))
        BY <1>4, <2>1, ConcatProperties DEF SignUpBurst, Lines
    <2>4. running' \in BOOLEAN
        BY <1>4 DEF SignUpBurst, BurstThrows
    <2> QED BY <1>1, <1>4, <2>2, <2>3, <2>4 DEF SignUpBurst
<1>5. CASE Execute(t)
    <2> DEFINE whole == IF eofFlag THEN eofBuffer \o t ELSE t
    <2>1. whole \in Text
        BY ConcatProperties DEF Text
    <2> HIDE DEF whole
    <2>2. cmdVector(whole) \in Seq(Text)
        BY <2>1, CmdVectorWords
    <2>3. executed' = Append(executed, cmdVector(whole))
        BY <1>5 DEF Execute, whole
    <2>4. executed' \in Lines /\ Len(executed') = Len(executed) + 1
        BY <2>2, <2>3, AppendProperties DEF Lines
    <2>5. /\ eofBuffer' \in Text /\ eofBuffer' \in Seq(Symbols \ {LF})
          /\ eofFlag' \in BOOLEAN /\ running' \in BOOLEAN
        BY <1>5, EmptySeq DEF Execute, Text
    <2> QED BY <1>1, <2>4, <2>5
<1> QED BY <1>2, <1>3, <1>4, <1>5 DEF run

\* The line that is written is one of the script.
LEMMA NextLine ==
    ASSUME written \in Lines, NEW script \in Scripts, Write(script)
    PROVE  Len(written) + 1 \in 1 .. Len(script) /\ script[Len(written) + 1] \in Seq(Text)
<1>1. script \in Lines
    <2>1. script \in Seq(Seq(Seq(Symbols \ {SP, CR, LF})) \ {<<>>})
        BY FramingAssumption
    <2>2. Seq(Seq(Symbols \ {SP, CR, LF})) \ {<<>>} \subseteq Seq(Text)
        <3>1. Seq(Symbols \ {SP, CR, LF}) \subseteq Text
            BY SeqMonotonic DEF Text
        <3> QED BY <3>1, SeqMonotonic
    <2> QED BY <2>1, <2>2, SeqMonotonic DEF Lines
<1>2. PICK n \in Nat, m \in Nat : n = Len(written) /\ m = Len(script)
    BY <1>1, LenProperties DEF Lines
<1>3. n <= m
    BY <1>2 DEF Write, IsStrictPrefix, IsPrefix
<1>4. n # m
    <2> SUFFICES ASSUME n = m PROVE FALSE
        OBVIOUS
    <2>1. SubSeq(written, 1, Len(written)) = written /\ SubSeq(script, 1, Len(script)) = script
        BY <1>1, SubSeqFull DEF Lines
    <2> QED BY <1>2, <2>1 DEF Write, IsStrictPrefix, IsPrefix
<1>5. Len(written) + 1 \in 1 .. Len(script)
    BY <1>2, <1>3, <1>4
<1> QED BY <1>1, <1>5, ElementOfSeq DEF Lines

\* Write keeps the types.
LEMMA WriteTypes ==
    ASSUME FramingTypes, NEW script \in Scripts, Write(script)
    PROVE  FramingTypes'
<1> USE DEF FramingTypes
<1> DEFINE line == script[Len(written) + 1]
<1>1. line \in Seq(Text)
    BY NextLine
<1> HIDE DEF line
<1>2. written' \in Lines
    BY <1>1, AppendProperties DEF Write, line, Lines
<1>3. wire' \in Text
    BY <1>1, EncodeText, ConcatProperties DEF Write, line, Text
<1> QED BY <1>2, <1>3 DEF Write

\* Read keeps the types, and takes back no command.
LEMMA ReadTypes ==
    ASSUME FramingTypes, NEW n \in 1 .. Len(wire), Read(n)
    PROVE  FramingTypes' /\ Len(executed') - Len(executed) \in Nat
<1> USE DEF FramingTypes
<1>1. Len(wire) \in Nat
    BY LenProperties DEF Text
<1>2. SubSeq(wire, 1, n) \in Text /\ SubSeq(wire, n + 1, Len(wire)) \in Text
    BY <1>1, PartOfList DEF Text
<1>3. getMessage(SubSeq(wire, 1, n)) \in Text
    BY <1>2, MessageText
<1>4. TidyText(SubSeq(wire, 1, n)) \in BOOLEAN
    BY DEF TidyText, SignUpOnly, OneLine
<1> QED BY <1>2, <1>3, <1>4, RunTypes DEF Read

-----------------------------------------------------------------------------
(***************************************************************************)
(* Lines as they are sent                                                  *)
(***************************************************************************)
\* What the words of a script are made of, and a line of such words.
Plain     == Symbols \ {SP, CR, LF}
PlainLine == Seq(Seq(Plain)) \ {<<>>}

\* The marks are symbols, all different, and in no plain word.
LEMMA MarksDiffer ==
    /\ SP \in Symbols /\ CR \in Symbols /\ LF \in Symbols /\ NUL \in Symbols
    /\ SP # CR /\ SP # LF /\ CR # LF /\ NUL # SP /\ NUL # CR /\ NUL # LF
    /\ SP \notin Plain /\ CR \notin Plain /\ LF \notin Plain
<1>1. SP \in Symbols /\ CR \in Symbols /\ LF \in Symbols /\ NUL \in Symbols
    BY FramingAssumption
<1>2. SP # CR /\ SP # LF /\ CR # LF /\ NUL # SP /\ NUL # CR /\ NUL # LF
    BY DEF SP, CR, LF, NUL
<1> QED BY <1>1, <1>2 DEF Plain

\* A plain line is a list of texts without blanks and ends of line.
LEMMA PlainLineIs ==
    ASSUME NEW line \in PlainLine
    PROVE  /\ line \in Seq(Text) /\ line \in Seq(Seq(Plain)) /\ Len(line) \in Nat \ {0}
           /\ line \in Seq(Seq(Symbols \ {SP})) /\ line \in Seq(Seq(Symbols \ {CR, LF}))
           /\ \A i \in 1 .. Len(line) : line[i] \in Seq(Plain) /\ line[i] \in Text
<1>1. line \in Seq(Seq(Plain)) /\ line # <<>>
    BY DEF PlainLine
<1>2. /\ Seq(Plain) \subseteq Text /\ Seq(Plain) \subseteq Seq(Symbols \ {SP})
      /\ Seq(Plain) \subseteq Seq(Symbols \ {CR, LF})
    <2>1. Plain \subseteq Symbols /\ Plain \subseteq Symbols \ {SP} /\ Plain \subseteq Symbols \ {CR, LF}
        BY DEF Plain
    <2> QED BY <2>1, SeqMonotonic DEF Text
<1>3. /\ line \in Seq(Text) /\ line \in Seq(Seq(Symbols \ {SP}))
      /\ line \in Seq(Seq(Symbols \ {CR, LF}))
    BY <1>1, <1>2, SeqMonotonic
<1>4. Len(line) \in Nat \ {0}
    BY <1>1, EmptySeq
<1>5. \A i \in 1 .. Len(line) : line[i] \in Seq(Plain)
    BY <1>1, ElementOfSeq
<1> QED BY <1>1, <1>2, <1>3, <1>4, <1>5

\* The text of a line, without its end.
Body(line) == FlattenSeq(Ended(Front(line), SP)) \o line[Len(line)]

\* The text of a line has no end of line in it.
LEMMA BodyText ==
    ASSUME NEW line \in PlainLine
    PROVE  /\ Body(line) \in Seq(Symbols \ {CR, LF}) /\ Body(line) \in Text
           /\ FlattenSeq(Ended(Front(line), SP)) \in Text
<1> DEFINE S == Symbols \ {CR, LF}
<1>1. SP \in S /\ S \subseteq Symbols
    BY MarksDiffer
<1>2. line \in Seq(Seq(S)) /\ line # <<>>
    BY PlainLineIs DEF PlainLine
<1> HIDE DEF S
<1>3. Front(line) \in Seq(Seq(S)) /\ line[Len(line)] \in Seq(S)
    BY <1>2, FrontIs
<1>4. FlattenSeq(Ended(Front(line), SP)) \in Seq(S)
    BY <1>1, <1>3, EndedList, FlattenList
<1>5. Body(line) \in Seq(S)
    BY <1>3, <1>4, ConcatProperties DEF Body
<1>6. Seq(S) \subseteq Text
    BY <1>1, SeqMonotonic DEF Text
<1> QED BY <1>4, <1>5, <1>6 DEF S

\* Encode puts a blank after each word but the last, and the end of the line.
LEMMA EncodeMade ==
    ASSUME NEW line \in PlainLine
    PROVE  Encode(line) = Body(line) \o <<CR, LF>>
<1> DEFINE n == Len(line)
           parts == [i \in DOMAIN line |-> line[i] \o IF i = n THEN <<CR, LF>> ELSE <<SP>>]
           front == Front(line)
           last == line[n] \o <<CR, LF>>
           made == Append(Ended(front, SP), last)
<1>1. /\ n \in Nat \ {0} /\ DOMAIN line = 1 .. n /\ line \in Seq(Text) /\ line # <<>>
      /\ \A i \in 1 .. n : line[i] \in Text
    BY PlainLineIs, LenProperties DEF PlainLine
<1>2. <<SP>> \in Text /\ <<CR, LF>> \in Text
    BY Marks
<1>3. /\ front \in Seq(Text) /\ Len(front) = n - 1 /\ line = Append(front, line[n])
      /\ \A i \in 1 .. n - 1 : front[i] = line[i]
    <2>1. front \in Seq(Text) /\ Len(front) = n - 1 /\ line = Append(front, line[n])
        BY <1>1, FrontIs
    <2> HIDE DEF front
    <2>2. line[n] \in Text
        BY <1>1
    <2>3. \A i \in 1 .. Len(front) : Append(front, line[n])[i] = front[i]
        BY <2>1, <2>2, AppendProperties
    <2> QED BY <2>1, <2>3
<1> HIDE DEF front
<1>4. /\ Ended(front, SP) \in Seq(Text) /\ Len(Ended(front, SP)) = n - 1
      /\ \A i \in 1 .. n - 1 : Ended(front, SP)[i] = front[i] \o <<SP>>
    BY <1>3, MarksDiffer, EndedList DEF Text
<1>5. last \in Text
    BY <1>1, <1>2, ConcatProperties DEF Text
<1>6. parts \in Seq(Text) /\ Len(parts) = n
    <2>1. \A i \in 1 .. n : line[i] \o (IF i = n THEN <<CR, LF>> ELSE <<SP>>) \in Text
        BY <1>1, <1>2, ConcatProperties DEF Text
    <2> HIDE DEF n
    <2>2. [i \in 1 .. n |-> line[i] \o IF i = n THEN <<CR, LF>> ELSE <<SP>>] \in Seq(Text)
        BY <1>1, <2>1
    <2>3. parts \in Seq(Text)
        BY <1>1, <2>2
    <2> QED BY <1>1, <2>3, LenProperties
<1>7. /\ made \in Seq(Text) /\ Len(made) = n /\ made[n] = last
      /\ \A i \in 1 .. n - 1 : made[i] = Ended(front, SP)[i]
    <2> HIDE DEF last
    <2>1. /\ made \in Seq(Text) /\ Len(made) = Len(Ended(front, SP)) + 1
          /\ made[Len(Ended(front, SP)) + 1] = last
          /\ \A i \in 1 .. Len(Ended(front, SP)) : made[i] = Ended(front, SP)[i]
        BY <1>4, <1>5, AppendProperties
    <2>2. Len(Ended(front, SP)) + 1 = n
        BY <1>1, <1>4
    <2> QED BY <1>4, <2>1, <2>2
<1>8. ASSUME NEW i \in 1 .. n PROVE parts[i] = made[i]
    <2>1. parts[i] = line[i] \o IF i = n THEN <<CR, LF>> ELSE <<SP>>
        BY <1>1
    <2>2. CASE i = n
        BY <1>7, <2>1, <2>2
    <2>3. CASE i # n
        <3>1. i \in 1 .. n - 1
            <4>1. n \in Nat /\ i \in 1 .. n
                BY <1>1
            <4> HIDE DEF n
            <4> QED BY <2>3, <4>1
        <3> HIDE DEF parts, made, n
        <3> QED BY <1>3, <1>4, <1>7, <2>1, <2>3, <3>1
    <2> QED BY <2>2, <2>3
<1>9. parts = made
    <2> HIDE DEF parts, made, n
    <2> QED BY <1>6, <1>7, <1>8, SeqEqual
<1>10. Encode(line) = FlattenSeq(parts)
    BY DEF Encode
<1>11. FlattenSeq(made) = FlattenSeq(Ended(front, SP)) \o last
    BY <1>4, <1>5, FlattenAppend DEF Text
<1>12. PICK a \in Seq(Symbols), b \in Seq(Symbols), c \in Seq(Symbols) :
          a = FlattenSeq(Ended(front, SP)) /\ b = line[n] /\ c = <<CR, LF>>
    <2>1. FlattenSeq(Ended(front, SP)) \in Text
        BY BodyText DEF front
    <2>2. line[n] \in Text
        BY <1>1
    <2> HIDE DEF n
    <2> QED BY <1>2, <2>1, <2>2 DEF Text
<1>13. (a \o b) \o c = a \o (b \o c)
    <2>1. Associates(a, b, c)
        BY AssocText
    <2> QED BY <2>1 DEF Associates
<1> QED BY <1>9, <1>10, <1>11, <1>12, <1>13 DEF Body, front

\* The text of a line with a blank for its end is that of its words with their blanks.
LEMMA BodyEnded ==
    ASSUME NEW line \in PlainLine
    PROVE  FlattenSeq(Ended(line, SP)) = Body(line) \o <<SP>>
<1>1. /\ line \in Seq(Seq(Symbols)) /\ line # <<>> /\ SP \in Symbols
    BY PlainLineIs, MarksDiffer DEF PlainLine, Text
<1>2. PICK front \in Seq(Seq(Symbols)), last \in Seq(Symbols) :
          front = Front(line) /\ last = line[Len(line)] /\ line = Append(front, last)
    BY <1>1, FrontIs
<1>3. PICK a \in Seq(Symbols), z \in Seq(Symbols) : a = FlattenSeq(Ended(front, SP)) /\ z = <<SP>>
    BY <1>2, BodyText, Marks DEF Text
<1>4. Ended(front, SP) \in Seq(Seq(Symbols)) /\ last \o z \in Seq(Symbols)
    BY <1>1, <1>3, EndedList, ConcatProperties
<1>5. FlattenSeq(Append(Ended(front, SP), last \o z)) = a \o (last \o z)
    BY <1>3, <1>4, FlattenAppend
<1>6. Ended(line, SP) = Append(Ended(front, SP), last \o z)
    BY <1>1, <1>2, <1>3, EndedAppend
<1>7. (a \o last) \o z = a \o (last \o z)
    <2>1. Associates(a, last, z)
        BY AssocText
    <2> QED BY <2>1 DEF Associates
<1> QED BY <1>2, <1>3, <1>5, <1>6, <1>7 DEF Body

\* A line is taken apart at its blanks again.
LEMMA BodyWords ==
    ASSUME NEW line \in PlainLine
    PROVE  getline(Body(line) \o <<SP>>, SP) = line
<1>1. line \in Seq(Seq(Symbols \ {SP})) /\ SP \in Symbols
    BY PlainLineIs, MarksDiffer
<1>2. Restores(line, SP)
    BY <1>1, GetlineRestores
<1> QED BY <1>2, BodyEnded DEF Restores

\* The end of a line is taken off, and nothing else.
LEMMA TrimmedWord ==
    ASSUME NEW w \in Seq(Plain)
    PROVE  TrimEnd(w) = w /\ TrimEnd(w \o <<CR, LF>>) = w
<1>1. /\ w \in Text /\ Len(w) \in Nat /\ DOMAIN w = 1 .. Len(w)
      /\ \A i \in 1 .. Len(w) : w[i] \notin {CR, LF}
    <2>1. \A i \in 1 .. Len(w) : w[i] \in Plain
        BY ElementOfSeq
    <2>2. w \in Text
        BY SeqMonotonic DEF Plain, Text
    <2> QED BY <2>1, <2>2, LenProperties DEF Plain
<1>2. SubSeq(w, 1, Len(w)) = w
    BY SubSeqFull
<1>3. TrimEnd(w) = w
    <2> DEFINE T == {0} \cup {i \in DOMAIN w : w[i] \notin {CR, LF}}
    <2>1. T \subseteq Int /\ Len(w) \in T /\ \A y \in T : y <= Len(w)
        BY <1>1
    <2> HIDE DEF T
    <2>2. Max(T) = Len(w)
        BY <2>1, GreatestIs
    <2> QED BY <1>2, <2>2 DEF TrimEnd, T
<1>4. TrimEnd(w \o <<CR, LF>>) = w
    <2> DEFINE v == w \o <<CR, LF>>
               T == {0} \cup {i \in DOMAIN v : v[i] \notin {CR, LF}}
    <2>1. <<CR, LF>> \in Text /\ Len(<<CR, LF>>) = 2 /\ <<CR, LF>>[1] = CR /\ <<CR, LF>>[2] = LF
        BY Marks
    <2>2. /\ v \in Text /\ Len(v) = Len(w) + 2
          /\ \A i \in 1 .. Len(w) + 2 : v[i] = IF i <= Len(w) THEN w[i] ELSE <<CR, LF>>[i - Len(w)]
        BY <1>1, <2>1, ConcatProperties DEF Text
    <2>3. DOMAIN v = 1 .. Len(w) + 2
        BY <2>2, LenProperties DEF Text
    <2> HIDE DEF v
    <2>4. ASSUME NEW i \in 1 .. Len(w) + 2 PROVE v[i] \notin {CR, LF} <=> i <= Len(w)
        <3>1. CASE i <= Len(w)
            BY <1>1, <2>2, <3>1
        <3>2. CASE i = Len(w) + 1
            BY <1>1, <2>1, <2>2, <3>2
        <3>3. CASE i = Len(w) + 2
            BY <1>1, <2>1, <2>2, <3>3
        <3> QED BY <1>1, <3>1, <3>2, <3>3
    <2>5. T = 0 .. Len(w)
        BY <1>1, <2>3, <2>4
    <2> HIDE DEF T
    <2>6. Max(T) = Len(w)
        <3>1. Len(w) \in T /\ T \subseteq Int /\ \A y \in T : y <= Len(w)
            BY <1>1, <2>5
        <3> QED BY <3>1, GreatestIs
    <2>7. SubSeq(v, 1, Len(w)) = SubSeq(w, 1, Len(w))
        <3>1. 1 \in Nat \ {0} /\ Len(w) <= Len(w)
            BY <1>1
        <3> QED BY <1>1, <2>1, <3>1, PartPrefix DEF v, Text
    <2> QED BY <1>2, <2>6, <2>7 DEF TrimEnd, T, v
<1> QED BY <1>3, <1>4

\* A line that has come is executed as it was written.
LEMMA CommandOf ==
    ASSUME NEW line \in PlainLine
    PROVE  cmdVector(Encode(line)) = UpperFirst(line)
<1> DEFINE S == Symbols \ {SP}
<1>1. /\ line \in Seq(Seq(S)) /\ line # <<>> /\ SP \in Symbols /\ SP # LF
      /\ Len(line) \in Nat \ {0} /\ DOMAIN line = 1 .. Len(line)
      /\ \A i \in 1 .. Len(line) : line[i] \in Seq(Plain)
    BY PlainLineIs, MarksDiffer, LenProperties DEF PlainLine
<1>2. S \subseteq Symbols /\ CR \in S /\ LF \in S
    BY MarksDiffer
<1> HIDE DEF S
<1>3. PICK front \in Seq(Seq(S)), last \in Seq(S) :
          front = Front(line) /\ last = line[Len(line)] /\ line = Append(front, last)
          /\ Len(front) = Len(line) - 1
    BY <1>1, FrontIs
<1>4. PICK z \in Seq(S) : z = <<CR, LF>> /\ Len(z) = 2 /\ z[2] = LF
    <2>1. <<CR, LF>> \in Seq(S) /\ Len(<<CR, LF>>) = 2 /\ <<CR, LF>>[2] = LF
        BY <1>2
    <2>2. PICK z : z = <<CR, LF>>
        OBVIOUS
    <2> QED BY <2>1, <2>2
<1>5. PICK p \in Seq(S) : p = last \o z
    BY ConcatProperties
<1>6. PICK a \in Seq(Symbols) :
          /\ a = FlattenSeq(Ended(front, SP)) /\ getline(a, SP) = front
          /\ a # <<>> => a[Len(a)] = SP
    BY <1>1, GetlineEnded DEF S
<1>7. last \in Seq(Symbols) /\ z \in Seq(Symbols) /\ p \in Seq(Symbols)
    BY <1>2, SeqMonotonic
<1>8. PICK t \in Seq(Symbols) : t = Encode(line) /\ t = a \o p
    <2>1. (a \o last) \o z = a \o (last \o z)
        <3>1. Associates(a, last, z)
            BY <1>7, AssocText
        <3> QED BY <3>1 DEF Associates
    <2>2. Encode(line) = (a \o last) \o z
        BY <1>3, <1>4, <1>6, EncodeMade DEF Body
    <2>3. a \o p \in Seq(Symbols)
        BY <1>7, ConcatProperties
    <2> QED BY <1>5, <2>1, <2>2, <2>3
<1>9. t # <<>> /\ t[Len(t)] = LF
    <2>1. Len(last) \in Nat /\ Len(p) = Len(last) + 2 /\ p[Len(p)] = LF
        <3>1. Len(last) \in Nat
            BY LenProperties
        <3>2. Len(p) = Len(last) + 2
            BY <1>4, <1>5, ConcatProperties
        <3>3. \A i \in 1 .. Len(last) + Len(z) : p[i] = IF i <= Len(last) THEN last[i] ELSE z[i - Len(last)]
            BY <1>5, ConcatProperties
        <3>4. Len(p) \in 1 .. Len(last) + Len(z) /\ ~(Len(p) <= Len(last)) /\ Len(p) - Len(last) = 2
            BY <1>4, <3>1, <3>2
        <3> QED BY <1>4, <3>1, <3>2, <3>3, <3>4
    <2>2. Len(a) \in Nat /\ Len(t) = Len(a) + Len(p)
        BY <1>7, <1>8, ConcatProperties, LenProperties
    <2>3. \A i \in 1 .. Len(a) + Len(p) : t[i] = IF i <= Len(a) THEN a[i] ELSE p[i - Len(a)]
        BY <1>7, <1>8, ConcatProperties
    <2>4. Len(t) \in 1 .. Len(a) + Len(p) /\ ~(Len(t) <= Len(a)) /\ Len(t) - Len(a) = Len(p)
        BY <2>1, <2>2
    <2>5. t[Len(t)] = LF
        BY <2>1, <2>3, <2>4
    <2> QED BY <2>1, <2>2, <2>5, EmptySeq
<1>10. getline(t, SP) = Append(front, p)
    <2>1. getline(t, SP) = getline(t \o <<SP>>, SP)
        BY <1>1, <1>9, GetlineRest
    <2>2. getline((a \o p) \o <<SP>>, SP) = Append(getline(a, SP), p)
        <3>1. p \in Seq(Symbols \ {SP}) /\ SP \in Symbols
            BY <1>1 DEF S
        <3>2. EndsWith(a, SP)
            BY <1>6 DEF EndsWith
        <3>3. Continues(a, p, SP)
            BY <3>1, <3>2, GetlineMore
        <3> QED BY <3>3 DEF Continues
    <2> QED BY <1>6, <1>8, <2>1, <2>2
<1> DEFINE ws == Append(front, p)
           n == Len(line)
<1>11. /\ ws \in Seq(Seq(S)) /\ DOMAIN ws = 1 .. n /\ ws[n] = p
       /\ \A i \in 1 .. n - 1 : ws[i] = line[i]
    <2>1. /\ ws \in Seq(Seq(S)) /\ Len(ws) = Len(front) + 1 /\ ws[Len(front) + 1] = p
          /\ \A i \in 1 .. Len(front) : ws[i] = front[i] /\ Append(front, last)[i] = front[i]
        BY AppendProperties
    <2> HIDE DEF ws
    <2>2. Len(front) + 1 = n
        BY <1>1, <1>3
    <2>3. DOMAIN ws = 1 .. n
        BY <2>1, <2>2, LenProperties
    <2> QED BY <1>3, <2>1, <2>2, <2>3
<1>12. ASSUME NEW i \in DOMAIN ws PROVE TrimEnd(ws[i]) = line[i]
    <2> HIDE DEF ws
    <2>1. i \in 1 .. n
        BY <1>11
    <2>2. CASE i = n
        <3>1. line[n] \in Seq(Plain)
            <4>1. n \in 1 .. n
                BY <1>1
            <4> QED BY <1>1, <4>1
        <3>2. ws[i] = line[n] \o <<CR, LF>>
            BY <1>3, <1>4, <1>5, <1>11, <2>2
        <3> HIDE DEF n
        <3> QED BY <2>2, <3>1, <3>2, TrimmedWord
    <2>3. CASE i # n
        <3>1. i \in 1 .. n - 1
            <4>1. n \in Nat
                BY <1>1
            <4> HIDE DEF n
            <4> QED BY <2>1, <2>3, <4>1
        <3> QED BY <1>1, <1>11, <2>1, <3>1, TrimmedWord
    <2> QED BY <2>2, <2>3
<1>13. [i \in DOMAIN ws |-> TrimEnd(ws[i])] = line
    <2> HIDE DEF ws
    <2>1. line = [i \in 1 .. n |-> line[i]]
        BY <1>1, LenProperties
    <2> QED BY <1>11, <1>12, <2>1
<1> QED BY <1>8, <1>10, <1>13 DEF cmdVector

\* Lines one after the other.
Encoded(ls) == [i \in DOMAIN ls |-> Encode(ls[i])]

\* Every line is encoded.
LEMMA EncodedList ==
    ASSUME NEW ls \in Lines
    PROVE  /\ Encoded(ls) \in Seq(Text) /\ Len(Encoded(ls)) = Len(ls)
           /\ \A i \in 1 .. Len(ls) : Encoded(ls)[i] = Encode(ls[i])
<1>1. Len(ls) \in Nat /\ DOMAIN ls = 1 .. Len(ls) /\ \A i \in 1 .. Len(ls) : ls[i] \in Seq(Text)
    BY LenProperties, ElementOfSeq DEF Lines
<1>2. \A i \in 1 .. Len(ls) : Encode(ls[i]) \in Text
    BY <1>1, EncodeText
<1>3. [i \in 1 .. Len(ls) |-> Encode(ls[i])] \in Seq(Text)
    BY <1>1, <1>2
<1> QED BY <1>1, <1>3, LenProperties DEF Encoded

\* What a client sends is a text.
LEMMA StreamText ==
    ASSUME NEW ls \in Lines
    PROVE  Stream(ls) \in Text /\ Stream(ls) = FlattenSeq(Encoded(ls)) /\ Stream(<<>>) = <<>>
<1>1. Stream(ls) = FlattenSeq(Encoded(ls))
    BY DEF Stream, Encoded
<1>2. FlattenSeq(<<>>) = <<>>
    BY FlattenOne, EmptySeq
<1>3. Stream(<<>>) = <<>>
    BY <1>2 DEF Stream
<1> QED BY <1>1, <1>3, EncodedList, FlattenList DEF Text

\* Some lines and some more are sent one after the other.
LEMMA StreamConcat ==
    ASSUME NEW ls \in Lines, NEW ms \in Lines
    PROVE  Stream(ls \o ms) = Stream(ls) \o Stream(ms)
<1>1. PICK x \in Seq(Text) :
          x = Encoded(ls) /\ Len(x) = Len(ls) /\ \A i \in 1 .. Len(ls) : x[i] = Encode(ls[i])
    BY EncodedList
<1>2. PICK y \in Seq(Text) :
          y = Encoded(ms) /\ Len(y) = Len(ms) /\ \A i \in 1 .. Len(ms) : y[i] = Encode(ms[i])
    BY EncodedList
<1>3. PICK ns \in Lines :
          /\ ns = ls \o ms /\ Len(ns) = Len(ls) + Len(ms)
          /\ \A i \in 1 .. Len(ls) + Len(ms) : ns[i] = IF i <= Len(ls) THEN ls[i] ELSE ms[i - Len(ls)]
    <2>1. PICK ns \in Lines : ns = ls \o ms /\ Joined(ns, ls, ms)
        BY Joining DEF Lines
    <2> QED BY <2>1 DEF Joined
<1>4. PICK z \in Seq(Text) :
          z = Encoded(ns) /\ Len(z) = Len(ns) /\ \A i \in 1 .. Len(ns) : z[i] = Encode(ns[i])
    BY EncodedList
<1>5. /\ x \o y \in Seq(Text) /\ Len(x \o y) = Len(x) + Len(y)
      /\ \A i \in 1 .. Len(x) + Len(y) : (x \o y)[i] = IF i <= Len(x) THEN x[i] ELSE y[i - Len(x)]
    BY ConcatProperties
<1>6. Len(ls) \in Nat /\ Len(ms) \in Nat
    BY LenProperties DEF Lines
<1>7. ASSUME NEW i \in 1 .. Len(z) PROVE z[i] = (x \o y)[i]
    <2>1. i \in 1 .. Len(ls) + Len(ms) /\ z[i] = Encode(ns[i])
        BY <1>3, <1>4
    <2>2. CASE i <= Len(ls)
        <3>1. i \in 1 .. Len(ls)
            BY <1>6, <2>1, <2>2
        <3>2. ns[i] = ls[i]
            BY <1>3, <2>1, <2>2
        <3>3. x[i] = Encode(ls[i])
            BY <1>1, <3>1
        <3>4. (x \o y)[i] = x[i]
            BY <1>1, <1>2, <1>5, <2>1, <2>2
        <3> QED BY <2>1, <3>2, <3>3, <3>4
    <2>3. CASE ~(i <= Len(ls))
        <3>1. i - Len(ls) \in 1 .. Len(ms)
            BY <1>6, <2>1, <2>3
        <3>2. ns[i] = ms[i - Len(ls)]
            BY <1>3, <2>1, <2>3
        <3>3. y[i - Len(ls)] = Encode(ms[i - Len(ls)])
            BY <1>2, <3>1
        <3>4. (x \o y)[i] = y[i - Len(ls)]
            BY <1>1, <1>2, <1>5, <2>1, <2>3
        <3> QED BY <2>1, <3>2, <3>3, <3>4
    <2> QED BY <2>2, <2>3
<1>8. z = x \o y
    <2>1. Len(z) = Len(x \o y) /\ x \o y \in Seq(Text)
        BY <1>1, <1>2, <1>3, <1>4, <1>5
    <2> QED BY <1>7, <2>1, SeqEqual
<1>9. FlattenSeq(x \o y) = FlattenSeq(x) \o FlattenSeq(y)
    BY FlattenConcat DEF Text
<1> QED BY <1>1, <1>2, <1>3, <1>4, <1>8, <1>9, StreamText

\* One line is sent as it is encoded.
LEMMA StreamOne ==
    ASSUME NEW line \in Seq(Text)
    PROVE  Stream(<<line>>) = Encode(line)
<1>1. <<line>> \in Lines
    BY DEF Lines
<1>2. Encoded(<<line>>) = <<Encode(line)>>
    BY DEF Encoded
<1>3. FlattenSeq(<<Encode(line)>>) = Encode(line)
    BY EncodeText, FlattenOne DEF Text
<1> QED BY <1>1, <1>2, <1>3, StreamText

\* An encoded line has its line feed at the end, and only there.
LEMMA EncodeEnds ==
    ASSUME NEW line \in PlainLine
    PROVE  LET e == Encode(line)
           IN  /\ e \in Text /\ Len(e) \in Nat \ {0} /\ e[Len(e)] = LF
               /\ \A i \in 1 .. Len(e) - 1 : e[i] # LF
<1>1. PICK a \in Seq(Symbols) : a = Body(line) /\ \A i \in 1 .. Len(a) : a[i] # LF
    <2>1. \A i \in 1 .. Len(Body(line)) : Body(line)[i] \in Symbols \ {CR, LF}
        BY BodyText, ElementOfSeq
    <2> QED BY <2>1, BodyText DEF Text
<1>2. PICK z \in Seq(Symbols) : z = <<CR, LF>> /\ Len(z) = 2 /\ z[1] = CR /\ z[2] = LF
    <2>1. <<CR, LF>> \in Seq(Symbols) /\ Len(<<CR, LF>>) = 2 /\ <<CR, LF>>[1] = CR /\ <<CR, LF>>[2] = LF
        BY MarksDiffer
    <2>2. PICK z : z = <<CR, LF>>
        OBVIOUS
    <2> QED BY <2>1, <2>2
<1>3. PICK x \in Seq(Symbols) :
          /\ x = a \o z /\ Len(x) = Len(a) + Len(z)
          /\ \A i \in 1 .. Len(a) + Len(z) : x[i] = IF i <= Len(a) THEN a[i] ELSE z[i - Len(a)]
    <2>1. PICK x \in Seq(Symbols) : x = a \o z /\ Joined(x, a, z)
        BY Joining
    <2> QED BY <2>1 DEF Joined
<1>4. x = Encode(line) /\ Len(a) \in Nat /\ Len(x) = Len(a) + 2
    BY <1>1, <1>2, <1>3, EncodeMade, LenProperties
<1>5. x[Len(x)] = LF
    <2>1. Len(x) \in 1 .. Len(a) + Len(z) /\ ~(Len(x) <= Len(a)) /\ Len(x) - Len(a) = 2
        BY <1>2, <1>4
    <2> QED BY <1>2, <1>3, <2>1
<1>6. ASSUME NEW i \in 1 .. Len(x) - 1 PROVE x[i] # LF
    <2>1. i \in 1 .. Len(a) + Len(z)
        BY <1>2, <1>4
    <2>2. CASE i <= Len(a)
        <3>1. i \in 1 .. Len(a)
            BY <1>4, <2>1, <2>2
        <3> QED BY <1>1, <1>3, <2>1, <2>2, <3>1
    <2>3. CASE ~(i <= Len(a))
        <3>1. i - Len(a) = 1
            BY <1>4, <2>3
        <3> QED BY <1>2, <1>3, <2>1, <2>3, <3>1, MarksDiffer
    <2> QED BY <2>2, <2>3
<1>7. Len(x) \in Nat \ {0}
    BY <1>4
<1> QED BY <1>4, <1>5, <1>6, <1>7 DEF Text

\* Some lines, and the first k of them and the others.
LEMMA PlainLines ==
    ASSUME NEW ls \in Seq(PlainLine)
    PROVE  /\ ls \in Lines /\ Len(ls) \in Nat
           /\ \A i \in 1 .. Len(ls) : ls[i] \in PlainLine
           /\ \A k \in 0 .. Len(ls) :
                  /\ SubSeq(ls, 1, k) \in Seq(PlainLine) /\ Len(SubSeq(ls, 1, k)) = k
                  /\ SubSeq(ls, k + 1, Len(ls)) \in Seq(PlainLine)
                  /\ SubSeq(ls, 1, k) \o SubSeq(ls, k + 1, Len(ls)) = ls
<1>1. Len(ls) \in Nat /\ \A i \in 1 .. Len(ls) : ls[i] \in PlainLine
    BY LenProperties, ElementOfSeq
<1>2. ls \in Lines
    <2>1. PlainLine \subseteq Seq(Text)
        BY PlainLineIs
    <2> QED BY <2>1, SeqMonotonic DEF Lines
<1>3. ASSUME NEW k \in 0 .. Len(ls)
      PROVE  /\ SubSeq(ls, 1, k) \in Seq(PlainLine) /\ Len(SubSeq(ls, 1, k)) = k
             /\ SubSeq(ls, k + 1, Len(ls)) \in Seq(PlainLine)
             /\ SubSeq(ls, 1, k) \o SubSeq(ls, k + 1, Len(ls)) = ls
    <2>1. k \in Int /\ k <= Len(ls) /\ k + 1 \in Nat \ {0} /\ Len(ls) \in Int /\ Len(ls) <= Len(ls)
        BY <1>1
    <2>2. SubSeq(ls, 1, k) \in Seq(PlainLine) /\ Len(SubSeq(ls, 1, k)) = k
        BY <1>1, <2>1, PartOfList
    <2>3. SubSeq(ls, k + 1, Len(ls)) \in Seq(PlainLine)
        BY <2>1, PartOfList
    <2>4. SubSeq(ls, 1, k) \o SubSeq(ls, k + 1, Len(ls)) = SubSeq(ls, 1, Len(ls))
        <3>1. 1 \in 1 .. Len(ls) + 1 /\ k \in 1 - 1 .. Len(ls) /\ Len(ls) \in k .. Len(ls)
            BY <1>1
        <3> QED BY <3>1, ConcatAdjacentSubSeq
    <2> QED BY <2>2, <2>3, <2>4, SubSeqFull
<1> QED BY <1>1, <1>2, <1>3

\* The first part of some lines, if it ends with a line feed, is the first of them.
LEMMA StreamCut ==
    ASSUME NEW ls \in Seq(PlainLine), NEW b \in Text, NEW rest \in Text, b # <<>>, b[Len(b)] = LF,
           b \o rest = Stream(ls)
    PROVE  \E k \in 1 .. Len(ls) : b = Stream(SubSeq(ls, 1, k)) /\ rest = Stream(SubSeq(ls, k + 1, Len(ls)))
<1> DEFINE upto(k) == Stream(SubSeq(ls, 1, k))
           T == {k \in 0 .. Len(ls) : Len(upto(k)) >= Len(b)}
<1>1. ls \in Lines /\ Len(ls) \in Nat /\ Len(b) \in Nat \ {0}
    BY PlainLines, EmptySeq DEF Text
<1>2. ASSUME NEW k \in 0 .. Len(ls)
      PROVE  /\ upto(k) \in Text /\ Len(upto(k)) \in Nat
             /\ Stream(SubSeq(ls, k + 1, Len(ls))) \in Text
             /\ upto(k) \o Stream(SubSeq(ls, k + 1, Len(ls))) = Stream(ls)
    <2>1. PICK p \in Lines, q \in Lines :
              p = SubSeq(ls, 1, k) /\ q = SubSeq(ls, k + 1, Len(ls)) /\ p \o q = ls
        <3>1. /\ SubSeq(ls, 1, k) \in Seq(PlainLine) /\ SubSeq(ls, k + 1, Len(ls)) \in Seq(PlainLine)
              /\ SubSeq(ls, 1, k) \o SubSeq(ls, k + 1, Len(ls)) = ls
            BY PlainLines, Zenon
        <3>2. SubSeq(ls, 1, k) \in Lines /\ SubSeq(ls, k + 1, Len(ls)) \in Lines
            BY <3>1, PlainLines, Zenon
        <3> QED BY <3>1, <3>2, Zenon
    <2>2. Stream(p) \in Text /\ Stream(q) \in Text /\ Stream(p) \o Stream(q) = Stream(ls)
        BY <2>1, StreamText, StreamConcat
    <2>3. Len(Stream(p)) \in Nat
        BY <2>2, LenProperties DEF Text
    <2> QED BY <2>1, <2>2, <2>3
<1>3. PICK k \in T : \A j \in T : k <= j
    <2>1. Len(ls) \in T
        <3>1. upto(Len(ls)) = b \o rest
            BY SubSeqFull
        <3>2. Len(b \o rest) = Len(b) + Len(rest) /\ Len(rest) \in Nat
            BY ConcatProperties, LenProperties DEF Text
        <3>3. Len(ls) \in 0 .. Len(ls)
            BY <1>1
        <3> QED BY <1>1, <3>1, <3>2, <3>3
    <2>2. T \subseteq Nat
        BY <1>1
    <2> HIDE DEF T
    <2> QED BY <2>1, <2>2, LeastExists
<1>4. k \in 0 .. Len(ls) /\ Len(upto(k)) >= Len(b)
    OBVIOUS
<1>5. k # 0
    <2>1. SubSeq(ls, 1, 0) = <<>>
        BY SubSeqEmpty
    <2>2. upto(0) = <<>>
        BY <1>1, <2>1, StreamText
    <2>3. Len(<<>>) = 0
        OBVIOUS
    <2> HIDE DEF upto
    <2> QED BY <1>1, <1>4, <2>2, <2>3
<1>6. k \in 1 .. Len(ls) /\ k - 1 \in 0 .. Len(ls) /\ ~(k <= k - 1)
    BY <1>1, <1>4, <1>5
<1>7. Len(upto(k - 1)) < Len(b)
    <2>1. k - 1 \notin T
        <3> HIDE DEF T
        <3> QED BY <1>3, <1>6
    <2>2. ~(Len(upto(k - 1)) >= Len(b))
        BY <1>6, <2>1
    <2>3. Len(upto(k - 1)) \in Nat
        BY <1>2, <1>6
    <2> HIDE DEF upto
    <2> QED BY <1>1, <2>2, <2>3
<1> HIDE DEF T
<1>8. PICK pre \in Seq(Symbols), e \in Seq(Symbols) :
          /\ pre = upto(k - 1) /\ e = Encode(ls[k]) /\ upto(k) = pre \o e
          /\ Len(e) \in Nat \ {0} /\ \A i \in 1 .. Len(e) - 1 : e[i] # LF
    <2>1. PICK p \in Lines, l \in PlainLine :
              p = SubSeq(ls, 1, k - 1) /\ l = ls[k] /\ SubSeq(ls, 1, k) = p \o <<l>>
        <3>1. PICK l \in PlainLine : l = ls[k]
            BY <1>6, PlainLines
        <3>2. PICK p \in Seq(PlainLine) : p = SubSeq(ls, 1, k - 1) /\ SubSeq(ls, 1, k) = Append(p, l)
            BY <1>6, <3>1, PrefixMore
        <3>3. Append(p, l) = p \o <<l>>
            BY AppendIsConcat
        <3>4. p \in Lines
            BY PlainLines
        <3> QED BY <3>1, <3>2, <3>3, <3>4
    <2>2. l \in Seq(Text) /\ <<l>> \in Lines
        BY PlainLineIs DEF Lines
    <2>3. Stream(p \o <<l>>) = Stream(p) \o Encode(l)
        BY <2>2, StreamConcat, StreamOne
    <2> QED BY <2>1, <2>3, EncodeEnds, StreamText DEF Text
<1>9. PICK x \in Seq(Symbols) :
          /\ x = pre \o e /\ Len(x) = Len(pre) + Len(e)
          /\ \A i \in 1 .. Len(pre) + Len(e) : x[i] = IF i <= Len(pre) THEN pre[i] ELSE e[i - Len(pre)]
    <2>1. PICK x \in Seq(Symbols) : x = pre \o e /\ Joined(x, pre, e)
        BY Joining
    <2> QED BY <2>1 DEF Joined
<1>10. PICK post \in Seq(Symbols) : post = Stream(SubSeq(ls, k + 1, Len(ls))) /\ x \o post = b \o rest
    BY <1>2, <1>4, <1>8, <1>9 DEF Text
<1>11. Len(pre) \in Nat /\ Len(pre) < Len(b) /\ Len(b) <= Len(x)
    BY <1>1, <1>2, <1>4, <1>6, <1>7, <1>8, <1>9
<1>12. x[Len(b)] = LF
    <2>1. b \in Seq(Symbols) /\ rest \in Seq(Symbols)
        BY DEF Text
    <2>2. Len(b) # 0 /\ Len(b) <= Len(x) /\ x \o post = b \o rest
        BY <1>1, <1>10, <1>11
    <2>3. x[Len(b)] = b[Len(b)]
        <3>1. x \in Seq(Symbols) /\ post \in Seq(Symbols)
            OBVIOUS
        <3> QED BY <2>1, <2>2, <3>1, LastBeforeCut
    <2> QED BY <2>3
<1>13. Len(b) = Len(x)
    <2>1. Len(b) - Len(pre) \in 1 .. Len(e) /\ Len(b) \in 1 .. Len(pre) + Len(e) /\ ~(Len(b) <= Len(pre))
        BY <1>1, <1>8, <1>9, <1>11
    <2>2. e[Len(b) - Len(pre)] = LF
        BY <1>9, <1>12, <2>1
    <2>3. ~(Len(b) - Len(pre) \in 1 .. Len(e) - 1)
        BY <1>8, <2>2
    <2>4. Len(b) - Len(pre) = Len(e)
        BY <1>8, <2>1, <2>3
    <2> QED BY <1>1, <1>8, <1>9, <1>11, <2>4
<1>14. b = x /\ rest = post
    <2>1. b \in Seq(Symbols) /\ rest \in Seq(Symbols) /\ b \o rest = x \o post
        BY <1>10 DEF Text
    <2> QED BY <1>13, <2>1, Cancelling
<1> QED BY <1>6, <1>8, <1>9, <1>10, <1>14

\* Lines one after the other end with a line feed.
LEMMA StreamEnds ==
    ASSUME NEW ls \in Seq(PlainLine), ls # <<>>
    PROVE  Stream(ls) \in Text /\ Stream(ls) # <<>> /\ Stream(ls)[Len(Stream(ls))] = LF
<1>1. PICK p \in Seq(PlainLine), l \in PlainLine : ls = Append(p, l)
    BY FrontIs
<1>2. p \in Lines /\ <<l>> \in Lines /\ ls = p \o <<l>> /\ l \in Seq(Text)
    <2>1. p \in Lines
        BY PlainLines
    <2>2. l \in Seq(Text)
        BY PlainLineIs
    <2>3. ls = p \o <<l>>
        BY <1>1, AppendIsConcat
    <2> QED BY <2>1, <2>2, <2>3 DEF Lines
<1>3. PICK a \in Seq(Symbols), e \in Seq(Symbols) :
          a = Stream(p) /\ e = Encode(l) /\ Len(e) \in Nat \ {0} /\ e[Len(e)] = LF
    BY <1>2, StreamText, EncodeEnds DEF Text
<1>4. Stream(ls) = a \o e
    BY <1>2, <1>3, StreamConcat, StreamOne
<1>5. PICK x \in Seq(Symbols) :
          /\ x = a \o e /\ Len(x) = Len(a) + Len(e)
          /\ \A i \in 1 .. Len(a) + Len(e) : x[i] = IF i <= Len(a) THEN a[i] ELSE e[i - Len(a)]
    <2>1. PICK x \in Seq(Symbols) : x = a \o e /\ Joined(x, a, e)
        BY Joining
    <2> QED BY <2>1 DEF Joined
<1>6. Len(a) \in Nat /\ Len(x) \in 1 .. Len(a) + Len(e) /\ ~(Len(x) <= Len(a)) /\ Len(x) - Len(a) = Len(e)
    BY <1>3, <1>5, LenProperties
<1>7. x[Len(x)] = LF /\ x # <<>>
    BY <1>3, <1>5, <1>6, EmptySeq
<1> QED BY <1>4, <1>5, <1>7 DEF Text

\* Lines that have but one line feed, at the end, are one line.
LEMMA OneLineCut ==
    ASSUME NEW ls \in Seq(PlainLine), ls # <<>>, OneLine(Stream(ls))
    PROVE  Len(ls) = 1
<1>1. Len(ls) \in Nat \ {0}
    BY EmptySeq
<1>2. SUFFICES ASSUME Len(ls) # 1 PROVE FALSE
    OBVIOUS
<1>3. 1 \in 0 .. Len(ls) /\ 1 \in 1 .. Len(ls)
    BY <1>1
<1>4. PICK l \in PlainLine, q \in Seq(PlainLine) : ls = <<l>> \o q
    <2>1. /\ SubSeq(ls, 2, Len(ls)) \in Seq(PlainLine)
          /\ SubSeq(ls, 1, 1) \o SubSeq(ls, 2, Len(ls)) = ls
        BY <1>3, PlainLines
    <2>2. ls[1] \in PlainLine
        BY <1>3, PlainLines
    <2>3. SubSeq(ls, 1, 1) = <<ls[1]>>
        <3>1. SubSeq(ls, 1, 0) = <<>>
            BY SubSeqEmpty
        <3>2. SubSeq(ls, 1, 1) = Append(SubSeq(ls, 1, 0), ls[1])
            BY <1>3, PrefixMore
        <3>3. Append(<<>>, ls[1]) = <<ls[1]>>
            OBVIOUS
        <3> QED BY <3>1, <3>2, <3>3, Zenon
    <2> QED BY <2>1, <2>2, <2>3
<1>5. q # <<>>
    <2> SUFFICES ASSUME q = <<>> PROVE FALSE
        OBVIOUS
    <2> QED BY <1>2, <1>4
<1>6. <<l>> \in Lines /\ q \in Lines /\ l \in Seq(Text)
    BY PlainLines, PlainLineIs DEF Lines
<1>7. PICK e \in Seq(Symbols), v \in Seq(Symbols) :
          /\ e = Encode(l) /\ Len(e) \in Nat \ {0} /\ e[Len(e)] = LF /\ v = Stream(q) /\ v # <<>>
    BY <1>5, EncodeEnds, StreamEnds DEF Text
<1>8. Stream(ls) = e \o v
    BY <1>4, <1>6, <1>7, StreamConcat, StreamOne
<1>9. PICK x \in Seq(Symbols) :
          /\ x = e \o v /\ Len(x) = Len(e) + Len(v)
          /\ \A i \in 1 .. Len(e) + Len(v) : x[i] = IF i <= Len(e) THEN e[i] ELSE v[i - Len(e)]
    <2>1. PICK x \in Seq(Symbols) : x = e \o v /\ Joined(x, e, v)
        BY Joining
    <2> QED BY <2>1 DEF Joined
<1>10. Len(v) \in Nat \ {0}
    BY <1>7, EmptySeq
<1>11. Len(e) \in 1 .. Len(e) + Len(v) /\ Len(e) <= Len(e) /\ Len(e) # Len(x)
    BY <1>7, <1>9, <1>10
<1>12. x[Len(e)] = LF
    BY <1>7, <1>9, <1>11
<1>13. Len(e) \in DOMAIN x
    BY <1>9, <1>11, LenProperties
<1>14. OneLine(x)
    BY <1>8, <1>9
<1> QED BY <1>11, <1>12, <1>13, <1>14 DEF OneLine

\* A line in the middle of others.
LEMMA StreamAt ==
    ASSUME NEW ls \in Seq(PlainLine), NEW i \in 1 .. Len(ls)
    PROVE  \E u \in Seq(Symbols), v \in Seq(Symbols) :
               /\ u # <<>> => u[Len(u)] = LF
               /\ Stream(ls) = u \o (Encode(ls[i]) \o v)
<1>1. Len(ls) \in Nat /\ i \in 0 .. Len(ls) /\ i - 1 \in 0 .. Len(ls)
    BY LenProperties
<1>2. PICK l \in PlainLine : l = ls[i]
    BY PlainLines
<1>3. PICK p \in Seq(PlainLine) : p = SubSeq(ls, 1, i - 1) /\ SubSeq(ls, 1, i) = Append(p, l)
    BY <1>2, PrefixMore
<1>4. PICK q \in Seq(PlainLine) : ls = SubSeq(ls, 1, i) \o q
    BY <1>1, PlainLines
<1>5. Append(p, l) = p \o <<l>>
    BY AppendIsConcat
<1>6. PICK r \in Lines : r = p \o <<l>> /\ ls = r \o q
    <2>1. Append(p, l) \in Seq(PlainLine)
        BY AppendProperties
    <2> QED BY <1>3, <1>4, <1>5, <2>1, PlainLines
<1>7. p \in Lines /\ q \in Lines /\ <<l>> \in Lines /\ l \in Seq(Text)
    <2>1. p \in Lines /\ q \in Lines
        BY PlainLines
    <2>2. l \in Seq(Text)
        BY PlainLineIs
    <2> QED BY <2>1, <2>2 DEF Lines
<1>8. PICK u \in Seq(Symbols), e \in Seq(Symbols), v \in Seq(Symbols) :
          u = Stream(p) /\ e = Encode(l) /\ v = Stream(q)
    BY <1>7, StreamText, EncodeText DEF Text
<1>9. Stream(r) = u \o e
    BY <1>6, <1>7, <1>8, StreamConcat, StreamOne
<1>10. Stream(ls) = (u \o e) \o v
    BY <1>6, <1>7, <1>8, <1>9, StreamConcat
<1>11. (u \o e) \o v = u \o (e \o v)
    <2>1. Associates(u, e, v)
        BY AssocText
    <2> QED BY <2>1 DEF Associates
<1>12. u # <<>> => u[Len(u)] = LF
    BY <1>8, StreamEnds, StreamText
<1> QED BY <1>2, <1>8, <1>10, <1>11, <1>12

-----------------------------------------------------------------------------
(***************************************************************************)
(* The sign-up burst                                                       *)
(***************************************************************************)
\* The parts of Words.
Blank(line)  == [i \in DOMAIN line |-> IF line[i] = CR THEN SP ELSE line[i]]
Filled(ws)   == Chosen(ws, {i \in DOMAIN ws : ws[i] # <<>>})

\* Words, by its parts.
LEMMA WordsIs ==
    ASSUME NEW line
    PROVE  Words(line) = Filled(getline(Blank(line), SP))
BY DEF Words, Filled, Blank

\* The carriage return of a line becomes a blank.
LEMMA BlankBody ==
    ASSUME NEW line \in PlainLine
    PROVE  Blank(Body(line) \o <<CR>>) = Body(line) \o <<SP>>
<1>1. PICK a \in Seq(Symbols) : a = Body(line) /\ \A i \in 1 .. Len(a) : a[i] # CR
    <2>1. \A i \in 1 .. Len(Body(line)) : Body(line)[i] \in Symbols \ {CR, LF}
        BY BodyText, ElementOfSeq
    <2> QED BY <2>1, BodyText DEF Text
<1>2. PICK c \in Seq(Symbols), d \in Seq(Symbols) :
          /\ c = <<CR>> /\ Len(c) = 1 /\ c[1] = CR /\ d = <<SP>> /\ Len(d) = 1 /\ d[1] = SP
    <2>1. CR \in Symbols /\ SP \in Symbols
        BY MarksDiffer
    <2>2. PICK c \in Seq(Symbols) : c = <<CR>> /\ Len(c) = 1 /\ c[1] = CR
        BY <2>1, OneSymbol
    <2>3. PICK d \in Seq(Symbols) : d = <<SP>> /\ Len(d) = 1 /\ d[1] = SP
        BY <2>1, OneSymbol
    <2> QED BY <2>2, <2>3
<1>3. PICK x \in Seq(Symbols) :
          /\ x = a \o c /\ Len(x) = Len(a) + 1
          /\ \A i \in 1 .. Len(a) + 1 : x[i] = IF i <= Len(a) THEN a[i] ELSE c[i - Len(a)]
    <2>1. PICK x \in Seq(Symbols) : x = a \o c /\ Joined(x, a, c)
        BY Joining
    <2>2. Len(c) = 1
        BY <1>2
    <2> QED BY <2>1, <2>2 DEF Joined
<1>4. PICK y \in Seq(Symbols) :
          /\ y = a \o d /\ Len(y) = Len(a) + 1
          /\ \A i \in 1 .. Len(a) + 1 : y[i] = IF i <= Len(a) THEN a[i] ELSE d[i - Len(a)]
    <2>1. PICK y \in Seq(Symbols) : y = a \o d /\ Joined(y, a, d)
        BY Joining
    <2>2. Len(d) = 1
        BY <1>2
    <2> QED BY <2>1, <2>2 DEF Joined
<1>5. Len(a) \in Nat /\ DOMAIN x = 1 .. Len(a) + 1 /\ y = [i \in 1 .. Len(a) + 1 |-> y[i]]
    BY <1>3, <1>4, LenProperties
<1>6. ASSUME NEW i \in 1 .. Len(a) + 1 PROVE (IF x[i] = CR THEN SP ELSE x[i]) = y[i]
    <2>1. CASE i <= Len(a)
        <3>1. i \in 1 .. Len(a)
            BY <1>5, <2>1
        <3> QED BY <1>1, <1>3, <1>4, <2>1, <3>1
    <2>2. CASE ~(i <= Len(a))
        <3>1. i - Len(a) = 1
            BY <1>5, <2>2
        <3> QED BY <1>2, <1>3, <1>4, <2>2, <3>1
    <2> QED BY <2>1, <2>2
<1>7. Blank(x) = y
    BY <1>5, <1>6 DEF Blank
<1> QED BY <1>1, <1>2, <1>3, <1>4, <1>7

\* The words of a line in a burst are its words, without the empty ones.
LEMMA WordsOf ==
    ASSUME NEW line \in PlainLine
    PROVE  /\ Words(Body(line) \o <<CR>>) = Filled(line)
           /\ (\A i \in DOMAIN line : line[i] # <<>>) => Filled(line) = line
           /\ line = <<<<>>>> => Filled(line) = <<>>
<1>1. Words(Body(line) \o <<CR>>) = Filled(line)
    BY BlankBody, BodyWords, WordsIs
<1>2. ASSUME \A i \in DOMAIN line : line[i] # <<>> PROVE Filled(line) = line
    <2>1. {i \in DOMAIN line : line[i] # <<>>} = DOMAIN line
        BY <1>2
    <2> QED BY <2>1, PlainLineIs, ChosenAll DEF Filled
<1>3. ASSUME line = <<<<>>>> PROVE Filled(line) = <<>>
    <2>1. {i \in DOMAIN line : line[i] # <<>>} = {}
        BY <1>3
    <2>2. Cardinality({}) = 0 /\ {} \subseteq DOMAIN line
        BY FS_EmptySet
    <2>3. Chosen(line, {}) \in Seq(Text) /\ Len(Chosen(line, {})) = 0
        BY <2>2, PlainLineIs, ChosenList
    <2> QED BY <2>1, <2>3, EmptySeq DEF Filled
<1> QED BY <1>1, <1>2, <1>3

\* What an empty piece of a text tells of the separators in it.
EmptySeen(w, sep, n) ==
    /\ Len(getline(w, sep)) <= n
    /\ \A j \in 1 .. Len(getline(w, sep)) : getline(w, sep)[j] = <<>> =>
           \E c \in 1 .. n : w[c] = sep /\ (c = 1 \/ (c > 1 /\ w[c - 1] = sep))

\* Of a text that ends in the separator, that much is true.
LEMMA EmptyPieceSeen ==
    ASSUME NEW S, NEW sep \in S, NEW w \in Seq(S), NEW n \in Nat \ {0}
    PROVE  Len(w) = n /\ w[n] = sep => EmptySeen(w, sep, n)
BY EmptyPiece DEF EmptySeen

\* An empty word is seen in the text of the line: by a blank at its start, after another
\* blank, or at its end.
LEMMA EmptyWordSeen ==
    ASSUME NEW line \in PlainLine, NEW j \in 1 .. Len(line)
    PROVE  line[j] = <<>> /\ line # <<<<>>>> =>
               \E d \in 1 .. Len(Body(line)) :
                   /\ Body(line)[d] = SP
                   /\ d = 1 \/ (d > 1 /\ Body(line)[d - 1] = SP) \/ d = Len(Body(line))
<1>1. PICK a \in Seq(Symbols), z \in Seq(Symbols) : a = Body(line) /\ z = <<SP>> /\ Len(z) = 1 /\ z[1] = SP
    <2>1. Body(line) \in Seq(Symbols)
        BY BodyText DEF Text
    <2>2. PICK z \in Seq(Symbols) : z = <<SP>> /\ Len(z) = 1 /\ z[1] = SP
        BY MarksDiffer, OneSymbol
    <2> QED BY <2>1, <2>2
<1>2. PICK w \in Seq(Symbols) :
          /\ w = a \o z /\ Len(w) = Len(a) + Len(z)
          /\ \A i \in 1 .. Len(a) + Len(z) : w[i] = IF i <= Len(a) THEN a[i] ELSE z[i - Len(a)]
    <2>1. PICK w \in Seq(Symbols) : w = a \o z /\ Joined(w, a, z)
        BY Joining
    <2> QED BY <2>1 DEF Joined
<1>3. PICK m \in Nat :
          /\ m = Len(a) /\ Len(w) = m + 1 /\ w[m + 1] = SP /\ \A i \in 1 .. m : w[i] = a[i]
    <2>1. PICK m \in Nat : m = Len(a)
        BY LenProperties
    <2>2. Len(w) = m + 1
        BY <1>1, <1>2, <2>1
    <2>3. m + 1 \in 1 .. Len(a) + Len(z) /\ ~(m + 1 <= Len(a)) /\ (m + 1) - Len(a) = 1
        BY <1>1, <2>1
    <2>4. \A i \in 1 .. m : i \in 1 .. Len(a) + Len(z) /\ i <= Len(a)
        BY <1>1, <2>1
    <2> QED BY <1>1, <1>2, <2>1, <2>2, <2>3, <2>4
<1>4. getline(w, SP) = line
    BY <1>1, <1>2, BodyWords
<1>5. PICK n \in Nat \ {0} : n = m + 1 /\ Len(w) = n /\ w[n] = SP
    BY <1>3
<1>6. /\ Len(line) <= n
      /\ line[j] = <<>> => \E c \in 1 .. n : w[c] = SP /\ (c = 1 \/ (c > 1 /\ w[c - 1] = SP))
    <2>1. SP \in Symbols
        BY MarksDiffer
    <2>2. EmptySeen(w, SP, n)
        BY ONLY <1>5, <2>1, w \in Seq(Symbols), EmptyPieceSeen
    <2>3. /\ Len(getline(w, SP)) <= n
          /\ \A i \in 1 .. Len(getline(w, SP)) : getline(w, SP)[i] = <<>> =>
                 \E c \in 1 .. n : w[c] = SP /\ (c = 1 \/ (c > 1 /\ w[c - 1] = SP))
        BY <2>2 DEF EmptySeen
    <2> QED BY <1>4, <2>3
<1>7. line[j] = <<>> /\ line # <<<<>>>> => m # 0
    <2>1. m = 0 => Len(line) = 1 /\ j = 1
        BY <1>5, <1>6, PlainLineIs
    <2>2. Len(line) = 1 => line = <<line[1]>>
        BY PlainLineIs
    <2> QED BY <2>1, <2>2
<1>8. ASSUME m # 0, NEW c \in 1 .. n, w[c] = SP, c = 1 \/ (c > 1 /\ w[c - 1] = SP)
      PROVE  \E d \in 1 .. m : a[d] = SP /\ (d = 1 \/ (d > 1 /\ a[d - 1] = SP) \/ d = m)
    <2>1. CASE c <= m
        <3>1. c \in 1 .. m /\ (c > 1 => c - 1 \in 1 .. m)
            BY <1>5, <2>1
        <3>2. a[c] = SP /\ (c = 1 \/ (c > 1 /\ a[c - 1] = SP))
            BY <1>3, <1>8, <3>1
        <3> QED BY <3>1, <3>2
    <2>2. CASE ~(c <= m)
        <3>1. c > 1 /\ c - 1 = m /\ m \in 1 .. m
            BY <1>5, <1>8, <2>2
        <3>2. a[m] = SP
            BY <1>3, <1>8, <3>1
        <3> QED BY <3>1, <3>2
    <2> QED BY <2>1, <2>2
<1> QED BY <1>1, <1>3, <1>6, <1>7, <1>8

\* With single blanks only, no line has an empty word, unless it is an empty line.
LEMMA NoEmptyWord ==
    ASSUME NEW ls \in Seq(PlainLine), NEW i \in 1 .. Len(ls), NEW j \in 1 .. Len(ls[i])
    PROVE  SingleBlanks(Stream(ls)) /\ ls[i] # <<<<>>>> => ls[i][j] # <<>>
<1>1. PICK line \in PlainLine : line = ls[i] /\ j \in 1 .. Len(line)
    BY PlainLines
<1>2. line[j] = <<>> /\ line # <<<<>>>> =>
          \E d \in 1 .. Len(Body(line)) :
              /\ Body(line)[d] = SP
              /\ d = 1 \/ (d > 1 /\ Body(line)[d - 1] = SP) \/ d = Len(Body(line))
    BY <1>1, EmptyWordSeen
<1>3. PICK a \in Seq(Symbols) : a = Body(line)
    BY BodyText DEF Text
<1>5. PICK u \in Seq(Symbols), t \in Seq(Symbols) :
          (u # <<>> => u[Len(u)] = LF) /\ Stream(ls) = u \o (Encode(line) \o t)
    BY <1>1, StreamAt
<1>6. PICK z \in Seq(Symbols) : z = <<CR, LF>> /\ Encode(line) = a \o z
    BY <1>3, EncodeMade, Marks DEF Text
<1>7. PICK v \in Seq(Symbols) : v = z \o t /\ Len(v) \in Nat \ {0} /\ v[1] = CR
    <2>1. PICK v \in Seq(Symbols) :
              /\ v = z \o t /\ Len(v) = Len(z) + Len(t)
              /\ \A k \in 1 .. Len(z) + Len(t) : v[k] = IF k <= Len(z) THEN z[k] ELSE t[k - Len(z)]
        <3>1. PICK v \in Seq(Symbols) : v = z \o t /\ Joined(v, z, t)
            BY Joining
        <3> QED BY <3>1 DEF Joined
    <2>2. Len(z) = 2 /\ z[1] = CR
        BY <1>6
    <2>3. Len(t) \in Nat
        BY LenProperties
    <2>4. 1 \in 1 .. Len(z) + Len(t) /\ 1 <= Len(z)
        BY <2>2, <2>3
    <2>5. v[1] = CR
        BY <2>1, <2>2, <2>4
    <2>6. Len(v) \in Nat \ {0}
        BY <2>1, <2>2, <2>3
    <2> QED BY <2>1, <2>5, <2>6
<1>8. (a \o z) \o t = a \o (z \o t)
    <2>1. Associates(a, z, t)
        BY AssocText
    <2> QED BY <2>1 DEF Associates
<1>9. PICK x \in Seq(Symbols) :
          /\ x = u \o (a \o v) /\ DOMAIN x = 1 .. Len(u) + (Len(a) + Len(v))
          /\ \A k \in 1 .. Len(u) : x[k] = u[k]
          /\ \A k \in 1 .. Len(a) : x[Len(u) + k] = a[k]
          /\ \A k \in 1 .. Len(v) : x[Len(u) + (Len(a) + k)] = v[k]
    <2>1. PICK x \in Seq(Symbols) : x = u \o (a \o v) /\ Threefold(x, u, a, v)
        BY Within
    <2> QED BY <2>1 DEF Threefold
<1>10. x = Stream(ls)
    BY <1>5, <1>6, <1>7, <1>8, <1>9
<1>11. Len(u) \in Nat /\ Len(a) \in Nat /\ (Len(u) # 0 => u[Len(u)] = LF)
    BY <1>5, LenProperties, EmptySeq
<1>4. SUFFICES ASSUME SingleBlanks(x), NEW d \in 1 .. Len(a),
                      a[d] = SP, d = 1 \/ (d > 1 /\ a[d - 1] = SP) \/ d = Len(a)
               PROVE  FALSE
    BY <1>1, <1>2, <1>3, <1>10
<1>12. PICK g \in DOMAIN x : g = Len(u) + d /\ x[g] = SP
    <2>1. PICK p \in Nat, q \in Nat, r \in Nat : p = Len(u) /\ q = Len(a) /\ r = Len(v)
        BY <1>7, <1>11
    <2>2. d \in 1 .. q
        BY <2>1
    <2>3. p + d \in 1 .. p + (q + r)
        BY ONLY <2>2, p \in Nat, q \in Nat, r \in Nat
    <2>4. Len(u) + d \in DOMAIN x
        BY <1>9, <2>1, <2>3
    <2> QED BY <1>4, <1>9, <2>4
<1>13. g > 1 /\ x[g - 1] \notin {SP, LF} /\ x[g + 1] \notin {SP, CR}
    BY <1>4, <1>12 DEF SingleBlanks
<1>14. CASE d = 1
    <2>1. Len(u) # 0 /\ g - 1 = Len(u) /\ Len(u) \in 1 .. Len(u)
        BY <1>11, <1>12, <1>13, <1>14
    <2>2. x[g - 1] = LF
        BY <1>9, <1>11, <2>1
    <2> QED BY <1>13, <2>2
<1>15. CASE d > 1 /\ a[d - 1] = SP
    <2>1. d - 1 \in 1 .. Len(a) /\ g - 1 = Len(u) + (d - 1)
        BY <1>11, <1>12, <1>15
    <2>2. x[g - 1] = SP
        BY <1>9, <1>15, <2>1
    <2> QED BY <1>13, <2>2
<1>16. CASE d = Len(a)
    <2>1. 1 \in 1 .. Len(v) /\ g + 1 = Len(u) + (Len(a) + 1)
        BY <1>7, <1>11, <1>12, <1>16
    <2>2. x[g + 1] = CR
        BY <1>7, <1>9, <2>1
    <2> QED BY <1>13, <2>2
<1> QED BY <1>4, <1>14, <1>15, <1>16

\* The lines of a stream, taken apart at the line feeds.
Bodies(ls) == [i \in DOMAIN ls |-> Body(ls[i]) \o <<CR>>]

\* A stream is taken apart at the line feeds.
LEMMA StreamLines ==
    ASSUME NEW ls \in Seq(PlainLine)
    PROVE  getline(Stream(ls), LF) = Bodies(ls)
<1> DEFINE S == Symbols \ {LF}
           bodies == Bodies(ls)
<1>1. /\ ls \in Lines /\ Len(ls) \in Nat /\ DOMAIN ls = 1 .. Len(ls)
      /\ \A i \in 1 .. Len(ls) : ls[i] \in PlainLine
    BY PlainLines, LenProperties
<1>2. ASSUME NEW line \in PlainLine
      PROVE  Body(line) \o <<CR>> \in Seq(S) /\ (Body(line) \o <<CR>>) \o <<LF>> = Encode(line)
    <2>1. CR \in S
        BY MarksDiffer
    <2>2. Body(line) \in Seq(S)
        <3>1. Symbols \ {CR, LF} \subseteq S
            OBVIOUS
        <3>2. Seq(Symbols \ {CR, LF}) \subseteq Seq(S)
            BY <3>1, SeqMonotonic
        <3> QED BY <3>2, BodyText
    <2> HIDE DEF S
    <2>3. Body(line) \o <<CR>> \in Seq(S)
        BY <2>1, <2>2, ConcatProperties
    <2>4. PICK a \in Seq(Symbols), c \in Seq(Symbols), d \in Seq(Symbols) :
              a = Body(line) /\ c = <<CR>> /\ d = <<LF>>
        <3>1. PICK c \in Seq(Symbols) : c = <<CR>>
            BY MarksDiffer, OneSymbol
        <3>2. PICK d \in Seq(Symbols) : d = <<LF>>
            BY MarksDiffer, OneSymbol
        <3>3. Body(line) \in Seq(Symbols)
            BY BodyText DEF Text
        <3> QED BY <3>1, <3>2, <3>3
    <2>5. (a \o c) \o d = a \o (c \o d)
        <3>1. Associates(a, c, d)
            BY AssocText
        <3> QED BY <3>1 DEF Associates
    <2>6. <<CR>> \o <<LF>> = <<CR, LF>>
        <3>1. CR \in Symbols /\ LF \in Symbols
            BY MarksDiffer
        <3> QED BY <3>1, TwoSymbols
    <2> QED BY <2>3, <2>4, <2>5, <2>6, EncodeMade
<1>3. bodies \in Seq(Seq(S)) /\ Len(bodies) = Len(ls) /\ \A i \in 1 .. Len(ls) : bodies[i] = Body(ls[i]) \o <<CR>>
    <2>1. \A i \in 1 .. Len(ls) : Body(ls[i]) \o <<CR>> \in Seq(S)
        BY <1>1, <1>2
    <2> HIDE DEF S
    <2>2. [i \in 1 .. Len(ls) |-> Body(ls[i]) \o <<CR>>] \in Seq(Seq(S))
        BY <1>1, <2>1
    <2>3. bodies = [i \in 1 .. Len(ls) |-> Body(ls[i]) \o <<CR>>]
        BY <1>1 DEF Bodies
    <2> HIDE DEF bodies
    <2> QED BY <1>1, <2>2, <2>3, LenProperties
<1>4. LF \in Symbols
    BY MarksDiffer
<1>5. Ended(bodies, LF) = Encoded(ls)
    <2>1. DOMAIN bodies = 1 .. Len(ls)
        BY <1>1 DEF Bodies
    <2>2. \A i \in 1 .. Len(ls) : bodies[i] \o <<LF>> = Encode(ls[i])
        BY <1>1, <1>2, <1>3
    <2> HIDE DEF bodies
    <2> QED BY <1>1, <2>1, <2>2 DEF Ended, Encoded
<1> HIDE DEF bodies
<1>6. getline(FlattenSeq(Ended(bodies, LF)), LF) = bodies
    BY <1>3, <1>4, GetlineEnded
<1>7. Stream(ls) = FlattenSeq(Encoded(ls))
    BY <1>1, StreamText
<1> QED BY <1>5, <1>6, <1>7 DEF bodies

\* The text of a line, as getline hands it over: with its carriage return.
TextOf(line) == Body(line) \o <<CR>>

\* It is a text; the line as it is sent has the line feed after it.
LEMMA TextIs ==
    ASSUME NEW line \in PlainLine
    PROVE  TextOf(line) \in Text /\ Front(Encode(line)) = TextOf(line)
<1>1. PICK a \in Seq(Symbols), c \in Seq(Symbols), d \in Seq(Symbols) :
          a = Body(line) /\ c = <<CR>> /\ d = <<LF>> /\ Len(d) = 1
    <2>1. Body(line) \in Seq(Symbols)
        BY BodyText DEF Text
    <2>2. PICK c \in Seq(Symbols) : c = <<CR>>
        BY MarksDiffer, OneSymbol
    <2>3. PICK d \in Seq(Symbols) : d = <<LF>> /\ Len(d) = 1
        BY MarksDiffer, OneSymbol
    <2> QED BY <2>1, <2>2, <2>3
<1>2. PICK x \in Seq(Symbols) : x = TextOf(line) /\ x = a \o c
    <2>1. a \o c \in Seq(Symbols)
        BY ConcatProperties
    <2> QED BY <1>1, <2>1 DEF TextOf
<1>3. PICK e \in Seq(Symbols) : e = Encode(line) /\ e = x \o d /\ e # <<>>
    <2>1. Associates(a, c, d)
        BY AssocText
    <2>2. <<CR>> \o <<LF>> = <<CR, LF>>
        BY MarksDiffer, TwoSymbols
    <2>3. Encode(line) = a \o <<CR, LF>>
        BY <1>1, EncodeMade
    <2>4. Encode(line) = x \o d
        BY <1>1, <1>2, <2>1, <2>2, <2>3 DEF Associates
    <2>5. Encode(line) \in Seq(Symbols) /\ Encode(line) # <<>>
        BY EncodeEnds, EmptySeq DEF Text
    <2> QED BY <2>4, <2>5
<1>4. PICK f \in Seq(Symbols), l \in Symbols : f = Front(e) /\ e = Append(f, l) /\ Len(f) = Len(e) - 1
    BY <1>3, FrontIs
<1>5. PICK g \in Seq(Symbols) : g = <<l>> /\ e = f \o g
    <2>1. PICK g \in Seq(Symbols) : g = <<l>>
        BY OneSymbol
    <2> QED BY <1>4, <2>1, AppendIsConcat
<1>6. Len(x) = Len(f)
    <2>1. Len(e) = Len(x) + 1 /\ Len(x) \in Nat
        BY <1>1, <1>3, ConcatProperties, LenProperties
    <2> QED BY <1>4, <2>1
<1>7. x = f
    <2>1. x \o d = f \o g
        BY <1>3, <1>5
    <2> QED BY <1>6, <2>1, Cancelling
<1> QED BY <1>2, <1>3, <1>4, <1>7 DEF Text

\* A text is what comes before its last symbol.
LEMMA SameBefore ==
    ASSUME NEW a \in Seq(Symbols), NEW b \in Seq(Symbols), NEW c \in Symbols, a \o <<c>> = b \o <<c>>
    PROVE  a = b
<1>1. PICK z \in Seq(Symbols) : z = <<c>> /\ Len(z) = 1
    BY OneSymbol
<1>2. Len(a \o z) = Len(a) + 1 /\ Len(b \o z) = Len(b) + 1 /\ Len(a) \in Nat /\ Len(b) \in Nat
    BY <1>1, ConcatProperties, LenProperties
<1>3. a \o z = b \o z
    BY <1>1
<1>4. Len(a) = Len(b)
    BY <1>2, <1>3
<1> QED BY <1>3, <1>4, Cancelling

\* The text of a word, and of a word and more.
LEMMA TextMore ==
    ASSUME NEW w \in Seq(Plain)
    PROVE  /\ TextOf(<<w>>) = w \o <<CR>>
           /\ \A q \in PlainLine : TextOf(<<w>> \o q) = w \o (<<SP>> \o TextOf(q))
<1>1. <<w>> \in PlainLine /\ <<w>> \in Seq(Seq(Symbols)) /\ w \in Seq(Symbols)
    <2>1. <<w>> \in PlainLine
        BY DEF PlainLine
    <2>2. w \in Seq(Symbols)
        BY SeqMonotonic DEF Plain
    <2> QED BY <2>1, <2>2
<1>2. PICK z \in Seq(Symbols), c \in Seq(Symbols) : z = <<SP>> /\ c = <<CR>>
    BY MarksDiffer, OneSymbol
<1>3. FlattenSeq(Ended(<<w>>, SP)) = w \o z
    <2>1. Ended(<<w>>, SP) = <<w \o <<SP>>>>
        <3>1. PICK x : x = w \o <<SP>>
            OBVIOUS
        <3>2. DOMAIN <<w>> = {1} /\ <<w>>[1] = w
            OBVIOUS
        <3>3. [i \in DOMAIN <<w>> |-> <<w>>[i] \o <<SP>>] = [i \in {1} |-> x]
            BY <3>1, <3>2
        <3>4. <<x>> = [i \in {1} |-> x]
            OBVIOUS
        <3> QED BY <3>1, <3>3, <3>4 DEF Ended
    <2>2. w \o z \in Seq(Symbols)
        BY <1>1, ConcatProperties
    <2> QED BY <1>2, <2>1, <2>2, FlattenOne
<1>4. Body(<<w>>) = w
    <2>1. Body(<<w>>) \o <<SP>> = w \o <<SP>>
        BY <1>1, <1>2, <1>3, BodyEnded
    <2>2. Body(<<w>>) \in Seq(Symbols)
        BY <1>1, BodyText DEF Text
    <2> QED BY <1>1, <2>1, <2>2, MarksDiffer, SameBefore
<1>5. ASSUME NEW q \in PlainLine PROVE TextOf(<<w>> \o q) = w \o (<<SP>> \o TextOf(q))
    <2>1. PICK line \in PlainLine : line = <<w>> \o q
        <3>1. <<w>> \in Seq(Seq(Plain)) /\ q \in Seq(Seq(Plain)) /\ Len(q) \in Nat \ {0}
            BY PlainLineIs
        <3>2. <<w>> \o q \in Seq(Seq(Plain)) /\ Len(<<w>> \o q) = Len(<<w>>) + Len(q)
            BY <3>1, ConcatProperties
        <3>3. <<w>> \o q # <<>>
            BY <3>1, <3>2, EmptySeq
        <3> QED BY <3>2, <3>3 DEF PlainLine
    <2>2. PICK a \in Seq(Symbols), b \in Seq(Symbols) : a = Body(line) /\ b = Body(q)
        BY BodyText DEF Text
    <2>3. a \o z = (w \o z) \o (b \o z)
        <3>1. q \in Seq(Seq(Symbols))
            BY PlainLineIs DEF Text
        <3>2. Ended(line, SP) = Ended(<<w>>, SP) \o Ended(q, SP)
            BY <1>1, <2>1, <3>1, MarksDiffer, EndedConcat
        <3>3. Ended(<<w>>, SP) \in Seq(Seq(Symbols)) /\ Ended(q, SP) \in Seq(Seq(Symbols))
            BY <1>1, <3>1, MarksDiffer, EndedList
        <3>4. FlattenSeq(Ended(line, SP))
                  = FlattenSeq(Ended(<<w>>, SP)) \o FlattenSeq(Ended(q, SP))
            BY <3>2, <3>3, FlattenConcat
        <3> QED BY <1>2, <1>3, <2>2, <3>4, BodyEnded
    <2>4. PICK d \in Seq(Symbols) : d = w \o z
        BY <1>1, ConcatProperties
    <2>5. Associates(d, b, z) /\ Associates(d, b, c) /\ Associates(w, z, b \o c)
        <3>1. b \o c \in Seq(Symbols)
            BY ConcatProperties
        <3> QED BY <1>1, <3>1, AssocText
    <2>6. a = d \o b
        <3>1. a \o z = (d \o b) \o z
            BY <2>3, <2>4, <2>5 DEF Associates
        <3>2. d \o b \in Seq(Symbols)
            BY ConcatProperties
        <3> QED BY <1>2, <3>1, <3>2, MarksDiffer, SameBefore
    <2>7. a \o c = w \o (z \o (b \o c))
        BY <2>4, <2>5, <2>6 DEF Associates
    <2> QED BY <1>2, <2>1, <2>2, <2>7 DEF TextOf
<1> QED BY <1>2, <1>4, <1>5 DEF TextOf

\* A part of one place.
LEMMA PartOfOne ==
    ASSUME NEW S, NEW s \in Seq(S), NEW k \in 1 .. Len(s)
    PROVE  SubSeq(s, k, k) = <<s[k]>>
<1>1. k \in Nat \ {0} /\ k \in Int /\ k <= Len(s) /\ s[k] \in S
    BY LenProperties, ElementOfSeq
<1>2. PICK p \in Seq(S) : p = SubSeq(s, k, k) /\ Len(p) = 1
    <2>1. SubSeq(s, k, k) \in Seq(S) /\ Len(SubSeq(s, k, k)) = k - k + 1
        BY <1>1, PartOfList
    <2>2. k - k + 1 = 1
        BY <1>1
    <2>3. Len(SubSeq(s, k, k)) = 1
        BY <2>1, <2>2
    <2> QED BY <2>1, <2>3
<1>3. PICK q \in Seq(S) : q = <<s[k]>> /\ Len(q) = 1 /\ q[1] = s[k]
    BY <1>1, OneSymbol
<1>4. p[1] = s[k]
    BY <1>1, <1>2, SubSeqProperties
<1>5. \A i \in 1 .. Len(p) : p[i] = q[i]
    <2> TAKE i \in 1 .. Len(p)
    <2>1. i = 1
        BY <1>2
    <2> QED BY <1>3, <1>4, <2>1
<1>6. p = q
    BY <1>2, <1>3, <1>5, SeqEqual
<1> QED BY <1>2, <1>3, <1>6

\* A symbol that is not looked for is left out at the start.
LEMMA FromLater ==
    ASSUME NEW c \in Symbols, NEW v \in Text, NEW S, c \notin S, v # <<>>, v[1] \in S
    PROVE  From(<<c>> \o v, S) = v
<1>1. PICK u \in Text : u = <<c>> /\ Len(u) = 1 /\ u[1] = c
    BY OneSymbol DEF Text
<1>2. \A i \in 1 .. Len(u) : u[i] \notin S
    BY <1>1
<1>3. CutsAt(u, v, S)
    BY <1>2, CutJoined
<1> QED BY <1>1, <1>3 DEF CutsAt

\* The next word of a text, with a blank before it or without, and what follows it.
LEMMA WordStep ==
    ASSUME NEW w \in Seq(Plain), w # <<>>, NEW t \in Text, t # <<>>, t[1] \in Blanks
    PROVE  /\ NextWord(w \o t) = w /\ AfterWord(w \o t) = t
           /\ NextWord(<<SP>> \o (w \o t)) = w /\ AfterWord(<<SP>> \o (w \o t)) = t
<1>1. /\ w \in Text /\ Len(w) \in Nat \ {0}
      /\ \A i \in 1 .. Len(w) : w[i] \in Symbols \ Blanks /\ w[i] \notin Blanks
    <2>1. \A i \in 1 .. Len(w) : w[i] \in Plain
        BY ElementOfSeq
    <2>2. Plain \subseteq Symbols \ Blanks
        BY DEF Plain, Blanks
    <2>3. w \in Text
        BY SeqMonotonic DEF Plain, Text
    <2>4. Len(w) \in Nat \ {0}
        BY EmptySeq
    <2> QED BY <2>1, <2>2, <2>3, <2>4
<1>2. PICK x \in Text : x = w \o t /\ x # <<>> /\ x[1] \in Symbols \ Blanks
    <2>1. PICK x \in Text : x = w \o t /\ Joined(x, w, t)
        BY <1>1, Joining DEF Text
    <2>2. Len(t) \in Nat
        BY LenProperties DEF Text
    <2>3. 1 \in 1 .. Len(w) + Len(t) /\ 1 <= Len(w) /\ 1 \in 1 .. Len(w) /\ Len(x) # 0
        BY <1>1, <2>1, <2>2 DEF Joined
    <2>4. x[1] = w[1]
        BY <2>1, <2>3 DEF Joined
    <2> QED BY <1>1, <2>1, <2>3, <2>4, EmptySeq
<1>3. From(x, Symbols \ Blanks) = x /\ From(<<SP>> \o x, Symbols \ Blanks) = x
    <2>1. SP \in Symbols /\ SP \notin Symbols \ Blanks
        BY MarksDiffer DEF Blanks
    <2>2. PICK S : S = Symbols \ Blanks
        OBVIOUS
    <2>3. x # <<>> /\ x[1] \in S /\ SP \notin S
        BY <1>2, <2>1, <2>2
    <2>4. From(x, S) = x
        BY <2>3, CutFirst
    <2>5. From(<<SP>> \o x, S) = x
        BY <2>1, <2>3, FromLater
    <2> QED BY <2>2, <2>4, <2>5
<1>4. UpTo(x, Blanks) = w /\ From(x, Blanks) = t
    <2>1. CutsAt(w, t, Blanks)
        BY <1>1, CutJoined
    <2> QED BY <1>2, <2>1 DEF CutsAt
<1> QED BY <1>2, <1>3, <1>4 DEF NextWord, AfterWord

\* At the end of a text nothing is left.
LEMMA WordsEnd ==
    AfterWord(<<CR>>) = <<>> /\ AfterWord(<<>>) = <<>> /\ From(<<>>, Symbols \ {SP}) = <<>>
<1>1. <<>> \in Text /\ Len(<<>>) = 0
    BY EmptySeq DEF Text
<1>2. \A S : From(<<>>, S) = <<>>
    <2> TAKE S
    <2>1. \A i \in 1 .. Len(<<>>) : <<>>[i] \notin S
        BY <1>1
    <2> QED BY <1>1, <2>1, CutNone
<1>3. From(<<CR>>, Symbols \ Blanks) = <<>>
    <2>1. PICK t \in Text : t = <<CR>> /\ Len(t) = 1 /\ t[1] = CR
        BY MarksDiffer, OneSymbol DEF Text
    <2>2. \A i \in 1 .. Len(t) : t[i] \notin Symbols \ Blanks
        BY <2>1 DEF Blanks
    <2> QED BY <2>1, <2>2, CutNone
<1> QED BY <1>2, <1>3 DEF AfterWord

\* What is left of the text of a line after k words.
Left(line, k) ==
    IF k < Len(line) THEN <<SP>> \o TextOf(SubSeq(line, k + 1, Len(line)))
    ELSE IF k = Len(line) THEN <<CR>> ELSE <<>>

\* The text of a line from its k-th word on.
LEMMA TextFrom ==
    ASSUME NEW line \in PlainLine, NEW k \in 1 .. Len(line)
    PROVE  /\ SubSeq(line, k, Len(line)) \in PlainLine /\ line[k] \in Seq(Plain)
           /\ Left(line, k) \in Text /\ Left(line, k) # <<>> /\ Left(line, k)[1] \in Blanks
           /\ TextOf(SubSeq(line, k, Len(line))) = line[k] \o Left(line, k)
<1>1. PICK n \in Nat \ {0} : n = Len(line) /\ k \in 1 .. n /\ line \in Seq(Seq(Plain))
    BY PlainLineIs
<1>2. PICK w \in Seq(Plain) : w = line[k]
    BY PlainLineIs
<1>3. PICK z \in Text : z = <<SP>> /\ Len(z) = 1 /\ z[1] = SP
    BY MarksDiffer, OneSymbol DEF Text
<1>4. PICK c \in Text : c = <<CR>> /\ Len(c) = 1 /\ c[1] = CR
    BY MarksDiffer, OneSymbol DEF Text
<1>5. SP \in Blanks /\ CR \in Blanks
    BY DEF Blanks
<1>6. CASE k = n
    <2>1. SubSeq(line, k, n) = <<w>>
        <3>1. SubSeq(line, k, k) = <<line[k]>>
            BY <1>1, PartOfOne
        <3> QED BY <1>2, <1>6, <3>1
    <2>2. Left(line, k) = c
        BY <1>1, <1>4, <1>6 DEF Left
    <2>3. <<w>> \in PlainLine
        BY DEF PlainLine
    <2>4. c # <<>>
        BY <1>4
    <2> QED BY <1>1, <1>2, <1>4, <1>5, <2>1, <2>2, <2>3, <2>4, TextMore
<1>7. CASE k # n
    <2>1. PICK q \in PlainLine : q = SubSeq(line, k + 1, n)
        <3>1. k + 1 \in Nat \ {0} /\ n \in Int /\ n <= n /\ k + 1 <= n /\ n - (k + 1) + 1 \in Nat \ {0}
            BY <1>1, <1>7
        <3>2. SubSeq(line, k + 1, n) \in Seq(Seq(Plain)) /\ Len(SubSeq(line, k + 1, n)) = n - (k + 1) + 1
            BY <1>1, <3>1, PartOfList
        <3>3. SubSeq(line, k + 1, n) # <<>>
            BY <3>1, <3>2, EmptySeq
        <3> QED BY <3>2, <3>3 DEF PlainLine
    <2>2. SubSeq(line, k, n) = <<w>> \o q
        <3>1. SubSeq(line, k, k) \o SubSeq(line, k + 1, n) = SubSeq(line, k, n)
            <4>1. k \in 1 .. Len(line) + 1 /\ k \in k - 1 .. Len(line) /\ n \in k .. Len(line)
                BY <1>1
            <4> QED BY <1>1, <4>1, ConcatAdjacentSubSeq
        <3>2. SubSeq(line, k, k) = <<line[k]>>
            BY <1>1, PartOfOne
        <3> QED BY <1>2, <2>1, <3>1, <3>2
    <2>3. PICK v \in Text : v = TextOf(q)
        BY TextIs
    <2>4. PICK x \in Text : x = z \o v /\ x # <<>> /\ x[1] = SP
        <3>1. PICK x \in Text : x = z \o v /\ Joined(x, z, v)
            BY Joining DEF Text
        <3>2. Len(v) \in Nat
            BY LenProperties DEF Text
        <3>3. 1 \in 1 .. Len(z) + Len(v) /\ 1 <= Len(z) /\ Len(x) # 0
            BY <1>3, <3>1, <3>2 DEF Joined
        <3>4. x[1] = SP
            BY <1>3, <3>1, <3>3 DEF Joined
        <3> QED BY <3>1, <3>3, <3>4, EmptySeq
    <2>5. Left(line, k) = x
        <3>1. k < Len(line)
            BY <1>1, <1>7
        <3> QED BY <1>1, <1>3, <2>1, <2>3, <2>4, <3>1 DEF Left
    <2>6. TextOf(SubSeq(line, k, n)) = w \o x
        BY <1>3, <2>2, <2>3, <2>4, TextMore
    <2>7. SubSeq(line, k, n) \in PlainLine
        <3>1. k \in Nat \ {0} /\ n \in Int /\ n <= n /\ k <= n /\ n - k + 1 \in Nat \ {0}
            BY <1>1
        <3>2. SubSeq(line, k, n) \in Seq(Seq(Plain)) /\ Len(SubSeq(line, k, n)) = n - k + 1
            BY <1>1, <3>1, PartOfList
        <3>3. SubSeq(line, k, n) # <<>>
            BY <3>1, <3>2, EmptySeq
        <3> QED BY <3>2, <3>3 DEF PlainLine
    <2> QED BY <1>1, <1>2, <1>5, <2>4, <2>5, <2>6, <2>7
<1> QED BY <1>6, <1>7

\* The words of a line, one after the other.
LEMMA WordAfter ==
    ASSUME NEW line \in PlainLine, \A i \in 1 .. Len(line) : line[i] # <<>>, NEW k \in Nat \ {0}
    PROVE  /\ NextWord(TextOf(line)) = line[1] /\ AfterWord(TextOf(line)) = Left(line, 1)
           /\ AfterWord(Left(line, k)) = Left(line, k + 1)
           /\ k < Len(line) => NextWord(Left(line, k)) = line[k + 1]
<1>1. PICK n \in Nat \ {0} : n = Len(line)
    BY PlainLineIs
<1>2. NextWord(TextOf(line)) = line[1] /\ AfterWord(TextOf(line)) = Left(line, 1)
    <2>1. 1 \in 1 .. Len(line) /\ SubSeq(line, 1, Len(line)) = line
        BY <1>1, SubSeqFull DEF PlainLine
    <2>2. TextOf(line) = line[1] \o Left(line, 1) /\ line[1] \in Seq(Plain) /\ line[1] # <<>>
        BY <2>1, TextFrom
    <2>3. Left(line, 1) \in Text /\ Left(line, 1) # <<>> /\ Left(line, 1)[1] \in Blanks
        BY <2>1, TextFrom
    <2> QED BY <2>2, <2>3, WordStep
<1>3. CASE k < n
    <2>1. k + 1 \in 1 .. Len(line)
        BY <1>1, <1>3
    <2>2. Left(line, k) = <<SP>> \o TextOf(SubSeq(line, k + 1, Len(line)))
        BY <1>1, <1>3 DEF Left
    <2>3. /\ TextOf(SubSeq(line, k + 1, Len(line))) = line[k + 1] \o Left(line, k + 1)
          /\ line[k + 1] \in Seq(Plain) /\ line[k + 1] # <<>>
        BY <2>1, TextFrom
    <2>4. Left(line, k + 1) \in Text /\ Left(line, k + 1) # <<>> /\ Left(line, k + 1)[1] \in Blanks
        BY <2>1, TextFrom
    <2>5. /\ NextWord(<<SP>> \o (line[k + 1] \o Left(line, k + 1))) = line[k + 1]
          /\ AfterWord(<<SP>> \o (line[k + 1] \o Left(line, k + 1))) = Left(line, k + 1)
        BY <2>3, <2>4, WordStep
    <2> QED BY <1>2, <2>2, <2>3, <2>5
<1>4. CASE ~(k < n)
    <2>1. ~(k < Len(line)) /\ ~(k + 1 < Len(line)) /\ k + 1 # Len(line)
        BY <1>1, <1>4
    <2>2. Left(line, k) \in {<<CR>>, <<>>} /\ Left(line, k + 1) = <<>>
        BY <2>1 DEF Left
    <2> QED BY <1>2, <2>1, <2>2, WordsEnd
<1> QED BY <1>3, <1>4

\* A USER line of a burst with a real name has four words, and the rest is one.
LEMMA UserLine ==
    ASSUME NEW line \in PlainLine, \A i \in 1 .. Len(line) : line[i] # <<>>,
           RealName(TextOf(line)) # <<>>
    PROVE  Len(line) > 3 /\ UserWords(TextOf(line)) = Append(SubSeq(line, 1, 4), Rest(line))
<1>1. PICK n \in Nat \ {0} : n = Len(line)
    BY PlainLineIs
<1>2. /\ NextWord(TextOf(line)) = line[1] /\ AfterWord(TextOf(line)) = Left(line, 1)
      /\ AfterWord(Left(line, 1)) = Left(line, 2) /\ AfterWord(Left(line, 2)) = Left(line, 3)
      /\ AfterWord(Left(line, 3)) = Left(line, 4)
    <2>1. /\ 1 \in Nat \ {0} /\ 2 \in Nat \ {0} /\ 3 \in Nat \ {0}
          /\ 1 + 1 = 2 /\ 2 + 1 = 3 /\ 3 + 1 = 4
        OBVIOUS
    <2>2. \A k \in Nat \ {0} : AfterWord(Left(line, k)) = Left(line, k + 1)
        BY WordAfter
    <2>3. NextWord(TextOf(line)) = line[1] /\ AfterWord(TextOf(line)) = Left(line, 1)
        BY <2>1, WordAfter
    <2> QED BY <2>1, <2>2, <2>3
<1>3. RealName(TextOf(line)) = From(Left(line, 4), Symbols \ {SP})
    BY <1>2 DEF RealName
<1>4. n > 3
    <2> SUFFICES ASSUME ~(n > 3) PROVE FALSE
        OBVIOUS
    <2>1. ~(4 < Len(line)) /\ 4 # Len(line)
        BY <1>1
    <2>2. Left(line, 4) = <<>>
        BY <2>1 DEF Left
    <2> QED BY <1>3, <2>2, WordsEnd
<1>5. /\ NextWord(Left(line, 1)) = line[2] /\ NextWord(Left(line, 2)) = line[3]
      /\ NextWord(Left(line, 3)) = line[4]
    <2>1. /\ 1 \in Nat \ {0} /\ 2 \in Nat \ {0} /\ 3 \in Nat \ {0}
          /\ 1 < Len(line) /\ 2 < Len(line) /\ 3 < Len(line)
          /\ 1 + 1 = 2 /\ 2 + 1 = 3 /\ 3 + 1 = 4
        BY <1>1, <1>4
    <2>2. \A k \in Nat \ {0} : k < Len(line) => NextWord(Left(line, k)) = line[k + 1]
        BY WordAfter
    <2> QED BY <2>1, <2>2
<1>6. RealName(TextOf(line)) = Rest(line)
    <2>1. CASE n = 4
        <3>1. PICK c \in Text : c = <<CR>> /\ Len(c) = 1 /\ c[1] = CR
            BY MarksDiffer, OneSymbol DEF Text
        <3>2. CR \in Symbols \ {SP} /\ c # <<>>
            BY <3>1, MarksDiffer
        <3>3. From(c, Symbols \ {SP}) = c
            BY <3>1, <3>2, CutFirst
        <3>4. Left(line, 4) = c /\ Rest(line) = c
            BY <1>1, <2>1, <3>1 DEF Left, Rest
        <3> QED BY <1>3, <3>3, <3>4
    <2>2. CASE n # 4
        <3>1. 5 \in 1 .. Len(line) /\ 4 < Len(line) /\ 4 + 1 = 5 /\ Len(line) # 4
            BY <1>1, <1>4, <2>2
        <3>2. PICK q \in PlainLine : q = SubSeq(line, 5, Len(line)) /\ TextOf(q) = line[5] \o Left(line, 5)
            BY <3>1, TextFrom
        <3>3. PICK v \in Text : v = TextOf(q) /\ v # <<>> /\ v[1] \in Symbols \ {SP}
            <4>1. PICK w \in Seq(Plain) : w = line[5] /\ w # <<>>
                BY <3>1, TextFrom
            <4>2. PICK l \in Text : l = Left(line, 5)
                BY <3>1, TextFrom
            <4>3. w \in Text /\ Len(w) \in Nat \ {0} /\ 1 \in 1 .. Len(w)
                BY <4>1, SeqMonotonic, EmptySeq DEF Plain, Text
            <4>4. w[1] \in Symbols \ {SP}
                BY <4>3, ElementOfSeq DEF Plain
            <4>5. PICK v \in Text : v = w \o l /\ Joined(v, w, l)
                BY <4>3, Joining DEF Text
            <4>6. Len(l) \in Nat
                BY LenProperties DEF Text
            <4>7. 1 \in 1 .. Len(w) + Len(l) /\ 1 <= Len(w) /\ Len(v) # 0
                BY <4>3, <4>5, <4>6 DEF Joined
            <4>8. v[1] = w[1]
                BY <4>5, <4>7 DEF Joined
            <4> QED BY <3>2, <4>1, <4>2, <4>4, <4>5, <4>7, <4>8, EmptySeq
        <3>4. Left(line, 4) = <<SP>> \o v
            BY <3>1, <3>2, <3>3 DEF Left
        <3>5. From(<<SP>> \o v, Symbols \ {SP}) = v
            BY <3>3, MarksDiffer, FromLater
        <3>6. Rest(line) = v
            BY <3>1, <3>2, <3>3, TextIs DEF Rest
        <3> QED BY <1>3, <3>4, <3>5, <3>6
    <2> QED BY <2>1, <2>2
<1>7. UserWords(TextOf(line)) = <<line[1], line[2], line[3], line[4], Rest(line)>>
    BY <1>2, <1>5, <1>6 DEF UserWords
<1>8. SubSeq(line, 1, 4) = <<line[1], line[2], line[3], line[4]>>
    <2>1. 4 <= Len(line) /\ line \in Seq(Text)
        BY <1>1, <1>4, PlainLineIs
    <2>2. PICK p \in Seq(Text) : p = SubSeq(line, 1, 4) /\ Len(p) = 4
        <3>1. 4 \in Int /\ 1 \in Nat \ {0} /\ 1 <= 4 /\ 4 - 1 + 1 = 4
            OBVIOUS
        <3>2. SubSeq(line, 1, 4) \in Seq(Text) /\ Len(SubSeq(line, 1, 4)) = 4
            BY <2>1, <3>1, PartOfList
        <3> QED BY <3>2
    <2>3. p[1] = line[1] /\ p[2] = line[2] /\ p[3] = line[3] /\ p[4] = line[4]
        BY <1>1, <2>1, <2>2
    <2>4. PICK a \in Text, b \in Text, c \in Text, d \in Text :
              a = p[1] /\ b = p[2] /\ c = p[3] /\ d = p[4]
        BY <2>2, ElementOfSeq
    <2>5. PICK q \in Seq(Text) :
              /\ q = <<a, b, c, d>> /\ Len(q) = 4
              /\ q[1] = a /\ q[2] = b /\ q[3] = c /\ q[4] = d
        <3>1. <<a, b, c, d>> \in Seq(Text) /\ Len(<<a, b, c, d>>) = 4
            OBVIOUS
        <3>2. PICK q \in Seq(Text) : q = <<a, b, c, d>>
            BY <3>1
        <3> QED BY <3>1, <3>2
    <2>6. \A i \in 1 .. Len(p) : p[i] = q[i]
        <3> TAKE i \in 1 .. Len(p)
        <3>1. i = 1 \/ i = 2 \/ i = 3 \/ i = 4
            BY <2>2
        <3> QED BY <2>4, <2>5, <3>1
    <2>7. p = q
        BY <2>2, <2>5, <2>6, SeqEqual
    <2> QED BY <2>2, <2>3, <2>4, <2>5, <2>7
<1> QED BY <1>1, <1>4, <1>7, <1>8

\* Some commands are those of some lines, one by one.
Executes(x, ms) == Len(x) = Len(ms) /\ \A i \in 1 .. Len(ms) : IsCommandOf(x[i], ms[i])

\* A line of a burst that has words, none of them empty, and does not throw.
LEMMA LineExact ==
    ASSUME NEW line \in PlainLine, ~Throws(TextOf(line)), LineWords(TextOf(line)) # <<>>,
           line # <<<<>>>> => \A i \in 1 .. Len(line) : line[i] # <<>>
    PROVE  IsCommandOf(UpperFirst(LineWords(TextOf(line))), line)
<1>1. /\ Words(TextOf(line)) = Filled(line)
      /\ (\A i \in DOMAIN line : line[i] # <<>>) => Filled(line) = line
      /\ line = <<<<>>>> => Filled(line) = <<>>
    BY WordsOf DEF TextOf
<1>2. DOMAIN line = 1 .. Len(line)
    BY LenProperties DEF PlainLine
<1>3. line # <<<<>>>>
    <2> SUFFICES ASSUME line = <<<<>>>> PROVE FALSE
        OBVIOUS
    <2>1. Words(TextOf(line)) = <<>>
        BY <1>1
    <2>2. ~(Len(<<>>) > 1)
        OBVIOUS
    <2>3. ~IsUser(TextOf(line))
        BY <2>1, <2>2 DEF IsUser
    <2> QED BY <2>1, <2>3 DEF LineWords
<1>4. Words(TextOf(line)) = line /\ \A i \in 1 .. Len(line) : line[i] # <<>>
    BY <1>1, <1>2, <1>3
<1>5. CASE ~IsUser(TextOf(line))
    BY <1>4, <1>5 DEF LineWords, IsCommandOf
<1>6. CASE IsUser(TextOf(line))
    <2>1. RealName(TextOf(line)) # <<>> /\ line[1] = <<"USER">>
        BY <1>4, <1>6 DEF Throws, IsUser
    <2>2. Len(line) > 3 /\ UserWords(TextOf(line)) = Append(SubSeq(line, 1, 4), Rest(line))
        BY <1>4, <2>1, UserLine
    <2> QED BY <1>6, <2>1, <2>2 DEF LineWords, IsCommandOf
<1> QED BY <1>5, <1>6

\* Complete lines of a sign-up with single blanks are all executed.
LEMMA BurstExact ==
    ASSUME NEW ls \in Seq(PlainLine), NEW b, b = Stream(ls), SingleBlanks(b),
           Len(BurstCommands(b)) = Len(getline(b, LF))
    PROVE  Executes(BurstCommands(b), ls)
<1>1. /\ Len(ls) \in Nat /\ DOMAIN ls = 1 .. Len(ls)
      /\ \A i \in 1 .. Len(ls) : ls[i] \in PlainLine
    BY PlainLines, LenProperties
<1>2. PICK n \in Nat : n = Len(ls)
    BY <1>1
<1>3. PICK ts \in Seq(Text) :
          ts = getline(b, LF) /\ Len(ts) = n /\ \A i \in 1 .. n : ts[i] = TextOf(ls[i])
    <2>1. getline(b, LF) = [i \in 1 .. n |-> TextOf(ls[i])]
        BY <1>1, <1>2, StreamLines DEF Bodies, TextOf
    <2>2. \A i \in 1 .. n : TextOf(ls[i]) \in Text
        BY <1>1, <1>2, TextIs
    <2>3. [i \in 1 .. n |-> TextOf(ls[i])] \in Seq(Text) /\ Len([i \in 1 .. n |-> TextOf(ls[i])]) = n
        BY <1>2, <2>2
    <2> QED BY <2>1, <2>3
<1>4. PICK m \in Nat : m = Done(ts) /\ m <= n /\ \A i \in 1 .. m : ~Throws(ts[i])
    BY <1>2, <1>3, DoneIs
<1>5. PICK cmds \in Lines :
          /\ cmds = Commands(ts) /\ DOMAIN cmds = 1 .. m /\ Len(cmds) = m
          /\ \A i \in 1 .. m : cmds[i] = LineWords(ts[i])
    BY <1>4, CommandsAre
<1>6. PICK P : P = Signing(cmds) /\ P \subseteq 1 .. m /\ \A i \in P : cmds[i] # <<>>
    <2>1. Signing(cmds) \subseteq 1 .. m /\ \A i \in Signing(cmds) : cmds[i] # <<>>
        BY <1>5 DEF Signing
    <2> QED BY <2>1
<1>7. PICK known \in Lines : known = Chosen(cmds, P) /\ Len(known) = Cardinality(P)
    BY <1>5, <1>6, ChosenList DEF Lines
<1>8. /\ BurstCommands(b) = [i \in DOMAIN known |-> UpperFirst(known[i])]
      /\ Len(known) \in Nat /\ DOMAIN known = 1 .. Len(known)
    BY <1>3, <1>5, <1>6, <1>7, BurstIs, LenProperties DEF Lines
<1>9. PICK c \in Nat : c = Cardinality(P) /\ c = Len(known) /\ c = Len(BurstCommands(b)) /\ c = n
    <2>1. Len(BurstCommands(b)) = Len(known)
        BY <1>8
    <2> QED BY <1>3, <1>7, <1>8, <2>1
<1>10. IsFiniteSet(1 .. m) /\ Cardinality(1 .. m) = m
    BY ONLY m \in Nat, FS_Interval
<1>11. m = n /\ P = 1 .. m
    <2>1. Cardinality(P) <= m /\ (Cardinality(P) = m => P = 1 .. m)
        BY <1>6, <1>10, FS_Subset
    <2> QED BY <1>2, <1>4, <1>9, <2>1
<1>12. known = cmds
    BY <1>5, <1>7, <1>11, ChosenAll DEF Lines
<1>13. ASSUME NEW i \in 1 .. n PROVE IsCommandOf(BurstCommands(b)[i], ls[i])
    <2>1. PICK line \in PlainLine : line = ls[i]
        BY <1>1, <1>2
    <2>2. cmds[i] = LineWords(TextOf(line)) /\ cmds[i] # <<>> /\ ~Throws(TextOf(line))
        BY <1>3, <1>4, <1>5, <1>6, <1>11, <2>1
    <2>3. line # <<<<>>>> => \A j \in 1 .. Len(line) : line[j] # <<>>
        BY <1>2, <2>1, NoEmptyWord
    <2>4. IsCommandOf(UpperFirst(LineWords(TextOf(line))), line)
        BY <2>2, <2>3, LineExact
    <2>5. BurstCommands(b)[i] = UpperFirst(LineWords(TextOf(line)))
        BY <1>8, <1>9, <1>12, <2>2
    <2> QED BY <2>1, <2>4, <2>5
<1> QED BY <1>2, <1>9, <1>13 DEF Executes

-----------------------------------------------------------------------------
(***************************************************************************)
(* Lines are executed exactly                                              *)
(***************************************************************************)
\* The commands executed are the first of the lines written, and the text is the rest
\* of them.
Exact(done, text, lines) ==
    /\ Len(done) <= Len(lines)
    /\ \A i \in 1 .. Len(done) : IsCommandOf(done[i], lines[i])
    /\ text = Stream(SubSeq(lines, Len(done) + 1, Len(lines)))

\* One more line, after two lists of them.
LEMMA AppendPart ==
    ASSUME NEW p \in Seq(PlainLine), NEW q \in Seq(PlainLine), NEW line \in PlainLine
    PROVE  Append(p \o q, line) = p \o Append(q, line)
<1>1. PICK z \in Seq(PlainLine) : z = <<line>>
    BY OneSymbol
<1>2. Append(q, line) = q \o z
    BY <1>1, AppendIsConcat
<1>3. p \o q \in Seq(PlainLine)
    BY ConcatProperties
<1>4. Append(p \o q, line) = (p \o q) \o z
    BY <1>1, <1>3, AppendIsConcat
<1>5. (p \o q) \o z = p \o (q \o z)
    <2>1. Associates(p, q, z)
        BY Assoc
    <2> QED BY <2>1 DEF Associates
<1> QED BY <1>2, <1>4, <1>5

\* The lines in two, after the first n of them.
Halves(p, q, lines, n) == lines = p \o q /\ Len(p) = n /\ q = SubSeq(lines, n + 1, Len(lines))

\* Lines can be halved anywhere.
LEMMA ExactSplit ==
    ASSUME NEW lines \in Seq(PlainLine), NEW n \in 0 .. Len(lines)
    PROVE  \E p \in Seq(PlainLine), q \in Seq(PlainLine) : Halves(p, q, lines, n)
<1>1. PICK p \in Seq(PlainLine), q \in Seq(PlainLine) :
          /\ p = SubSeq(lines, 1, n) /\ Len(p) = n
          /\ q = SubSeq(lines, n + 1, Len(lines)) /\ p \o q = lines
    <2>1. /\ SubSeq(lines, 1, n) \in Seq(PlainLine) /\ Len(SubSeq(lines, 1, n)) = n
          /\ SubSeq(lines, n + 1, Len(lines)) \in Seq(PlainLine)
          /\ SubSeq(lines, 1, n) \o SubSeq(lines, n + 1, Len(lines)) = lines
        BY PlainLines
    <2> QED BY <2>1
<1> QED BY <1>1 DEF Halves

\* One more line is written, and sent.
LEMMA ExactWritten ==
    ASSUME NEW done \in Lines, NEW text \in Text, NEW lines \in Seq(PlainLine), NEW line \in PlainLine
    PROVE  Exact(done, text, lines) => Exact(done, text \o Encode(line), Append(lines, line))
<1> DEFINE more == Append(lines, line)
<1>1. SUFFICES ASSUME Len(done) <= Len(lines)
               PROVE  Exact(done, text, lines) => Exact(done, text \o Encode(line), more)
    BY DEF Exact
<1>n. PICK n \in 0 .. Len(lines) : n = Len(done)
    BY <1>1, LenProperties DEF Lines
<1>p. PICK p \in Seq(PlainLine), q \in Seq(PlainLine) : Halves(p, q, lines, n)
    BY ExactSplit
<1>2. /\ lines = p \o q /\ Len(p) = n /\ n = Len(done) /\ n \in Nat
      /\ q = SubSeq(lines, n + 1, Len(lines))
    BY <1>n, <1>p, LenProperties DEF Halves
<1>3. PICK r \in Seq(PlainLine) : r = Append(q, line) /\ more = p \o r
    <2>1. Append(q, line) \in Seq(PlainLine)
        BY AppendProperties
    <2>2. Append(p \o q, line) = p \o Append(q, line)
        BY AppendPart
    <2> QED BY <1>2, <2>1, <2>2
<1>4. /\ SubSeq(more, n + 1, Len(more)) = r /\ n <= Len(more)
      /\ \A i \in 1 .. n : more[i] = p[i] /\ lines[i] = p[i]
    <2>1. Twofold(p \o q, p, q) /\ Twofold(p \o r, p, r)
        BY TwoParts
    <2> HIDE DEF more
    <2>2. Twofold(lines, p, q) /\ Twofold(more, p, r)
        BY <1>2, <1>3, <2>1
    <2>3. PICK y \in Nat : y = Len(r) /\ Len(more) = n + y
        BY <1>2, <2>2 DEF Twofold
    <2>4. n <= Len(more)
        BY <2>3
    <2> QED BY <1>2, <2>2, <2>4 DEF Twofold
<1>5. Stream(r) = Stream(q) \o Encode(line)
    <2>1. line \in Seq(Text) /\ q \in Lines /\ <<line>> \in Lines
        BY PlainLines, PlainLineIs DEF Lines
    <2>2. Stream(q \o <<line>>) = Stream(q) \o Stream(<<line>>)
        BY <2>1, StreamConcat
    <2>3. Stream(<<line>>) = Encode(line)
        BY <2>1, StreamOne
    <2>4. r = q \o <<line>>
        BY <1>3, AppendIsConcat
    <2> QED BY <2>2, <2>3, <2>4
<1> HIDE DEF more
<1>6. ASSUME Exact(done, text, lines) PROVE Exact(done, text \o Encode(line), more)
    <2>1. text = Stream(q) /\ \A i \in 1 .. n : IsCommandOf(done[i], lines[i])
        BY <1>2, <1>6 DEF Exact
    <2>2. \A i \in 1 .. n : IsCommandOf(done[i], more[i])
        BY <1>4, <2>1
    <2> QED BY <1>2, <1>4, <1>5, <2>1, <2>2 DEF Exact
<1> QED BY <1>6

\* The next lines are executed, and the text is the rest.
LEMMA ExactMore ==
    ASSUME NEW done \in Lines, NEW lines \in Seq(PlainLine), NEW q \in Seq(PlainLine),
           NEW ms \in Seq(PlainLine), NEW r \in Seq(PlainLine), NEW x \in Lines, Executes(x, ms),
           Len(done) <= Len(lines), q = SubSeq(lines, Len(done) + 1, Len(lines)), q = ms \o r
    PROVE  Exact(done, Stream(q), lines) => Exact(done \o x, Stream(r), lines)
<1>n. PICK n \in 0 .. Len(lines) : n = Len(done)
    BY LenProperties DEF Lines
<1>p. PICK p \in Seq(PlainLine), w \in Seq(PlainLine) : Halves(p, w, lines, n)
    BY ExactSplit
<1>1. lines = p \o q /\ Len(p) = n /\ n = Len(done) /\ n \in Nat
    BY <1>n, <1>p, LenProperties DEF Halves
<1>2. PICK k \in Nat : k = Len(ms)
    BY LenProperties
<1>3. /\ SubSeq(lines, n + k + 1, Len(lines)) = r /\ n + k <= Len(lines)
      /\ \A i \in 1 .. k : lines[n + i] = ms[i]
    <2>1. /\ Len(lines) = Len(p) + Len(ms) + Len(r)
          /\ SubSeq(lines, Len(p) + Len(ms) + 1, Len(lines)) = r
          /\ \A i \in 1 .. Len(ms) : lines[Len(p) + i] = ms[i]
        <3>1. p \o (ms \o r) = lines
            BY <1>1
        <3>2. InThree(p \o (ms \o r), p, ms, r)
            BY ThreeParts
        <3> QED BY <3>1, <3>2 DEF InThree
    <2>2. Len(r) \in Nat
        BY LenProperties
    <2>3. n + k <= n + k + Len(r)
        BY <2>2
    <2> QED BY <1>1, <1>2, <2>1, <2>3
<1>4. Len(x) = k /\ \A i \in 1 .. k : IsCommandOf(x[i], ms[i])
    BY <1>2 DEF Executes
<1> DEFINE y == done \o x
<1>5. /\ Len(y) = n + k
      /\ \A i \in 1 .. n : y[i] = done[i]
      /\ \A i \in 1 .. k : y[n + i] = x[i]
    <2>1. done \in Seq(Seq(Text)) /\ x \in Seq(Seq(Text))
        BY DEF Lines
    <2>2. Twofold(y, done, x)
        BY <2>1, TwoParts
    <2> HIDE DEF y
    <2> QED BY <1>1, <1>4, <2>2 DEF Twofold
<1> HIDE DEF y
<1>6. ASSUME Exact(done, Stream(q), lines) PROVE Exact(y, Stream(r), lines)
    <2>1. \A i \in 1 .. n : IsCommandOf(done[i], lines[i])
        BY <1>1, <1>6 DEF Exact
    <2>2. ASSUME NEW i \in 1 .. n + k PROVE IsCommandOf(y[i], lines[i])
        <3>1. CASE i <= n
            <4>1. i \in 1 .. n
                BY <3>1
            <4> QED BY <1>5, <2>1, <4>1
        <3>2. CASE ~(i <= n)
            <4>1. PICK j \in 1 .. k : i = n + j
                <5>1. i - n \in 1 .. k /\ i = n + (i - n)
                    BY <3>2
                <5> QED BY <5>1
            <4> QED BY <1>3, <1>4, <1>5, <4>1
        <3> QED BY <3>1, <3>2
    <2> QED BY <1>3, <1>5, <2>2 DEF Exact
<1> QED BY <1>6 DEF y

\* A text that ends with a line feed holds the next lines.
LEMMA ExactTake ==
    ASSUME NEW done \in Lines, NEW lines \in Seq(PlainLine), NEW c \in Text, NEW rest \in Text,
           Exact(done, c \o rest, lines), c # <<>>, c[Len(c)] = LF
    PROVE  \E ms \in Seq(PlainLine) :
               /\ ms # <<>> /\ c = Stream(ms)
               /\ \A x \in Lines : Executes(x, ms) => Exact(done \o x, rest, lines)
<1>1. PICK n \in 0 .. Len(lines) : n = Len(done)
    BY LenProperties DEF Lines, Exact
<1>2. PICK q \in Seq(PlainLine) : q = SubSeq(lines, Len(done) + 1, Len(lines))
    <2>1. PICK p \in Seq(PlainLine), q \in Seq(PlainLine) : Halves(p, q, lines, n)
        BY ExactSplit
    <2> QED BY <1>1, <2>1 DEF Halves
<1>3. c \o rest = Stream(q)
    BY <1>2 DEF Exact
<1>4. PICK k \in 1 .. Len(q) : c = Stream(SubSeq(q, 1, k)) /\ rest = Stream(SubSeq(q, k + 1, Len(q)))
    BY <1>3, StreamCut
<1>5. PICK ms \in Seq(PlainLine), r \in Seq(PlainLine) :
          ms = SubSeq(q, 1, k) /\ Len(ms) = k /\ r = SubSeq(q, k + 1, Len(q)) /\ q = ms \o r
    <2>1. Len(q) \in Nat
        BY LenProperties
    <2>2. k \in 0 .. Len(q)
        BY <2>1
    <2>3. Halves(SubSeq(q, 1, k), SubSeq(q, k + 1, Len(q)), q, k)
        BY <2>2, PlainLines DEF Halves
    <2> QED BY <2>2, <2>3, PlainLines DEF Halves
<1>6. k # 0
    <2>1. Len(q) \in Nat
        BY LenProperties
    <2> QED BY <2>1
<1>7. ms # <<>>
    <2> SUFFICES ASSUME ms = <<>> PROVE FALSE
        OBVIOUS
    <2>1. Len(ms) = 0
        OBVIOUS
    <2> QED BY <1>5, <1>6, <2>1, Zenon
<1>8. ASSUME NEW x \in Lines, Executes(x, ms)
      PROVE  Exact(done, Stream(q), lines) => Exact(done \o x, Stream(r), lines)
    <2>1. Len(done) <= Len(lines)
        BY DEF Exact
    <2> QED BY <1>2, <1>5, <1>8, <2>1, ExactMore
<1>9. Exact(done, Stream(q), lines)
    BY <1>3
<1>10. rest = Stream(r) /\ c = Stream(ms)
    BY <1>4, <1>5, Zenon
<1> QED BY <1>7, <1>8, <1>9, <1>10

\* What was put aside and the rest of a line are the next line.
LEMMA ExactLine ==
    ASSUME NEW done \in Lines, NEW lines \in Seq(PlainLine), NEW c \in Text, NEW rest \in Text,
           Exact(done, c \o rest, lines), OneLine(c), Has(c, LF)
    PROVE  Exact(Append(done, cmdVector(c)), rest, lines)
<1>1. Len(c) \in Nat /\ DOMAIN c = 1 .. Len(c)
    BY LenProperties DEF Text
<1>2. PICK i \in 1 .. Len(c) : c[i] = LF
    BY <1>1 DEF Has, ToSet
<1>3. i = Len(c)
    BY <1>1, <1>2 DEF OneLine
<1>4. c # <<>>
    <2> SUFFICES ASSUME c = <<>> PROVE FALSE
        OBVIOUS
    <2>1. Len(c) = 0
        OBVIOUS
    <2> QED BY <1>2, <2>1
<1>5. PICK ms \in Seq(PlainLine) :
          /\ ms # <<>> /\ c = Stream(ms)
          /\ \A x \in Lines : Executes(x, ms) => Exact(done \o x, rest, lines)
    BY <1>2, <1>3, <1>4, ExactTake
<1>6. Len(ms) = 1
    BY <1>5, OneLineCut
<1>7. PICK line \in PlainLine : line = ms[1] /\ ms = <<line>>
    <2>1. 1 \in 1 .. Len(ms)
        BY <1>6
    <2>2. ms[1] \in PlainLine
        BY <2>1, PlainLines
    <2>3. ms = <<ms[1]>>
        BY <1>6
    <2> QED BY <2>2, <2>3
<1>8. line \in Seq(Text) /\ UpperFirst(line) \in Seq(Text)
    BY PlainLineIs, UpperFirstWords
<1>9. cmdVector(c) = UpperFirst(line)
    <2>1. Stream(<<line>>) = Encode(line)
        BY <1>8, StreamOne
    <2>2. cmdVector(Encode(line)) = UpperFirst(line)
        BY CommandOf
    <2> QED BY <1>5, <1>7, <2>1, <2>2
<1>10. PICK x \in Lines : x = <<UpperFirst(line)>> /\ Executes(x, ms)
    <2>1. PICK x \in Lines : x = <<UpperFirst(line)>> /\ Len(x) = 1 /\ x[1] = UpperFirst(line)
        BY <1>8, OneSymbol DEF Lines
    <2>2. IsCommandOf(UpperFirst(line), line)
        BY DEF IsCommandOf
    <2>3. \A j \in 1 .. Len(ms) : IsCommandOf(x[j], ms[j])
        <3> TAKE j \in 1 .. Len(ms)
        <3>1. j = 1
            BY <1>6
        <3> QED BY <1>7, <2>1, <2>2, <3>1
    <2> QED BY <1>6, <2>1, <2>3 DEF Executes
<1>11. Append(done, UpperFirst(line)) = done \o <<UpperFirst(line)>>
    BY <1>8, AppendIsConcat DEF Lines
<1> QED BY <1>5, <1>9, <1>10, <1>11

\* A burst of complete lines is the next lines.
LEMMA ExactBurst ==
    ASSUME NEW done \in Lines, NEW lines \in Seq(PlainLine), NEW b \in Text, NEW rest \in Text,
           Exact(done, b \o rest, lines), Has(b, LF), Last(b) = LF, SingleBlanks(b),
           Len(BurstCommands(b)) = Len(getline(b, LF))
    PROVE  Exact(done \o BurstCommands(b), rest, lines)
<1>1. b # <<>>
    <2> SUFFICES ASSUME b = <<>> PROVE FALSE
        OBVIOUS
    <2>1. DOMAIN b = {}
        OBVIOUS
    <2> QED BY <2>1 DEF Has, ToSet
<1>2. b[Len(b)] = LF
    BY DEF Last
<1>3. PICK ms \in Seq(PlainLine) :
          /\ ms # <<>> /\ b = Stream(ms)
          /\ \A x \in Lines : Executes(x, ms) => Exact(done \o x, rest, lines)
    BY <1>1, <1>2, ExactTake
<1>4. Executes(BurstCommands(b), ms)
    BY <1>3, BurstExact
<1>5. BurstCommands(b) \in Lines
    BY BurstLines
<1> QED BY <1>3, <1>4, <1>5

\* A tidy text is run as it came.
LEMMA TidyMessage ==
    ASSUME NEW bytes \in Text, TidyText(bytes)
    PROVE  getMessage(bytes) = bytes
<1> DEFINE T == {Len(bytes)} \cup {i - 1 : i \in {j \in DOMAIN bytes : bytes[j] = NUL}}
<1>1. Len(bytes) \in Nat /\ Limit \in Nat /\ Len(bytes) <= Limit
    BY LenProperties, FramingAssumption DEF Text, TidyText
<1>2. {j \in DOMAIN bytes : bytes[j] = NUL} = {}
    BY DEF TidyText, Has, ToSet
<1>3. T = {Len(bytes)}
    BY <1>2
<1>4. Min(T) = Len(bytes)
    <2>1. \A x : Min({x}) = CHOOSE y \in {x} : \A z \in {x} : y <= z
        BY DEF Min
    <2>2. PICK m \in Nat : m = Len(bytes)
        BY <1>1
    <2>3. \E y \in {m} : \A z \in {m} : y <= z
        OBVIOUS
    <2>4. (CHOOSE y \in {m} : \A z \in {m} : y <= z) \in {m}
        BY <2>3
    <2> QED BY <1>3, <2>1, <2>2, <2>4
<1>5. getMessage(bytes) = SubSeq(bytes, 1, Min(T))
    <2>1. ~(Len(bytes) > Limit)
        BY <1>1
    <2> QED BY <2>1, Zenon DEF getMessage
<1> QED BY <1>4, <1>5, SubSeqFull DEF Text

\* The invariant: as long as every recv() was a tidy one, nothing is forgotten or changed,
\* no line feed has been put aside, and without the flag nothing has.
Caught ==
    /\ Exact(executed, eofBuffer \o wire, written)
    /\ \A i \in 1 .. Len(eofBuffer) : eofBuffer[i] # LF
    /\ ~eofFlag => eofBuffer = <<>>

\* The inductive invariant of LinesExact.
ExactInv == written \in Seq(PlainLine) /\ (tidy => Caught)

\* Write keeps it.
LEMMA WriteExact ==
    ASSUME FramingTypes, ExactInv, NEW script \in Scripts, Write(script)
    PROVE  ExactInv'
<1> DEFINE line == script[Len(written) + 1]
<1>1. script \in Seq(PlainLine)
    <2>1. script \in Seq(Seq(Seq(Symbols \ {SP, CR, LF})) \ {<<>>})
        BY FramingAssumption
    <2> QED BY <2>1 DEF PlainLine, Plain
<1>2. line \in PlainLine
    <2>1. Len(written) + 1 \in 1 .. Len(script)
        BY NextLine DEF FramingTypes
    <2> QED BY <1>1, <2>1, ElementOfSeq
<1> HIDE DEF line
<1>3. /\ written' = Append(written, line) /\ wire' = wire \o Encode(line)
      /\ UNCHANGED <<eofBuffer, eofFlag, executed, tidy>>
    BY DEF Write, line
<1>4. written' \in Seq(PlainLine)
    BY <1>2, <1>3, AppendProperties DEF ExactInv
<1>5. ASSUME tidy PROVE Caught'
    <2>1. PICK a \in Seq(Symbols), w \in Seq(Symbols), e \in Seq(Symbols) :
              a = eofBuffer /\ w = wire /\ e = Encode(line)
        BY <1>2, EncodeEnds DEF FramingTypes, Text
    <2>2. a \o (w \o e) = (a \o w) \o e
        <3>1. Associates(a, w, e)
            BY AssocText
        <3> QED BY <3>1 DEF Associates
    <2>3. a \o w \in Text
        BY ConcatProperties DEF Text
    <2>4. Exact(executed, (a \o w) \o e, Append(written, line))
        <3>1. Exact(executed, a \o w, written) /\ executed \in Lines /\ written \in Seq(PlainLine)
            BY <1>5, <2>1 DEF ExactInv, Caught, FramingTypes
        <3> QED BY <1>2, <2>1, <2>3, <3>1, ExactWritten
    <2>5. (eofBuffer \o wire)' = (a \o w) \o e
        BY <1>3, <2>1, <2>2
    <2>6. Exact(executed, eofBuffer \o wire, written)'
        BY <1>3, <2>4, <2>5 DEF Exact
    <2> QED BY <1>3, <1>5, <2>6 DEF ExactInv, Caught
<1> QED BY <1>3, <1>4, <1>5 DEF ExactInv

\* A tidy text is run with the rest of the stream still to come.
LEMMA RunExact ==
    ASSUME FramingTypes, written \in Seq(PlainLine), NEW b \in Text, NEW rest \in Text,
           TidyText(b), run(b), UNCHANGED written, Caught, wire = b \o rest, wire' = rest
    PROVE  Caught'
<1>1. PICK a \in Seq(Symbols) : a = eofBuffer /\ \A i \in 1 .. Len(a) : a[i] # LF
    BY DEF FramingTypes, Text, Caught
<1>2. b \in Seq(Symbols) /\ rest \in Seq(Symbols) /\ ~CapLs(b)
    BY DEF Text, TidyText
<1>3. PICK c \in Seq(Symbols) :
          /\ c = a \o b /\ Len(c) = Len(a) + Len(b)
          /\ \A i \in 1 .. Len(a) + Len(b) : c[i] = IF i <= Len(a) THEN a[i] ELSE b[i - Len(a)]
    <2>1. PICK c \in Seq(Symbols) : c = a \o b /\ Joined(c, a, b)
        BY <1>2, Joining
    <2> QED BY <2>1 DEF Joined
<1>4. Len(a) \in Nat /\ Len(b) \in Nat /\ DOMAIN b = 1 .. Len(b) /\ DOMAIN c = 1 .. Len(a) + Len(b)
    BY <1>2, <1>3, LenProperties
<1>5. Exact(executed, c \o rest, written) /\ executed \in Lines
    <2>1. (a \o b) \o rest = a \o (b \o rest)
        <3>1. Associates(a, b, rest)
            BY <1>2, AssocText
        <3> QED BY <3>1 DEF Associates
    <2> QED BY <1>1, <1>3, <2>1 DEF Caught, FramingTypes
<1>6. CASE ~Has(b, LF) /\ PutAside(b)
    <2>1. eofBuffer' = c /\ eofFlag' = TRUE /\ executed' = executed
        BY <1>1, <1>3, <1>6 DEF PutAside
    <2>2. \A i \in 1 .. Len(b) : b[i] # LF
        BY <1>4, <1>6 DEF Has, ToSet
    <2>3. ASSUME NEW i \in 1 .. Len(c) PROVE c[i] # LF
        <3>1. i \in 1 .. Len(a) + Len(b)
            BY <1>3
        <3>2. CASE i <= Len(a)
            <4>1. i \in 1 .. Len(a)
                BY <1>4, <3>1, <3>2
            <4> QED BY <1>1, <1>3, <3>1, <3>2, <4>1
        <3>3. CASE ~(i <= Len(a))
            <4>1. i - Len(a) \in 1 .. Len(b)
                BY <1>4, <3>1, <3>3
            <4> QED BY <1>3, <2>2, <3>1, <3>3, <4>1
        <3> QED BY <3>2, <3>3
    <2>4. Exact(executed', c \o rest, written')
        BY <1>5, <2>1
    <2> QED BY <2>1, <2>3, <2>4 DEF Caught, Exact
<1>7. CASE Has(b, LF) /\ IsBurst(b) /\ SignUpBurst(b)
    <2>1. SignUpOnly(b)
        BY <1>7 DEF TidyText
    <2>2. eofBuffer = <<>> /\ Last(b) = LF /\ SingleBlanks(b) /\ Len(BurstCommands(b)) = Len(getline(b, LF))
        BY <2>1 DEF SignUpOnly
    <2>3. c = b
        BY <1>1, <1>2, <1>3, <2>2, ConcatEmptySeq
    <2>4. Exact(executed \o BurstCommands(b), rest, written)
        BY <1>5, <1>7, <2>2, <2>3, ExactBurst
    <2>5. executed' = executed \o BurstCommands(b) /\ eofBuffer' = eofBuffer /\ eofFlag' = eofFlag
        BY <1>7 DEF SignUpBurst
    <2>6. (eofBuffer \o wire)' = rest
        BY <1>2, <2>2, <2>5, ConcatEmptySeq
    <2> QED BY <2>4, <2>5, <2>6 DEF Caught, Exact
<1>8. CASE Has(b, LF) /\ ~IsBurst(b) /\ Execute(b)
    <2>1. OneLine(b)
        BY <1>8 DEF TidyText
    <2>2. OneLine(c)
        <3> SUFFICES ASSUME NEW i \in 1 .. Len(a) + Len(b), c[i] = LF PROVE i = Len(a) + Len(b)
            BY <1>3, <1>4 DEF OneLine
        <3>1. ~(i <= Len(a))
            <4> SUFFICES ASSUME i <= Len(a) PROVE FALSE
                OBVIOUS
            <4>1. i \in 1 .. Len(a)
                BY <1>4
            <4> QED BY <1>1, <1>3, <4>1
        <3>2. i - Len(a) \in 1 .. Len(b) /\ b[i - Len(a)] = LF
            BY <1>3, <1>4, <3>1
        <3>3. i - Len(a) = Len(b)
            BY <1>4, <2>1, <3>2 DEF OneLine
        <3> QED BY <1>4, <3>3
    <2>3. Has(c, LF)
        <3>1. PICK j \in 1 .. Len(b) : b[j] = LF
            BY <1>4, <1>8 DEF Has, ToSet
        <3>2. Len(a) + j \in 1 .. Len(a) + Len(b) /\ ~(Len(a) + j <= Len(a)) /\ (Len(a) + j) - Len(a) = j
            BY <1>4
        <3>3. c[Len(a) + j] = LF
            BY <1>3, <3>1, <3>2
        <3> QED BY <1>4, <3>2, <3>3 DEF Has, ToSet
    <2>4. Exact(Append(executed, cmdVector(c)), rest, written)
        BY <1>5, <2>2, <2>3, ExactLine DEF Text
    <2>5. (IF eofFlag THEN eofBuffer \o b ELSE b) = c
        <3>1. CASE eofFlag
            BY <1>1, <1>3, <3>1
        <3>2. CASE ~eofFlag
            <4>1. a = <<>>
                BY <1>1, <3>2 DEF Caught
            <4> QED BY <1>2, <1>3, <3>2, <4>1, ConcatEmptySeq
        <3> QED BY <3>1, <3>2
    <2>6. executed' = Append(executed, cmdVector(c)) /\ eofBuffer' = <<>>
        <3>1. eofBuffer' = <<>>
            BY <1>8 DEF Execute, Caught
        <3> QED BY <1>8, <2>5, <3>1 DEF Execute
    <2>7. (eofBuffer \o wire)' = rest
        BY <1>2, <2>6, ConcatEmptySeq
    <2>8. Len(<<>>) = 0
        OBVIOUS
    <2> QED BY <2>4, <2>6, <2>7, <2>8 DEF Caught, Exact
<1> QED BY <1>2, <1>6, <1>7, <1>8 DEF run

\* Read keeps it.
LEMMA ReadExact ==
    ASSUME FramingTypes, ExactInv, NEW n \in 1 .. Len(wire), Read(n)
    PROVE  ExactInv'
<1>1. Len(wire) \in Nat /\ wire \in Seq(Symbols)
    BY LenProperties DEF FramingTypes, Text
<1>2. PICK b \in Text, rest \in Text :
          b = SubSeq(wire, 1, n) /\ rest = SubSeq(wire, n + 1, Len(wire)) /\ wire = b \o rest
    <2>1. SubSeq(wire, 1, n) \in Text /\ SubSeq(wire, n + 1, Len(wire)) \in Text
        BY <1>1, PartOfList DEF Text
    <2>2. SubSeq(wire, 1, n) \o SubSeq(wire, n + 1, Len(wire)) = SubSeq(wire, 1, Len(wire))
        <3>1. 1 \in 1 .. Len(wire) + 1 /\ n \in 1 - 1 .. Len(wire) /\ Len(wire) \in n .. Len(wire)
            BY <1>1
        <3> QED BY <1>1, <3>1, ConcatAdjacentSubSeq
    <2>3. SubSeq(wire, 1, Len(wire)) = wire
        BY <1>1, SubSeqFull
    <2> QED BY <2>1, <2>2, <2>3
<1>3. /\ wire' = rest /\ run(getMessage(b)) /\ written' = written
      /\ tidy' = (tidy /\ TidyText(b))
    BY <1>2 DEF Read
<1>4. ASSUME tidy' PROVE Caught'
    <2>1. tidy /\ TidyText(b)
        BY <1>3, <1>4
    <2>2. run(b)
        BY <1>3, <2>1, TidyMessage
    <2>3. Caught /\ written \in Seq(PlainLine)
        BY <2>1 DEF ExactInv
    <2> QED BY <1>2, <1>3, <2>1, <2>2, <2>3, RunExact
<1> QED BY <1>3, <1>4 DEF ExactInv

\* A connection on which nothing has come.
LEMMA NewExact == (FramingInit => ExactInv) /\ (NewConnection => ExactInv')
<1>1. <<>> \in Seq(PlainLine) /\ Len(<<>>) = 0 /\ <<>> \in Lines
    BY DEF Lines
<1>2. Stream(SubSeq(<<>>, 0 + 1, 0)) = <<>>
    <2>1. SubSeq(<<>>, 0 + 1, 0) = <<>>
        BY <1>1, SubSeqEmpty
    <2> QED BY <1>1, <2>1, StreamText
<1>3. <<>> \o <<>> = <<>>
    BY <1>1, ConcatEmptySeq
<1>4. Exact(<<>>, <<>> \o <<>>, <<>>)
    BY <1>1, <1>2, <1>3 DEF Exact
<1>5. \A i \in 1 .. Len(<<>>) : <<>>[i] # LF
    BY <1>1
<1>6. ASSUME FramingInit PROVE ExactInv
    <2>1. wire = <<>> /\ executed = <<>> /\ written = <<>> /\ eofBuffer = <<>>
        BY <1>6 DEF FramingInit
    <2> QED BY <1>1, <1>4, <1>5, <2>1 DEF ExactInv, Caught
<1>7. ASSUME NewConnection PROVE ExactInv'
    <2>1. wire' = <<>> /\ executed' = <<>> /\ written' = <<>> /\ eofBuffer' = <<>>
        BY <1>7 DEF NewConnection
    <2> QED BY <1>1, <1>4, <1>5, <2>1 DEF ExactInv, Caught, Exact
<1> QED BY <1>6, <1>7

-----------------------------------------------------------------------------
(***************************************************************************)
(* Nothing is executed twice                                               *)
(***************************************************************************)
\* A line as it is sent has the letters of its words.
LEMMA CountEncode ==
    ASSUME NEW s \in Letters, NEW line \in Seq(Text)
    PROVE  Count(s, Encode(line)) <= Count(s, FlattenSeq(line))
<1> DEFINE mark(i) == IF i = Len(line) THEN <<CR, LF>> ELSE <<SP>>
           p == [i \in DOMAIN line |-> line[i] \o mark(i)]
<1>1. Len(line) \in Nat /\ DOMAIN line = 1 .. Len(line) /\ \A i \in 1 .. Len(line) : line[i] \in Text
    BY LenProperties, ElementOfSeq
<1>2. ASSUME NEW i \in 1 .. Len(line) PROVE mark(i) \in Text /\ Count(s, mark(i)) = 0
    <2>1. \A j \in DOMAIN <<CR, LF>> : <<CR, LF>>[j] \in {SP, CR, LF, NUL}
        OBVIOUS
    <2>2. \A j \in DOMAIN <<SP>> : <<SP>>[j] \in {SP, CR, LF, NUL}
        OBVIOUS
    <2>3. Count(s, <<CR, LF>>) = 0 /\ Count(s, <<SP>>) = 0
        BY <2>1, <2>2, CountMarks
    <2> QED BY <2>3, Marks
<1> HIDE DEF mark
<1>3. ASSUME NEW i \in 1 .. Len(line)
      PROVE  line[i] \o mark(i) \in Text /\ Count(s, line[i] \o mark(i)) = Count(s, line[i])
    <2>1. PICK a \in Text, m \in Text : a = line[i] /\ m = mark(i) /\ Count(s, m) = 0
        BY <1>1, <1>2
    <2>2. a \o m \in Text
        BY ConcatProperties DEF Text
    <2>3. Count(s, a \o m) = Count(s, a) + 0 /\ Count(s, a) \in Nat
        BY <2>1, CountJoin, CountNat
    <2> QED BY <2>1, <2>2, <2>3
<1>4. p \in Seq(Text) /\ Len(p) = Len(line) /\ \A i \in 1 .. Len(line) : p[i] = line[i] \o mark(i)
    BY <1>1, <1>3
<1>5. Encode(line) = FlattenSeq(p)
    BY DEF Encode, mark
<1> HIDE DEF p
<1>6. \A i \in 1 .. Len(p) : Count(s, p[i]) <= Count(s, line[i])
    <2> TAKE i \in 1 .. Len(p)
    <2>1. i \in 1 .. Len(line)
        BY <1>4
    <2>2. Count(s, p[i]) = Count(s, line[i])
        BY <1>3, <1>4, <2>1
    <2>3. PICK a \in Nat : a = Count(s, line[i])
        BY <1>1, <2>1, CountNat
    <2> QED BY <2>2, <2>3
<1> QED BY <1>4, <1>5, <1>6, CountEach

\* A command in capitals has the same symbols.
LEMMA CountUpper ==
    ASSUME NEW s, NEW ws \in Seq(Text)
    PROVE  /\ UpperFirst(ws) \in Seq(Text) /\ Len(UpperFirst(ws)) = Len(ws)
           /\ \A i \in 1 .. Len(ws) : Count(s, UpperFirst(ws)[i]) = Count(s, ws[i])
<1> DEFINE first == [j \in DOMAIN ws[1] |-> Upper[ws[1][j]]]
<1>1. Len(ws) \in Nat /\ DOMAIN ws = 1 .. Len(ws) /\ \A i \in 1 .. Len(ws) : ws[i] \in Text
    BY LenProperties, ElementOfSeq
<1>2. UpperFirst(ws) = [ws EXCEPT ![1] = first]
    BY DEF UpperFirst
<1>3. ASSUME 1 \in 1 .. Len(ws) PROVE Count(s, first) = Count(s, ws[1])
    <2>1. PICK w \in Seq(Symbols) : w = ws[1] /\ DOMAIN w = 1 .. Len(w)
        BY <1>1, <1>3, LenProperties DEF Text
    <2>2. \A j \in DOMAIN w : Upper[Upper[w[j]]] = Upper[w[j]]
        BY <2>1, ElementOfSeq, UpperAssumption
    <2>3. \A j \in DOMAIN w : first[j] = Upper[w[j]]
        BY <2>1
    <2>4. DOMAIN first = DOMAIN w
        BY <2>1
    <2> HIDE DEF first
    <2> QED BY <2>1, <2>2, <2>3, <2>4, CountSame
<1> HIDE DEF first
<1>4. \A i \in 1 .. Len(ws) : UpperFirst(ws)[i] = IF i = 1 THEN first ELSE ws[i]
    BY <1>1, <1>2
<1>5. \A i \in 1 .. Len(ws) : Count(s, UpperFirst(ws)[i]) = Count(s, ws[i])
    BY <1>3, <1>4
<1>6. DOMAIN UpperFirst(ws) = 1 .. Len(ws) /\ UpperFirst(ws) \in Seq(Text)
    BY <1>1, <1>2, UpperFirstWords
<1>7. Len(UpperFirst(ws)) = Len(ws)
    <2>1. PICK m \in Nat, n \in Nat : m = Len(UpperFirst(ws)) /\ n = Len(ws) /\ 1 .. m = 1 .. n
        BY <1>1, <1>6, LenProperties
    <2>2. m = n
        BY <2>1
    <2> QED BY <2>1, <2>2
<1> QED BY <1>5, <1>6, <1>7

\* Words without the end of the line have no more than with it.
LEMMA CountTrimmed ==
    ASSUME NEW s, NEW w \in Text
    PROVE  TrimEnd(w) \in Text /\ Count(s, TrimEnd(w)) <= Count(s, w)
<1>1. PICK n \in 0 .. Len(w) : TrimEnd(w) = SubSeq(w, 1, n)
    BY TrimmedPart
<1> QED BY <1>1, CountPrefix

\* A command has no more of a letter than the text it was made from.
LEMMA CountCommand ==
    ASSUME NEW s \in Letters, NEW t \in Text
    PROVE  Count(s, Encode(cmdVector(t))) <= Count(s, t)
<1>1. PICK ws \in Seq(Text) : ws = getline(t, SP)
    BY GetlineList DEF Text
<1> DEFINE vs == [i \in DOMAIN ws |-> TrimEnd(ws[i])]
<1>2. Len(ws) \in Nat /\ DOMAIN ws = 1 .. Len(ws) /\ \A i \in 1 .. Len(ws) : ws[i] \in Text
    BY LenProperties, ElementOfSeq
<1>3. \A i \in 1 .. Len(ws) : TrimEnd(ws[i]) \in Text /\ Count(s, TrimEnd(ws[i])) <= Count(s, ws[i])
    BY <1>2, CountTrimmed
<1>4. /\ vs \in Seq(Text) /\ Len(vs) = Len(ws)
      /\ \A i \in 1 .. Len(ws) : vs[i] = TrimEnd(ws[i])
    BY <1>2, <1>3
<1>5. cmdVector(t) = UpperFirst(vs)
    BY <1>1 DEF cmdVector
<1> HIDE DEF vs
<1>6. PICK cs \in Seq(Text) : cs = UpperFirst(vs) /\ Len(cs) = Len(ws)
                               /\ \A i \in 1 .. Len(ws) : Count(s, cs[i]) = Count(s, vs[i])
    <2>1. /\ UpperFirst(vs) \in Seq(Text) /\ Len(UpperFirst(vs)) = Len(vs)
          /\ \A i \in 1 .. Len(vs) : Count(s, UpperFirst(vs)[i]) = Count(s, vs[i])
        BY <1>4, CountUpper
    <2>2. PICK cs \in Seq(Text) : cs = UpperFirst(vs)
        BY <2>1
    <2> QED BY <1>4, <2>1, <2>2
<1>7. \A i \in 1 .. Len(cs) : Count(s, cs[i]) <= Count(s, ws[i])
    BY <1>3, <1>4, <1>6
<1>8. Count(s, FlattenSeq(cs)) <= Count(s, FlattenSeq(ws))
    BY <1>6, <1>7, CountEach
<1>9. Count(s, FlattenSeq(ws)) <= Count(s, t)
    BY <1>1, CountPieces
<1>10. Count(s, Encode(cs)) <= Count(s, FlattenSeq(cs))
    BY CountEncode
<1>11. PICK a \in Nat, b \in Nat, c \in Nat, d \in Nat :
           /\ a = Count(s, Encode(cs)) /\ b = Count(s, FlattenSeq(cs))
           /\ c = Count(s, FlattenSeq(ws)) /\ d = Count(s, t)
    BY CountNat, EncodeText, FlattenList DEF Text
<1> QED BY <1>5, <1>6, <1>8, <1>9, <1>10, <1>11

\* The words of a line of a burst have no more of a letter than the line.
LEMMA CountWords ==
    ASSUME NEW s \in Letters, NEW line \in Text
    PROVE  Count(s, FlattenSeq(Words(line))) <= Count(s, line)
<1>1. /\ SP \in Symbols /\ Len(line) \in Nat /\ DOMAIN line = 1 .. Len(line)
      /\ \A i \in 1 .. Len(line) : line[i] \in Symbols
    BY FramingAssumption, LenProperties, ElementOfSeq DEF Text
<1>2. Upper[SP] # s /\ Upper[CR] # s
    BY UpperAssumption DEF Letters
<1> HIDE DEF SP, CR
<1>3. PICK b \in Text : b = Blank(line) /\ Count(s, b) = Count(s, line)
    <2>1. Blank(line) \in Text
        BY <1>1 DEF Blank, Text
    <2>2. PICK b \in Text : b = Blank(line)
        BY <2>1
    <2>3. DOMAIN b = DOMAIN line /\ \A i \in DOMAIN line : Upper[b[i]] = s <=> Upper[line[i]] = s
        BY <1>2, <2>2 DEF Blank
    <2> QED BY <2>2, <2>3, CountSame
<1>4. PICK ws \in Seq(Text) : ws = getline(b, SP)
    BY GetlineList DEF Text
<1> DEFINE P == {i \in DOMAIN ws : ws[i] # <<>>}
<1>5. P \subseteq DOMAIN ws /\ Words(line) = Chosen(ws, P)
    BY <1>3, <1>4, WordsIs DEF Filled
<1> HIDE DEF P
<1>6. PICK vs \in Seq(Text) : vs = Words(line)
    BY <1>5, ChosenList
<1>7. Count(s, FlattenSeq(vs)) <= Count(s, FlattenSeq(ws)) /\ Count(s, FlattenSeq(ws)) <= Count(s, b)
    BY <1>4, <1>5, <1>6, CountChosen, CountPieces
<1>8. PICK x \in Nat, y \in Nat, z \in Nat :
          x = Count(s, FlattenSeq(vs)) /\ y = Count(s, FlattenSeq(ws)) /\ z = Count(s, b)
    BY CountNat, FlattenList DEF Text
<1> QED BY <1>3, <1>6, <1>7, <1>8

\* Five texts put together.
LEMMA CountFive ==
    ASSUME NEW s, NEW a \in Text, NEW b \in Text, NEW c \in Text, NEW d \in Text, NEW e \in Text
    PROVE  Count(s, FlattenSeq(<<a, b, c, d, e>>))
               = Count(s, a) + (Count(s, b) + (Count(s, c) + (Count(s, d) + Count(s, e))))
<1>1. \A ws \in Seq(Text), w \in Text :
          Count(s, FlattenSeq(Append(ws, w))) = Count(s, FlattenSeq(ws)) + Count(s, w)
    <2> TAKE ws \in Seq(Text), w \in Text
    <2>1. FlattenSeq(ws) \in Text /\ FlattenSeq(Append(ws, w)) = FlattenSeq(ws) \o w
        BY FlattenList, FlattenAppend DEF Text
    <2> QED BY <2>1, CountJoin
<1>2. /\ <<a>> \in Seq(Text) /\ <<a, b>> \in Seq(Text) /\ <<a, b, c>> \in Seq(Text)
      /\ <<a, b, c, d>> \in Seq(Text)
    OBVIOUS
<1>3. /\ Append(<<a>>, b) = <<a, b>> /\ Append(<<a, b>>, c) = <<a, b, c>>
      /\ Append(<<a, b, c>>, d) = <<a, b, c, d>> /\ Append(<<a, b, c, d>>, e) = <<a, b, c, d, e>>
    <2>1. Append(<<a>>, b) = <<a, b>>
        <3>1. <<a, b>> \in Seq(Text) /\ Len(<<a, b>>) = 2 /\ Len(<<a>>) = 1
            OBVIOUS
        <3>2. PICK q : q = Append(<<a>>, b)
            OBVIOUS
        <3>3. q \in Seq(Text) /\ Len(q) = 2 /\ q[2] = b /\ \A i \in 1 .. 1 : q[i] = <<a>>[i]
            BY <1>2, <3>1, <3>2, AppendProperties
        <3>4. \A i \in 1 .. 2 : q[i] = <<a, b>>[i]
            BY <3>3
        <3> QED BY <3>1, <3>2, <3>3, <3>4, SeqEqual
    <2>2. Append(<<a, b>>, c) = <<a, b, c>>
        <3>1. <<a, b, c>> \in Seq(Text) /\ Len(<<a, b, c>>) = 3 /\ Len(<<a, b>>) = 2
            OBVIOUS
        <3>2. PICK q : q = Append(<<a, b>>, c)
            OBVIOUS
        <3>3. q \in Seq(Text) /\ Len(q) = 3 /\ q[3] = c /\ \A i \in 1 .. 2 : q[i] = <<a, b>>[i]
            BY <1>2, <3>1, <3>2, AppendProperties
        <3>4. \A i \in 1 .. 3 : q[i] = <<a, b, c>>[i]
            BY <3>3
        <3> QED BY <3>1, <3>2, <3>3, <3>4, SeqEqual
    <2>3. Append(<<a, b, c>>, d) = <<a, b, c, d>>
        <3>1. <<a, b, c, d>> \in Seq(Text) /\ Len(<<a, b, c, d>>) = 4 /\ Len(<<a, b, c>>) = 3
            OBVIOUS
        <3>2. PICK q : q = Append(<<a, b, c>>, d)
            OBVIOUS
        <3>3. q \in Seq(Text) /\ Len(q) = 4 /\ q[4] = d /\ \A i \in 1 .. 3 : q[i] = <<a, b, c>>[i]
            BY <1>2, <3>1, <3>2, AppendProperties
        <3>4. \A i \in 1 .. 4 : q[i] = <<a, b, c, d>>[i]
            BY <3>3
        <3> QED BY <3>1, <3>2, <3>3, <3>4, SeqEqual
    <2>4. Append(<<a, b, c, d>>, e) = <<a, b, c, d, e>>
        <3>1. <<a, b, c, d, e>> \in Seq(Text) /\ Len(<<a, b, c, d, e>>) = 5 /\ Len(<<a, b, c, d>>) = 4
            OBVIOUS
        <3>2. PICK q : q = Append(<<a, b, c, d>>, e)
            OBVIOUS
        <3>3. q \in Seq(Text) /\ Len(q) = 5 /\ q[5] = e /\ \A i \in 1 .. 4 : q[i] = <<a, b, c, d>>[i]
            BY <1>2, <3>1, <3>2, AppendProperties
        <3>4. \A i \in 1 .. 5 : q[i] = <<a, b, c, d, e>>[i]
            BY <3>3
        <3> QED BY <3>1, <3>2, <3>3, <3>4, SeqEqual
    <2> QED BY <2>1, <2>2, <2>3, <2>4
<1>4. Count(s, FlattenSeq(<<a>>)) = Count(s, a)
    BY FlattenOne DEF Text
<1>5. /\ Count(s, FlattenSeq(<<a, b>>)) = Count(s, FlattenSeq(<<a>>)) + Count(s, b)
      /\ Count(s, FlattenSeq(<<a, b, c>>)) = Count(s, FlattenSeq(<<a, b>>)) + Count(s, c)
    BY <1>1, <1>2, <1>3
<1>6. /\ Count(s, FlattenSeq(<<a, b, c, d>>)) = Count(s, FlattenSeq(<<a, b, c>>)) + Count(s, d)
      /\ Count(s, FlattenSeq(<<a, b, c, d, e>>)) = Count(s, FlattenSeq(<<a, b, c, d>>)) + Count(s, e)
    BY <1>1, <1>2, <1>3
<1>7. PICK na \in Nat, nb \in Nat, nc \in Nat, nd \in Nat, ne \in Nat :
          /\ na = Count(s, a) /\ nb = Count(s, b) /\ nc = Count(s, c) /\ nd = Count(s, d)
          /\ ne = Count(s, e)
    BY CountNat
<1>8. (((na + nb) + nc) + nd) + ne = na + (nb + (nc + (nd + ne)))
    OBVIOUS
<1>9. Count(s, FlattenSeq(<<a, b, c, d, e>>)) = (((na + nb) + nc) + nd) + ne
    BY <1>4, <1>5, <1>6, <1>7
<1> QED BY <1>7, <1>8, <1>9

\* What a handler gets of a line of a burst has no more of a letter than the line.
LEMMA CountLineWords ==
    ASSUME NEW s \in Letters, NEW line \in Text
    PROVE  Count(s, FlattenSeq(LineWords(line))) <= Count(s, line)
<1>1. Count(s, FlattenSeq(UserWords(line))) <= Count(s, line)
    <2>1. PICK a \in Text, b \in Text, c \in Text, d \in Text, e \in Text :
              /\ UserWords(line) = <<a, b, c, d, e>>
              /\ Count(s, a) + (Count(s, b) + (Count(s, c) + (Count(s, d) + Count(s, e))))
                     <= Count(s, line)
        BY UserTexts
    <2> QED BY <2>1, CountFive
<1> QED BY <1>1, CountWords DEF LineWords

\* The commands of a burst have no more of a letter than the text.
LEMMA CountBurst ==
    ASSUME NEW s \in Letters, NEW t \in Text
    PROVE  Count(s, Stream(BurstCommands(t))) <= Count(s, t)
<1>1. PICK ls \in Seq(Text) : ls = getline(t, LF)
    BY GetlineList DEF Text
<1>2. PICK d \in 0 .. Len(ls), firsts \in Seq(Text) :
          /\ d \in Nat /\ d = Done(ls) /\ firsts = SubSeq(ls, 1, d) /\ Len(firsts) = d
          /\ \A i \in 1 .. d : firsts[i] = ls[i] /\ ls[i] \in Text
    <2>1. PICK d \in 0 .. Len(ls) : d = Done(ls)
        BY DoneIs
    <2>2. Len(ls) \in Nat /\ d \in Int /\ d <= Len(ls)
        BY LenProperties
    <2>3. PICK firsts \in Seq(Text) : firsts = SubSeq(ls, 1, d) /\ Len(firsts) = d
        <3>1. SubSeq(ls, 1, d) \in Seq(Text) /\ Len(SubSeq(ls, 1, d)) = IF 1 <= d THEN d - 1 + 1 ELSE 0
            BY <2>2, PartOfList
        <3>2. (IF 1 <= d THEN d - 1 + 1 ELSE 0) = d
            OBVIOUS
        <3> QED BY <3>1, <3>2
    <2>4. ASSUME NEW i \in 1 .. d PROVE firsts[i] = ls[i] /\ ls[i] \in Text
        <3>1. i \in 1 .. Len(ls)
            BY <2>2
        <3> QED BY <2>2, <2>3, <3>1, ElementOfSeq, SubSeqProperties
    <2>5. \A i \in 1 .. d : firsts[i] = ls[i] /\ ls[i] \in Text
        BY <2>4
    <2>6. d \in Nat
        BY <2>2
    <2> QED BY <2>1, <2>3, <2>5, <2>6
<1>3. PICK cmds \in Lines :
          /\ cmds = Commands(ls) /\ DOMAIN cmds = 1 .. d /\ Len(cmds) = d
          /\ \A i \in 1 .. d : Count(s, FlattenSeq(cmds[i])) <= Count(s, ls[i])
    <2>1. PICK cmds \in Lines :
              /\ cmds = Commands(ls) /\ DOMAIN cmds = 1 .. d /\ Len(cmds) = d
              /\ \A i \in 1 .. d : cmds[i] = LineWords(ls[i])
        BY <1>2, CommandsAre
    <2> QED BY <1>2, <2>1, CountLineWords
<1>4. PICK P : P = Signing(cmds) /\ P \subseteq DOMAIN cmds
    BY DEF Signing
<1>5. PICK known \in Lines : known = Chosen(cmds, P) /\ DOMAIN known = 1 .. Cardinality(P)
    <2>1. Chosen(cmds, P) \in Lines
        BY <1>4, ChosenList DEF Lines
    <2>2. DOMAIN Chosen(cmds, P) = 1 .. Cardinality(P)
        BY DEF Chosen
    <2> QED BY <2>1, <2>2
<1>6. BurstCommands(t) = [i \in DOMAIN known |-> UpperFirst(known[i])]
    <2>1. cmds = Commands(getline(t, LF)) /\ known = Chosen(cmds, Signing(cmds))
        BY <1>1, <1>3, <1>4, <1>5
    <2> QED BY ONLY <2>1, BurstIs
<1>7. PICK q \in Seq(Text) : q = [i \in 1 .. d |-> FlattenSeq(cmds[i])] /\ Len(q) = d
    <2>1. \A i \in 1 .. d : FlattenSeq(cmds[i]) \in Text
        BY <1>3, ElementOfSeq, FlattenList DEF Lines, Text
    <2>2. d \in Nat
        BY LenProperties
    <2>3. [i \in 1 .. d |-> FlattenSeq(cmds[i])] \in Seq(Text)
        BY <2>1, <2>2
    <2>4. Len([i \in 1 .. d |-> FlattenSeq(cmds[i])]) = d
        BY <2>2
    <2> QED BY <2>3, <2>4
<1>8. PICK r \in Seq(Text) : r = Chosen(q, P) /\ Len(r) = Cardinality(P)
    <2>1. DOMAIN q = 1 .. d /\ P \subseteq DOMAIN q
        BY <1>3, <1>4, <1>7
    <2> QED BY <2>1, ChosenList
<1>9. PICK c \in Nat : c = Cardinality(P) /\ P \subseteq 1 .. d
    BY <1>2, <1>3, <1>4, Places
<1>10. \A i \in 1 .. c : r[i] = FlattenSeq(known[i])
    <2> TAKE i \in 1 .. c
    <2>1. Nth(P, i) \in 1 .. d
        BY <1>2, <1>9, NthPlace
    <2>2. r[i] = q[Nth(P, i)] /\ known[i] = cmds[Nth(P, i)]
        BY <1>5, <1>8, <1>9 DEF Chosen
    <2> QED BY <1>7, <2>1, <2>2
<1>11. PICK bs \in Lines : bs = BurstCommands(t) /\ Len(bs) = c
    <2>1. BurstCommands(t) \in Lines
        BY BurstLines
    <2>2. DOMAIN BurstCommands(t) = 1 .. c
        BY <1>5, <1>6, <1>9
    <2>3. PICK m \in Nat : m = Len(BurstCommands(t)) /\ 1 .. m = 1 .. c
        BY <2>1, <2>2, LenProperties DEF Lines
    <2>4. m = c
        BY <2>3
    <2> QED BY <2>1, <2>3, <2>4
<1>12. PICK e \in Seq(Text) :
           e = Encoded(bs) /\ Len(e) = c /\ \A i \in 1 .. c : e[i] = Encode(bs[i])
    BY <1>11, EncodedList
<1>13. ASSUME NEW i \in 1 .. c PROVE Count(s, e[i]) <= Count(s, r[i])
    <2>1. PICK k \in Seq(Text) : k = known[i]
        BY <1>5, <1>9, ElementOfSeq, LenProperties DEF Lines
    <2>2. PICK u \in Seq(Text) :
              u = UpperFirst(k) /\ Len(u) = Len(k) /\ \A j \in 1 .. Len(k) : Count(s, u[j]) = Count(s, k[j])
        <3>1. /\ UpperFirst(k) \in Seq(Text) /\ Len(UpperFirst(k)) = Len(k)
              /\ \A j \in 1 .. Len(k) : Count(s, UpperFirst(k)[j]) = Count(s, k[j])
            BY CountUpper
        <3>2. PICK u \in Seq(Text) : u = UpperFirst(k)
            BY <3>1
        <3> QED BY <3>1, <3>2
    <2>3. \A j \in 1 .. Len(u) : Count(s, u[j]) <= Count(s, k[j])
        <3> TAKE j \in 1 .. Len(u)
        <3>1. PICK x \in Nat : x = Count(s, k[j])
            BY <2>2, ElementOfSeq, CountNat
        <3> QED BY <2>2, <3>1
    <2>4. Count(s, FlattenSeq(u)) <= Count(s, FlattenSeq(k))
        BY <2>2, <2>3, CountEach
    <2>5. Count(s, Encode(u)) <= Count(s, FlattenSeq(u))
        BY CountEncode
    <2>6. e[i] = Encode(u)
        BY <1>5, <1>6, <1>9, <1>11, <1>12, <2>1, <2>2
    <2>7. r[i] = FlattenSeq(k)
        BY <1>10, <2>1
    <2>8. PICK x \in Nat, y \in Nat, z \in Nat :
              x = Count(s, Encode(u)) /\ y = Count(s, FlattenSeq(u)) /\ z = Count(s, FlattenSeq(k))
        BY CountNat, EncodeText, FlattenList DEF Text
    <2> QED BY <2>4, <2>5, <2>6, <2>7, <2>8
<1>14. Count(s, FlattenSeq(e)) <= Count(s, FlattenSeq(r))
    BY <1>8, <1>9, <1>12, <1>13, CountEach
<1>15. Count(s, FlattenSeq(r)) <= Count(s, FlattenSeq(q))
    <2>1. DOMAIN q = 1 .. d /\ P \subseteq DOMAIN q
        BY <1>3, <1>4, <1>7
    <2> QED BY <1>8, <2>1, CountChosen
<1>16. Count(s, FlattenSeq(q)) <= Count(s, FlattenSeq(firsts))
    <2>1. \A i \in 1 .. Len(q) : Count(s, q[i]) <= Count(s, firsts[i])
        BY <1>2, <1>3, <1>7
    <2> QED BY <1>2, <1>7, <2>1, CountEach
<1>17. Count(s, FlattenSeq(firsts)) <= Count(s, FlattenSeq(ls)) /\ Count(s, FlattenSeq(ls)) <= Count(s, t)
    <2>1. Len(ls) \in d .. Len(ls) /\ Len(ls) \in Nat
        BY LenProperties
    <2>2. CountUpto(s, ls, d) <= CountUpto(s, ls, Len(ls))
        BY <2>1, CountUptoRises
    <2>3. CountUpto(s, ls, Len(ls)) = Count(s, FlattenSeq(ls))
        BY CountUptoNat
    <2>4. CountUpto(s, ls, d) = Count(s, FlattenSeq(firsts))
        BY <1>2 DEF CountUpto
    <2> QED BY <1>1, <2>2, <2>3, <2>4, CountPieces
<1>18. Stream(BurstCommands(t)) = FlattenSeq(e)
    BY <1>11, <1>12, StreamText
<1>19. PICK u \in Nat, v \in Nat, w \in Nat, x \in Nat, y \in Nat, z \in Nat :
           /\ u = Count(s, FlattenSeq(e)) /\ v = Count(s, FlattenSeq(r)) /\ x = Count(s, FlattenSeq(q))
           /\ w = Count(s, FlattenSeq(firsts)) /\ y = Count(s, FlattenSeq(ls)) /\ z = Count(s, t)
    BY CountNat, FlattenList DEF Text
<1>20. u <= v /\ v <= x /\ x <= w /\ w <= y /\ y <= z
    BY <1>14, <1>15, <1>16, <1>17, <1>19
<1>21. u <= z
    BY <1>20
<1> QED BY <1>18, <1>19, <1>21

\* What is run has no more of a letter than what has come.
LEMMA CountMessage ==
    ASSUME NEW s \in Letters, NEW b \in Text
    PROVE  Count(s, getMessage(b)) <= Count(s, b)
<1> DEFINE T == {Len(b)} \cup {i - 1 : i \in {j \in DOMAIN b : b[j] = NUL}}
<1>1. PICK n \in Nat : n = Len(b) /\ DOMAIN b = 1 .. n
    BY LenProperties DEF Text
<1>2. Limit \in Nat /\ Limit > 2
    BY FramingAssumption
<1>3. CASE n > Limit
    <2>1. Limit - 2 \in 0 .. Len(b)
        BY <1>1, <1>2, <1>3
    <2>2. PICK p \in Text : p = SubSeq(b, 1, Limit - 2) /\ Count(s, p) <= Count(s, b)
        BY <2>1, CountPrefix
    <2>3. PICK m \in Text : m = <<CR, LF, NUL>>
        BY Marks
    <2>4. Count(s, m) = 0
        <3>1. \A j \in DOMAIN <<CR, LF, NUL>> : <<CR, LF, NUL>>[j] \in {SP, CR, LF, NUL}
            OBVIOUS
        <3> QED BY <2>3, <3>1, CountMarks
    <2>5. Count(s, p \o m) = Count(s, p)
        <3>1. Count(s, p \o m) = Count(s, p) + Count(s, m) /\ Count(s, p) \in Nat
            BY CountJoin, CountNat
        <3> QED BY <2>4, <3>1
    <2>6. getMessage(b) = p \o m
        BY <1>1, <1>3, <2>2, <2>3 DEF getMessage
    <2> QED BY <2>2, <2>5, <2>6
<1>4. CASE ~(n > Limit)
    <2>1. T \subseteq 0 .. n /\ T \subseteq Nat /\ T # {}
        BY <1>1
    <2>2. getMessage(b) = SubSeq(b, 1, Min(T))
        BY <1>1, <1>4 DEF getMessage
    <2> HIDE DEF T
    <2>3. Min(T) \in T
        BY <2>1, LeastExists DEF Min
    <2>4. Min(T) \in 0 .. Len(b)
        BY <1>1, <2>1, <2>3
    <2> QED BY <2>2, <2>4, CountPrefix
<1> QED BY <1>3, <1>4

\* Of a letter, lines have as many as their texts together.
LEMMA OccurrencesJoin ==
    ASSUME NEW s, NEW ls \in Lines, NEW ms \in Lines
    PROVE  Occurrences(s, ls \o ms) = Occurrences(s, ls) + Count(s, Stream(ms))
BY StreamConcat, StreamText, CountJoin DEF Occurrences

\* One more line.
LEMMA OccurrencesMore ==
    ASSUME NEW s, NEW ls \in Lines, NEW line \in Seq(Text)
    PROVE  Occurrences(s, Append(ls, line)) = Occurrences(s, ls) + Count(s, Encode(line))
<1>1. PICK ms \in Lines : ms = <<line>>
    <2>1. <<line>> \in Lines
        BY OneElement DEF Lines
    <2> QED BY <2>1
<1>2. Append(ls, line) = ls \o ms
    BY <1>1, AppendIsConcat DEF Lines
<1>3. Stream(ms) = Encode(line)
    BY <1>1, StreamOne
<1> QED BY <1>2, <1>3, OccurrencesJoin

\* Where a letter can be: in commands, in the fragment buffer and on the wire.
Held(s, done, aside, coming) == Occurrences(s, done) + (Count(s, aside) + Count(s, coming))

\* The fragment buffer and the wire, taken together.
LEMMA HeldIs ==
    ASSUME NEW s, NEW done, NEW aside \in Text, NEW coming \in Text
    PROVE  Held(s, done, aside, coming) = Occurrences(s, done) + Count(s, aside \o coming)
BY CountJoin DEF Held

\* What is written is sent once.
LEMMA WriteOnce ==
    ASSUME FramingTypes, NEW script \in Scripts, Write(script), NEW s \in Letters,
           Held(s, executed, eofBuffer, wire) <= Occurrences(s, written)
    PROVE  Held(s, executed', eofBuffer', wire') <= Occurrences(s, written')
<1>1. PICK line \in Seq(Text) :
          /\ written' = Append(written, line) /\ wire' = wire \o Encode(line)
          /\ executed' = executed /\ eofBuffer' = eofBuffer
    BY NextLine DEF FramingTypes, Write
<1>2. Occurrences(s, written') = Occurrences(s, written) + Count(s, Encode(line))
    BY <1>1, OccurrencesMore DEF FramingTypes
<1>3. Count(s, wire') = Count(s, wire) + Count(s, Encode(line))
    BY <1>1, EncodeText, CountJoin DEF FramingTypes
<1>4. PICK a \in Nat, b \in Nat, c \in Nat, d \in Nat, e \in Nat :
          /\ a = Occurrences(s, executed) /\ b = Count(s, eofBuffer) /\ c = Count(s, wire)
          /\ d = Count(s, Encode(line)) /\ e = Occurrences(s, written)
    BY CountNat, StreamText, EncodeText DEF FramingTypes, Occurrences
<1>5. a + (b + c) <= e
    BY <1>4 DEF Held
<1>6. a + (b + (c + d)) <= e + d
    BY <1>5
<1> QED BY <1>1, <1>2, <1>3, <1>4, <1>6 DEF Held

\* A text that is run is dropped, put aside or executed, with what was put aside or
\* without it: once.
LEMMA RunOnce ==
    ASSUME FramingTypes, NEW t \in Text, run(t), NEW s \in Letters
    PROVE  Occurrences(s, executed') + Count(s, eofBuffer')
               <= Occurrences(s, executed) + (Count(s, eofBuffer) + Count(s, t))
<1>1. PICK a \in Nat, b \in Nat, c \in Nat :
          a = Occurrences(s, executed) /\ b = Count(s, eofBuffer) /\ c = Count(s, t)
    BY CountNat, StreamText DEF FramingTypes, Occurrences
<1>2. executed \in Lines /\ eofBuffer \in Text
    BY DEF FramingTypes
<1>3. CASE Ignore
    <2>1. executed' = executed /\ eofBuffer' = eofBuffer
        BY <1>3 DEF Ignore
    <2>2. a + b <= a + (b + c)
        OBVIOUS
    <2> QED BY <1>1, <2>1, <2>2
<1>4. CASE PutAside(t)
    <2>1. executed' = executed /\ Count(s, eofBuffer') = b + c
        BY <1>1, <1>2, <1>4, CountJoin DEF PutAside
    <2> QED BY <1>1, <2>1
<1>5. CASE SignUpBurst(t)
    <2>1. PICK d \in Nat : d = Count(s, Stream(BurstCommands(t))) /\ d <= c
        BY <1>1, CountNat, CountBurst, BurstLines, StreamText
    <2>2. eofBuffer' = eofBuffer /\ Occurrences(s, executed') = a + d
        BY <1>1, <1>2, <1>5, <2>1, BurstLines, OccurrencesJoin DEF SignUpBurst
    <2>3. a + d + b <= a + (b + c)
        BY <2>1
    <2> QED BY <1>1, <2>2, <2>3
<1>6. CASE Execute(t)
    <2>1. ASSUME NEW u \in Text, executed' = Append(executed, cmdVector(u))
          PROVE  \E d \in Nat : Occurrences(s, executed') = a + d /\ d <= Count(s, u)
        <3>1. PICK d \in Nat : d = Count(s, Encode(cmdVector(u))) /\ d <= Count(s, u)
            BY CountNat, CountCommand, CmdVectorWords, EncodeText
        <3>2. Occurrences(s, executed') = a + d
            BY <1>1, <1>2, <2>1, <3>1, CmdVectorWords, OccurrencesMore
        <3> QED BY <3>1, <3>2
    <2>2. CASE eofFlag
        <3>1. PICK u \in Text : u = eofBuffer \o t /\ Count(s, u) = b + c
            <4>1. eofBuffer \o t \in Text
                BY <1>2, ConcatProperties DEF Text
            <4> QED BY <1>1, <1>2, <4>1, CountJoin
        <3>2. PICK d \in Nat : Occurrences(s, executed') = a + d /\ d <= b + c
            BY <1>6, <2>1, <2>2, <3>1 DEF Execute
        <3>3. eofBuffer' = <<>> /\ Count(s, <<>>) = 0
            <4>1. \A i \in DOMAIN <<>> : <<>>[i] \in {SP, CR, LF, NUL}
                OBVIOUS
            <4> QED BY <1>6, <2>2, <4>1, CountMarks DEF Execute
        <3>4. a + d + 0 <= a + (b + c)
            BY <3>2
        <3> QED BY <1>1, <3>2, <3>3, <3>4
    <2>3. CASE ~eofFlag
        <3>1. PICK d \in Nat : Occurrences(s, executed') = a + d /\ d <= c
            BY <1>1, <1>6, <2>1, <2>3 DEF Execute
        <3>2. eofBuffer' = eofBuffer
            BY <1>6, <2>3 DEF Execute
        <3>3. a + d + b <= a + (b + c)
            BY <3>1
        <3> QED BY <1>1, <3>1, <3>2, <3>3
    <2> QED BY <2>2, <2>3
<1> QED BY <1>3, <1>4, <1>5, <1>6 DEF run

\* What is read is run once, and the rest stays on the wire.
LEMMA ReadOnce ==
    ASSUME FramingTypes, NEW n \in 1 .. Len(wire), Read(n), NEW s \in Letters,
           Held(s, executed, eofBuffer, wire) <= Occurrences(s, written)
    PROVE  Held(s, executed', eofBuffer', wire') <= Occurrences(s, written')
<1>1. Len(wire) \in Nat /\ wire \in Text /\ SubSeq(wire, 1, Len(wire)) = wire
    BY LenProperties, SubSeqFull DEF FramingTypes, Text
<1>2. PICK b \in Text, rest \in Text :
          /\ b = SubSeq(wire, 1, n) /\ rest = SubSeq(wire, n + 1, Len(wire))
          /\ Count(s, wire) = Count(s, b) + Count(s, rest)
    <2>1. n \in 0 .. Len(wire) /\ Len(wire) \in n .. Len(wire)
        BY <1>1
    <2> QED BY <1>1, <2>1, CountSplit
<1>3. PICK t \in Text : t = getMessage(b) /\ Count(s, t) <= Count(s, b)
    BY MessageText, CountMessage
<1>4. wire' = rest /\ run(t) /\ written' = written
    BY <1>2, <1>3 DEF Read
<1>5. Occurrences(s, executed') + Count(s, eofBuffer')
          <= Occurrences(s, executed) + (Count(s, eofBuffer) + Count(s, t))
    BY <1>4, RunOnce
<1>6. executed' \in Lines /\ eofBuffer' \in Text
    BY ReadTypes DEF FramingTypes
<1>7. PICK a \in Nat, c \in Nat, d \in Nat, e \in Nat, f \in Nat, g \in Nat, h \in Nat, w \in Nat :
          /\ a = Occurrences(s, executed) /\ c = Count(s, eofBuffer) /\ d = Count(s, t)
          /\ e = Count(s, b) /\ f = Count(s, rest) /\ g = Occurrences(s, executed')
          /\ h = Count(s, eofBuffer') /\ w = Occurrences(s, written)
    BY <1>6, CountNat, StreamText DEF FramingTypes, Occurrences
<1>8. a + (c + (e + f)) <= w /\ d <= e /\ g + h <= a + (c + d)
    BY <1>2, <1>3, <1>5, <1>7 DEF Held
<1>9. g + (h + f) <= w
    BY <1>8
<1> QED BY <1>4, <1>7, <1>9 DEF Held

\* Of a connection on which nothing has come, nothing is held.
LEMMA NothingHeld ==
    ASSUME NEW s \in Letters
    PROVE  Held(s, <<>>, <<>>, <<>>) <= Occurrences(s, <<>>)
<1>1. Stream(<<>>) = <<>>
    BY StreamText, EmptySeq DEF Lines
<1>2. \A i \in DOMAIN <<>> : <<>>[i] \in {SP, CR, LF, NUL}
    OBVIOUS
<1>3. Count(s, <<>>) = 0
    BY <1>2, CountMarks
<1>4. Occurrences(s, <<>>) = 0
    BY <1>1, <1>3 DEF Occurrences
<1>5. 0 + (0 + 0) <= 0
    OBVIOUS
<1> QED BY <1>3, <1>4, <1>5 DEF Held
=============================================================================
