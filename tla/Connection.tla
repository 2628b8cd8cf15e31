----------------------------- MODULE Connection -----------------------------
(***************************************************************************)
(* One connection from end to end: the client writes lines, the event loop *)
(* reads what has come, executes it (Framing), and sends the answers at    *)
(* the end of the batch (Server::execute, src/Server.cpp).                 *)
(*                                                                         *)
(* The bytes the handlers append to _reciveBuf for this client, by its own *)
(* commands or by those of others, are numbered in their order, so that    *)
(* what becomes of each of them can be followed.                           *)
(***************************************************************************)
EXTENDS Framing

CONSTANTS
    AnswerLen,   \* how many bytes a handler appends (an abstraction: all the same)
    SendBuf,     \* how many bytes the kernel holds for the client
    MaxRelays    \* how many messages of others the client gets (a bound of the model)

ASSUME ConnectionAssumption ==
    AnswerLen \in Nat \ {0} /\ SendBuf \in Nat \ {0} /\ MaxRelays \in Nat

VARIABLES
    served,      \* the event of this descriptor in the current batch has been served
    reciveBuf,   \* Client::_reciveBuf
    produced,    \* how many bytes have been appended to it, for this connection
    kernel,      \* what send() took and the client has not read
    received,    \* what the client has read
    cut,         \* history: some send() took only a part
    relays       \* how many messages of others there have been

delivery == <<served, reciveBuf, produced, kernel, received, cut, relays>>
vars == <<framing, delivery>>

Numbers(m, n) == [i \in 1 .. n |-> m + i]

\* Client::appendReciveBuf, k times.
appendReciveBuf(k) ==
    /\ reciveBuf' = reciveBuf \o Numbers(produced, k * AnswerLen)
    /\ produced' = produced + k * AnswerLen

Init ==
    /\ FramingInit
    /\ served = FALSE /\ reciveBuf = <<>> /\ produced = 0
    /\ kernel = <<>> /\ received = <<>> /\ cut = FALSE /\ relays = 0

-----------------------------------------------------------------------------
ClientWrites == \E script \in Scripts : Write(script) /\ UNCHANGED delivery

\* The event for this descriptor: one recv() in a batch.
Serve ==
    /\ ~served /\ wire # <<>>
    /\ \E n \in 1 .. Len(wire) : Read(n)
    /\ served' = TRUE
    /\ appendReciveBuf(Len(executed') - Len(executed))
    /\ UNCHANGED <<kernel, received, cut, relays>>

\* The command of another client has a message for this one.
Relay ==
    /\ running /\ relays < MaxRelays
    /\ relays' = relays + 1
    /\ appendReciveBuf(1)
    /\ UNCHANGED <<framing, served, kernel, received, cut>>

\* Mutant: clearReciveBuf is left out when not everything was sent.
Flush_Mut ==
    LET taken == Min({Len(reciveBuf), SendBuf - Len(kernel)}) IN
    /\ running /\ (served \/ reciveBuf # <<>>)
    /\ kernel' = kernel \o SubSeq(reciveBuf, 1, taken)
    /\ reciveBuf' = IF taken < Len(reciveBuf) THEN reciveBuf ELSE <<>>
    /\ cut' = (cut \/ taken < Len(reciveBuf))
    /\ served' = FALSE
    /\ UNCHANGED <<framing, produced, received, relays>>
\* The end of the batch.  The socket does not block: send() takes what there is room
\* for, its result is ignored, and the buffer is cleared.
Flush ==
    LET taken == Min({Len(reciveBuf), SendBuf - Len(kernel)}) IN
    /\ running /\ (served \/ reciveBuf # <<>>)
    /\ kernel' = kernel \o SubSeq(reciveBuf, 1, taken)
    /\ reciveBuf' = <<>>
    /\ cut' = (cut \/ taken < Len(reciveBuf))
    /\ served' = FALSE
    /\ UNCHANGED <<framing, produced, received, relays>>

ClientReads ==
    /\ kernel # <<>>
    /\ received' = received \o kernel
    /\ kernel' = <<>>
    /\ UNCHANGED <<framing, served, reciveBuf, produced, cut, relays>>

\* The connection is lost or dropped with all that was on the way, and another client
\* gets the descriptor.
Reconnect ==
    /\ written # <<>> \/ produced > 0
    /\ NewConnection
    /\ served' = FALSE /\ reciveBuf' = <<>> /\ produced' = 0
    /\ kernel' = <<>> /\ received' = <<>> /\ cut' = FALSE /\ relays' = 0

Next == ClientWrites \/ Serve \/ Relay \/ Flush \/ ClientReads \/ Reconnect

Spec == Init /\ [][Next]_vars

\* The thread of the server goes on, and the client reads what has come.
FairSpec == Spec /\ WF_vars(Serve \/ Flush) /\ WF_vars(ClientReads)

-----------------------------------------------------------------------------
\* Every variable has its type; the fragment buffer never holds a whole line, since what
\* ends in it is executed at once.
ConnectionTypeOK ==
    /\ wire \in Seq(Symbols) /\ eofBuffer \in Seq(Symbols \ {LF}) /\ eofFlag \in BOOLEAN
    /\ executed \in Seq(Seq(Seq(Symbols))) /\ running \in BOOLEAN
    /\ written \in Seq(Seq(Seq(Symbols))) /\ tidy \in BOOLEAN
    /\ served \in BOOLEAN /\ reciveBuf \in Seq(Nat) /\ produced \in Nat
    /\ kernel \in Seq(Nat) /\ received \in Seq(Nat) /\ cut \in BOOLEAN /\ relays \in 0 .. MaxRelays

OnTheWay == received \o kernel \o reciveBuf

\* What the client reads, has coming and will be sent is in the order it was appended,
\* with nothing twice, whatever send() took; and as long as send() always had room,
\* nothing is missing.
AnswersInOrder ==
    /\ \A i, j \in DOMAIN OnTheWay : i < j => OnTheWay[i] < OnTheWay[j]
    /\ ~cut => OnTheWay = Numbers(0, produced)

\* Every line the client has written comes to be executed and every answer to be read,
\* if every recv() was a tidy one, send() had room and the connection lasts: no line that came
\* in pieces stays in the fragment buffer, and no answer in the send buffer.
LinesAnswered ==
    written # <<>> ~>
        \/ Len(executed) = Len(written) /\ received = Numbers(0, produced)
        \/ ~tidy \/ cut \/ written = <<>>

-----------------------------------------------------------------------------
\* Command.hpp:77, the grammar of the messages: each line is one message.  Hence the
\* commands executed are the lines written.
LinesAreMessages ==
    /\ Len(executed) <= Len(written)
    /\ \A i \in DOMAIN executed : IsCommandOf(executed[i], written[i])
=============================================================================
