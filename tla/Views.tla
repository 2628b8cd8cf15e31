------------------------------- MODULE Views --------------------------------
(***************************************************************************)
(* Server with what its messages make the clients believe: view[f][c] has  *)
(* the names the client of f takes to be in channel c, from the JOIN, 353, *)
(* PART, KICK, QUIT and NICK messages appended to its buffer, in order.    *)
(* disconnectClient tells nobody; who is lost with a connection is taken   *)
(* out of the views here, so that they show what the messages are good for *)
(* otherwise.                                                              *)
(***************************************************************************)
EXTENDS Server

VARIABLE view

viewVars == <<vars, view>>

NobodyKnown == [c \in ChanNames |-> {}]

\* A view after one more message, for the client that is called me.
Heard(seen, m, me) ==
    CASE m.cmd = "JOIN" -> [seen EXCEPT ![m.chan] = @ \cup {m.from}]
      [] m.cmd = "353"  -> [seen EXCEPT ![m.chan] = ToSet(m.text)]
      [] m.cmd = "PART" -> [seen EXCEPT ![m.chan] = IF m.from = me THEN {} ELSE @ \ {m.from}]
      [] m.cmd = "KICK" -> [seen EXCEPT ![m.chan] = IF m.text[1] = me THEN {} ELSE @ \ {m.text[1]}]
      [] m.cmd = "QUIT" -> [c \in ChanNames |-> seen[c] \ {m.from}]
      [] m.cmd = "NICK" -> [c \in ChanNames |->
                               IF m.from \in seen[c] THEN (seen[c] \ {m.from}) \cup {m.text[1]}
                               ELSE seen[c]]
      [] OTHER -> seen

\* A view after the messages ms, one after the other.
Hearing(seen, ms, me) ==
    LET after[i \in 0 .. Len(ms)] == IF i = 0 THEN seen ELSE Heard(after[i - 1], ms[i], me)
    IN  after[Len(ms)]

\* The messages a step appends to the buffer of f, in order.
Appended(f) == SubSeq(reciveBuf'[f], Len(reciveBuf[f]) + 1, Len(reciveBuf'[f]))

\* The names in c of those whose connection is lost in this step.
LostNow(c) ==
    IF job = Idle /\ c \in DOMAIN channelList
    THEN {clientList[f].nickName : f \in Members(c) \ sock'} ELSE {}

ViewInit == Init /\ view = [f \in Fds |-> NobodyKnown]
ViewNext ==
    /\ Next
    /\ view' = [f \in Fds |->
                  LET seen == Hearing(view[f], Appended(f), clientList[f].nickName)
                  IN  IF f \notin sock' THEN NobodyKnown
                      ELSE [c \in ChanNames |-> seen[c] \ LostNow(c)]]
ViewSpec == ViewInit /\ [][ViewNext]_viewVars
FairViewSpec == ViewSpec /\ Fairness

\* Between commands every member of a channel knows exactly who is in it, by the names
\* they have now, and whoever is not in a channel believes nobody to be there.  The
\* members that carry the descriptor -1 are left out: messageAllChannel tells only one
\* of them of a new nickname.
ViewsRight ==
    job = Idle /\ status = "running" =>
        \A f \in sock, c \in ChanNames :
            IF c \in DOMAIN channelList /\ f \in Members(c)
            THEN clientList[f].fd = f => view[f][c] = {clientList[g].nickName : g \in Members(c)}
            ELSE view[f][c] = {}
=============================================================================
