----------------------------- MODULE ChatRooms ------------------------------
(***************************************************************************)
(* What the channels of the server promise to those who use them: rooms    *)
(* with members, operators and guests.  There are no lists, commands,      *)
(* loops, buffers or clients here; Rooms shows that Server implements it.  *)
(* The key of a room is left out, since whatever a person offers may be    *)
(* it.                                                                     *)
(***************************************************************************)
EXTENDS Naturals, FiniteSets

CONSTANTS
    People,
    Names,      \* the names a room may have
    Topics,     \* what a topic may be; "" is none
    Limits      \* what the limit of a room may be

Letters == {"i", "t", "k", "l"}

VARIABLE rooms  \* name -> room, for the rooms there are

Room == [members : SUBSET People, ops : SUBSET People, guests : SUBSET People,
         modes : SUBSET Letters, limit : Limits, topic : Topics]

TypeOK ==
    /\ DOMAIN rooms \subseteq Names
    /\ rooms \in [DOMAIN rooms -> Room]

Init == rooms = [r \in {} |-> r]

-----------------------------------------------------------------------------
IsMember(p, r)   == r \in DOMAIN rooms /\ p \in rooms[r].members
IsOperator(p, r) == r \in DOMAIN rooms /\ p \in rooms[r].ops

Change(r, room) == rooms' = [rooms EXCEPT ![r] = room]
Add(r, room) ==
    rooms' = [s \in DOMAIN rooms \cup {r} |-> IF s = r THEN room ELSE rooms[s]]
Remove(r) == rooms' = [s \in DOMAIN rooms \ {r} |-> rooms[s]]

\* The room when p is out of it.
Less(room, p) == [room EXCEPT !.members = @ \ {p}, !.ops = @ \ {p}]

\* p finds no such room and gets one of its own.
Open(p, r) ==
    /\ r \notin DOMAIN rooms
    /\ Add(r, [members |-> {p}, ops |-> {p}, guests |-> {}, modes |-> {}, limit |-> 0,
               topic |-> ""])

\* p enters a room that lets it in.
Enter(p, r) ==
    /\ r \in DOMAIN rooms /\ p \notin rooms[r].members
    /\ "i" \in rooms[r].modes => p \in rooms[r].guests
    /\ "l" \in rooms[r].modes => Cardinality(rooms[r].members) < rooms[r].limit
    /\ Change(r, [rooms[r] EXCEPT !.members = @ \cup {p}])

\* p leaves, and the room is gone with its last member.
Leave(p, r) ==
    /\ IsMember(p, r)
    /\ IF rooms[r].members = {p} THEN Remove(r) ELSE Change(r, Less(rooms[r], p))

\* An operator puts somebody else out.
PutOut(p, q, r) ==
    /\ IsOperator(p, r) /\ IsMember(q, r) /\ p # q
    /\ Change(r, Less(rooms[r], q))

Invite(p, q, r) ==
    /\ IsOperator(p, r) /\ q \notin rooms[r].members
    /\ Change(r, [rooms[r] EXCEPT !.guests = @ \cup {q}])

\* An operator makes somebody else one, or no longer one.
Promote(p, q, r) ==
    /\ IsOperator(p, r) /\ IsMember(q, r) /\ p # q
    /\ Change(r, [rooms[r] EXCEPT !.ops = @ \cup {q}])
Demote(p, q, r) ==
    /\ IsOperator(p, r) /\ IsMember(q, r) /\ p # q
    /\ Change(r, [rooms[r] EXCEPT !.ops = @ \ {q}])

\* An operator sets or clears one mode; the limit goes with its mode.
SetMode(p, r, m, n) ==
    /\ IsOperator(p, r)
    /\ Change(r, [rooms[r] EXCEPT !.modes = @ \cup {m}, !.limit = IF m = "l" THEN n ELSE @])
ClearMode(p, r, m) ==
    /\ IsOperator(p, r)
    /\ Change(r, [rooms[r] EXCEPT !.modes = @ \ {m}, !.limit = IF m = "l" THEN 0 ELSE @])

SetTopic(p, r, t) ==
    /\ IsMember(p, r)
    /\ "t" \in rooms[r].modes => IsOperator(p, r)
    /\ Change(r, [rooms[r] EXCEPT !.topic = t])

\* The connection of p is lost.  It is out of its rooms and no longer their guest,
\* and they stay, even with nobody in them.
Vanish(p) ==
    rooms' = [r \in DOMAIN rooms |->
                IF p \in rooms[r].members THEN [Less(rooms[r], p) EXCEPT !.guests = @ \ {p}]
                ELSE rooms[r]]

\* The server ends.
Close == rooms' = [r \in {} |-> r]

-----------------------------------------------------------------------------
Next ==
    \/ \E p \in People, r \in Names : Open(p, r) \/ Enter(p, r) \/ Leave(p, r)
    \/ \E p, q \in People, r \in Names :
            PutOut(p, q, r) \/ Invite(p, q, r) \/ Promote(p, q, r) \/ Demote(p, q, r)
    \/ \E p \in People, r \in Names, m \in Letters :
            ClearMode(p, r, m) \/ \E n \in Limits : SetMode(p, r, m, n)
    \/ \E p \in People, r \in Names, t \in Topics : SetTopic(p, r, t)
    \/ \E p \in People : Vanish(p)
    \/ Close

Spec == Init /\ [][Next]_rooms
=============================================================================
