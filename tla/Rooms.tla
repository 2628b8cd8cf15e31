------------------------------- MODULE Rooms --------------------------------
(***************************************************************************)
(* Server implements ChatRooms: a channel is a room, and its three vectors *)
(* of descriptors are sets.  What invite() notes for a client whose own    *)
(* descriptor is -1 invites nobody.  Each iteration of JOIN, PART, KICK,   *)
(* QUIT and MODE is one step of ChatRooms or none, and so is every event.  *)
(***************************************************************************)
EXTENDS Server

RoomOf(ch) ==
    [members |-> ToSet(ch.clientFdList), ops |-> ToSet(ch.operatorFdList),
     guests |-> ToSet(ch.inviteFdList) \cap Fds, modes |-> ch.modes, limit |-> ch.limit,
     topic |-> ch.topic]

\* The limits MODE +l accepts.
MayBeLimit == {n \in {Atoi[w] : w \in DOMAIN Atoi} : n >= 0} \cup {0}

Chat == INSTANCE ChatRooms WITH
            People <- Fds, Names <- ChanNames, Topics <- Words, Limits <- MayBeLimit,
            rooms <- [c \in DOMAIN channelList |-> RoomOf(channelList[c])]

\* Whatever the commands of the clients, their errors, lost connections and descriptors
\* used again do to the channels, step by step, is something ChatRooms allows.
ImplementsChatRooms == Chat!Spec
=============================================================================
