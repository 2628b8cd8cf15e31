---------------------------- MODULE Invitations -----------------------------
(***************************************************************************)
(* Server with a history of the invitations: guests holds a channel and a  *)
(* descriptor from the INVITE on, as long as the channel exists and the    *)
(* connection stays open.                                                  *)
(***************************************************************************)
EXTENDS Claims

VARIABLE guests

gvars == <<vars, guests>>

Invited ==
    UNION {{<<m.chan, f>> : m \in {n \in NewMessages(f) : n.cmd = "INVITE"}} : f \in Fds}

GuestInit == Init /\ guests = {}
GuestNext ==
    /\ Next
    /\ guests' = {p \in guests \cup Invited : p[1] \in DOMAIN channelList' /\ p[2] \in sock'}
GuestSpec == GuestInit /\ [][GuestNext]_gvars

\* src/README.md:179, "+i" makes the channel invite-only.  Hence who enters it has been
\* invited, and not somebody who had the descriptor before.
EntryByInvitation ==
    [][\A c \in Kept : \A f \in Members(c)' \ Members(c) :
        "i" \in channelList[c].modes => <<c, f>> \in guests]_gvars

InvitationRequests ==
    {Join(<<"#x">>, <<>>), Mode("#x", <<"+", "i">>, <<>>), Cmd("INVITE", <<"a_", "#x">>), Cmd("QUIT", <<>>)}
=============================================================================
