------------------------------- MODULE Client -------------------------------
(***************************************************************************)
(* One connection: the state of class Client and its methods               *)
(* (src/Client.cpp), without the two string buffers: reciveBuf is a        *)
(* variable of Command, the fragment buffer belongs to message framing.    *)
(*                                                                         *)
(*   fd           the descriptor the object was constructed with, -1 for   *)
(*                the default constructor                                  *)
(*   nickName     a word, "*" until NICK succeeds                          *)
(*   regi         which of PASS, NICK and USER have succeeded              *)
(*   channelList  vector of the names of the channels the client is in     *)
(***************************************************************************)
EXTENDS Integers, Sequences, SequencesExt

NoFd == -1
Star == "*"
Registration == {"PASS", "NICK", "USER"}

\* Client::Client(fd), and Client::Client() as NewClient(NoFd).
NewClient(fd) ==
    [fd |-> fd, nickName |-> Star, regi |-> {}, channelList |-> <<>>]

getIsRegist(cl)   == cl.regi = Registration
setRegi(cl, what) == [cl EXCEPT !.regi = @ \cup {what}]
setNickname(cl, name) == [cl EXCEPT !.nickName = name]

findChannelOf(cl, name) == name \in ToSet(cl.channelList)
appendChannelList(cl, name) == [cl EXCEPT !.channelList = Append(@, name)]

\* Mutant: the name is not erased.
deleteChannel_Mut(cl, name) == cl
deleteChannel(cl, name) == [cl EXCEPT !.channelList = RemoveFirst(@, name)]
=============================================================================
