------------------------------ MODULE Channel ------------------------------
(***************************************************************************)
(* One chat channel: the state of class Channel and its methods            *)
(* (src/Channel.cpp).  A channel is a record; a method that changes the    *)
(* object is an operator that returns the changed record.                  *)
(*                                                                         *)
(*   operatorFdList, clientFdList, inviteFdList   vectors of descriptors   *)
(*   topic, key                                   words                    *)
(*   modes     the letters of "i", "t", "k", "l" whose status flag is set  *)
(*   limit     unsigned number of clients, meaningful while "l" is set     *)
(***************************************************************************)
EXTENDS Integers, Sequences, SequencesExt

\* Channel::Channel(name, fd): the creator is the operator, nobody is in yet.
NewChannel(fd) ==
    [operatorFdList |-> <<fd>>, clientFdList |-> <<>>, inviteFdList |-> <<>>,
     topic |-> "", key |-> "", modes |-> {}, limit |-> 0]

-----------------------------------------------------------------------------
\* Tests

diffMode(ch, mode)           == mode \in ch.modes
diffOperator(ch, fd)         == fd \in ToSet(ch.operatorFdList)
diffInvite(ch, fd)           == fd \in ToSet(ch.inviteFdList)
\* Mutant: nobody is ever found.
diffClientInChannel_Mut(ch, fd) == FALSE
diffClientInChannel(ch, fd)  == fd \in ToSet(ch.clientFdList)
diffKey(ch, key)             == ch.key = key

-----------------------------------------------------------------------------
\* Updates.  std::find + erase removes the first occurrence only, and only
\* addOperatorFd and appendFdListInvite look before they push.

appendFdListClient(ch, fd) ==
    [ch EXCEPT !.clientFdList = Append(@, fd)]

removeFdListClient(ch, fd) ==
    [ch EXCEPT !.clientFdList = RemoveFirst(@, fd)]

addOperatorFd(ch, fd) ==
    IF diffOperator(ch, fd) THEN ch
    ELSE [ch EXCEPT !.operatorFdList = Append(@, fd)]

removeOperatorFd(ch, fd) ==
    [ch EXCEPT !.operatorFdList = RemoveFirst(@, fd)]

appendFdListInvite(ch, fd) ==
    IF diffInvite(ch, fd) THEN ch
    ELSE [ch EXCEPT !.inviteFdList = Append(@, fd)]

removeInviteFd(ch, fd) ==
    [ch EXCEPT !.inviteFdList = RemoveFirst(@, fd)]

setTopic(ch, topic) == [ch EXCEPT !.topic = topic]
setKey(ch, key)     == [ch EXCEPT !.key = key]
setLimit(ch, limit) == [ch EXCEPT !.limit = limit]

setOperator(ch, fd, sign) ==
    CASE sign = "+" -> addOperatorFd(ch, fd)
      [] sign = "-" -> removeOperatorFd(ch, fd)
      [] OTHER      -> ch

\* Channel::setMode: any other sign leaves the flag alone.
setMode(ch, mode, sign, fd) ==
    CASE mode = "o"                -> setOperator(ch, fd, sign)
      [] mode # "o" /\ sign = "+"  -> [ch EXCEPT !.modes = @ \cup {mode}]
      [] mode # "o" /\ sign = "-"  -> [ch EXCEPT !.modes = @ \ {mode}]
      [] OTHER                     -> ch
=============================================================================
