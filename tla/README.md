# Verification of the IRC server

TLA+ modules, TLC runs and TLAPS proofs for the IRC server in
`src/IRC_PROTOCOL_SERVER` (C++98, one thread, `kqueue`). Paths below are relative
to that directory.

## 1. The system

| Part | Code | State it keeps | Operations |
|---|---|---|---|
| Event loop | `src/Server.cpp` | `_clientList` (descriptor to `Client`), `_channelList` (name to `Channel`), `_eventList`, open sockets | `execute`: `kevent`, `accept`, `recv`, `disconnectClient`, the sending of all buffers after a batch; exceptions end the process |
| Dispatch | `src/Command.cpp` | - | `run`, `signUp` (before registration), `signIn` (after), `irssiSignUp` (PASS, NICK and USER in one text) |
| Framing | `src/Command.cpp` 21-92, `Server::getMessage` | `Client::_eofBuffer`, `_eofFlag` | collects fragments until a newline, cuts texts at 512 bytes, drops `CAP LS`, tells bursts from commands and cuts either into words |
| Registration | `command/Pass.cpp`, `Nick.cpp`, `User.cpp` | `Client::_regi`, `_nickName` | three commands in any order, PASS first |
| Membership | `command/Join.cpp`, `Part.cpp`, `Kick.cpp`, `Quit.cpp`, `Invite.cpp` | `Client::_channelList`; `Channel::_clientFdList`, `_operatorFdList`, `_inviteFdList` | enter, leave, put out, invite |
| Modes, topic | `command/Mode.cpp`, `Topic.cpp` | `Channel::_mode`, `_key`, `_limit`, `_topic`, `_operatorFdList` | `i t k l o`, sign by sign and letter by letter |
| Talk | `command/Privmsg.cpp`, `List.cpp`, `Ping.cpp` | - | relays, listings |
| Send buffers | `Client::_reciveBuf`, `src/Server.cpp` 145-158 | text not sent yet | appended to by every handler for any client; sent and emptied at the end of the batch, whatever `send` took |
| Helpers, replies | `src/Util.cpp`, `src/Error.cpp` | `_sendNickList` during a NICK | broadcasts, numeric replies |
| Start-up, build | `main.cpp`, `Makefile`, `docker_ALL/` | - | argument checks, catch of the exception |

**How the parts interact.** `execute` takes a batch of ready descriptors from
`kevent` and serves them in order. For each it calls `run`, which finds the client by
descriptor and calls one handler. A handler reads and changes both maps and appends
text to the buffers of *other* clients; those are sent when the batch is over. There
are no threads and no locks. What makes the code hard is not parallelism but:

* *one relation kept twice*: membership is in the client and in the channel, and each
  is dereferenced unchecked on the strength of the other;
* *descriptors as identities*: channels name clients by descriptor, the kernel gives a
  descriptor out again, and two things identify a client, the map's key and
  `getClientFd()`, which may differ;
* *handlers that loop* over channels, targets or mode letters and return, skip or fail
  in the middle, with what was done so far in place;
* *order*: connections are lost, accepted and served in any order, in one batch or
  several, at any stage of a registration;
* *iterators* advanced beside one another (channels with keys, channels with nicks);
* *texts are not lines*: one `recv` is taken for one command, TCP cuts where it likes;
* *the other side's picture*: clients know a channel from messages alone, and a message
  that is left out, sent twice or does not fit into the socket makes the picture wrong for good.

What makes each part correct:

* Event loop: every open connection has its client and nothing of a closed one is
  left; every buffer is sent, in order and once.
* Framing: lines that come in pieces are executed word for word, and a USER line in a burst
  as four words and a real name; nothing is executed twice, nor for another connection.
* Registration: nothing is possible before PASS, NICK and USER; names are unique.
* Membership: the two records agree, without duplicates; operators are members; JOIN
  enters only within key, limit and invitation.
* Modes: only operators rule; a channel does not lose its last operator to KICK or MODE.
* Talk: what is said in a channel comes from members and stays with members; those in
  a channel know who is in it.
* Handlers: each ends.

`PROJECT.json` lists the hazards, each at its line.

## 2. The modules

```
Channel  Client            the two classes, as records and operators
     \   /
    Command                shared state, messages, look-ups, helpers
   /   |   |    \
SignUp Membership Modes Talk   the handlers
   \   |   |    /
    Server                 event loop, dispatch, Spec, properties
    /    \
 Rooms   Views             Rooms: what channels promise (ChatRooms), which Server
   |       |               implements; Views: what clients are told, against what is so
MCServer   |               instances for TLC
   |    \  |
Claims  MCViews
   |
Invitations

Framing                    bytes to commands
   |
Connection                 one connection: bytes in, commands, answers out
   |
MCConnection
```

The proofs are in modules of their own; an arrow leads to what a module builds on:

```
ListProofs                 sequences, erasing, least numbers
   ^            ^
ServerProofs   TextProofs             clients and channels, IInv and the invariants
   ^            ^                     of Server; texts: getline, flattening, counting
HandlerProofs  FramingProofs          nicknames, keys, undefined steps, talk; lines
   ^            ^                     and bursts, what run() makes of a text
StepProofs     ConnectionProofs       who may do what in a step, Server implements
   ^                                  ChatRooms; the theorems of Connection
ViewsProofs                what clients are told
```

`Server` has all connections and commands and takes a text as what it turns out to be;
`Connection` has one connection and follows its bytes. `Server!Run` is the outcome of
`Framing!run`: a command (`Execute`), a burst (`SignUpBurst`), or no effect on clients and
channels (`Ignore`, `PutAside`). In `Framing` a USER line of a burst that throws ends the
process (`running`), but what the burst of *another* connection does to this one is in
`Server` alone (`BurstError`, `Shutdown`).

**State.** `clientList` and `channelList` are the two maps, functions whose domain is
the set of keys. A client is `[fd, nickName, regi, channelList]`, a channel
`[operatorFdList, clientFdList, inviteFdList, topic, key, modes, limit]`; the lists
are sequences, because the code erases the first occurrence only and the order
matters to it. `reciveBuf` has the unsent messages of every descriptor, `sock` the
open connections, `eventList` what is left of the batch, `status` whether the process
runs, has been stopped by an exception or is in undefined behaviour.

**Steps.** A handler that does not loop is one action (`topic`, `invite`, `pass`, ...).
One that loops is started by its action, which makes the checks before the loop and
stores the loop's variables in `job`, and goes on with one step per iteration
(`JoinExisting`, `PartChannel`, `KickChannel`, `ModeKey`, ...) until `job` is `Idle`
again; nothing else happens meanwhile, as in the code. The invariants therefore hold
*after every iteration*, not only between commands, which is what the broadcasts
inside the loops need. `Init` is the server after start-up: no client, no channel.

| Code | Model |
|---|---|
| `Server::execute`: kevent, batch loop, sending | `KEvent`, `Event`, `Flush` |
| accept and `insert` | `Accept`; the lowest free descriptor is the kernel's choice |
| `recv` gives 0, then `run` on the empty text | `Eof`: `disconnectClient`, then `clientList[fd]` makes a blank client |
| EV_ERROR on a connection | `ClientSockError` |
| EV_ERROR on the listening socket, failing `accept` or `kevent`, `substr` in `irssiSignUp` | `ServerSockError`, `KEventError`, `BurstError` |
| a `send` to a connection that has been reset (SIGPIPE, not handled), at the end of the batch, in LIST, or before PASS | `BrokenPipe` |
| `run` | `Run`: a command, a burst, or a text put aside; in bytes, `Framing!run` |
| `getMessage` | `Eof`; in bytes, `Framing!getMessage` |
| `irssiSignUp`, the reading of a line | `Framing!LineWords`: `Words` (the `>>` of 107), or for USER `UserWords`: three `>>`, and of the rest `RealName`, from its first character that is not a blank, with its CR; `Throws` if there is none. In `SignUp` the words of a real name are one parameter (`BurstLine`), and `Throws` asks how the line ends |
| `Client::_eofBuffer`, `_eofFlag` | `Framing`'s variables of these names; the flag is uninitialized in a copied client, so `NewConnection` gives it any value |
| `send` on a non-blocking socket, result ignored, buffer cleared | `Connection!Flush` |
| `signUp`, `signIn`, `irssiSignUp` | the operators of these names, `SignUpLine`, `Welcome` |
| a handler `xyz` | `xyz(fd, r)` and the `Xyz...` steps |
| `messageAllChannel`, `channelMessage`, `findClient`, ... | operators of the same names |

**Data.** A command is its name and its parameters, each parameter the sequence of its
pieces (the parts of a comma list, the characters of a mode string). Words are
members of the set `Words`; what the code does to texts is given by functions on it:
`DropFirst` (`erase(0, 1)`), `Underscore` (`+ "_"`), `Atoi`. A message is its command,
sender, channel and the pieces that a property tells apart; wording and layout are left out.
In `Framing` a text is a sequence of symbols: a character, or a run of characters the
code only looks for as a whole (`PASS`, `CAP`, a word's letters). A byte of an answer in
`Connection` is its number, so that its fate can be followed.

**Refinement.** `ChatRooms` is what the channels promise: rooms with sets of members,
operators and guests, a set of modes, a limit and a topic, and an action for what each of
these may undergo (`Open`, `Enter`, `Leave`, `PutOut`, `Invite`, `Promote`, ..., `Vanish`).
It has no lists, commands, loops, buffers or clients, and its guards are the rights and
limits alone. `Rooms` maps `Server` to it: a channel's three vectors become sets, the
numbers -1 that `invite` notes for a client without its own descriptor invite nobody, and
everything else is invisible. Every iteration of a looping handler, and every event, is one step of
`ChatRooms` or a stutter, so a KICK of three channels is three `PutOut`s, each with
its own right. The key is left out of `ChatRooms` (whatever a person offers may be it, so
it restricts nothing); `EntryControlled` has it.

**Views.** `Views` runs `Server` and folds the JOIN, 353, PART, KICK, QUIT and NICK
messages appended to each client's buffer, in their order, into what that client takes
for the members of each channel. `disconnectClient` tells nobody; those who are
lost with a connection are taken out of the views by the model, so that `ViewsRight` shows
what the messages are good for otherwise.

**Undefined behaviour.** Where an iterator at or beyond `end()` is dereferenced, the
step either ends the process (`status = "undefined"`) or goes on with any value that
can be read there: in KICK any word, in JOIN a key that fits or not, in PRIVMSG and in
a burst without client nothing that others could see.

## 3. The runs

Six passing runs are of the server as a whole. They use `MCServer` with three channel names, the nicknames `a`, `a_`,
`a__`, `b`, `*`, `#x` (also a channel's name) and a few more words, the password `pw`, and a burst that registers a
client in one text, so that registration does not eat up the depth. Each has its own
set of requests, chosen so that every guard of its handlers is met both ways; the state
spaces are finite and explored completely, without depth limits or symmetry
(descriptors are ordered, so they are not symmetric). The seventh is `Connection`.

| Run | Instance | Shows |
|---|---|---|
| `signup` | 2 connections, batches of 2, PASS/NICK/USER with all errors, good and bad bursts, fairness | `TypeOK`, `NicknamesUnique`, `MembersAreRegistered`, `ConnectionsHaveClients`, `BuffersSent` |
| `membership` | 2 connections, batches of 2, 2 channels, JOIN/PART/KICK/QUIT with lists | `MembershipAgrees`, `NoDuplicates`, `OperatorsAreMembers`, `NoChannelEmptied` |
| `entry` | 2 connections, JOIN lists with keys, too few of them, bad names, +k, +l, +i, INVITE | `KeysAligned`, `EntryControlled`, `UndefinedOnlyWhenShort`: memory is read beyond a list only by the commands section 5 names |
| `rights` | 2 connections, MODE with every letter and sign and a number over `INT_MAX`, KICK, INVITE, TOPIC | `TypeOK`, `ModeByOperator`, `RuledByOperators`, `LastOperatorStays`, `UndefinedOnlyWhenShort`, `ImplementsChatRooms` |
| `talk` | `MCViews`, 2 connections, every looping handler with lists, PRIVMSG, NICK, LIST, PING, unknown commands, fairness | `ViewsRight`, `ChannelTalkStaysInside`, `ImplementsChatRooms`, `HandlerTerminates`, `BuffersSent` |
| `crowd` | `MCViews`, 3 connections, one channel | `NicknamesUnique`, `MembershipAgrees`, `ViewsRight`, `LastOperatorStays` |
| `connection` | `Connection`, nine scripts of lines, every way to cut them into texts, reconnection, relays, a socket that fills up, fairness | `ConnectionTypeOK`, `LinesExact`, `NothingTwice`, `AnswersInOrder`, `LinesAnswered` |

**Bounds.** Two connections are enough for the one who acts and the one who is acted
upon, and for a descriptor to pass from one to the next; `crowd` adds the third party
(the second underscore, an operator made by an operator and unmade by a third, a member
who hears of two others).
`MaxEvents` is the size of the batch: with 2, a handler's text waits in the buffer of
a client that is served, or lost, later in the same batch. `signup` and
`membership` have 2, the others 1: `talk` is too large for liveness with 2, so its `BuffersSent`
follows the relayed texts to the end of their own event, and that of `signup` follows the answers
over another event of the batch, in which the client may be dropped.
Lists in commands have up
to three entries: JOIN's key iterator is beyond `end()` only at the third. The loop of
NICK tries `Cardinality(Fds) + 1` names, and so many clients cannot have them all.
The number of connections made one after the other is not bounded.

In `connection`, `Limit` (512 in the code) is 17 symbols: a sign-up and a single line of the
scripts have exactly that length, and some scripts more. The scripts have a sign-up with a real
name; a line that may be overtaken by a burst; USER lines with the three words of a burst in them,
which are read by the rules of a burst: with three parameters, so that the CR is the real name,
with a real name of two words, and with two parameters, which throws; a line the code drops
(`CAP LS`); one that is no sign-up line and has the three words in its text; a NUL; an empty
word; and a sign-up line with an empty word. `AnswerLen` is 2 and `SendBuf` 3, so that `send` takes
all, a part and nothing; one message of others (`MaxRelays`) comes between.

**Deadlock** is not checked: the process may end (`Shutdown`, `Undefined`), and then
nothing happens any more. That it does not hang while it runs is `HandlerTerminates`.

**Fairness.** `Fairness` (in `Server`) is `WF_vars(Serve)`: the thread goes on as long as there is
work in the batch. The code justifies it: one thread, no locks, and no call in a batch that
waits. The connections are non-blocking (`Server.cpp:132`) and read only when ready. The
listening socket is not, but `accept` is called only when `kevent` has reported a connection,
and so is the model's `Accept` (that the client has gone again by then, on a system where
`accept` would then wait, is assumed away). `KEvent` and `BrokenPipe` are not fair: clients owe the
server nothing, and need not fail. `Connection` has `WF_vars(Serve \/ Flush)` for the same thread: bytes that have come
are reported by `kevent` until they are read (the event is level-triggered); and
`WF_vars(ClientReads)`, a client that reads, since `LinesAnswered` is about one. It does not
assume that a client writes, or that the connection lasts: that is in the property.

**Mutants.** For each property of each passing run there is a mutation of a handler or helper,
such as a guard dropped or a list not updated, that makes TLC find a violation. The
definitions that end in `_Mut`, and `run_AtEnd`, are these; nothing else uses them.

## 4. What is proved

For every finite set of descriptors, every set of words, requests and bursts, and any
batch size (the assumptions `FdsAssumption`, `WordsAssumption`, `RequestsAssumption`
and `ServerAssumption` only say that the constants have their types and that the
listening socket is not one of the connections):

| Theorem | States |
|---|---|
| `Invariance` | `Spec => []IInv` |
| `TypeCorrectness` | `Spec => []TypeOK` |
| `MembershipConsistency` | `Spec => []MembershipAgrees` |
| `DuplicateFreedom` | `Spec => []NoDuplicates` |
| `OperatorMembership` | `Spec => []OperatorsAreMembers` |
| `RegistrationFirst` | `Spec => []MembersAreRegistered` |
| `ConnectionConsistency` | `Spec => []ConnectionsHaveClients` |
| `ModeAuthority` | `Spec => []ModeByOperator` |
| `NicknameUniqueness` | `Spec => []NicknamesUnique` |
| `KeyPairing` | `Spec => []KeysAligned` |
| `UndefinedCommands` | `Spec => UndefinedOnlyWhenShort` |
| `OperatorsRule` | `Spec => RuledByOperators` |
| `LastOperator` | `Spec => LastOperatorStays` |
| `EntryControl` | `Spec => EntryControlled` |
| `NoEmptyChannel` | `Spec => NoChannelEmptied` |
| `TalkInside` | `Spec => ChannelTalkStaysInside` |
| `RoomsImplemented` | `Spec => ImplementsChatRooms`, the refinement |
| `ViewsCorrect` | `ViewSpec => []ViewsRight` |

and for one connection, for every alphabet, script, limit, answer length and size of the
kernel's buffer (`FramingAssumption`, `ConnectionAssumption`, and `UpperAssumption`: `toupper`
leaves blanks, line ends and NUL alone, and done twice is done once):

| Theorem | States |
|---|---|
| `ConnectionInvariance` | `Spec => []ConnectionInv` |
| `ConnectionTypes` | `Spec => []ConnectionTypeOK` |
| `AnswerOrder` | `Spec => []AnswersInOrder` |
| `LinesExecuted` | `Spec => []LinesExact` |
| `NothingExecutedTwice` | `Spec => []NothingTwice` |

**The invariant.** None of these is inductive alone. That leaving a channel takes a
descriptor out needs that it is in the list only once; that JOIN adds none twice needs
that both records agree, because the code asks one of them and writes both; that PART
erases the right channel needs that the client is open and registered; MODE's operator
stays one because the letter `o` refuses the own nickname. `IInv` is the conjunction of

* `MapsInv`: every client is well-formed for its descriptor (own descriptor or -1,
  `PASS` first, channels only when registered, blank when not connected), every
  channel is (lists without duplicates, operators among the members), and
  `MembershipAgrees`;
* `JobInv`: the handler in progress has a client that is open, registered (other than
  in a sign-up) and has no event left in the batch, and its loop variables are in range;
* `BufInv`: buffers and status have their types.

**The argument.** `ListProofs` has what the code's list operations do, in particular
that erasing the first occurrence of an element of a list without duplicates erases the
element. The first part of `ServerProofs` lifts this to `Client` and `Channel`: each method
keeps `GoodClient` or `GoodChannel`. The rest has one lemma for each *kind of change*
to the maps (one client updated, entering, leaving, a channel removed or changed, a
client gone, ...), then one lemma for each handler and its loop, which says which change
each branch makes, and puts them together in `NextInv`. `HandlerProofs` builds on `IInv`:
nicknames change in `nick` only, which tests the new name against all clients before it
sets it. `NamesInv` adds that of those who have given a NICK no two have the same name, `*`
included (`NamedApart`): `NicknamesUnique` excepts `*`, which every new client is called, and
the views need that nobody in a channel shares a name. Every branch of JOIN's loop
advances the key iterator with the channel iterator unless it is at the end of the keys.

**The steps.** The action properties say of a step what `IInv` alone cannot. `StepProofs`
takes the actions one by one: most change no channel in the respect in question; what is
left is shown from the guards of the handler and from `JobInv`, which carries a check made
before a loop to its last iteration. KICK and MODE check the right once, and `ModeByOperator`
and the kicks of others' names keep it true; that the last operator stays needs that the one
who acts is an operator and cannot name itself. `TalkInside` first shows that all actions
but PRIVMSG's leave the buffers' PRIVMSG lines as they are (`MuteStep`, which composes along a
broadcast), then looks at the two steps of PRIVMSG. `RoomsImplemented` uses the
same kinds of change to `channelList`: under `Rooms`' mapping each is one action of
`ChatRooms`, with its guard, or a stutter. The duplicate-free lists of `IInv` are needed here
too: erasing one occurrence removes the descriptor from the *set* only if there is no other.

**The views.** `ViewsRight` speaks of the moments between commands; `ViewInv` of every
iteration, and there it would be false as it stands: the first QUIT message takes a name out
of *all* channels of those who hear it, while the handler has the other channels before it.
So `ViewInv` leaves open whether the one who is quitting is still believed to be in a channel
(`Fits`), and says nothing of what it believes itself. What a client makes of a step's messages is the
recursive function in `Hearing`; that it exists, hears nothing from no message and one message
more from one more (`HearingNone`, `HearingMore`) is shown by least counterexamples, and
`Tells` carries it along a handler's appends. Then each handler is one of a few cases: nobody
comes, goes or changes its name and no message is about that (`StillViews`); one enters, and hears the
names (`EnterViews`); one goes, by PART or KICK (`OutViews`), QUIT (`QuitViews`) or a lost
connection (`LostViews`); one gets another name (`NickViews`). That a name taken out is
one member's, and a new name replaces one, is `NamedApart`. That NICK
reaches everybody it should, although it skips descriptors already served, is `NickTold`: of
the visits to a member the first is not skipped, because nobody visited before it
has the member's descriptor, if that is its own.

**The connection.** `ConnectionInv` says the types and that `OnTheWay`, the bytes received,
in the kernel and in the send buffer, is strictly ascending *and below `produced`*, which
`AnswersInOrder` does not say and what is appended next needs; and of the fragment buffer that
it has no newline, for a text that has one is executed. The types rest on what the
code's text operations give for every text (`GetlineList`, `CmdVectorWords`, `BurstLines`,
`MessageText`, `EncodeText`); `Flattening` proves what the recursive definition of
`FlattenSeq` computes, by a least counterexample.

`LinesExecuted`: `ExactInv` adds to `LinesExact` that the lines written are plain, and that in a tidy
connection the fragment buffer has no newline and is empty unless the flag is set. One step
takes the text of one `recv` from the stream. `getline` of words that are each ended by a
blank gives the words (`GetlineEnded`), so the command read from a line is the line written (`CommandOf`);
a text that ends a line and has one newline is one whole line of the stream (`StreamCut`,
`OneLineCut`); a burst is whole lines, and white space splits them like single blanks
when no word is empty (`NoEmptyWord`). `LinesExact` says of a USER line there what the
handler gets: four words and `Rest`, what was sent after them. That `irssiSignUp` gives
just that follows the line from word to word: each `>>` takes one and leaves the others (`WordStep`,
`WordAfter`), so a line that does not throw has four words or more, and what is left after four of them is
`Rest` (`UserLine`, `LineExact`, `BurstExact`). `RunExact` puts these together for
every branch of `run`.

`NothingExecutedTwice` counts symbols. Nothing the code does to a text makes more
of one: joining adds (`CountJoin`), a part has no more than the whole, the pieces a splitting
gives, all or chosen ones, have no more than the text together (`CountPieces`, `CountChosen`),
and so do the words of a command, of a line of a burst, USER or not, and of a burst up to
the line that throws (`CountCommand`, `CountLineWords`, `CountBurst`) and a
text cut at the limit (`CountMessage`). Then what is executed and what is held grows by no
more than what was taken from the wire (`RunOnce`).

**Only model-checked** is liveness, `HandlerTerminates`, `BuffersSent` and `LinesAnswered`: fairness is
out of the prover's reach. The violations of section 5 are runs as well: what is false has
no proof.

Two of the properties were not true beyond the instances they had been checked on, and the
proofs showed it. A private message of a client with the nickname `#x` looks like the
channel's: `ChannelTalkStaysInside` now excepts it, and `MCServer` has the nickname. A sign-up
line with an empty word loses the word: a tidy text now has single blanks in such lines
(`SingleBlanks`), and `MCConnection` has a script with one.

## 5. Disagreements

What comments or documents say and the code does not do. The first five have a run (in
`Claims`, `Invitations` and `Connection`) in which TLC finds the violation.

1. `claim_ghost`, `MembersHaveTheirFd`. `Kick.cpp:65` takes descriptor -1 as a client
   that has been reset. After a connection is lost, `run` goes on with an empty text
   and makes a blank client with descriptor -1 (`Command.cpp:40`); `insert` keeps it for the next
   connection on the descriptor, which then cannot be kicked, invited or made operator.
2. `claim_two_lines`, `LinesAreMessages`. The grammar at `Command.hpp:77` ends a message
   at its `<crlf>`. `run` splits the whole text of one `recv` at spaces and looks for the
   line end only at the end of a word: of two lines that come together the second is
   not executed and is in a parameter of the first.
3. `claim_invitation`, `EntryByInvitation`. `+i` is invite-only (`README.md:179` of the
   repository). Invitations are descriptors, QUIT leaves them, and the next connection with the
   descriptor is let in. `Invitations` adds the history of who was invited.
4. `claim_short_user`, `ShortUserAnswered`. `User.cpp:26` answers 461 to a USER line
   that is too short; in a burst `irssiSignUp` throws (`Command.cpp:123`) if it has one or two
   parameters, and the server ends. With three it throws before a bare LF only: of CR LF
   the CR is taken for the real name, and the client is registered (`BurstLine`).
5. `claim_modes_told`, `ModesTold`. `Mode.cpp:280` broadcasts the modes
   set; the returns at 204, 210 and 215 skip it after earlier letters were applied, and of
   `+i-i` the channel is told `+ii` (`Mode.cpp:262`).

Further ones, visible in the definitions and not kept as runs:

* `Join.cpp` 98, 117, 133, 149, 173: with fewer keys than channels the key iterator goes
  beyond `end()` and is read (`JoinExisting`, `PastEnd`).
* `Kick.cpp:57`: the same for the nicknames of KICK (`KickChannel`).
* `Privmsg.cpp:39`: the 401 for an unknown nickname is written through `end()`
  (`PrivmsgClient`).
* `Command.cpp:142`: a burst goes on after its PASS has erased the client (`SignUpLine`).
* `Nick.cpp:92`: the first character of a name is not checked, so `*`, the name of every
  client without one, can be taken; `NicknamesUnique` makes the exception. So can `#x`, the
  name of a channel, and a private message, which names its sender in place of its target
  (`Privmsg.cpp:35`), then looks like the channel's; `ChannelTalkStaysInside` makes the exception.
* `Server.cpp:298`: `Part.cpp:41` and `Quit.cpp:38` remove a channel with its last member;
  `disconnectClient` does not (`ChatRooms!Vanish`). The next to join finds the old modes and no operator.
* `Server.cpp:285`: a lost connection is announced to nobody, so that its channels believe
  in it until they ask for the names again (`Views!LostNow`).
* `Server.cpp:153`: nothing handles SIGPIPE, and one client that resets its connection
  ends the server (`BrokenPipe`); what `send` did not take is lost (`Connection!Flush`).
* `Command.cpp:34`: a text with `CAP LS` in it is dropped with all its other lines; and a
  line that only has the words PASS, NICK and USER in it is taken for a sign-up (`IsBurst`).
* `Command.cpp:107`: a sign-up line is split at white space, other commands at each blank
  (61): an empty word is a parameter in the one and not in the other (`Words`). The real name
  of a USER line in a burst keeps the CR (117; `RealName`), which `run` takes off everywhere else.
* `Join.cpp` 32, 98, 173: a JOIN of several channels without keys compares `keyIter`, which
  has no value, with the `end()` of an empty vector. The standard leaves that undefined; the model
  takes the two as equal, which they are where such an iterator is a null pointer.
* `Command.cpp:49`: a burst is executed before a fragment that came before it, which is then put in
  front of a later line.
* `Client.cpp:33`: the copy constructor leaves `_eofFlag` uninitialized. This does no harm: the buffer
  is empty then, and `LinesExact` holds for any value of the flag.
* `Util.cpp:199`: a newcomer is told the topic without its first character, which
  `topic` has cleaned of its `:` already.
* `Util.cpp:106`: of several members with descriptor -1 only the first hears of a new
  nickname (`NickAudience`).

## 6. What is not modelled

* Wording: user, host and real names, the layout of replies, what LIST lists. No state
  depends on them; `Error.cpp` is 20 formatters, of which the number is kept.
* The start-up checks of `main.cpp` and the set-up of the socket: calls made once, in one
  order, each of which throws or goes on, with no state that is used later.
* The `Makefile`, the container and the client in it: no code of the server.
* Several connections in bytes: `Connection` has one. Texts of different connections do
  not meet: the fragment buffer is the client's, and what the connections do to each other
  is what `Server` has, and `Relay` for the buffer that is sent.
* Letters of command words in `Server`: a command has its upper-case name. The one place where the
  code tells the cases apart is the USER line of a burst (`Command.cpp:111`, `Framing!IsUser`): a
  line `user`, in a text that has `USER` elsewhere, is read like any other there.
* Memory: fragments are collected without a limit, and the model has none to check.

## 7. Where it stands

Modelled: the server as a whole, framing and delivery, what clients are told, and the
abstract specification. Proved: every invariant and every action property that a passing run checks,
and the refinement. What could be added is more of the system rather than more about the model: several
connections in bytes, so that `Server!Run` is shown to be the outcome of `Framing!run`, and the
memory fragments take, if the code gets a limit for it.
