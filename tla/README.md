# ft_IRC server: a verification project

This directory holds TLA+ models of the IRC server in `src/`, TLC
configurations that check them on small instances, and theorems about them
that TLAPS proves for every instance. Paths such as `Server.cpp` are relative
to `src/srcs/`, `commands/join.cpp` to the same.

## 1. Inventory

The server is one process with one thread. `Server::launch` waits in `poll`,
walks through the ready descriptors and calls one function for each; every
command is handled to completion before the next one. What runs beside the
server is the kernel, the peers at the other ends, and the SIGINT handler.
Nothing is persisted: a restart begins from nothing.

| Part | State | Operations | Hard because |
|---|---|---|---|
| Start and end (`main.cpp`, constructor, destructor) | the listening socket | `open_socket`, `binding`, `listening`, `poll_setup`, `shutdown` | each call may fail, and an exception in the constructor runs no destructor |
| Event loop (`Server.cpp`) | vectors `fds` and `clients`, index `i`, `_shutdown` | `launch`, `connect`, `disconnect`, `handle_user`, `handle_send`, `shutdown`, `sig_handler` | the two vectors are walked by index while the callees insert and erase; POLLOUT has to follow the send buffers; peers reset at any moment; a signal may come anywhere |
| Framing and buffers (`Client.cpp`, `Server.cpp`) | receive and send buffer of each client | `append_buff`, `extract_msg`, `sending_queue`, `append_send_buff` | lines cut across `recv`, also between CR and LF; partial `send` |
| Parser and arguments (`parsser/Parser.cpp`, `checkNickValid`, `validChannelName`, `+l`) | none | `Parser::parse` and the tests of single parameters | six loops over one index; what one command accepts another has to be able to name; `atoi` |
| Registration (`commands/pass.cpp`, `nick.cpp`, `user.cpp`) | four flags and the nickname of each client | `passHundler`, `nickHundler`, `userHandler` | any order, any repetition, several clients at once |
| Channels (`Channel.cpp`, `commands/`) | vector of channels: members, operators, invited, modes, key, limit, topic | `joinHandler`, `kickHandler`, `inviteHandler`, `topicHandler`, `privmsgHandler`, `leave_chanels` | clients are named by descriptor, and descriptors are reused; channels vanish when empty and lose their operators; vectors are erased from while they are scanned |
| Modes (`modes/`) | five modes of a channel | `modes` and one function per flag | the guard of the last operator; admission depends on modes that change |
| Dispatcher, numerics | none | `dispatchCommand`, `replyCmd` | no state of their own |

How the parts interact: the loop reads a client's bytes, cuts lines, has each
parsed, and calls the dispatcher; a handler reads and writes `clients` and
`channels` through references that `Server` hands out, and queues replies with
`sending_queue`, which appends to a send buffer and sets POLLOUT in `fds`; the
loop sends the buffers. `disconnect`, reached from four places of the loop,
removes the client from all channels and from both vectors.

What makes each part correct:

* start and end: however the process ends, no descriptor stays open;
* event loop: the vectors stay parallel, no ready entry is skipped, a queued
  reply is sent or its connection ends, a dead peer is removed, SIGINT stops
  the server;
* framing and buffers: the lines handled are those sent, in order, however they
  fall into chunks; only a reset costs a peer what it wrote; the bytes that leave
  are those queued, in order;
* parser and arguments: a line means what its words say; what is accepted can be
  named; what is announced is what is enforced;
* registration: registered means PASS, NICK and USER were accepted, one
  welcome per connection, no two clients with one nickname;
* channels: no closed descriptor in any list, operators are members, no empty
  channel, admission follows invitation and limit, every change of a channel but
  a disconnection is told to all its members, an outsider is told no more than
  its own invitation and the answer to its own request, commands never leave
  members without an operator, and a client can tell from its messages who is
  in the channel and who leads it.

The hazards, each at its line and with the properties that cover it, are listed
in `PROJECT.json`.

## 2. Modules

| Module | Models | Uses |
|---|---|---|
| `IrcState` | constants, state variables, class `Client`, class `Channel`, messages | |
| `Registration` | `connect`, `disconnect`, `leave_chanels`, PASS, NICK, USER | `IrcState` |
| `ChannelCommands` | JOIN, KICK, INVITE, TOPIC, PRIVMSG, MODE | `Registration` |
| `Membership` | abstract: who is connected, who is in which channel, who leads it, who is invited | |
| `IrcCommands` | `dispatchCommand`, `Next`, `Spec`; properties; the refinement mapping | `ChannelCommands`, `Membership` |
| `ChannelStore` | the vectors of `Channel` and `Server::channels`, with the scans and erasures as written | `Membership` |
| `Roster` | what a client makes of the messages it is sent | `IrcCommands` |
| `IrcClaims` | statements of README.md and testing.py that the code does not keep | `IrcCommands` |
| `EventLoop` | constructor, `launch` and all it calls, kernel, peers, SIGINT, the end | |
| `Stream` | one connection byte by byte: `recv`, `extract_msg`, `sending_queue`, `send` | |
| `Parser`, `Arguments` | `Parser::parse`; nicknames, channel names, `+l`, relayed lines | |
| `Text` | a text that grows by a character, and what holds of it as a line and as a parameter of one | `Parser`, `Arguments` |
| `MC...` | symmetry sets, views, constraints, alphabets | |
| `IrcCommandsProofs`, `IrcStepProofs`, `IrcReplyProofs` | theorems about `IrcCommands`: the invariant, what a step may do, what it sends, and what `Roster` makes of that | `IrcCommands`, `Roster` |
| `EventLoopProofs` | theorems about `EventLoop` | `EventLoop` |
| `ChannelStoreProofs`, `StreamProofs`, `TextProofs` | theorems about `ChannelStore`, `Stream` and `Text` | `VectorLemmas` and these |
| `VectorLemmas` | lemmas about sequences that the three need: least elements, the first match, erasing, appending, cutting | |

Definitions called "Faulty variant" are mistakes that the code does not make;
none is used by a specification. Each property has one that it rejects.

### The command modules

State: `conns` (descriptors of connected clients), `client` (the `Client`
object of each descriptor), `chans` and `channel` (names and objects of the
existing channels), `out` (what the last step appended to each send buffer, in
order). The slot of a client or channel that does not exist holds a new object.

One action is one handler: `XError` is the chain of early returns in the order
of the code, with the numeric it queues; `Refuse` queues that numeric, with the
channel it names, and changes nothing; the rest of the action is the effect. An action that
disconnects or kicks includes all that the code does then: leaving the
channels, erasing the empty ones. Where a handler looks a nickname up, the
model takes any client with that nickname (`Named`): the handlers keep the
first match or the last one, which differs only for the empty nickname of
clients that have not sent NICK, and it is reachable with `KICK #c :` and
`MODE #c +o :`.

A vector of descriptors is a set here; that the vectors behave as sets is the
subject of `ChannelStore`. Data are members of small sets; `Absent` is a missing
parameter, `Invalid` one that fails validation, `NoKey`, `NoTopic` and `NoNick`
are empty strings (`MODE +k :` does set an empty key). A message keeps its
command or numeric, the nickname in its prefix, its channel, the nicknames it is
about, which of them it marks as operators, the topic, key or limit it tells
(`arg`), and whether it ends with CRLF. `ChannelReplies` are the numerics that
name a channel; 332, which the TOPIC handler writes out itself, tells the topic
too (`TopicReply`). What is said in a PRIVMSG is left out, and the nickname that
341, 401, 433, 441 and 443 give back to the client that has sent it. A positive `+l` argument is a number up to `MaxLimit`; all the ways to get it
refused are 0.

### Membership, and who implements it

`Membership` says in eight actions what the server promises about who is where:
whoever founds a channel leads it and nobody else leads by entering; only an
operator expels, invites, promotes and demotes; the last operator is not taken
from members that remain; whoever departs leaves every list of every channel;
an empty channel keeps nothing. It knows no registration, key, limit, message
or vector. Two modules implement it, each with a mapping of its own:

* `IrcCommands`: the lists of `channel` are the lists of `Membership`
  (`ImplementsMembership`, checked and proved). A refused command, and one about
  modes, topics, registration or text, is a stutter.
* `ChannelStore`: the list of a channel is the set of the descriptors in the
  vectors of that name (`StoreImplementsMembership`, checked and proved). This is
  where the scans matter: handlers look for the last channel with a name and MODE
  for the first, `removeMember` and its like erase the first match only, and
  `leave_chanels` erases channels from the vector it walks through.

The loop of `leave_chanels` runs in steps, one for each iteration: `disconnect`
sets `leaving`, `leave_chanels` does what the loop does at index `at`, and `close`
ends it. Nobody else's command is handled in between. For `Membership` the client
is gone when the loop begins: the mapping leaves a departing descriptor out of
every list (`Kept`), so that each iteration has to be a stutter.

`ChannelStore` has the handlers without their refusals: a refused command
changes no vector, and a JOIN may succeed whatever the modes are.

### Roster

`Roster` adds one variable: for each client and channel the nicknames it
believes to be there and those it believes to be operators, learnt from 353,
JOIN, KICK and MODE o; other replies are passed over. A change of nickname and a disconnection are not
announced to others; the roster of the channel is `Unknown` from then until the
next list of names. A step sends a client at most two lines about one channel,
and the second can only be the list of names, which starts the roster over: the
last one decides (`LearnAll`). `RosterRight` says that a roster that is not
`Unknown` is right.

### The process and its loop

A step of the server goes from one system call to the next; between them the
peers and the signal handler may act. `pc` is the place: `boot`, `bind`,
`listen`, `setup` in the constructor, then in `launch` `test` (the while
condition), `enter` (about to call `poll`), `poll` (blocked in it), `scan` (at
entry `i`), `events` (after `handle_user` returned false, before the hang-up and
output branches of the same entry), `down`; at the end `stopped` or `failed`.
`fds` and `clients` are sequences, indexed as the vectors are, plus one. A
command is reduced to the set of clients it queues a reply for, any set; several
commands may be taken by one `recv`. A send buffer is a number of replies;
`send` takes what fits, maybe nothing (EAGAIN).

Failures: each step of the constructor may fail, and closes the listening
socket itself before it throws (`ThrowClosing`); `accept` fails when every
descriptor is in use (`acceptFails`); `fcntl` on an accepted socket may fail,
which closes it again (`notSetUp`); `poll` may fail with something other than
EINTR, which ends the process through the destructor (`pollFails`). Two
simplifications: `revents` is cleared when the loop is done with an entry (the
code leaves the old value, which nobody reads before `poll` overwrites it);
`recv` never returns EAGAIN, for `poll` has just reported input and nobody else
takes it.

The kernel and the peers are not under `src/` and are modelled from how
`Server.cpp` uses the calls: a closed peer makes the socket readable, a reset
one readable, writable and hung up, and what had arrived before a close or a
reset can still be read.

### Stream

`EventLoop` counts replies and lines; `Stream` follows their bytes for one
connection. The peer writes bytes out of `a`, CR and LF, `recv` takes any
number up to `MaxRecv` of what is there, and then the loop of `extract_msg` runs
in steps, with the peer acting in between: each iteration (`extract_msg`) cuts the
first line off the receive buffer, has it handled and queues the reply, and
`noLine` is its end. `sending_queue` appends a message of two bytes for each line
that is not empty, other clients' lines append more whenever the loop is at
another entry (`relay`), and `handle_send` sends what the kernel takes. `peer` is what
the peer has done to its end, `open`, `closed` or `reset`; `pc` is what the server
has done to its own, where `gone` is after `disconnect`, whichever of the three
places called it (`handle_user`, the hang-up branch, `send`), and `down` after
`shutdown`, whose farewell goes past the send buffer. `NobodyCutOff` relates the
two: it would see a `disconnect` in the wrong place, say in a hang-up branch that
took the close of a peer for a hang-up. `sent`, `handled`, `queued` and `received` are history for the
properties.

### Parser and Arguments

Pure functions over sequences of characters. `Parser` has the loops of
`Parser::parse`: a scan is the least position where its condition fails, the
loop over the parameters a recursive function of the position where it stands
(`ParamsFrom`). Beside them is a reference definition of what a line means
(`MeansMessage`), which knows no position: the words of the line, counted, and
which is the first to begin with a colon. `Arguments` has the tests of single
parameters, and the number of `+l` at the two widths it goes through, that of
`long` (`strtol`) and that of `int`, given by `LongMax` and `IntMax`. `Text` has
one variable, a text, and states the properties of it.

## 3. Runs

| Run | Instance | Checks |
|---|---|---|
| `Channel3` | 3 clients, 3 nicknames, 1 channel, 1 topic, limits 1 and 2 | `OperatorsAreMembers`, `NoStaleFd`, `NoEmptyChannel`, `OnlyDisconnectOrphans`, `OrphanFrozen`, `AdmissionControl`, `NoSilentChange`, `OutsidersHearAnswersOnly`, `ImplementsMembership` |
| `Modes2` | 2 clients, 2 nicknames, 1 channel, 2 keys, 1 topic, limit 1 | `TypeOK`, `NickUnique`, `RegisteredIffComplete`, `WelcomeOnce` |
| `Roster` | 3 clients, 3 nicknames, 1 channel | `RosterRight` |
| `Store` | 2 clients, 3 channels, 2 invitations open at once | `NoDuplicates`, `NoEmptyEntry`, `StoreImplementsMembership` |
| `LoopSafety` | 2 descriptors, 2 lines in a socket, 2 replies in a buffer, 1 on the wire | `LoopTypeOK`, `FdsAligned`, `PollOutArmed`, `NothingSkipped`, `NothingLeftOpen` |
| `LoopLive` | 2 descriptors, 1 of each | `QueuedReachesWire`, `InputIsRead`, `DeadPeerRemoved`, `SigintStopsUnlessEntering` |
| `LoopSigint` | 1 descriptor | violates `SigintStops` |
| `Stream` | 4 bytes from the peer, 1 relayed message, 3 bytes to a `recv`, 3 on the wire | `LinesInOrder`, `NobodyCutOff`, `RepliesInOrder`, `EveryLineHandled`, `RepliesDelivered` |
| `Text` | texts of up to 4 characters out of 10, and of up to 8 out of blank, tab, colon and letter; `int` up to 15, `long` up to 63, nicknames of up to 2 | `ParsesWords`, `RelaysWhatWasSaid`, `NicknamesAddressable`, `ChannelsAddressable`, `LimitAsAnnounced` |
| `ClaimKey`, `ClaimQuery`, `ClaimNick` | 2 clients, 3 nicknames, 1 channel, 1 key | each violates the claim of its name |

### Bounds

In a channel, three clients are the operator, one who becomes an operator and
one who does not, or two members and a newcomer; a limit of 2 with three clients
makes a full channel, and one of 1 a limit below the number of members. Commands
about one channel touch no other, except disconnection: `Store` has three
channels, so that of two adjacent ones none, the first, the second or both are
erased with a third behind them; that is what tells the index arithmetic of
`leave_chanels` from its mistakes. Two clients are enough there, for one list
holds each of them or not; `InvitationBound` (`MaxInvited = 2`) keeps the
invitations from multiplying the states, and still lets the same client be
invited twice, or to two channels. A topic
decides between 331 and 332 and is what 332 tells an outsider, so `Channel3` has
one. A key decides nothing but the refusal 475 and is left to `Modes2`, where the
state is otherwise small; there a nickname is taken, freed and taken again.

In the loop, two clients are enough to erase an entry before, at and after
another one; buffers of two replies against a wire of one give the partial send
and EAGAIN. Four bytes of stream make two empty lines with CRLF, a line cut at
any place over two `recv`, several lines in one `recv`, and bytes that never
become a line. Messages of two bytes against three on the wire are sent in
halves.

In `Text` the whole alphabet has what the tests of `Arguments` tell apart, one of
each kind; eight characters of the narrow one make a prefix, a command and two
parameters with blanks between. Two-character nicknames stand for nine, and 15
and 63 keep the proportion that matters: numerals of up to four digits go beyond
`int` and beyond `long`. The theorems of `TextProofs` need none of these bounds.

### Symmetry, views, deadlock

Descriptors, nicknames and channel names occur only in equations. The symmetry
sets are used with invariants and action properties; `LoopLive`, `LoopSigint`
and `Stream`, which check liveness, use none. `ServerView` and `RosterView` leave
`out` out of the identity of a state: no handler reads `out`, so two states that
differ there have the same future, and the action properties are evaluated on
every step that TLC computes, before the view is applied. Deadlock is checked in
the command runs, `Store` and `Roster`; the loop really stops after `shutdown` or
a failure, a connection ends, and texts stop growing, so those configurations
have `CHECK_DEADLOCK FALSE`.

### Fairness

`FairSpec` asks for weak fairness of `main` only, that is, the operating system
goes on running a thread that can run. Nothing is asked of peers, who may never
read, never write, or never close, nor of the signal. `QueuedReachesWire`
therefore speaks of the first reply on the wire, and `InputIsRead` of a socket
that is full. `main` includes the failures, so fairness does not promise that a
call succeeds: where the choice is between a failure and another outcome, either
satisfies it, and the properties hold on the paths where `poll` fails because
the process then closes everything.

`StreamSpec` asks the same of `serve`. That a peer reads is an antecedent of
`RepliesDelivered`, the one property that needs it, and an assumption of no
other.

### Where the code and what is said of it differ

With a run:

* `SigintStops` (testing.py test 58: one SIGINT closes the server). `launch`
  tests `_shutdown` and then enters `poll` without a timeout; a SIGINT between
  the two is noticed only at the next event. What does hold is
  `SigintStopsUnlessEntering`.
* `RemoveKeyWithoutParameter` (README.md:1594-1598, test 48): `MODE #c -k`
  needs a parameter, `modes/secret_key.cpp:10`.
* `ModeQueryAnswered` (test 38): `MODE #c` is answered with 461, never 324.
* `NickChangeAnnounced` (README.md:1354-1366): only the client itself is told.

Without one, seen in modelling:

* the line of a nickname change has no CRLF (`commands/nick.cpp:59`), against
  README.md:2042, and swallows the line behind it;
* a `+l` number beyond `int` announces another limit than it sets: 4294967298
  is announced, 2 is enforced (`modes/limited_usage.cpp:45`). `LimitAsAnnounced`
  asks for the announced number where `int` can hold it, and beyond that for a
  limit that is positive and no larger: a number that wraps to 0 or below is
  refused like a 0;
* a channel name with a tab passes `validChannelName`, and no command that takes
  more parameters can then name the channel. `ChannelsAddressable` is stated for
  names without a tab;
* the farewell of `shutdown` goes out past the send buffer, behind whatever half
  of a reply was sent last. `RepliesInOrder` allows for it;
* NICK without parameter before PASS is answered with 451, where test 5 expects
  431 or 461; test 45 expects 332 when a topic is set, where README.md:1650 and
  the code send TOPIC.

Behaviour that surprises and that nothing forbids, visible in the properties: a
channel whose last operator disconnects keeps its modes and has no operator
until it is empty (`OrphanFrozen`); an invitation is not used up by JOIN, so
that an invited client who was kicked may come back; TOPIC without a parameter
is answered before the test of membership (`commands/topic.cpp:32`), so that
anybody may read the topic of a channel. `OutsidersHearAnswersOnly` states that as
it is, and that nothing else about a channel gets out.

## 4. Proofs

TLC checks the instances above; TLAPS proves the following for all values of the
constants, from `StateAssumption` (a finite set of descriptors, a natural bound
on limits, and the special values being none of the ordinary ones),
`LoopAssumption` (the listening socket is none of the descriptors of clients, and
the bounds are positive), `StreamAssumption` (the bounds are natural numbers),
or `WidthAssumption` (`int` is not wider than `long`) and `CharacterAssumption`
(letters, digits and the special characters are none of blank, tab, colon and
`#`; a digit has a value from 0 to 9); `ChannelStore` assumes nothing.

| Theorem | States | Module |
|---|---|---|
| `Invariance`, `TypeCorrect`, `NoStaleDescriptor`, `OperatorsMembers`, `ChannelLifetime`, `Registered` | `IInv` and its parts | `IrcCommandsProofs` |
| `NicknamesUnique`, `OperatorsLast`, `Admission`, `OrphansFrozen`, `RefinesMembership` | `NickUnique`, `OnlyDisconnectOrphans`, `AdmissionControl`, `OrphanFrozen`, `ImplementsMembership` | `IrcStepProofs` |
| `OutsidersHear`, `ChangesAnnounced`, `WelcomedOnce` | `OutsidersHearAnswersOnly`, `NoSilentChange`, `WelcomeOnce` | `IrcReplyProofs` |
| `RostersRight` | `RosterRight` | `IrcReplyProofs` |
| `StoreInvariance`, `NeverTwice`, `NoGhostChannel`, `StoreRefinesMembership` | `StoreInv`, `NoDuplicates`, `NoEmptyEntry`, `StoreImplementsMembership` | `ChannelStoreProofs` |
| `StreamInvariance`, `LinesHandledInOrder`, `LetGoWhenFinished`, `RepliesLeaveInOrder` | `StreamInv`, `LinesInOrder`, `NobodyCutOff`, `RepliesInOrder` | `StreamProofs` |
| `LinesParsedAsWords`, `RelayedAsSaid`, `NicknamesCanBeNamed`, `ChannelsCanBeNamed`, `LimitsSetAsAnnounced` | `ParsesWords`, `RelaysWhatWasSaid`, `NicknamesAddressable`, `ChannelsAddressable`, `LimitAsAnnounced` | `TextProofs` |
| `LoopInvariance`, `IndexInRange`, `VectorsParallel`, `OutputArmed`, `ScanComplete`, `AllClosed` | `LoopInv`, `LoopTypeOK`, `FdsAligned`, `PollOutArmed`, `NothingSkipped`, `NothingLeftOpen` | `EventLoopProofs` |

The inductive invariants (`IInv`, `LoopInv`, `StoreInv`, `StreamInv`) are the
conjunctions of properties that the runs check with the few facts that make them
inductive; the proofs establish them, and no run repeats them.

### The invariant of the commands

    IInv == TypeOK /\ ClosedIsNew /\ NoStaleFd /\ OperatorsAreMembers
            /\ NoEmptyChannel /\ RegisteredIffComplete

`NoStaleFd` is not inductive alone. `connect` on a reused
descriptor is harmless only because the lists hold no descriptor outside
`conns`; the members are registered only because registration is never taken
back, for which `RegisteredIffComplete` is needed in `nickHundler` and
`userHandler`; JOIN into a channel that does not exist starts from a new
`Channel` because of `NoEmptyChannel`; KICK and disconnection erase a channel
because it is empty, and then no operator is left because of
`OperatorsAreMembers`. `ClosedIsNew` gives `connect` a fresh client. The
clause "PASS first" of `RegisteredIffComplete` is what makes
`registered => passRecived` survive `SetUser` and `SetNickname`.

The proof is split by handler: a lemma for each shape of step
(`RefuseKeepsIInv`, `UpdateKeepsIInv`, `AdmitKeepsIInv`, `ExpelKeepsIInv`,
`RegisterKeepsIInv`), one for each handler that cites them, and `Invariance`
at the end.

### Steps of the commands

* `NicknamesUnique`: `NickUnique` is inductive relative to `IInv`; only NICK and
  connections change a nickname, and NICK has looked the new one up among all
  connections.
* `OperatorsLast`: each handler keeps an operator in every channel that keeps a
  member, because a step that takes away the last operator takes away the only
  one (`LosesLast`), which the guards of KICK and MODE -o refuse.
* `Admission` and `OrphansFrozen` rest on one lemma, `NextEffect`: what a step
  does to one channel is nothing, a departure, the entry of somebody whom
  `JoinError` admits, a new topic, or something ordered by one of its operators
  (`EffectOn`). A new member can only come from the third of these, and then the
  guards of JOIN held in the state before; a channel without operators excludes
  the last.
* `OutsidersHear`, `ChangesAnnounced` and `WelcomedOnce` are the three parts
  of `Proper`, which every step satisfies (`NextProper`): one lemma for each
  shape of the replies (nothing, one line to one client, one line to the members,
  JOIN with its list, INVITE with its confirmation), one for each handler. What
  is sent to one client alone is either `Public`, a reply an outsider may have, or
  its receiver is a member: each refusal that is not public comes behind the
  handler's test of membership. That a member really is sent what `ToAll`
  addresses to him needs `NoStaleFd`: `ToAll` sends to connected clients only. In
  INVITE guest and operator are different clients because operators are members
  (`MemberFacts`), and the guest is on the list when the step is done.

### The refinement

`RefinesMembership` proves that the initial states map to the initial state of
`Membership` and that every step maps to one of its steps or a stutter
(`RollStep`), handler by handler. The invariant supplies what the abstract
actions ask for: `NoEmptyChannel` turns "the channel does not exist" into "it has
no members", `OperatorsAreMembers` empties the list of operators with the
channel, and the test that the code makes of the number of operators becomes "he
is the only one" by the cardinality of a set that contains him.

### The invariant of the loop

    LoopInv == LoopTypeOK /\ FdsAligned /\ PollOutArmed /\ NothingSkipped
               /\ ListenerFirst /\ ReadyToAccept

The four properties are not inductive together. The hang-up and output branches
erase `clients[i - 1]`, so the entry at `i` must not be the first: that is
`ListenerFirst` (only the listening socket is there, and it never reaches
`events`). `connect` takes a connection off the backlog, so one must be there:
`ReadyToAccept`. `ListenerFirst` also says what is open before and after
`launch`, which is where `NothingLeftOpen` comes from: `CloseAll` closes what
`fds` lists, and by `FdsAligned` that is everything that is open.

The step that carries the weight is `disconnect` (`DisconnectKeepsInv`): after
`RemoveAt` at `i` in one vector and `i - 1` in the other, each index of the new
vectors has an old index behind it, the same in both but for the shift
(`RemoveAtProperties`, for which the library has no theorem), and the entries
before `i` have been done with. The proof says why `continue` without `i++` is
right.

### What a client knows

`RosterRight` is inductive relative to `IInv`, `NickUnique` and what
`IrcReplyProofs` says of the lines of a step. A roster is only kept in a step
in which nobody of the channel left the server or changed its nickname
(`Unannounced`); then the lines of the step say what it did. The proof goes
handler by handler: JOIN sends the newcomer the list and the others his name,
KICK and MODE o name one nickname each, and because nicknames are unique, taking
the nickname out of the roster takes out that client alone. A step that changes
neither list sends its members nothing that would change a right roster.

### The invariant of the vectors

    StoreInv == TypeOK /\ NoDuplicates /\ NoEmptyEntry /\ OperatorsInside
                /\ Swept /\ (leaving = {} => at = 1)

`NoDuplicates` makes the two lookups agree and makes erasing the first match the
same as erasing all. `Swept` says that the loop of `leave_chanels` has taken the
departing client from every list in front of its index. It is what `close` needs:
when the index is behind the last channel, no list holds the descriptor that is
about to be free. `Swept` survives an iteration because after an erasure the next
channel moves to the same index (`Following`), the case that stepping on would
miss. `OperatorsInside` lets KICK and departure erase an emptied channel without
losing an operator.

In `StoreRefinesMembership` a mapped list is what the entry with the name holds
without those who leave. One lemma says that it is read off the single entry
(there is one at most), and the steps are then: an update of one entry, an
entry appended, an entry erased (its mapped lists were empty), and the start
and the end of a departure.

### The invariant of a connection

    StreamInv == TypeOK /\ HangUpIsReset /\ LinesInOrder
                 /\ NobodyCutOff /\ RepliesInOrder

The clauses of `LinesInOrder` carry each other: that the buffer is the stretch of
the stream from `Done` to `taken`, and that `Done` is 0 or the place of an LF,
turn "the first LF of the buffer" into "the first LF of the stream behind `Done`"
(`CuttingKeepsLines`), and then the new line is the one that ends there and its
number is one more than before (`OneMoreLine`, by the cardinality of the LFs up to
`Done`). Bytes that come later change no line (`LinesOfLonger`). For the other
direction, `Said \o send_buffer = queued` while the connection lasts is kept by
moving bytes from one end to the other (`SendingMoves`, `ReadingMoves`) and by
appending at the end; when it ends, what was said stays a prefix.

`NobodyCutOff` looks at each `disconnect`. In the hang-up branch the peer has
reset, because what `poll` found stays true (`HangUpIsReset`); a failing `send`
is one to a peer that has reset; and when `recv` returns 0 the buffer holds no LF
(`LinesInOrder`, as `pc` is not `extract`) and nothing is left in the kernel, so
the lines handled are all the lines written. A peer that has closed writes no
more, so it stays that way.

### What a text means

The invariant is only that the text is a sequence of characters; the work is in
what the functions compute. Induction with the library's theorems is not
available to the provers here, so each induction is an argument by the least
counterexample (`HasMin`): among the positions where a claim fails, take the last,
and everything behind it holds. In this way

* the recursive functions exist (`AftersExist`, `ValuesExist`): TLA+ defines them
  by CHOOSE, and nothing can be said of them before there is one. Then the loop
  of `Parser::parse` at a position is blanks and the end, a colon, or a word and
  the loop behind it (`TakesNothing`, `TakesTrailing`, `TakesWord`);
* the parameters from a position on are those of the words from there on
  (`ParamsOfWords`). A scan over blanks passes no word (`ScanBlanks`), a scan over
  a word passes one (`ScanWord`), so the number of words begun before the position
  (`Seen`) says which word the loop is at (`NthIs`). The position has to be a
  `Boundary`, not inside a word, or the first word would be half of one. The three
  cases of the loop are `NoParams`, `LastParam` and `OneMoreParam`.

`LinesParsedAsWords` adds the prefix and the command, the first two scans. The
other theorems look at one line: `WordNamed` parses a word between two others,
`RelayedRead` the line that PRIVMSG and TOPIC send, whose target is a word because
it is the first of two parameters (`FirstIsWord`). `LimitsSetAsAnnounced` needs
that digits denote a natural number (`NumeralIsNat`), that neither `strtol` nor
the cut to `int` changes one that fits (`atoiExact`), and that the cut never makes
one larger (`atoiBounded`).

### Only model-checked

Liveness is out of the prover's reach: `QueuedReachesWire`, `InputIsRead`,
`DeadPeerRemoved`, `SigintStopsUnlessEntering`, `EveryLineHandled` and
`RepliesDelivered` are checked by TLC alone. All other properties of the passing
runs are proved.

## 5. Not modelled

* The wording of the numerics and of the relayed lines, beyond the fields of a
  message; logging (`print_modes`, `std::cout`). This is why the numerics count
  as partly modelled.
* The case of the command word, which `dispatchCommand` folds before it compares;
  user names, which are stored and never read; the reason of KICK.
* The arguments of `main`: their number and the range of the port are one
  failing case of `open_socket`.
* Memory: the send buffer of a client that does not read and the receive buffer
  of one that never sends LF grow without limit in the code; the models bound
  them so as to be finite, and there is no limit a property could be about.
* `Makefile` and `testing.py`: not part of the program; testing.py is read for
  what it claims.

## 6. Plan

Done: the command modules, their abstract specification and the vectors under
them; the loop from start to end; the bytes of one connection; the parser and the
tests of parameters; what a client can know. All the safety properties of the
passing runs and both refinements are proved.

Left: loop and commands composed, that is, the replies that a handler queues for
clients whose own entry, further on in the same scan, is disconnected. The parts
are checked separately: `EventLoop` lets a command queue for any set of clients,
and `IrcCommands` lets any client vanish between any two commands.
