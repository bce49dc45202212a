------------------------------ MODULE IrcState ------------------------------
(***************************************************************************)
(* The objects the server keeps in memory and the helpers its handlers     *)
(* call on them: class Client (srcs/Client.cpp), class Channel             *)
(* (srcs/Channel.cpp), the vectors clients and channels of class Server,   *)
(* and the messages given to Server::sending_queue.                        *)
(*                                                                         *)
(* A vector without duplicates whose order no handler depends on is a set. *)
(* The slot of a client or a channel that does not exist holds a freshly   *)
(* constructed object, so that constructing one only adds its name.        *)
(***************************************************************************)
EXTENDS Integers, Sequences, FiniteSets

CONSTANTS
    Fds,        \* descriptors accept() can return
    Nicks,      \* nicknames that checkNickValid accepts
    NoNick,     \* the empty nickname of a new Client
    Names,      \* channel names that validChannelName accepts
    Keys,       \* non-empty channel keys
    NoKey,      \* the empty key
    Topics,     \* non-empty topics
    NoTopic,    \* the empty topic
    MaxLimit,   \* largest limit given to MODE +l (bound of the model)
    Absent,     \* a parameter the message does not have
    Invalid     \* a parameter that fails validation

ASSUME StateAssumption ==
    /\ IsFiniteSet(Fds)
    /\ MaxLimit \in Nat
    /\ NoNick \notin Nicks /\ NoKey \notin Keys /\ NoTopic \notin Topics
    /\ Absent \notin Nicks \cup Names \cup Keys \cup Topics
    /\ Absent \notin {NoNick, NoKey, NoTopic, Invalid}
    /\ Invalid \notin Nicks \cup Names

VARIABLES
    conns,      \* descriptors of the connected clients
    client,     \* the Client object of each descriptor
    chans,      \* names of the existing channels
    channel,    \* the Channel object of each name
    out         \* what the last step appended to each send buffer

vars == <<conns, client, chans, channel, out>>
-----------------------------------------------------------------------------
(* Class Client.                                                           *)

ClientState ==
    [nickname : Nicks \cup {NoNick}, passRecived : BOOLEAN,
     nicknameReceived : BOOLEAN, userRecived : BOOLEAN, registered : BOOLEAN]

NewClient ==
    [nickname |-> NoNick, passRecived |-> FALSE,
     nicknameReceived |-> FALSE, userRecived |-> FALSE, registered |-> FALSE]

\* The clients a handler finds when it looks a nickname up.  The handlers keep
\* the first match (MODE) or the last one (KICK, INVITE, PRIVMSG).
Named(n) == {f \in conns : client[f].nickname = n}
-----------------------------------------------------------------------------
(* Class Channel.                                                          *)

ChannelState ==
    [memberFds : SUBSET Fds, operatorFds : SUBSET Fds, invitedFds : SUBSET Fds,
     invite_only : BOOLEAN, change_topic : BOOLEAN,
     key : Keys \cup {NoKey}, limit : 0 .. MaxLimit,
     topic : Topics \cup {NoTopic}]

NewChannel ==
    [memberFds |-> {}, operatorFds |-> {}, invitedFds |-> {},
     invite_only |-> FALSE, change_topic |-> FALSE,
     key |-> NoKey, limit |-> 0, topic |-> NoTopic]

\* Faulty variant: erases the member but leaves it in operatorFds.
RemoveMemberOnly(chan, f) == [chan EXCEPT !.memberFds = @ \ {f}]

RemoveMember(chan, f) ==
    [chan EXCEPT !.memberFds = @ \ {f}, !.operatorFds = @ \ {f}]

RemoveInvite(chan, f) == [chan EXCEPT !.invitedFds = @ \ {f}]

HasKey(chan) == chan.key # NoKey

HasLimit(chan) == chan.limit > 0

\* "f is an operator and operatorFds has one element".
LastOperator(chan, f) ==
    f \in chan.operatorFds /\ Cardinality(chan.operatorFds) = 1
-----------------------------------------------------------------------------
(* Messages.  cmd is the command or the numeric; a channel mode change is  *)
(* named by its flag.  by is the nickname in the prefix, chan the channel  *)
(* that is named, who the nicknames the message is about and ops those it  *)
(* marks as operators, arg the topic, key or limit it tells; eol says that *)
(* the text ends with CRLF.  Left out: what is said in a PRIVMSG, and the  *)
(* nickname that 341, 401, 433, 441 and 443 give back to who has sent it.  *)

\* The MODE flags that change a channel.
Flags == {"+i", "-i", "+t", "-t", "+k", "-k", "+l", "-l", "+o", "-o"}

\* The replies of replyCmd that some handler asks for, and the server's NOTICE.
Replied == {"001", "331", "332", "341", "353", "366", "401", "403", "404",
            "411", "412", "421", "431", "432", "433", "441", "442", "443",
            "451", "461", "462", "464", "471", "472", "473", "475", "482",
            "NOTICE"}

Relayed == {"JOIN", "KICK", "INVITE", "TOPIC", "PRIVMSG", "NICK"} \cup Flags

\* The replies that name the channel they are about: those for which the handlers
\* give replyCmd the name of a channel, and 332.
ChannelReplies == {"331", "332", "341", "353", "366", "403", "404", "441", "442",
                   "443", "471", "473", "475", "482"}

Message ==
    [cmd : Replied \cup Relayed, by : Nicks \cup {NoNick},
     chan : Names \cup {Absent, Invalid},
     who : SUBSET (Nicks \cup {NoNick}), ops : SUBSET (Nicks \cup {NoNick}),
     arg : Topics \cup {NoTopic} \cup Keys \cup {NoKey} \cup (0 .. MaxLimit)
             \cup {Absent},
     eol : BOOLEAN]

\* A reply to a request about ch.
Numeric(code, ch) ==
    [cmd |-> code, by |-> NoNick,
     chan |-> IF code \in ChannelReplies THEN ch ELSE Absent,
     who |-> {}, ops |-> {}, arg |-> Absent, eol |-> TRUE]

FromClient(c, cmd, ch, who) ==
    [cmd |-> cmd, by |-> client[c].nickname, chan |-> ch,
     who |-> who, ops |-> {}, arg |-> Absent, eol |-> TRUE]

NoReply == [f \in Fds |-> <<>>]

\* The result of an error chain that found nothing to refuse.
OK == "ok"

ToOne(f, m) == [NoReply EXCEPT ![f] = <<m>>]

\* notification() and the loops of JOIN, KICK, TOPIC and PRIVMSG: one copy for
\* each connected client of S.
ToAll(S, m) == [f \in Fds |-> IF f \in S \cap conns THEN <<m>> ELSE <<>>]

\* An early return of a handler: queue one reply, change nothing.
Answer(c, m) ==
    /\ out' = ToOne(c, m)
    /\ UNCHANGED <<conns, client, chans, channel>>

Refuse(c, code, ch) == Answer(c, Numeric(code, ch))

\* A channel changes without members leaving, and S is told.
Update(ch, chan, S, m) ==
    /\ channel' = [channel EXCEPT ![ch] = chan]
    /\ out' = ToAll(S, m)
    /\ UNCHANGED <<conns, client, chans>>
=============================================================================
