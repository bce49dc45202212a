---------------------------- MODULE IrcCommands ----------------------------
(***************************************************************************)
(* The server as its clients see it: any connected client may send any     *)
(* command at any time, any client may vanish, descriptors are reused.     *)
(* Then the properties of the state the server keeps and of its replies.   *)
(***************************************************************************)
EXTENDS ChannelCommands

Init ==
    /\ conns = {}
    /\ client = [f \in Fds |-> NewClient]
    /\ chans = {}
    /\ channel = [ch \in Names |-> NewChannel]
    /\ out = NoReply

\* dispatchCommand: the handler of one message of client c.
dispatchCommand(c) ==
    \/ \E pw \in {"right", "wrong", "absent"} : passHundler(c, pw)
    \/ \E n \in Nicks \cup {Absent, Invalid} : nickHundler(c, n)
    \/ \E enough \in BOOLEAN : userHandler(c, enough)
    \/ \E ch \in Names \cup {Absent, Invalid}, k \in Keys \cup {Absent} :
         joinHandler(c, ch, k)
    \/ \E target \in Names \cup Nicks \cup {Absent}, text \in BOOLEAN :
         privmsgHandler(c, target, text)
    \/ \E ch \in Names \cup {Absent}, t \in Topics \cup {NoTopic, Absent} :
         topicHandler(c, ch, t)
    \/ \E ch \in Names, n \in Nicks \cup {NoNick, Absent} : kickHandler(c, ch, n)
    \/ \E ch \in Names, n \in Nicks \cup {Absent} : inviteHandler(c, n, ch)
    \/ \E ch \in Names, flag \in Flags \cup {Absent, Invalid} : modes(c, ch, flag)
    \/ unknownCommand(c)

Next ==
    \/ \E f \in Fds : connect(f)
    \/ \E f \in conns : disconnect(f)
    \/ \E c \in conns : dispatchCommand(c)

Spec == Init /\ [][Next]_vars
-----------------------------------------------------------------------------
(* Invariants.                                                             *)

\* Every variable has its type.
TypeOK ==
    /\ conns \subseteq Fds
    /\ client \in [Fds -> ClientState]
    /\ chans \subseteq Names
    /\ channel \in [Names -> ChannelState]
    /\ out \in [Fds -> Seq(Message)]

\* The members of a channel are registered clients, and no list of a channel
\* holds a descriptor that is closed: the kernel will give it to somebody
\* else, who must not inherit a membership or an invitation.
NoStaleFd ==
    \A ch \in chans :
        /\ channel[ch].memberFds \cup channel[ch].invitedFds \subseteq conns
        /\ \A f \in channel[ch].memberFds : client[f].registered

\* An operator is a member: KICK, MODE -o and disconnect keep the two lists
\* of a channel in step.
OperatorsAreMembers ==
    \A ch \in chans : channel[ch].operatorFds \subseteq channel[ch].memberFds

\* A channel exists exactly while it has a member, and what was its state
\* does not survive it.
NoEmptyChannel ==
    \A ch \in Names : IF ch \in chans THEN channel[ch].memberFds # {}
                                      ELSE channel[ch] = NewChannel

\* Two clients never have the same nickname, registered or not.
NickUnique ==
    \A f, g \in conns :
        client[f].nickname = client[g].nickname =>
            f = g \/ client[f].nickname = NoNick

\* A client is registered exactly when PASS, NICK and USER have been accepted,
\* PASS first, the others in any order; its first NICK gives it a nickname.
RegisteredIffComplete ==
    \A f \in conns :
        LET c == client[f] IN
        /\ c.registered <=> c.passRecived /\ c.nicknameReceived /\ c.userRecived
        /\ c.nicknameReceived \/ c.userRecived => c.passRecived
        /\ c.nicknameReceived <=> c.nickname # NoNick
-----------------------------------------------------------------------------
(* Action properties.                                                      *)

\* A channel that survives the step with members but has lost its operators had
\* one, who has just disconnected.
OrphansByDisconnect ==
    \A ch \in chans \cap chans' :
        channel[ch].operatorFds # {} /\ channel'[ch].operatorFds = {} =>
            \E f \in channel[ch].operatorFds :
                conns' = conns \ {f} /\ channel[ch].operatorFds = {f}

\* Commands never leave a channel without operator: only the disconnection of
\* its last operator does (the guards of KICK and MODE -o).
OnlyDisconnectOrphans == [][OrphansByDisconnect]_vars

\* A channel that has lost its operators keeps its modes until it is empty:
\* nobody becomes an operator of a channel that has members, not even by
\* joining it; nobody is invited, and members leave by disconnecting only.
OrphanFrozen ==
    [][\A ch \in chans \cap chans' :
         channel[ch].operatorFds = {} =>
             /\ channel'[ch].operatorFds = {}
             /\ channel'[ch].invite_only = channel[ch].invite_only
             /\ channel'[ch].change_topic = channel[ch].change_topic
             /\ channel'[ch].key = channel[ch].key
             /\ channel'[ch].limit = channel[ch].limit
             /\ channel'[ch].invitedFds \subseteq channel[ch].invitedFds
             /\ channel[ch].memberFds \cap conns' \subseteq channel'[ch].memberFds]_vars

\* Whoever enters an existing channel was invited if it is invite-only, and
\* finds a free place if it has a limit.
AdmissionControl ==
    [][\A ch \in chans : \A f \in channel'[ch].memberFds \ channel[ch].memberFds :
         /\ channel[ch].invite_only => f \in channel[ch].invitedFds
         /\ HasLimit(channel[ch]) =>
                Cardinality(channel'[ch].memberFds) <= channel[ch].limit]_vars

\* The state of a channel that its members can observe.
Observed(chan) == [chan EXCEPT !.invitedFds = {}]

\* f is told in this step what somebody has done in channel ch.
Heard(f, ch) ==
    \E i \in DOMAIN out'[f] : out'[f][i].chan = ch /\ out'[f][i].cmd \in Relayed

\* Unless somebody disconnects, every change of a channel is announced to all
\* those who were members before it or are after it, the kicked one included.
NoSilentChange ==
    [][conns \subseteq conns' =>
         \A ch \in Names :
             Observed(channel'[ch]) # Observed(channel[ch]) =>
                 \A f \in channel[ch].memberFds \cup channel'[ch].memberFds :
                     Heard(f, ch)]_vars

\* The replies to the requests of a client that is not in the channel.
OutsiderReplies == {"331", "332", "403", "404", "442", "471", "473", "475", "482"}

\* f is a member of ch neither before the step nor after it.
Outsider(f, ch) == f \notin channel[ch].memberFds \cup channel'[ch].memberFds

\* What an outsider is sent about a channel is the invitation that puts it on the
\* channel's list, or the answer to its own request, in a step that says nothing
\* to anybody else: why it is refused, and the topic, for which TOPIC does not
\* ask for membership.  What is said and done in the channel, who is in it and
\* its key never reach an outsider.
OutsidersHearAnswersOnly ==
    [][\A f \in Fds : \A i \in DOMAIN out'[f] :
         LET m == out'[f][i] IN
         m.chan \in Names /\ Outsider(f, m.chan) =>
             \/ m.cmd = "INVITE" /\ f \in channel'[m.chan].invitedFds
             \/ /\ m.cmd \in OutsiderReplies
                /\ m.arg = IF m.cmd = "332" THEN channel[m.chan].topic ELSE Absent
                /\ \A g \in Fds \ {f} : out'[g] = <<>>]_vars

\* The welcome is sent by the step that completes the registration, once per
\* connection, and by no other.
WelcomeOnce ==
    [][\A f \in Fds :
         (\E i \in DOMAIN out'[f] : out'[f][i].cmd = "001") <=>
             ~client[f].registered /\ client'[f].registered]_vars
-----------------------------------------------------------------------------
(* The abstract specification.                                             *)

memberLists == [ch \in Names |-> channel[ch].memberFds]

operatorLists == [ch \in Names |-> channel[ch].operatorFds]

inviteLists == [ch \in Names |-> channel[ch].invitedFds]

Roll == INSTANCE Membership WITH
    online <- conns, members <- memberLists, leaders <- operatorLists,
    invited <- inviteLists

\* The lists of the channels change as Membership promises, whatever is sent and
\* whoever disconnects: each handler is one of its actions, or changes no list.
ImplementsMembership == Roll!Spec
-----------------------------------------------------------------------------
(* The inductive invariant.                                                *)

\* The slot of a descriptor that is not connected holds no old state.
ClosedIsNew == \A f \in Fds \ conns : client[f] = NewClient

IInv ==
    /\ TypeOK
    /\ ClosedIsNew
    /\ NoStaleFd
    /\ OperatorsAreMembers
    /\ NoEmptyChannel
    /\ RegisteredIffComplete
=============================================================================
