--------------------------- MODULE IrcReplyProofs ---------------------------
(***************************************************************************)
(* Who is told what: an outsider hears of a channel what it asks for and   *)
(* nothing more, every change of a channel reaches all of its members, and *)
(* the welcome comes once.                                                 *)
(* And what a client that goes by what it is told knows of its channels is *)
(* right.                                                                  *)
(***************************************************************************)
EXTENDS Roster, IrcStepProofs, SequenceTheorems
-----------------------------------------------------------------------------
(* The shapes of the replies of a step.                                    *)

LEMMA NumericFields ==
    ASSUME NEW code, NEW ch
    PROVE  LET m == Numeric(code, ch) IN
           /\ m.cmd = code /\ m.arg = Absent
           /\ m.chan = IF code \in ChannelReplies THEN ch ELSE Absent
BY DEF Numeric

LEMMA FromClientFields ==
    ASSUME NEW c, NEW cmd, NEW ch, NEW who
    PROVE  /\ FromClient(c, cmd, ch, who).chan = ch
           /\ FromClient(c, cmd, ch, who).cmd = cmd
BY DEF FromClient

\* The same of a line that tells a topic, a key or a limit.
LEMMA ArgFields ==
    ASSUME NEW c, NEW cmd, NEW ch, NEW who, NEW a
    PROVE  LET m == [FromClient(c, cmd, ch, who) EXCEPT !.arg = a] IN
           m.chan = ch /\ m.cmd = cmd /\ m.who = who
BY DEF FromClient

LEMMA NoneSaid ==
    ASSUME out' = NoReply, NEW f \in Fds
    PROVE  DOMAIN out'[f] = {}
BY DEF NoReply

LEMMA OneSaid ==
    ASSUME NEW g \in Fds, NEW m, out' = ToOne(g, m), NEW f \in Fds
    PROVE  /\ \A j \in DOMAIN out'[f] : f = g /\ out'[f][j] = m
           /\ f = g => \E j \in DOMAIN out'[f] : out'[f][j] = m
<1>1. out'[f] = IF f = g THEN <<m>> ELSE <<>>
  BY DEF ToOne, NoReply
<1>2. QED
  BY <1>1

LEMMA AllSaid ==
    ASSUME NEW S, NEW m, out' = ToAll(S, m), NEW f \in Fds
    PROVE  /\ \A j \in DOMAIN out'[f] : f \in S \cap conns /\ out'[f][j] = m
           /\ f \in S \cap conns => \E j \in DOMAIN out'[f] : out'[f][j] = m
<1>1. out'[f] = IF f \in S \cap conns THEN <<m>> ELSE <<>>
  BY DEF ToAll
<1>2. QED
  BY <1>1

\* Sequences of one and of three replies.
LEMMA OneReply ==
    ASSUME NEW m, NEW s, s = <<m>>
    PROVE  (\A j \in DOMAIN s : s[j] = m) /\ (\E j \in DOMAIN s : s[j] = m)
OBVIOUS

LEMMA ThreeReplies ==
    ASSUME NEW m1, NEW m2, NEW m3, NEW s, s = <<m1>> \o <<m2, m3>>
    PROVE  /\ \A j \in DOMAIN s : s[j] = m1 \/ s[j] = m2 \/ s[j] = m3
           /\ \E j \in DOMAIN s : s[j] = m1
<1> DEFINE D == {m1, m2, m3}
<1>1. <<m1>> \in Seq(D) /\ <<m2, m3>> \in Seq(D)
  OBVIOUS
<1>2. s \in Seq(D) /\ Len(s) = 3 /\ s[1] = m1
  BY <1>1, ConcatProperties
<1>3. DOMAIN s = 1 .. 3 /\ \A j \in 1 .. 3 : s[j] \in D
  BY <1>2
<1>4. QED
  BY <1>2, <1>3

\* JOIN: everybody hears the line, the newcomer then gets the list of names.
JoinReplies(c, S, m, ch, chan) ==
    [ToAll(S, m) EXCEPT ![c] = @ \o NamesReply(c, ch, chan)]

LEMMA JoinSaid ==
    ASSUME NEW c \in Fds, NEW S, NEW m, NEW ch, NEW chan, c \in S \cap conns,
           out' = JoinReplies(c, S, m, ch, chan),
           NEW f \in Fds
    PROVE  /\ \A j \in DOMAIN out'[f] :
                \/ f \in S \cap conns /\ out'[f][j] = m
                \/ f = c /\ out'[f][j].cmd = "353" /\ out'[f][j].chan = ch
                \/ f = c /\ out'[f][j].cmd = "366" /\ out'[f][j].chan = ch
           /\ f \in S \cap conns => \E j \in DOMAIN out'[f] : out'[f][j] = m
<1> DEFINE names == [Numeric("353", ch) EXCEPT !.who = Nicknames(chan.memberFds),
                                               !.ops = Nicknames(chan.operatorFds)]
           end   == Numeric("366", ch)
           said  == out'[f]
<1>1. names.cmd = "353" /\ names.chan = ch /\ end.cmd = "366" /\ end.chan = ch
  BY DEF Numeric, ChannelReplies
<1>2. NamesReply(c, ch, chan) = <<names, end>>
  BY DEF NamesReply
<1>3. DOMAIN ToAll(S, m) = Fds /\ ToAll(S, m)[f] = IF f \in S \cap conns THEN <<m>> ELSE <<>>
  BY DEF ToAll
<1> HIDE DEF names, end
<1>4. said = IF f = c THEN <<m>> \o <<names, end>>
             ELSE IF f \in S \cap conns THEN <<m>> ELSE <<>>
  BY <1>2, <1>3 DEF JoinReplies
<1> HIDE DEF said
<1>5. CASE f = c
  <2>1. said = <<m>> \o <<names, end>>
    BY <1>4, <1>5
  <2>2. /\ \A j \in DOMAIN said : said[j] = m \/ said[j] = names \/ said[j] = end
        /\ \E j \in DOMAIN said : said[j] = m
    BY <2>1, ThreeReplies
  <2>3. QED
    BY <1>1, <1>5, <2>2 DEF said
<1>6. CASE f # c /\ f \in S \cap conns
  <2>1. said = <<m>>
    BY <1>4, <1>6
  <2>2. QED
    BY <1>6, <2>1, OneReply DEF said
<1>7. CASE f \notin S \cap conns
  <2>1. said = <<>>
    BY <1>4, <1>7
  <2>2. DOMAIN said = {}
    BY <2>1
  <2>3. QED
    BY <1>7, <2>2 DEF said
<1>8. QED
  BY <1>5, <1>6, <1>7

\* INVITE: the guest is told, and the operator that he was.
InviteReplies(c, t, m, ch) == [ToOne(t, m) EXCEPT ![c] = @ \o <<Numeric("341", ch)>>]

LEMMA InviteSaid ==
    ASSUME NEW c \in Fds, NEW t \in Fds, t # c, NEW m, NEW ch,
           out' = InviteReplies(c, t, m, ch),
           NEW f \in Fds
    PROVE  \A j \in DOMAIN out'[f] :
               \/ f = t /\ out'[f][j] = m
               \/ f = c /\ out'[f][j] = Numeric("341", ch)
<1> DEFINE end  == Numeric("341", ch)
           said == out'[f]
<1>1. /\ DOMAIN ToOne(t, m) = Fds /\ ToOne(t, m)[c] = <<>>
      /\ ToOne(t, m)[f] = IF f = t THEN <<m>> ELSE <<>>
  BY DEF ToOne, NoReply
<1>2. /\ f = c => said = ToOne(t, m)[c] \o <<end>>
      /\ f # c => said = ToOne(t, m)[f]
  BY <1>1 DEF InviteReplies
<1> HIDE DEF end
<1>3. <<>> \o <<end>> = <<end>>
  <2>1. <<end>> \in Seq({end})
    OBVIOUS
  <2>2. QED
    BY <2>1, ConcatEmptySeq
<1> HIDE DEF said
<1>4. \/ f = c /\ said = <<end>>
      \/ f = t /\ said = <<m>>
      \/ said = <<>>
  BY <1>1, <1>2, <1>3
<1>5. said = <<>> => DOMAIN said = {}
  OBVIOUS
<1>6. \A j \in DOMAIN said : (f = t /\ said[j] = m) \/ (f = c /\ said[j] = end)
  BY <1>4, <1>5, OneReply
<1>7. QED
  BY <1>6 DEF said, end
-----------------------------------------------------------------------------
(* What each step owes to the members of a channel and to a client that    *)
(* completes its registration: the bodies of the three action properties.  *)

OutsidersAnswered ==
    \A f \in Fds : \A i \in DOMAIN out'[f] :
        LET m == out'[f][i] IN
        m.chan \in Names /\ Outsider(f, m.chan) =>
            \/ m.cmd = "INVITE" /\ f \in channel'[m.chan].invitedFds
            \/ /\ m.cmd \in OutsiderReplies
               /\ m.arg = IF m.cmd = "332" THEN channel[m.chan].topic ELSE Absent
               /\ \A g \in Fds \ {f} : out'[g] = <<>>

Announced ==
    conns \subseteq conns' =>
        \A ch \in Names :
            Observed(channel'[ch]) # Observed(channel[ch]) =>
                \A f \in channel[ch].memberFds \cup channel'[ch].memberFds : Heard(f, ch)

Welcomed ==
    \A f \in Fds :
        (\E i \in DOMAIN out'[f] : out'[f][i].cmd = "001") <=>
            ~client[f].registered /\ client'[f].registered

Proper == OutsidersAnswered /\ Announced /\ Welcomed

\* An answer that an outsider may get.
Public(m) ==
    /\ m.cmd \in OutsiderReplies
    /\ m.arg = IF m.cmd = "332" THEN channel[m.chan].topic ELSE Absent

\* A step about channel ch.
LEMMA ChannelStep ==
    ASSUME NEW ch \in Names, UNCHANGED client,
           \A d \in Names \ {ch} : channel'[d] = channel[d],
           \A f \in Fds : \A j \in DOMAIN out'[f] :
               LET r == out'[f][j] IN
               /\ r.cmd # "001" /\ r.chan = ch
               /\ \/ ~Outsider(f, ch)
                  \/ r.cmd = "INVITE" /\ f \in channel'[ch].invitedFds,
           Observed(channel'[ch]) # Observed(channel[ch]) =>
               \A f \in channel[ch].memberFds \cup channel'[ch].memberFds : Heard(f, ch)
    PROVE  Proper
<1>1. OutsidersAnswered
  BY DEF OutsidersAnswered
<1>2. Announced
  BY DEF Announced
<1>3. Welcomed
  BY DEF Welcomed
<1>4. QED
  BY <1>1, <1>2, <1>3 DEF Proper

\* A step about no channel.
LEMMA PrivateStep ==
    ASSUME UNCHANGED channel, Welcomed,
           \A f \in Fds : \A j \in DOMAIN out'[f] : out'[f][j].chan = Absent
    PROVE  Proper
<1>1. OutsidersAnswered
  BY StateAssumption DEF OutsidersAnswered
<1>2. Announced
  BY DEF Announced
<1>3. QED
  BY <1>1, <1>2 DEF Proper

\* One line about ch, sent to its members.
LEMMA RelayStep ==
    ASSUME NEW ch \in Names, NEW S, NEW m, m.chan = ch, m.cmd \in Relayed,
           out' = ToAll(S, m), UNCHANGED client,
           \A d \in Names \ {ch} : channel'[d] = channel[d],
           channel[ch].memberFds \cup channel'[ch].memberFds \subseteq Fds,
           S \cap conns \subseteq channel[ch].memberFds \cup channel'[ch].memberFds,
           Observed(channel'[ch]) # Observed(channel[ch]) =>
               channel[ch].memberFds \cup channel'[ch].memberFds \subseteq S \cap conns
    PROVE  Proper
<1> DEFINE both == channel[ch].memberFds \cup channel'[ch].memberFds
<1>1. ASSUME NEW f \in Fds
      PROVE  /\ \A j \in DOMAIN out'[f] : f \in S \cap conns /\ out'[f][j] = m
             /\ f \in S \cap conns => \E j \in DOMAIN out'[f] : out'[f][j] = m
  BY AllSaid
<1>2. m.cmd # "001"
  BY DEF Relayed, Flags
<1>3. \A f \in Fds : \A j \in DOMAIN out'[f] :
          LET r == out'[f][j] IN r.cmd # "001" /\ r.chan = ch /\ ~Outsider(f, ch)
  BY <1>1, <1>2 DEF Outsider
<1>4. \A f \in S \cap conns \cap Fds : Heard(f, ch)
  BY <1>1 DEF Heard
<1>5. Observed(channel'[ch]) # Observed(channel[ch]) => \A f \in both : Heard(f, ch)
  BY <1>4
<1>6. QED
  BY <1>3, <1>5, ChannelStep

\* One client is told something: about no channel, about one that it is in, or
\* what anybody may be told.
LEMMA LineStep ==
    ASSUME NEW c \in Fds, NEW m, m.cmd # "001",
           m.chan \in Names => Public(m) \/ c \in channel[m.chan].memberFds,
           out' = ToOne(c, m), UNCHANGED channel,
           \A f \in Fds : client'[f].registered <=> client[f].registered
    PROVE  Proper
<1>1. \A f \in Fds : \A j \in DOMAIN out'[f] : f = c /\ out'[f][j] = m
  BY OneSaid
<1>2. \A g \in Fds \ {c} : out'[g] = <<>>
  BY DEF ToOne, NoReply
<1>3. OutsidersAnswered
  BY <1>1, <1>2 DEF OutsidersAnswered, Outsider, Public
<1>4. Welcomed
  BY <1>1 DEF Welcomed
<1>5. Announced
  BY DEF Announced
<1>6. QED
  BY <1>3, <1>4, <1>5 DEF Proper

\* A refusal is a numeric other than the welcome; what names the channel is for
\* its members, or tells an outsider no more than why it is refused.
LEMMA RefuseStep ==
    ASSUME NEW c \in Fds, NEW code, NEW ch, code # "001", Refuse(c, code, ch),
           \/ code \notin ChannelReplies
           \/ code \in OutsiderReplies \ {"332"}
           \/ c \in channel[ch].memberFds
    PROVE  Proper
<1> DEFINE m == Numeric(code, ch)
<1>1. out' = ToOne(c, m) /\ UNCHANGED <<client, channel>>
  BY DEF Refuse, Answer
<1>2. /\ m.cmd = code /\ m.arg = Absent
      /\ m.chan = IF code \in ChannelReplies THEN ch ELSE Absent
  BY NumericFields
<1> HIDE DEF m
<1>3. m.chan \in Names => Public(m) \/ c \in channel[m.chan].memberFds
  BY <1>2, StateAssumption DEF Public
<1>4. QED
  BY <1>1, <1>2, <1>3, LineStep

\* Nothing is said and nobody completes his registration.
LEMMA SilentStep ==
    ASSUME out' = NoReply, UNCHANGED channel,
           \A f \in Fds : client[f].registered \/ ~client'[f].registered
    PROVE  Proper
<1>1. \A f \in Fds : DOMAIN out'[f] = {}
  BY NoneSaid
<1>2. Welcomed
  BY <1>1 DEF Welcomed
<1>3. QED
  BY <1>1, <1>2, PrivateStep

\* One client completes its registration, and is welcomed.
LEMMA WelcomeStep ==
    ASSUME NEW c \in Fds, out' = ToOne(c, Numeric("001", Absent)), UNCHANGED channel,
           ~client[c].registered, client'[c].registered,
           \A f \in Fds \ {c} : client'[f] = client[f]
    PROVE  Proper
<1>1. ASSUME NEW f \in Fds
      PROVE  /\ \A j \in DOMAIN out'[f] : f = c /\ out'[f][j] = Numeric("001", Absent)
             /\ f = c => \E j \in DOMAIN out'[f] : out'[f][j] = Numeric("001", Absent)
  BY OneSaid
<1>2. Welcomed
  BY <1>1, NumericFields DEF Welcomed
<1>3. \A f \in Fds : \A j \in DOMAIN out'[f] : out'[f][j].chan = Absent
  BY <1>1, NumericFields DEF ChannelReplies
<1>4. QED
  BY <1>2, <1>3, PrivateStep
-----------------------------------------------------------------------------
(* The handlers.                                                           *)

LEMMA PassProper ==
    ASSUME IInv, NEW c \in conns, NEW pw, passHundler(c, pw)
    PROVE  Proper
<1>1. c \in Fds /\ client \in [Fds -> ClientState]
  BY DEF IInv, TypeOK
<1>2. CASE PassError(c, pw) # OK
  <2>1. PassError(c, pw) # "001" /\ PassError(c, pw) \notin ChannelReplies
    BY <1>2 DEF PassError, OK, ChannelReplies
  <2>2. QED
    BY <1>1, <1>2, <2>1, RefuseStep DEF passHundler
<1>3. CASE PassError(c, pw) = OK
  <2>1. /\ client' = [client EXCEPT ![c].passRecived = TRUE]
        /\ out' = NoReply /\ UNCHANGED channel
    BY <1>3 DEF passHundler, Refuse, Answer
  <2>2. \A f \in Fds : client'[f].registered = client[f].registered
    BY <1>1, <2>1 DEF ClientState
  <2>3. QED
    BY <2>1, <2>2, SilentStep
<1>4. QED
  BY <1>2, <1>3

\* The replies of NICK and USER to an accepted message: when it sets registered,
\* and only then, the welcome.
LEMMA NickProper ==
    ASSUME IInv, NEW c \in conns, NEW n \in Nicks \cup {Absent, Invalid},
           nickHundler(c, n)
    PROVE  Proper
<1>1. c \in Fds /\ client \in [Fds -> ClientState] /\ client[c] \in ClientState
  BY DEF IInv, TypeOK
<1>2. CASE NickError(c, n) # OK
  <2>1. NickError(c, n) # "001" /\ NickError(c, n) \notin ChannelReplies
    BY <1>2 DEF NickError, OK, ChannelReplies
  <2>2. QED
    BY <1>1, <1>2, <2>1, RefuseStep DEF nickHundler
<1>3. CASE NickError(c, n) = OK
  <2>1. /\ client' = [client EXCEPT ![c] = SetNickname(client[c], n)]
        /\ out' = NickReply(c, n) /\ UNCHANGED channel
    BY <1>3 DEF nickHundler, Refuse, Answer
  <2>2. /\ client'[c] = SetNickname(client[c], n)
        /\ \A f \in Fds \ {c} : client'[f] = client[f]
    BY <1>1, <2>1
  <2>3. client'[c].registered <=> client[c].registered \/ client[c].userRecived
    BY <1>1, <2>2 DEF SetNickname, ClientState
  <2>4. CASE client[c].registered
    <3>1. out' = ToOne(c, NickLine(n))
      BY <2>1, <2>4 DEF NickReply
    <3>2. NickLine(n).chan \notin Names /\ NickLine(n).cmd # "001"
      BY StateAssumption DEF NickLine, Numeric, ChannelReplies
    <3>3. \A f \in Fds : client'[f].registered <=> client[f].registered
      BY <2>2, <2>3, <2>4
    <3>4. QED
      BY <1>1, <2>1, <3>1, <3>2, <3>3, LineStep
  <2>5. CASE ~client[c].registered /\ client[c].userRecived
    <3>1. out' = ToOne(c, Numeric("001", Absent)) /\ client'[c].registered
      BY <2>1, <2>3, <2>5 DEF NickReply
    <3>2. QED
      BY <1>1, <2>1, <2>2, <2>5, <3>1, WelcomeStep
  <2>6. CASE ~client[c].registered /\ ~client[c].userRecived
    <3>1. out' = NoReply /\ ~client'[c].registered
      BY <2>1, <2>3, <2>6 DEF NickReply
    <3>2. QED
      BY <2>1, <2>2, <3>1, SilentStep
  <2>7. QED
    BY <2>4, <2>5, <2>6
<1>4. QED
  BY <1>2, <1>3

LEMMA UserProper ==
    ASSUME IInv, NEW c \in conns, NEW enough, userHandler(c, enough)
    PROVE  Proper
<1>1. c \in Fds /\ client \in [Fds -> ClientState] /\ client[c] \in ClientState
  BY DEF IInv, TypeOK
<1>2. CASE UserError(c, enough) # OK
  <2>1. UserError(c, enough) # "001" /\ UserError(c, enough) \notin ChannelReplies
    BY <1>2 DEF UserError, OK, ChannelReplies
  <2>2. QED
    BY <1>1, <1>2, <2>1, RefuseStep DEF userHandler
<1>3. CASE UserError(c, enough) = OK
  <2>1. /\ client' = [client EXCEPT ![c] = SetUser(client[c])]
        /\ out' = IF client[c].nicknameReceived THEN ToOne(c, Numeric("001", Absent)) ELSE NoReply
        /\ UNCHANGED channel
    BY <1>3 DEF userHandler, Refuse, Answer
  <2>2. ~client[c].registered
    BY <1>3 DEF UserError, OK
  <2>3. /\ client'[c] = SetUser(client[c])
        /\ \A f \in Fds \ {c} : client'[f] = client[f]
    BY <1>1, <2>1
  <2>4. client'[c].registered <=> client[c].nicknameReceived
    BY <1>1, <2>2, <2>3 DEF SetUser, ClientState
  <2>5. CASE client[c].nicknameReceived
    BY <1>1, <2>1, <2>2, <2>3, <2>4, <2>5, WelcomeStep
  <2>6. CASE ~client[c].nicknameReceived
    BY <2>1, <2>3, <2>4, <2>6, SilentStep
  <2>7. QED
    BY <2>5, <2>6
<1>4. QED
  BY <1>2, <1>3

\* The parts of the invariant that the replies of a channel rest on.
LEMMA MemberFacts ==
    ASSUME IInv, NEW ch \in Names
    PROVE  /\ channel[ch] \in ChannelState
           /\ channel[ch].memberFds \subseteq conns /\ conns \subseteq Fds
           /\ channel[ch].operatorFds \subseteq channel[ch].memberFds
<1>1. channel[ch] \in ChannelState /\ conns \subseteq Fds
  BY DEF IInv, TypeOK
<1>2. CASE ch \in chans
  BY <1>1, <1>2 DEF IInv, NoStaleFd, OperatorsAreMembers
<1>3. CASE ch \notin chans
  BY <1>1, <1>3 DEF IInv, NoEmptyChannel, NewChannel
<1>4. QED
  BY <1>1, <1>2, <1>3

LEMMA PrivmsgProper ==
    ASSUME IInv, NEW c \in conns, NEW target, NEW text, privmsgHandler(c, target, text)
    PROVE  Proper
<1>1. c \in Fds
  BY DEF IInv, TypeOK
<1>2. CASE PrivmsgError(c, target, text) # OK
  <2>1. /\ PrivmsgError(c, target, text) # "001"
        /\ \/ PrivmsgError(c, target, text) \notin ChannelReplies
           \/ PrivmsgError(c, target, text) \in OutsiderReplies \ {"332"}
    BY <1>2 DEF PrivmsgError, OK, ChannelReplies, OutsiderReplies
  <2>2. Refuse(c, PrivmsgError(c, target, text), target)
    BY <1>2 DEF privmsgHandler
  <2>3. QED
    BY <1>1, <2>1, <2>2, RefuseStep
<1>3. CASE /\ target \in Names
           /\ out' = ToAll(Audience(c, target), FromClient(c, "PRIVMSG", target, {}))
           /\ UNCHANGED <<client, channel>>
  <2> DEFINE m == FromClient(c, "PRIVMSG", target, {})
  <2>1. m.chan = target /\ m.cmd \in Relayed
    BY FromClientFields DEF Relayed
  <2> HIDE DEF m
  <2>2. Audience(c, target) \subseteq channel[target].memberFds
    BY DEF Audience, Members
  <2>3. out' = ToAll(Audience(c, target), m)
    BY <1>3 DEF m
  <2>4. channel[target].memberFds \subseteq Fds
    BY <1>3, MemberFacts
  <2>5. QED
    BY <1>3, <2>1, <2>2, <2>3, <2>4, RelayStep
<1>4. ASSUME NEW t \in Named(target), UNCHANGED <<client, channel>>,
             out' = ToOne(t, FromClient(c, "PRIVMSG", Absent, {target}))
      PROVE  Proper
  <2> DEFINE m == FromClient(c, "PRIVMSG", Absent, {target})
  <2>1. m.chan \notin Names /\ m.cmd # "001"
    BY FromClientFields, StateAssumption
  <2> HIDE DEF m
  <2>2. t \in Fds /\ out' = ToOne(t, m)
    BY <1>4 DEF m, Named, IInv, TypeOK
  <2>3. QED
    BY <1>4, <2>1, <2>2, LineStep
<1>5. QED
  BY <1>2, <1>3, <1>4 DEF privmsgHandler

LEMMA JoinProper ==
    ASSUME IInv, NEW c \in conns, NEW ch \in Names \cup {Absent, Invalid}, NEW k,
           joinHandler(c, ch, k)
    PROVE  Proper
<1>1. c \in Fds /\ channel \in [Names -> ChannelState]
  BY DEF IInv, TypeOK
<1>2. CASE /\ JoinError(c, ch, k) # OK /\ UNCHANGED <<client, channel>>
           /\ out' = ToOne(c, Numeric(JoinError(c, ch, k), ch))
  <2> DEFINE code == JoinError(c, ch, k)
             m    == Numeric(code, ch)
  <2>1. /\ code # "001"
        /\ code \in OutsiderReplies \ {"332"} \/ code \notin ChannelReplies
             \/ c \in Members(ch)
    BY <1>2 DEF JoinError, OK, ChannelReplies, OutsiderReplies
  <2>2. /\ m.cmd = code /\ m.arg = Absent
        /\ m.chan = IF code \in ChannelReplies THEN ch ELSE Absent
    BY NumericFields
  <2>3. out' = ToOne(c, m)
    BY <1>2
  <2> HIDE DEF code, m
  <2>4. m.chan \in Names => Public(m) \/ c \in channel[m.chan].memberFds
    BY <2>1, <2>2, StateAssumption DEF Public, Members
  <2>5. QED
    BY <1>1, <1>2, <2>1, <2>2, <2>3, <2>4, LineStep
<1>3. CASE JoinError(c, ch, k) = OK
  <2> DEFINE chan == Admit(channel[ch], c)
             m    == FromClient(c, "JOIN", ch, {})
  <2>1. ch \in Names
    BY <1>3 DEF JoinError, OK
  <2>2. /\ channel' = [channel EXCEPT ![ch] = chan] /\ UNCHANGED client
        /\ out' = [ToAll(chan.memberFds, m) EXCEPT ![c] = @ \o NamesReply(c, ch, chan)]
    BY <1>3 DEF joinHandler, OK
  <2>3. m.chan = ch /\ m.cmd = "JOIN"
    BY FromClientFields
  <2>4. chan.memberFds = channel[ch].memberFds \cup {c}
    BY <1>1, <2>1 DEF Admit, ChannelState
  <2>5. channel[ch].memberFds \subseteq conns /\ conns \subseteq Fds
    BY <2>1, MemberFacts
  <2>6. channel'[ch] = chan /\ \A d \in Names \ {ch} : channel'[d] = channel[d]
    BY <1>1, <2>1, <2>2
  <2> HIDE DEF chan, m
  <2>7. ASSUME NEW f \in Fds
        PROVE  /\ \A j \in DOMAIN out'[f] :
                    \/ f \in chan.memberFds \cap conns /\ out'[f][j] = m
                    \/ f = c /\ out'[f][j].cmd = "353" /\ out'[f][j].chan = ch
                    \/ f = c /\ out'[f][j].cmd = "366" /\ out'[f][j].chan = ch
               /\ f \in chan.memberFds \cap conns =>
                    \E j \in DOMAIN out'[f] : out'[f][j] = m
    <3>1. out' = JoinReplies(c, chan.memberFds, m, ch, chan)
      BY <2>2 DEF JoinReplies
    <3>2. c \in chan.memberFds \cap conns
      BY <2>4
    <3>3. QED
      BY <1>1, <3>1, <3>2, JoinSaid
  <2>8. \A f \in Fds : \A j \in DOMAIN out'[f] :
          LET r == out'[f][j] IN r.cmd # "001" /\ r.chan = ch /\ ~Outsider(f, ch)
    BY <2>3, <2>4, <2>6, <2>7 DEF Outsider
  <2>9. \A f \in channel[ch].memberFds \cup channel'[ch].memberFds : Heard(f, ch)
    BY <2>3, <2>4, <2>5, <2>6, <2>7 DEF Heard, Relayed
  <2>10. QED
    BY <2>1, <2>2, <2>6, <2>8, <2>9, ChannelStep
<1>4. QED
  BY <1>2, <1>3 DEF joinHandler, Refuse, Answer, OK

LEMMA KickProper ==
    ASSUME IInv, NEW c \in conns, NEW ch \in Names, NEW n, kickHandler(c, ch, n)
    PROVE  Proper
<1>1. c \in Fds /\ channel \in [Names -> ChannelState]
  BY DEF IInv, TypeOK
<1>2. CASE KickError(c, ch, n) # OK
  <2>1. /\ KickError(c, ch, n) # "001"
        /\ \/ KickError(c, ch, n) \notin ChannelReplies
           \/ KickError(c, ch, n) \in OutsiderReplies \ {"332"}
    BY <1>2 DEF KickError, OK, ChannelReplies, OutsiderReplies
  <2>2. QED
    BY <1>1, <1>2, <2>1, RefuseStep DEF kickHandler
<1>3. ASSUME NEW t, Expel(c, ch, t), UNCHANGED client
      PROVE  Proper
  <2> DEFINE left == RemoveMember(channel[ch], t)
             new  == IF left.memberFds = {} THEN NewChannel ELSE left
             m    == FromClient(c, "KICK", ch, {client[t].nickname})
  <2>1. left.memberFds \subseteq channel[ch].memberFds
    BY <1>1 DEF RemoveMember, ChannelState
  <2>2. new.memberFds \subseteq channel[ch].memberFds
    BY <2>1 DEF NewChannel
  <2>3. channel' = [channel EXCEPT ![ch] = new] /\ out' = ToAll(Members(ch), m)
    BY <1>3 DEF Expel
  <2> HIDE DEF new
  <2>4. channel'[ch] = new /\ \A d \in Names \ {ch} : channel'[d] = channel[d]
    BY <1>1, <2>3
  <2>5. m.chan = ch /\ m.cmd \in Relayed
    BY FromClientFields DEF Relayed
  <2> HIDE DEF m
  <2>6. channel[ch].memberFds \subseteq conns /\ conns \subseteq Fds
    BY MemberFacts
  <2>7. QED
    BY <1>3, <2>2, <2>3, <2>4, <2>5, <2>6, RelayStep DEF Members
<1>4. KickError(c, ch, n) = OK => c \in channel[ch].memberFds
  BY MemberFacts DEF KickError, OK
<1>5. QED
  BY <1>1, <1>2, <1>3, <1>4, RefuseStep DEF kickHandler, KickTarget

LEMMA InviteProper ==
    ASSUME IInv, NEW c \in conns, NEW ch \in Names, NEW n, inviteHandler(c, n, ch)
    PROVE  Proper
<1>1. c \in Fds /\ channel \in [Names -> ChannelState] /\ conns \subseteq Fds
  BY DEF IInv, TypeOK
<1>2. CASE InviteError(c, n, ch) # OK
  <2>1. /\ InviteError(c, n, ch) # "001"
        /\ \/ InviteError(c, n, ch) \notin ChannelReplies
           \/ InviteError(c, n, ch) \in OutsiderReplies \ {"332"}
    BY <1>2 DEF InviteError, OK, ChannelReplies, OutsiderReplies
  <2>2. QED
    BY <1>1, <1>2, <2>1, RefuseStep DEF inviteHandler
<1>3. ASSUME InviteError(c, n, ch) = OK, NEW t \in Named(n), t \notin Members(ch),
             channel' = [channel EXCEPT ![ch].invitedFds = @ \cup {t}],
             out' = [ToOne(t, FromClient(c, "INVITE", ch, {n}))
                       EXCEPT ![c] = @ \o <<Numeric("341", ch)>>],
             UNCHANGED client
      PROVE  Proper
  <2> DEFINE m   == FromClient(c, "INVITE", ch, {n})
             inv == channel[ch].invitedFds \cup {t}
  <2>1. c \in channel[ch].operatorFds
    BY <1>3 DEF InviteError, OK
  <2>2. t # c /\ t \in Fds /\ c \in channel[ch].memberFds
    BY <1>1, <1>3, <2>1, MemberFacts DEF Members, Named
  <2>3. m.cmd = "INVITE" /\ m.chan = ch
    BY FromClientFields
  <2>4. out' = InviteReplies(c, t, m, ch)
    BY <1>3 DEF InviteReplies
  <2> HIDE DEF m
  <2>5. /\ channel'[ch] = [channel[ch] EXCEPT !.invitedFds = inv]
        /\ \A d \in Names \ {ch} : channel'[d] = channel[d]
    BY <1>1, <1>3
  <2>6. t \in channel'[ch].invitedFds
    BY <1>1, <2>5 DEF ChannelState
  <2>7. \A f \in Fds : \A j \in DOMAIN out'[f] :
            \/ f = t /\ out'[f][j] = m
            \/ f = c /\ out'[f][j] = Numeric("341", ch)
    BY <1>1, <2>2, <2>4, InviteSaid
  <2>8. Numeric("341", ch).cmd = "341" /\ Numeric("341", ch).chan = ch
    BY NumericFields DEF ChannelReplies
  <2>9. \A f \in Fds : \A j \in DOMAIN out'[f] :
            LET r == out'[f][j] IN
            /\ r.cmd # "001" /\ r.chan = ch
            /\ ~Outsider(f, ch) \/ (r.cmd = "INVITE" /\ f \in channel'[ch].invitedFds)
    BY <2>2, <2>3, <2>6, <2>7, <2>8 DEF Outsider
  <2> HIDE DEF inv
  <2>10. Observed(channel'[ch]) = Observed(channel[ch])
    BY <1>1, <2>5 DEF Observed, ChannelState
  <2>11. QED
    BY <1>3, <2>5, <2>9, <2>10, ChannelStep
<1>4. InviteError(c, n, ch) = OK => c \in channel[ch].memberFds
  BY MemberFacts DEF InviteError, OK
<1>5. QED
  BY <1>1, <1>2, <1>3, <1>4, RefuseStep DEF inviteHandler

\* A change that everybody in the channel is told of.
LEMMA UpdateProper ==
    ASSUME IInv, NEW ch \in Names, NEW new, new.memberFds = channel[ch].memberFds,
           NEW S, S = channel[ch].memberFds,
           NEW m, m.chan = ch, m.cmd \in Relayed, Update(ch, new, S, m)
    PROVE  Proper
<1>1. /\ channel' = [channel EXCEPT ![ch] = new] /\ out' = ToAll(S, m)
      /\ UNCHANGED client
  BY DEF Update
<1>2. channel'[ch] = new /\ \A d \in Names \ {ch} : channel'[d] = channel[d]
  BY <1>1 DEF IInv, TypeOK
<1>3. channel[ch].memberFds \subseteq conns /\ conns \subseteq Fds
  BY MemberFacts
<1>4. QED
  BY <1>1, <1>2, <1>3, RelayStep

LEMMA TopicProper ==
    ASSUME IInv, NEW c \in conns, NEW ch, NEW t, topicHandler(c, ch, t)
    PROVE  Proper
<1>1. c \in Fds
  BY DEF IInv, TypeOK
<1>2. CASE TopicError(c, ch, t) \notin {OK, "332"}
  <2>1. /\ TopicError(c, ch, t) # "001"
        /\ \/ TopicError(c, ch, t) \notin ChannelReplies
           \/ TopicError(c, ch, t) \in OutsiderReplies \ {"332"}
    BY <1>2 DEF TopicError, OK, ChannelReplies, OutsiderReplies
  <2>2. Refuse(c, TopicError(c, ch, t), ch)
    BY <1>2 DEF topicHandler, OK
  <2>3. QED
    BY <1>1, <2>1, <2>2, RefuseStep
<1>3. CASE TopicError(c, ch, t) = "332"
  <2> DEFINE m == TopicReply(ch)
  <2>1. out' = ToOne(c, m) /\ UNCHANGED <<client, channel>>
    BY <1>3 DEF topicHandler, Answer, OK
  <2>2. m.cmd = "332" /\ m.chan = ch /\ m.arg = channel[ch].topic
    BY DEF TopicReply, Numeric, ChannelReplies
  <2> HIDE DEF m
  <2>3. Public(m)
    BY <2>2 DEF Public, OutsiderReplies
  <2>4. QED
    BY <1>1, <2>1, <2>2, <2>3, LineStep
<1>4. CASE TopicError(c, ch, t) = OK
  <2> DEFINE new == [channel[ch] EXCEPT !.topic = t]
             m   == [FromClient(c, "TOPIC", ch, {}) EXCEPT !.arg = t]
             S   == Members(ch) \cup {c}
  <2>1. ch \in Names /\ S = channel[ch].memberFds
    BY <1>4 DEF TopicError, OK, IInv, TypeOK, Members
  <2>2. new.memberFds = channel[ch].memberFds
    BY <2>1 DEF IInv, TypeOK, ChannelState
  <2>3. m.chan = ch /\ m.cmd \in Relayed
    BY ArgFields DEF Relayed
  <2>4. Update(ch, new, S, m)
    BY <1>4 DEF topicHandler, OK
  <2> HIDE DEF new, m, S
  <2>5. QED
    BY <2>1, <2>2, <2>3, <2>4, UpdateProper
<1>5. QED
  BY <1>2, <1>3, <1>4

LEMMA ModesProper ==
    ASSUME IInv, NEW c \in conns, NEW ch \in Names,
           NEW flag \in Flags \cup {Absent, Invalid}, modes(c, ch, flag)
    PROVE  Proper
<1>1. c \in Fds /\ channel[ch] \in ChannelState
  BY DEF IInv, TypeOK
<1>2. ASSUME NEW code, Refuse(c, code, ch), code # "001",
             \/ code \notin ChannelReplies
             \/ code \in OutsiderReplies \ {"332"}
             \/ c \in channel[ch].memberFds
      PROVE  Proper
  BY <1>1, <1>2, RefuseStep
<1>3. CASE ModeError(c, ch, flag) # OK
  <2>1. /\ ModeError(c, ch, flag) # "001"
        /\ \/ ModeError(c, ch, flag) \notin ChannelReplies
           \/ ModeError(c, ch, flag) \in OutsiderReplies \ {"332"}
    BY <1>3 DEF ModeError, OK, ChannelReplies, OutsiderReplies
  <2>2. QED
    BY <1>2, <1>3, <2>1 DEF modes
<1>4. ASSUME NEW new, NEW who, NEW f \in Flags,
             new.memberFds = channel[ch].memberFds, ChangeMode(c, ch, f, new, who)
      PROVE  Proper
  <2> DEFINE m == [FromClient(c, f, ch, who) EXCEPT !.arg = Setting(f, new)]
  <2>1. m.chan = ch /\ m.cmd \in Relayed
    BY <1>4, ArgFields DEF Relayed
  <2>2. Update(ch, new, Members(ch), m)
    BY <1>4 DEF ChangeMode
  <2> HIDE DEF m
  <2>3. QED
    BY <1>4, <2>1, <2>2, UpdateProper DEF Members
<1>5. ASSUME NEW v
      PROVE  /\ [channel[ch] EXCEPT !.invite_only = v].memberFds = channel[ch].memberFds
             /\ [channel[ch] EXCEPT !.change_topic = v].memberFds = channel[ch].memberFds
             /\ [channel[ch] EXCEPT !.key = v].memberFds = channel[ch].memberFds
             /\ [channel[ch] EXCEPT !.limit = v].memberFds = channel[ch].memberFds
             /\ [channel[ch] EXCEPT !.operatorFds = v].memberFds = channel[ch].memberFds
  BY <1>1 DEF ChannelState
<1>6. CASE invite_only(c, ch, flag)
  BY <1>4, <1>5, <1>6 DEF invite_only, Flags
<1>7. CASE let_s_change_the_topic(c, ch, flag)
  BY <1>4, <1>5, <1>7 DEF let_s_change_the_topic, Flags
<1>8. ASSUME NEW k, secret_key(c, ch, flag, k) PROVE Proper
  BY <1>2, <1>4, <1>5, <1>8 DEF secret_key, Flags, ChannelReplies
<1>9. ASSUME NEW l, limited_usage(c, ch, flag, l) PROVE Proper
  BY <1>2, <1>4, <1>5, <1>9 DEF limited_usage, Flags, ChannelReplies
<1>10. ASSUME NEW t, Op(c, ch, t) \/ Deop(c, ch, t) PROVE Proper
  <2> DEFINE ops == channel[ch].operatorFds
  <2>1. \/ out' = NoReply /\ UNCHANGED <<client, channel>>
        \/ Refuse(c, "NOTICE", ch)
        \/ ChangeMode(c, ch, "+o", [channel[ch] EXCEPT !.operatorFds = ops \cup {t}],
                      {client[t].nickname})
        \/ ChangeMode(c, ch, "-o", [channel[ch] EXCEPT !.operatorFds = ops \ {t}],
                      {client[t].nickname})
    BY <1>10 DEF Op, Deop
  <2>2. CASE out' = NoReply /\ UNCHANGED <<client, channel>>
    BY <2>2, SilentStep
  <2>3. "+o" \in Flags /\ "-o" \in Flags
    BY DEF Flags
  <2> HIDE DEF ops
  <2>4. QED
    BY <1>2, <1>4, <1>5, <2>1, <2>2, <2>3 DEF ChannelReplies
<1>11. ASSUME NEW n, operators(c, ch, flag, n), c \in channel[ch].memberFds PROVE Proper
  BY <1>2, <1>10, <1>11 DEF operators
<1>12. ModeError(c, ch, flag) = OK => c \in channel[ch].memberFds
  BY MemberFacts DEF ModeError, OK
<1>13. QED
  BY <1>2, <1>3, <1>6, <1>7, <1>8, <1>9, <1>11, <1>12 DEF modes, ChannelReplies

LEMMA CommandProper ==
    ASSUME IInv, NEW c \in conns, dispatchCommand(c)
    PROVE  Proper
<1>1. c \in Fds
  BY DEF IInv, TypeOK
<1>2. unknownCommand(c) => Proper
  BY <1>1, RefuseStep DEF unknownCommand, ChannelReplies
<1>3. QED
  BY <1>2, PassProper, NickProper, UserProper, JoinProper, PrivmsgProper,
     TopicProper, KickProper, InviteProper, ModesProper DEF dispatchCommand

LEMMA NextProper ==
    ASSUME IInv, Next
    PROVE  Proper
<1>1. client \in [Fds -> ClientState] /\ conns \subseteq Fds
  BY DEF IInv, TypeOK
<1>2. ASSUME NEW f \in Fds, connect(f) PROVE Proper
  <2>1. \A g \in Fds : client[g].registered \/ ~client'[g].registered
    BY <1>1, <1>2 DEF connect, NewClient
  <2>2. QED
    BY <1>2, <2>1, SilentStep DEF connect
<1>3. ASSUME NEW f \in conns, disconnect(f) PROVE Proper
  <2>1. \A g \in Fds : DOMAIN out'[g] = {}
    BY <1>3, NoneSaid DEF disconnect
  <2>2. OutsidersAnswered
    BY <2>1 DEF OutsidersAnswered
  <2>3. ~(conns \subseteq conns')
    BY <1>3 DEF disconnect
  <2>4. \A g \in Fds : client[g].registered \/ ~client'[g].registered
    BY <1>1, <1>3 DEF disconnect, NewClient
  <2>5. Welcomed
    BY <2>1, <2>4 DEF Welcomed
  <2>6. QED
    BY <2>2, <2>3, <2>5 DEF Proper, Announced
<1>4. QED
  BY <1>2, <1>3, CommandProper DEF Next

\* What an outsider is sent about a channel is an invitation, or the answer to its
\* own request: never what the members say and do, who they are or the key.
THEOREM OutsidersHear == Spec => OutsidersHearAnswersOnly
<1>1. IInv /\ [Next]_vars => [OutsidersAnswered]_vars
  BY NextProper DEF Proper
<1>2. QED
  BY <1>1, Invariance, PTL DEF Spec, OutsidersHearAnswersOnly, OutsidersAnswered

\* Unless somebody disconnects, every change of a channel is announced to those
\* who were members before it or are after it.
THEOREM ChangesAnnounced == Spec => NoSilentChange
<1>1. IInv /\ [Next]_vars => [Announced]_vars
  BY NextProper DEF Proper
<1>2. QED
  BY <1>1, Invariance, PTL DEF Spec, NoSilentChange, Announced

\* The welcome is sent by the step that completes the registration, and by no
\* other.
THEOREM WelcomedOnce == Spec => WelcomeOnce
<1>1. IInv /\ [Next]_vars => [Welcomed]_vars
  BY NextProper DEF Proper
<1>2. QED
  BY <1>1, Invariance, PTL DEF Spec, WelcomeOnce, Welcomed
-----------------------------------------------------------------------------
(* What a client makes of the lines about a channel: whatever a step does  *)
(* to the channel, the line that each member is sent says what changed.    *)

\* What f knows of ch after a step that leaves the other members where they are.
UpToDate(f, ch) == LearnAll(f, ch) # Unknown => LearnAll(f, ch) = TrueRoster(ch)'

LEMMA LastOf ==
    ASSUME NEW n \in Nat, NEW S, S \subseteq 1 .. n, n \in S
    PROVE  Max(S) = n
<1>1. \A y \in S : y \in Int /\ n >= y
  OBVIOUS
<1>2. \E x \in S : \A y \in S : x >= y
  BY <1>1
<1>3. PICK x \in S : x = (CHOOSE z \in S : \A y \in S : z >= y) /\ \A y \in S : x >= y
  BY <1>2
<1>4. x \in Int /\ n >= x /\ x >= n
  BY <1>1, <1>3
<1>5. x = n
  BY <1>4
<1>6. QED
  BY <1>3, <1>5 DEF Max

\* The step says to f nothing that bears on ch, and changes neither list.
LEMMA QuietStep ==
    ASSUME NEW ch \in Names, NEW f \in Members(ch), RosterRight,
           About(f, ch) = {}, TrueRoster(ch)' = TrueRoster(ch)
    PROVE  UpToDate(f, ch)
BY DEF UpToDate, LearnAll, RosterRight

\* One line about ch, which a member with a right roster understands.
LEMMA LineLearnt ==
    ASSUME NEW ch \in Names, NEW f \in Members(ch), RosterRight,
           NEW m, m.chan = ch, m.cmd \in Relayed, out'[f] = <<m>>,
           Updated(TrueRoster(ch), m) = TrueRoster(ch)'
    PROVE  UpToDate(f, ch)
<1>1. About(f, ch) = {1}
  BY DEF About
<1>2. Max({1}) = 1
  BY LastOf
<1>3. LearnAll(f, ch) = Learn(known[f][ch], m)
  BY <1>1, <1>2 DEF LearnAll
<1>4. m.cmd # "353"
  BY DEF Relayed, Flags
<1>5. QED
  BY <1>3, <1>4 DEF UpToDate, Learn, RosterRight

\* A line about ch to all of S: whoever of the members is not in S misses nothing.
LEMMA AllLearn ==
    ASSUME NEW ch \in Names, NEW f \in Members(ch), f \in Fds, RosterRight,
           NEW m, m.chan = ch, m.cmd \in Relayed, NEW S, out' = ToAll(S, m),
           Updated(TrueRoster(ch), m) = TrueRoster(ch)',
           f \in S \cap conns \/ TrueRoster(ch)' = TrueRoster(ch)
    PROVE  UpToDate(f, ch)
<1>1. out'[f] = IF f \in S \cap conns THEN <<m>> ELSE <<>>
  BY DEF ToAll
<1>2. CASE f \in S \cap conns
  BY <1>1, <1>2, LineLearnt
<1>3. CASE f \notin S \cap conns
  <2>1. About(f, ch) = {}
    BY <1>1, <1>3 DEF About
  <2>2. QED
    BY <1>3, <2>1, QuietStep
<1>4. QED
  BY <1>2, <1>3

\* The newcomer gets the list behind the line.
LEMMA ListLearnt ==
    ASSUME NEW ch \in Names, NEW f, NEW m, NEW names, NEW end,
           out'[f] = <<m>> \o <<names, end>>,
           names.chan = ch, names.cmd = "353", end.cmd \notin Relayed \cup {"353"},
           [who |-> names.who, ops |-> names.ops] = TrueRoster(ch)'
    PROVE  UpToDate(f, ch)
<1> DEFINE D == {m, names, end}
           s == out'[f]
<1>1. <<m>> \in Seq(D) /\ <<names, end>> \in Seq(D)
  OBVIOUS
<1>2. s \in Seq(D) /\ Len(s) = 3 /\ s[2] = names /\ s[3] = end
  BY <1>1, ConcatProperties
<1>3. DOMAIN s = 1 .. 3
  BY <1>2
<1>4. 2 \in About(f, ch) /\ About(f, ch) \subseteq 1 .. 2
  BY <1>2, <1>3 DEF About
<1>5. Max(About(f, ch)) = 2
  BY <1>4, LastOf
<1>6. LearnAll(f, ch) = Learn(known[f][ch], names)
  BY <1>2, <1>4, <1>5 DEF LearnAll
<1>7. QED
  BY <1>6 DEF UpToDate, Learn
-----------------------------------------------------------------------------
(* What a step owes to the members of channel ch.                          *)

Informed(ch) ==
    ~Unannounced(ch) => \A f \in channel'[ch].memberFds : UpToDate(f, ch)

\* The lists of ch stay as they are, and its members hear nothing that bears on it.
LEMMA QuietInformed ==
    ASSUME IInv, RosterRight, NEW ch \in Names,
           channel'[ch].memberFds = channel[ch].memberFds,
           channel'[ch].operatorFds = channel[ch].operatorFds,
           \A f \in Members(ch) : About(f, ch) = {}
    PROVE  Informed(ch)
<1> SUFFICES ASSUME ~Unannounced(ch), NEW f \in Members(ch) PROVE UpToDate(f, ch)
  BY DEF Informed, Members
<1>1. Members(ch) \subseteq conns /\ channel[ch].operatorFds \subseteq Members(ch)
  BY MemberFacts DEF Members
<1>2. \A g \in Members(ch) : g \in conns' /\ client'[g].nickname = client[g].nickname
  BY DEF Unannounced
<1>3. /\ Nicknames(Members(ch))' = Nicknames(Members(ch))
      /\ Nicknames(channel[ch].operatorFds)' = Nicknames(channel[ch].operatorFds)
  BY <1>1, <1>2 DEF Nicknames, Members
<1>4. TrueRoster(ch)' = TrueRoster(ch)
  BY <1>3 DEF TrueRoster
<1>5. QED
  BY <1>4, QuietStep

\* One client is told something that bears on no channel.
LEMMA OneInformed ==
    ASSUME IInv, RosterRight, NEW ch \in Names,
           channel'[ch].memberFds = channel[ch].memberFds,
           channel'[ch].operatorFds = channel[ch].operatorFds,
           NEW c \in Fds, NEW m, m.chan = Absent \/ m.cmd \notin Relayed \cup {"353"},
           out' = ToOne(c, m)
    PROVE  Informed(ch)
<1>1. ch # Absent /\ Members(ch) \subseteq Fds
  BY MemberFacts, StateAssumption DEF Members
<1>2. \A f \in Members(ch) : \A i \in DOMAIN out'[f] : out'[f][i] = m
  BY <1>1, OneSaid
<1>3. \A f \in Members(ch) : About(f, ch) = {}
  BY <1>1, <1>2 DEF About
<1>4. QED
  BY <1>3, QuietInformed

LEMMA RefuseInformed ==
    ASSUME IInv, RosterRight, NEW ch \in Names, NEW c \in conns, NEW code, NEW d,
           Refuse(c, code, d), code # "353"
    PROVE  Informed(ch)
<1> DEFINE m == Numeric(code, d)
<1>1. c \in Fds /\ UNCHANGED channel /\ out' = ToOne(c, m)
  BY DEF Refuse, Answer, IInv, TypeOK
<1>2. m.cmd = code /\ m.chan = IF code \in ChannelReplies THEN d ELSE Absent
  BY NumericFields
<1> HIDE DEF m
<1>3. code \in ChannelReplies => code \notin Relayed
  BY DEF ChannelReplies, Relayed, Flags
<1>4. QED
  BY <1>1, <1>2, <1>3, OneInformed

LEMMA SilentInformed ==
    ASSUME IInv, RosterRight, NEW ch \in Names,
           channel'[ch].memberFds = channel[ch].memberFds,
           channel'[ch].operatorFds = channel[ch].operatorFds,
           out' = NoReply
    PROVE  Informed(ch)
<1>1. Members(ch) \subseteq Fds
  BY MemberFacts DEF Members
<1>2. \A f \in Members(ch) : About(f, ch) = {}
  BY <1>1, NoneSaid DEF About
<1>3. QED
  BY <1>2, QuietInformed

\* A line about ch says nothing to those of another channel.
LEMMA ElsewhereInformed ==
    ASSUME IInv, RosterRight, NEW ch \in Names, NEW d \in Names, d # ch,
           channel'[d] = channel[d],
           NEW m, m.chan = ch, NEW S, out' = ToAll(S, m)
    PROVE  Informed(d)
<1>1. Members(d) \subseteq Fds
  BY MemberFacts DEF Members
<1>2. \A f \in Members(d) : \A i \in DOMAIN out'[f] : out'[f][i] = m
  BY <1>1, AllSaid
<1>3. \A f \in Members(d) : About(f, d) = {}
  BY <1>2 DEF About
<1>4. QED
  BY <1>3, QuietInformed

\* A line about ch to its members, who then know what changed.
LEMMA MembersInformed ==
    ASSUME IInv, RosterRight, NEW ch \in Names,
           channel'[ch].memberFds \subseteq channel[ch].memberFds,
           NEW m, m.chan = ch, m.cmd \in Relayed, NEW S, out' = ToAll(S, m),
           Updated(TrueRoster(ch), m) = TrueRoster(ch)',
           Members(ch) \subseteq S \/ TrueRoster(ch)' = TrueRoster(ch)
    PROVE  Informed(ch)
<1> SUFFICES ASSUME NEW f \in Members(ch) PROVE UpToDate(f, ch)
  BY DEF Informed, Members
<1>1. f \in Fds /\ f \in conns
  BY MemberFacts DEF Members
<1>2. QED
  BY <1>1, AllLearn

\* A line that names neither a member nor an operator.
LEMMA UnchangedRoster ==
    ASSUME NEW r, NEW m, m.cmd \notin {"JOIN", "KICK", "+o", "-o"}
    PROVE  Updated(r, m) = r
BY DEF Updated

\* The lists of a channel and the clients stay as they are.
LEMMA SameLists ==
    ASSUME UNCHANGED <<conns, client>>, NEW ch,
           channel'[ch].memberFds = channel[ch].memberFds,
           channel'[ch].operatorFds = channel[ch].operatorFds
    PROVE  TrueRoster(ch)' = TrueRoster(ch)
BY DEF TrueRoster, Nicknames, Members
-----------------------------------------------------------------------------
(* Nicknames stand for members: they have one each, and no two the same.   *)

LEMMA NicknamesWith ==
    ASSUME NEW S, NEW c \in conns
    PROVE  Nicknames(S \cup {c}) = Nicknames(S) \cup {client[c].nickname}
BY DEF Nicknames

LEMMA NicknamesWithout ==
    ASSUME IInv, NickUnique, NEW ch \in Names, NEW t \in Members(ch),
           NEW S \in SUBSET Members(ch)
    PROVE  Nicknames(S \ {t}) = Nicknames(S) \ {client[t].nickname}
<1>1. t \in conns /\ S \subseteq conns
  BY MemberFacts DEF Members
<1>2. ch \in chans
  BY DEF IInv, NoEmptyChannel, NewChannel, Members
<1>3. client[t].nickname # NoNick
  BY <1>1, <1>2 DEF IInv, NoStaleFd, RegisteredIffComplete, Members
<1>4. \A g \in S \ {t} : client[g].nickname # client[t].nickname
  BY <1>1, <1>3 DEF NickUnique
<1>5. QED
  BY <1>1, <1>4 DEF Nicknames

\* The lists of one channel change while the clients stay.
LEMMA ChangedLists ==
    ASSUME UNCHANGED <<conns, client>>, NEW ch, NEW new, channel'[ch] = new
    PROVE  TrueRoster(ch)' = [who |-> Nicknames(new.memberFds),
                              ops |-> Nicknames(new.operatorFds)]
BY DEF TrueRoster, Nicknames, Members

\* What the lines that change a roster make of the true one.
LEMMA UpdatedFields ==
    ASSUME NEW ch, NEW m
    PROVE  LET r == Updated(TrueRoster(ch), m)
               all == Nicknames(Members(ch))
               ops == Nicknames(channel[ch].operatorFds) IN
           /\ m.cmd = "JOIN" => r = [who |-> all \cup {m.by}, ops |-> ops]
           /\ m.cmd = "KICK" => r = [who |-> all \ m.who, ops |-> ops \ m.who]
           /\ m.cmd = "+o" => r = [who |-> all, ops |-> ops \cup m.who]
           /\ m.cmd = "-o" => r = [who |-> all, ops |-> ops \ m.who]
BY DEF Updated, TrueRoster
-----------------------------------------------------------------------------
(* The handlers.                                                           *)

LEMMA JoinInformed ==
    ASSUME IInv, RosterRight, NEW c \in conns, NEW ch \in Names \cup {Absent, Invalid},
           NEW k, joinHandler(c, ch, k), NEW d \in Names
    PROVE  Informed(d)
<1>1. c \in Fds /\ channel \in [Names -> ChannelState]
  BY DEF IInv, TypeOK
<1>2. CASE /\ UNCHANGED channel
           /\ JoinError(c, ch, k) # OK
           /\ out' = ToOne(c, Numeric(JoinError(c, ch, k), ch))
  <2> DEFINE code == JoinError(c, ch, k)
             m    == Numeric(code, ch)
  <2>1. code \notin Relayed \cup {"353"}
    BY <1>2 DEF JoinError, OK, Relayed, Flags
  <2>2. m.cmd = code /\ out' = ToOne(c, m)
    BY <1>2, NumericFields
  <2> HIDE DEF code, m
  <2>3. QED
    BY <1>1, <1>2, <2>1, <2>2, OneInformed
<1>3. CASE JoinError(c, ch, k) = OK
  <2> DEFINE chan  == Admit(channel[ch], c)
             m     == FromClient(c, "JOIN", ch, {})
             names == [Numeric("353", ch) EXCEPT !.who = Nicknames(chan.memberFds),
                                                 !.ops = Nicknames(chan.operatorFds)]
             end   == Numeric("366", ch)
  <2>1. ch \in Names
    BY <1>3 DEF JoinError, OK
  <2>2. /\ channel' = [channel EXCEPT ![ch] = chan] /\ UNCHANGED <<conns, client>>
        /\ out' = [ToAll(chan.memberFds, m) EXCEPT ![c] = @ \o NamesReply(c, ch, chan)]
    BY <1>3 DEF joinHandler, OK
  <2>3. m.chan = ch /\ m.cmd = "JOIN" /\ m.by = client[c].nickname
    BY DEF FromClient
  <2>4. /\ chan.memberFds = Members(ch) \cup {c}
        /\ Members(ch) # {} => chan.operatorFds = channel[ch].operatorFds
    BY <1>1, <2>1 DEF Admit, ChannelState, Members
  <2>5. Members(ch) \subseteq conns /\ conns \subseteq Fds
    BY <2>1, MemberFacts DEF Members
  <2>6. channel'[ch] = chan /\ \A e \in Names \ {ch} : channel'[e] = channel[e]
    BY <1>1, <2>1, <2>2
  <2>7. /\ names.cmd = "353" /\ names.chan = ch /\ end.cmd = "366"
        /\ names.who = Nicknames(chan.memberFds) /\ names.ops = Nicknames(chan.operatorFds)
    BY DEF Numeric, ChannelReplies
  <2>8. NamesReply(c, ch, chan) = <<names, end>>
    BY DEF NamesReply
  <2> HIDE DEF chan, m, names, end
  <2>9. TrueRoster(ch)' = [who |-> Nicknames(chan.memberFds),
                           ops |-> Nicknames(chan.operatorFds)]
    BY <2>2, <2>6, ChangedLists
  <2>10. ASSUME NEW f \in Fds
         PROVE  out'[f] = IF f = c THEN <<m>> \o <<names, end>>
                          ELSE IF f \in chan.memberFds \cap conns THEN <<m>> ELSE <<>>
    <3>1. /\ DOMAIN ToAll(chan.memberFds, m) = Fds
          /\ ToAll(chan.memberFds, m)[f] =
               IF f \in chan.memberFds \cap conns THEN <<m>> ELSE <<>>
      BY DEF ToAll
    <3>2. QED
      BY <2>2, <2>4, <2>8, <3>1
  <2>11. CASE d = ch
    <3> SUFFICES ASSUME NEW f \in chan.memberFds PROVE UpToDate(f, ch)
      BY <2>6, <2>11 DEF Informed
    <3>1. CASE f = c
      <4>1. out'[f] = <<m>> \o <<names, end>>
        BY <1>1, <2>10, <3>1
      <4>2. [who |-> names.who, ops |-> names.ops] = TrueRoster(ch)'
        BY <2>7, <2>9
      <4>3. end.cmd \notin Relayed \cup {"353"}
        BY <2>7 DEF Relayed, Flags
      <4>4. QED
        BY <2>1, <2>7, <4>1, <4>2, <4>3, ListLearnt
    <3>2. CASE f # c
      <4>1. f \in Members(ch) /\ out'[f] = <<m>>
        BY <2>4, <2>5, <2>10, <3>2
      <4>2. /\ Nicknames(chan.memberFds) = Nicknames(Members(ch)) \cup {m.by}
            /\ chan.operatorFds = channel[ch].operatorFds
        BY <2>3, <2>4, <4>1, NicknamesWith
      <4>3. Updated(TrueRoster(ch), m) = TrueRoster(ch)'
        BY <2>3, <2>9, <4>2, UpdatedFields
      <4>4. QED
        BY <2>1, <2>3, <4>1, <4>3, LineLearnt DEF Relayed
    <3>3. QED
      BY <3>1, <3>2
  <2>12. CASE d # ch
    <3>1. ch # d /\ Members(d) \subseteq Fds
      BY <2>12, MemberFacts DEF Members
    <3>2. out' = JoinReplies(c, chan.memberFds, m, ch, chan)
      BY <2>2 DEF JoinReplies
    <3>3. c \in chan.memberFds \cap conns
      BY <2>4
    <3>4. \A f \in Members(d) : \A i \in DOMAIN out'[f] :
             out'[f][i] = m \/ out'[f][i].chan = ch
      BY <1>1, <3>1, <3>2, <3>3, JoinSaid
    <3>5. \A f \in Members(d) : About(f, d) = {}
      BY <2>3, <3>1, <3>4 DEF About
    <3>6. QED
      BY <2>6, <2>12, <3>5, QuietInformed
  <2>13. QED
    BY <2>11, <2>12
<1>4. QED
  BY <1>2, <1>3 DEF joinHandler, Refuse, Answer, OK

LEMMA KickInformed ==
    ASSUME IInv, NickUnique, RosterRight, NEW c \in conns, NEW ch \in Names, NEW n,
           kickHandler(c, ch, n), NEW d \in Names
    PROVE  Informed(d)
<1>1. channel \in [Names -> ChannelState]
  BY DEF IInv, TypeOK
<1>2. ASSUME NEW t \in Members(ch), Expel(c, ch, t), UNCHANGED <<conns, client>>
      PROVE  Informed(d)
  <2> DEFINE left == RemoveMember(channel[ch], t)
             new  == IF left.memberFds = {} THEN NewChannel ELSE left
             m    == FromClient(c, "KICK", ch, {client[t].nickname})
  <2>1. /\ left.memberFds = Members(ch) \ {t}
        /\ left.operatorFds = channel[ch].operatorFds \ {t}
    BY <1>1 DEF RemoveMember, ChannelState, Members
  <2>2. channel' = [channel EXCEPT ![ch] = new] /\ out' = ToAll(Members(ch), m)
    BY <1>2 DEF Expel
  <2>3. m.chan = ch /\ m.cmd = "KICK" /\ m.who = {client[t].nickname}
    BY DEF FromClient
  <2>4. new.memberFds = left.memberFds /\ (left.memberFds # {} => new = left)
    BY DEF NewChannel
  <2> HIDE DEF left, new, m
  <2>5. channel'[ch] = new /\ \A e \in Names \ {ch} : channel'[e] = channel[e]
    BY <1>1, <2>2
  <2>6. CASE d # ch
    BY <2>2, <2>3, <2>5, <2>6, ElsewhereInformed
  <2>7. CASE d = ch /\ left.memberFds = {}
    BY <2>4, <2>5, <2>7 DEF Informed
  <2>8. CASE d = ch /\ left.memberFds # {}
    <3>1. /\ Nicknames(Members(ch) \ {t}) = Nicknames(Members(ch)) \ m.who
          /\ Nicknames(channel[ch].operatorFds \ {t}) =
                Nicknames(channel[ch].operatorFds) \ m.who
      BY <2>3, NicknamesWithout, MemberFacts DEF Members
    <3>2. TrueRoster(ch)' = [who |-> Nicknames(Members(ch) \ {t}),
                             ops |-> Nicknames(channel[ch].operatorFds \ {t})]
      BY <1>2, <2>1, <2>4, <2>5, <2>8, ChangedLists
    <3>3. Updated(TrueRoster(ch), m) = TrueRoster(ch)'
      <4>1. Updated(TrueRoster(ch), m) =
              [who |-> Nicknames(Members(ch)) \ m.who,
               ops |-> Nicknames(channel[ch].operatorFds) \ m.who]
        BY <2>3, UpdatedFields
      <4>2. QED
        BY <3>1, <3>2, <4>1
    <3>4. channel'[ch].memberFds \subseteq channel[ch].memberFds
      BY <2>1, <2>4, <2>5 DEF Members
    <3>5. Informed(ch)
      BY <2>2, <2>3, <3>3, <3>4, MembersInformed DEF Relayed
    <3>6. QED
      BY <2>8, <3>5
  <2>9. QED
    BY <2>6, <2>7, <2>8
<1>3. KickError(c, ch, n) # "353"
  BY DEF KickError, OK
<1>4. QED
  BY <1>2, <1>3, RefuseInformed DEF kickHandler, KickTarget

\* The invitation names the channel, but to one who is not a member of it.
LEMMA InviteInformed ==
    ASSUME IInv, RosterRight, NEW c \in conns, NEW ch \in Names, NEW n,
           inviteHandler(c, n, ch), NEW d \in Names
    PROVE  Informed(d)
<1>1. channel \in [Names -> ChannelState] /\ c \in Fds /\ conns \subseteq Fds
  BY DEF IInv, TypeOK
<1>2. ASSUME InviteError(c, n, ch) = OK, NEW t \in Named(n), t \notin Members(ch),
             channel' = [channel EXCEPT ![ch].invitedFds = @ \cup {t}],
             out' = [ToOne(t, FromClient(c, "INVITE", ch, {n}))
                       EXCEPT ![c] = @ \o <<Numeric("341", ch)>>]
      PROVE  Informed(d)
  <2> DEFINE m   == FromClient(c, "INVITE", ch, {n})
             inv == channel[ch].invitedFds \cup {t}
             end == Numeric("341", ch)
  <2>1. c \in Members(ch)
    BY <1>2, MemberFacts DEF InviteError, OK, Members
  <2>2. t # c /\ t \in Fds
    BY <1>1, <1>2, <2>1 DEF Named
  <2>3. m.chan = ch /\ end.cmd \notin Relayed \cup {"353"}
    BY FromClientFields, NumericFields DEF Relayed, Flags
  <2>4. out' = InviteReplies(c, t, m, ch)
    BY <1>2 DEF InviteReplies
  <2>5. /\ channel'[ch] = [channel[ch] EXCEPT !.invitedFds = inv]
        /\ \A e \in Names \ {ch} : channel'[e] = channel[e]
    BY <1>1, <1>2
  <2> HIDE DEF m, inv, end
  <2>6. \A e \in Names : /\ channel'[e].memberFds = channel[e].memberFds
                         /\ channel'[e].operatorFds = channel[e].operatorFds
    BY <1>1, <2>5 DEF ChannelState
  <2>7. Members(d) \subseteq Fds
    BY MemberFacts DEF Members
  <2>8. \A f \in Members(d) : \A i \in DOMAIN out'[f] :
            (f = t /\ out'[f][i] = m) \/ out'[f][i] = end
    BY <1>1, <2>2, <2>4, <2>7, InviteSaid DEF end
  <2>9. \A f \in Members(d) : About(f, d) = {}
    BY <1>2, <2>3, <2>8 DEF About
  <2>10. QED
    BY <2>6, <2>9, QuietInformed
<1>3. InviteError(c, n, ch) # "353"
  BY DEF InviteError, OK
<1>4. QED
  BY <1>2, <1>3, RefuseInformed DEF inviteHandler

\* A change of a channel, announced to those in S, that leaves its lists alone.
LEMMA SettingInformed ==
    ASSUME IInv, RosterRight, NEW ch \in Names, NEW new,
           new.memberFds = channel[ch].memberFds,
           new.operatorFds = channel[ch].operatorFds,
           NEW m, m.chan = ch, m.cmd \in Relayed \ {"JOIN", "KICK", "+o", "-o"},
           NEW S, channel' = [channel EXCEPT ![ch] = new], out' = ToAll(S, m),
           UNCHANGED <<conns, client>>, NEW d \in Names
    PROVE  Informed(d)
<1>1. channel'[ch] = new /\ \A e \in Names \ {ch} : channel'[e] = channel[e]
  BY DEF IInv, TypeOK
<1>2. CASE d # ch
  BY <1>1, <1>2, ElsewhereInformed
<1>3. CASE d = ch
  <2>1. TrueRoster(ch)' = TrueRoster(ch)
    BY <1>1, SameLists
  <2>2. Updated(TrueRoster(ch), m) = TrueRoster(ch)'
    BY <2>1, UnchangedRoster
  <2>3. channel'[ch].memberFds \subseteq channel[ch].memberFds
    BY <1>1
  <2>4. Informed(ch)
    BY <2>1, <2>2, <2>3, MembersInformed
  <2>5. QED
    BY <1>3, <2>4
<1>4. QED
  BY <1>2, <1>3

LEMMA TopicInformed ==
    ASSUME IInv, RosterRight, NEW c \in conns, NEW ch, NEW t, topicHandler(c, ch, t),
           NEW d \in Names
    PROVE  Informed(d)
<1>1. CASE TopicError(c, ch, t) \notin {OK, "332"}
  <2>1. TopicError(c, ch, t) # "353" /\ Refuse(c, TopicError(c, ch, t), ch)
    BY <1>1 DEF topicHandler, TopicError, OK
  <2>2. QED
    BY <2>1, RefuseInformed
<1>2. CASE TopicError(c, ch, t) = "332"
  <2> DEFINE m == TopicReply(ch)
  <2>1. out' = ToOne(c, m) /\ UNCHANGED channel
    BY <1>2 DEF topicHandler, Answer, OK
  <2>2. m.cmd = "332"
    BY DEF TopicReply, Numeric
  <2> HIDE DEF m
  <2>3. c \in Fds /\ m.cmd \notin Relayed \cup {"353"}
    BY <2>2 DEF Relayed, Flags, IInv, TypeOK
  <2>4. QED
    BY <2>1, <2>3, OneInformed
<1>3. CASE TopicError(c, ch, t) = OK
  <2> DEFINE new == [channel[ch] EXCEPT !.topic = t]
             m   == [FromClient(c, "TOPIC", ch, {}) EXCEPT !.arg = t]
             S   == Members(ch) \cup {c}
  <2>1. ch \in Names
    BY <1>3 DEF TopicError, OK, IInv, TypeOK
  <2>2. new.memberFds = channel[ch].memberFds /\ new.operatorFds = channel[ch].operatorFds
    BY <2>1 DEF IInv, TypeOK, ChannelState
  <2>3. m.chan = ch /\ m.cmd \in Relayed \ {"JOIN", "KICK", "+o", "-o"}
    BY ArgFields DEF Relayed
  <2>4. /\ channel' = [channel EXCEPT ![ch] = new] /\ out' = ToAll(S, m)
        /\ UNCHANGED <<conns, client>>
    BY <1>3 DEF topicHandler, Update, OK
  <2> HIDE DEF new, m, S
  <2>5. QED
    BY <2>1, <2>2, <2>3, <2>4, SettingInformed
<1>4. QED
  BY <1>1, <1>2, <1>3

LEMMA PrivmsgInformed ==
    ASSUME IInv, RosterRight, NEW c \in conns, NEW target, NEW text,
           privmsgHandler(c, target, text), NEW d \in Names
    PROVE  Informed(d)
<1>1. CASE PrivmsgError(c, target, text) # OK
  <2>1. PrivmsgError(c, target, text) # "353"
    BY DEF PrivmsgError, OK
  <2>2. QED
    BY <1>1, <2>1, RefuseInformed DEF privmsgHandler
<1>2. CASE /\ target \in Names
           /\ out' = ToAll(Audience(c, target), FromClient(c, "PRIVMSG", target, {}))
           /\ UNCHANGED <<conns, client, channel>>
  <2> DEFINE m == FromClient(c, "PRIVMSG", target, {})
             S == Audience(c, target)
  <2>1. m.chan = target /\ m.cmd \in Relayed \ {"JOIN", "KICK", "+o", "-o"}
    BY FromClientFields DEF Relayed
  <2>2. out' = ToAll(S, m)
    BY <1>2
  <2> HIDE DEF m, S
  <2>3. channel' = [channel EXCEPT ![target] = channel[target]]
    BY <1>2 DEF IInv, TypeOK
  <2>4. QED
    BY <1>2, <2>1, <2>2, <2>3, SettingInformed
<1>3. ASSUME NEW t \in Named(target), UNCHANGED channel,
             out' = ToOne(t, FromClient(c, "PRIVMSG", Absent, {target}))
      PROVE  Informed(d)
  <2> DEFINE m == FromClient(c, "PRIVMSG", Absent, {target})
  <2>1. m.chan = Absent
    BY FromClientFields
  <2>2. t \in Fds /\ out' = ToOne(t, m)
    BY <1>3 DEF Named, IInv, TypeOK
  <2> HIDE DEF m
  <2>3. QED
    BY <1>3, <2>1, <2>2, OneInformed
<1>4. QED
  BY <1>1, <1>2, <1>3 DEF privmsgHandler

\* MODE +o and -o change the operators and name the one who is concerned.
LEMMA RankInformed ==
    ASSUME IInv, NickUnique, RosterRight, NEW c \in conns, NEW ch \in Names,
           NEW t \in Members(ch), NEW flag, NEW ops,
           \/ flag = "+o" /\ ops = channel[ch].operatorFds \cup {t}
           \/ flag = "-o" /\ ops = channel[ch].operatorFds \ {t},
           ChangeMode(c, ch, flag, [channel[ch] EXCEPT !.operatorFds = ops],
                      {client[t].nickname}),
           NEW d \in Names
    PROVE  Informed(d)
<1> DEFINE new == [channel[ch] EXCEPT !.operatorFds = ops]
           m   == [FromClient(c, flag, ch, {client[t].nickname})
                     EXCEPT !.arg = Setting(flag, new)]
<1>1. channel \in [Names -> ChannelState] /\ t \in conns
  BY MemberFacts DEF IInv, TypeOK, Members
<1>2. /\ channel' = [channel EXCEPT ![ch] = new] /\ out' = ToAll(Members(ch), m)
      /\ UNCHANGED <<conns, client>>
  BY DEF ChangeMode, Update
<1>3. new.memberFds = channel[ch].memberFds /\ new.operatorFds = ops
  BY <1>1 DEF ChannelState
<1>4. /\ m.chan = ch /\ m.cmd = flag /\ m.who = {client[t].nickname}
      /\ m.cmd \in Relayed
  BY ArgFields DEF Relayed, Flags
<1> HIDE DEF new, m
<1>5. channel'[ch] = new /\ \A e \in Names \ {ch} : channel'[e] = channel[e]
  BY <1>1, <1>2
<1>6. CASE d # ch
  BY <1>2, <1>4, <1>5, <1>6, ElsewhereInformed
<1>7. CASE d = ch
  <2>1. TrueRoster(ch)' = [who |-> Nicknames(Members(ch)), ops |-> Nicknames(ops)]
    BY <1>2, <1>3, <1>5, ChangedLists DEF Members
  <2>2. CASE flag = "+o"
    <3>1. Nicknames(ops) = Nicknames(channel[ch].operatorFds) \cup m.who
      BY <1>1, <1>4, <2>2, NicknamesWith
    <3>2. Updated(TrueRoster(ch), m) =
            [who |-> Nicknames(Members(ch)),
             ops |-> Nicknames(channel[ch].operatorFds) \cup m.who]
      BY <1>4, <2>2, UpdatedFields
    <3>3. QED
      BY <1>2, <1>3, <1>4, <1>5, <1>7, <2>1, <2>2, <3>1, <3>2, MembersInformed
  <2>3. CASE flag = "-o"
    <3>1. Nicknames(ops) = Nicknames(channel[ch].operatorFds) \ m.who
      BY <1>4, <2>3, NicknamesWithout, MemberFacts DEF Members
    <3>2. Updated(TrueRoster(ch), m) =
            [who |-> Nicknames(Members(ch)),
             ops |-> Nicknames(channel[ch].operatorFds) \ m.who]
      BY <1>4, <2>3, UpdatedFields
    <3>3. QED
      BY <1>2, <1>3, <1>4, <1>5, <1>7, <2>1, <2>3, <3>1, <3>2, MembersInformed
  <2>4. QED
    BY <2>2, <2>3
<1>8. QED
  BY <1>6, <1>7

LEMMA ModesInformed ==
    ASSUME IInv, NickUnique, RosterRight, NEW c \in conns, NEW ch \in Names,
           NEW flag \in Flags \cup {Absent, Invalid}, modes(c, ch, flag), NEW d \in Names
    PROVE  Informed(d)
<1>1. channel[ch] \in ChannelState
  BY DEF IInv, TypeOK
<1>2. ASSUME NEW code, Refuse(c, code, ch), code # "353" PROVE Informed(d)
  BY <1>2, RefuseInformed
<1>3. ASSUME NEW new, NEW who, NEW f \in Flags \ {"+o", "-o"},
             new.memberFds = channel[ch].memberFds,
             new.operatorFds = channel[ch].operatorFds, ChangeMode(c, ch, f, new, who)
      PROVE  Informed(d)
  <2> DEFINE m == [FromClient(c, f, ch, who) EXCEPT !.arg = Setting(f, new)]
             S == Members(ch)
  <2>1. m.chan = ch /\ m.cmd \in Relayed \ {"JOIN", "KICK", "+o", "-o"}
    BY <1>3, ArgFields DEF Relayed, Flags
  <2>2. /\ channel' = [channel EXCEPT ![ch] = new] /\ out' = ToAll(S, m)
        /\ UNCHANGED <<conns, client>>
    BY <1>3 DEF ChangeMode, Update
  <2> HIDE DEF m, S
  <2>3. QED
    BY <1>3, <2>1, <2>2, SettingInformed
<1>4. ASSUME NEW v
      PROVE  /\ [channel[ch] EXCEPT !.invite_only = v].memberFds = channel[ch].memberFds
             /\ [channel[ch] EXCEPT !.invite_only = v].operatorFds = channel[ch].operatorFds
             /\ [channel[ch] EXCEPT !.change_topic = v].memberFds = channel[ch].memberFds
             /\ [channel[ch] EXCEPT !.change_topic = v].operatorFds = channel[ch].operatorFds
             /\ [channel[ch] EXCEPT !.key = v].memberFds = channel[ch].memberFds
             /\ [channel[ch] EXCEPT !.key = v].operatorFds = channel[ch].operatorFds
             /\ [channel[ch] EXCEPT !.limit = v].memberFds = channel[ch].memberFds
             /\ [channel[ch] EXCEPT !.limit = v].operatorFds = channel[ch].operatorFds
  BY <1>1 DEF ChannelState
<1>5. CASE invite_only(c, ch, flag)
  BY <1>3, <1>4, <1>5 DEF invite_only, Flags
<1>6. CASE let_s_change_the_topic(c, ch, flag)
  BY <1>3, <1>4, <1>6 DEF let_s_change_the_topic, Flags
<1>7. ASSUME NEW k, secret_key(c, ch, flag, k) PROVE Informed(d)
  BY <1>2, <1>3, <1>4, <1>7 DEF secret_key, Flags
<1>8. ASSUME NEW l, limited_usage(c, ch, flag, l) PROVE Informed(d)
  BY <1>2, <1>3, <1>4, <1>8 DEF limited_usage, Flags
<1>9. ASSUME NEW t \in Members(ch), Op(c, ch, t) \/ Deop(c, ch, t) PROVE Informed(d)
  <2>1. CASE out' = NoReply /\ UNCHANGED channel
    BY <2>1, SilentInformed
  <2>2. ASSUME NEW ops, ops = channel[ch].operatorFds \cup {t},
               ChangeMode(c, ch, "+o", [channel[ch] EXCEPT !.operatorFds = ops],
                          {client[t].nickname})
        PROVE  Informed(d)
    BY <2>2, RankInformed
  <2>3. ASSUME NEW ops, ops = channel[ch].operatorFds \ {t},
               ChangeMode(c, ch, "-o", [channel[ch] EXCEPT !.operatorFds = ops],
                          {client[t].nickname})
        PROVE  Informed(d)
    BY <2>3, RankInformed
  <2>4. QED
    BY <1>2, <1>9, <2>1, <2>2, <2>3 DEF Op, Deop
<1>10. ASSUME NEW n, operators(c, ch, flag, n) PROVE Informed(d)
  BY <1>2, <1>9, <1>10 DEF operators
<1>11. ModeError(c, ch, flag) # "353"
  BY DEF ModeError, OK
<1>12. QED
  BY <1>2, <1>5, <1>6, <1>7, <1>8, <1>10, <1>11 DEF modes

\* PASS, NICK and USER say nothing about a channel.  Who changes its nickname makes
\* the rosters of its channels Unknown.
LEMMA RegistrationInformed ==
    ASSUME IInv, RosterRight, NEW c \in conns, NEW d \in Names,
           \/ \E pw : passHundler(c, pw)
           \/ \E n : nickHundler(c, n)
           \/ \E enough : userHandler(c, enough)
    PROVE  Informed(d)
<1>1. c \in Fds
  BY DEF IInv, TypeOK
<1>2. \A n : NickLine(n).chan = Absent
  BY DEF NickLine, Numeric, ChannelReplies
<1>3. /\ UNCHANGED channel
      /\ out' = NoReply \/ \E m : m.chan = Absent /\ out' = ToOne(c, m)
  <2>1. ASSUME NEW pw, passHundler(c, pw)
        PROVE  /\ UNCHANGED channel
               /\ out' = NoReply \/ \E m : m.chan = Absent /\ out' = ToOne(c, m)
    BY <2>1, NumericFields DEF passHundler, Refuse, Answer
  <2>2. ASSUME NEW n, nickHundler(c, n)
        PROVE  /\ UNCHANGED channel
               /\ out' = NoReply \/ \E m : m.chan = Absent /\ out' = ToOne(c, m)
    BY <1>2, <2>2, NumericFields DEF nickHundler, NickReply, Refuse, Answer
  <2>3. ASSUME NEW enough, userHandler(c, enough)
        PROVE  /\ UNCHANGED channel
               /\ out' = NoReply \/ \E m : m.chan = Absent /\ out' = ToOne(c, m)
    BY <2>3, NumericFields DEF userHandler, Refuse, Answer
  <2>4. QED
    BY <2>1, <2>2, <2>3
<1>4. QED
  BY <1>1, <1>3, SilentInformed, OneInformed

\* Who leaves makes the rosters of its channels Unknown; the others stay.
LEMMA DisconnectInformed ==
    ASSUME IInv, RosterRight, NEW f \in conns, disconnect(f), NEW d \in Names
    PROVE  Informed(d)
<1>1. channel[d] \in ChannelState
  BY DEF IInv, TypeOK
<1>2. CASE f \in Members(d)
  BY <1>2 DEF Informed, Unannounced, disconnect
<1>3. CASE f \notin Members(d)
  <2>1. channel[d].operatorFds \subseteq Members(d)
    BY MemberFacts DEF Members
  <2>2. /\ Leave(channel[d], f).memberFds = channel[d].memberFds
        /\ Leave(channel[d], f).operatorFds = channel[d].operatorFds
    BY <1>1, <1>3, <2>1 DEF Leave, RemoveInvite, RemoveMember, ChannelState, Members
  <2>3. channel'[d] = IF d \in chans' THEN Leave(channel[d], f) ELSE NewChannel
    BY DEF disconnect
  <2>4. d \notin chans' => channel[d].memberFds = {} /\ channel[d].operatorFds = {}
    BY <2>1, <2>2 DEF disconnect, IInv, NoEmptyChannel, NewChannel, Members
  <2>5. out' = NoReply
    BY DEF disconnect
  <2>6. /\ channel'[d].memberFds = channel[d].memberFds
        /\ channel'[d].operatorFds = channel[d].operatorFds
    BY <2>2, <2>3, <2>4 DEF NewChannel
  <2>7. QED
    BY <2>5, <2>6, SilentInformed
<1>4. QED
  BY <1>2, <1>3

LEMMA NextInformed ==
    ASSUME IInv, NickUnique, RosterRight, Next, NEW d \in Names
    PROVE  Informed(d)
<1>1. ASSUME NEW f \in Fds, connect(f) PROVE Informed(d)
  BY <1>1, SilentInformed DEF connect
<1>2. ASSUME NEW c \in conns, dispatchCommand(c) PROVE Informed(d)
  <2>1. unknownCommand(c) => Informed(d)
    BY RefuseInformed DEF unknownCommand
  <2>2. QED
    BY <1>2, <2>1, RegistrationInformed, JoinInformed, PrivmsgInformed, TopicInformed,
       KickInformed, InviteInformed, ModesInformed DEF dispatchCommand
<1>3. QED
  BY <1>1, <1>2, DisconnectInformed DEF Next

LEMMA NextRosterRight ==
    ASSUME IInv, NickUnique, RosterRight, [RosterNext]_rosterVars
    PROVE  RosterRight'
<1>1. CASE UNCHANGED rosterVars
  BY <1>1 DEF rosterVars, vars, RosterRight, TrueRoster, Nicknames, Members
<1>2. CASE RosterNext
  <2> SUFFICES ASSUME NEW ch \in Names, NEW f \in channel'[ch].memberFds,
                      known'[f][ch] # Unknown
               PROVE  known'[f][ch] = TrueRoster(ch)'
    BY DEF RosterRight, Members
  <2>1. IInv'
    BY <1>2, NextIInv DEF RosterNext
  <2>2. f \in Fds
    BY <2>1 DEF IInv, TypeOK, ChannelState
  <2>3. ~Unannounced(ch) /\ known'[f][ch] = LearnAll(f, ch)
    BY <1>2, <2>2 DEF RosterNext
  <2>4. UpToDate(f, ch)
    BY <1>2, <2>3, NextInformed DEF RosterNext, Informed
  <2>5. QED
    BY <2>3, <2>4 DEF UpToDate
<1>3. QED
  BY <1>1, <1>2

\* A client knows its channels, whatever sequence of commands the clients send: the
\* invariant of IrcCommands and the uniqueness of nicknames make every line that
\* changes a roster change it as the server's lists changed.
THEOREM RostersRight == RosterSpec => []RosterRight
<1>1. RosterInit => IInv /\ NickUnique /\ RosterRight
  BY InitIInv DEF RosterInit, Init, NickUnique, RosterRight, NewChannel, Members
<1>2. [RosterNext]_rosterVars => [Next]_vars
  BY DEF RosterNext, rosterVars
<1>3. /\ IInv /\ NickUnique /\ RosterRight /\ [RosterNext]_rosterVars
      => IInv' /\ NickUnique' /\ RosterRight'
  BY <1>2, NextIInv, NextNickUnique, NextRosterRight
<1>4. QED
  BY <1>1, <1>3, PTL DEF RosterSpec
=============================================================================
