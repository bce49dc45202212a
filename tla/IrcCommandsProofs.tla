------------------------- MODULE IrcCommandsProofs -------------------------
(***************************************************************************)
(* Theorems about IrcCommands for every set of descriptors, nicknames,     *)
(* channels, keys and topics, checked by TLAPS.                            *)
(*                                                                         *)
(* The handlers change the state in six ways only, and each has its lemma: *)
(* nothing but the replies (Steady), one channel whose members stay        *)
(* (Update), a member more (Admit), a member less (Expel), a client record *)
(* (Register) and a connection that opens or closes.                       *)
(***************************************************************************)
EXTENDS IrcCommands, FiniteSetTheorems, TLAPS

Replies == [Fds -> Seq(Message)]
-----------------------------------------------------------------------------
(* The replies have their type.                                            *)

LEMMA NumericType ==
    ASSUME NEW code \in Replied \cup Relayed, NEW ch,
           code \in ChannelReplies => ch \in Names \cup {Absent, Invalid}
    PROVE  Numeric(code, ch) \in Message
BY DEF Numeric, Message

LEMMA ArgType ==
    ASSUME NEW m \in Message,
           NEW arg \in Topics \cup {NoTopic} \cup Keys \cup {NoKey}
                          \cup (0 .. MaxLimit) \cup {Absent}
    PROVE  [m EXCEPT !.arg = arg] \in Message
BY DEF Message

LEMMA FromClientType ==
    ASSUME TypeOK, NEW c \in Fds, NEW cmd \in Relayed,
           NEW ch \in Names \cup {Absent}, NEW who \in SUBSET (Nicks \cup {NoNick})
    PROVE  FromClient(c, cmd, ch, who) \in Message
<1>1. client[c].nickname \in Nicks \cup {NoNick}
  BY DEF TypeOK, ClientState
<1>2. QED
  BY <1>1 DEF FromClient, Message

LEMMA NoReplyType == NoReply \in Replies
BY DEF NoReply, Replies

LEMMA ToOneType ==
    ASSUME NEW f \in Fds, NEW m \in Message
    PROVE  ToOne(f, m) \in Replies
<1>1. <<m>> \in Seq(Message)
  OBVIOUS
<1>2. QED
  BY <1>1, NoReplyType DEF ToOne, Replies

LEMMA ToAllType ==
    ASSUME NEW S, NEW m \in Message
    PROVE  ToAll(S, m) \in Replies
BY DEF ToAll, Replies

\* Two replies in one step: the second is appended to what its receiver has.
LEMMA AppendType ==
    ASSUME NEW r \in Replies, NEW f \in Fds, NEW s \in Seq(Message)
    PROVE  [r EXCEPT ![f] = @ \o s] \in Replies
BY DEF Replies

LEMMA NicknamesType ==
    ASSUME TypeOK, NEW S
    PROVE  Nicknames(S) \subseteq Nicks \cup {NoNick}
BY DEF Nicknames, TypeOK, ClientState
-----------------------------------------------------------------------------
(* The invariant, one lemma per kind of effect.                            *)

LEMMA NewClientType == NewClient \in ClientState
BY DEF NewClient, ClientState

LEMMA NewChannelType == NewChannel \in ChannelState
BY StateAssumption DEF NewChannel, ChannelState

\* Steady: nothing but the replies changes.
LEMMA SteadyKeepsIInv ==
    ASSUME IInv, UNCHANGED <<conns, client, chans, channel>>, out' \in Replies
    PROVE  IInv'
BY DEF IInv, TypeOK, ClosedIsNew, NoStaleFd, OperatorsAreMembers,
       NoEmptyChannel, RegisteredIffComplete, Replies

LEMMA AnswerKeepsIInv ==
    ASSUME IInv, NEW c \in Fds, NEW m \in Message, Answer(c, m)
    PROVE  IInv'
<1>1. out' \in Replies
  BY ToOneType DEF Answer
<1>2. QED
  BY <1>1, SteadyKeepsIInv DEF Answer

LEMMA RefuseKeepsIInv ==
    ASSUME IInv, NEW c \in Fds, NEW code \in Replied \cup Relayed, NEW ch,
           code \in ChannelReplies => ch \in Names \cup {Absent, Invalid},
           Refuse(c, code, ch)
    PROVE  IInv'
BY NumericType, AnswerKeepsIInv DEF Refuse

\* Update: one existing channel changes and keeps its members.
LEMMA UpdateKeepsIInv ==
    ASSUME IInv,
           NEW ch \in chans, NEW chan \in ChannelState,
           chan.memberFds = channel[ch].memberFds,
           chan.operatorFds \subseteq chan.memberFds,
           chan.invitedFds \subseteq conns,
           channel' = [channel EXCEPT ![ch] = chan],
           UNCHANGED <<conns, client, chans>>, out' \in Replies
    PROVE  IInv'
<1>1. ch \in Names
  BY DEF IInv, TypeOK
<1>2. TypeOK'
  BY <1>1 DEF IInv, TypeOK, Replies
<1>3. NoStaleFd'
  BY <1>1 DEF IInv, TypeOK, NoStaleFd
<1>4. OperatorsAreMembers'
  BY <1>1 DEF IInv, TypeOK, OperatorsAreMembers
<1>5. NoEmptyChannel'
  BY <1>1 DEF IInv, TypeOK, NoEmptyChannel
<1>6. ClosedIsNew' /\ RegisteredIffComplete'
  BY DEF IInv, ClosedIsNew, RegisteredIffComplete
<1>7. QED
  BY <1>2, <1>3, <1>4, <1>5, <1>6 DEF IInv

\* Register: the record of one connected client changes.
LEMMA RegisterKeepsIInv ==
    ASSUME IInv,
           NEW c \in conns, NEW r \in ClientState,
           client[c].registered => r.registered,
           r.registered <=> r.passRecived /\ r.nicknameReceived /\ r.userRecived,
           r.nicknameReceived \/ r.userRecived => r.passRecived,
           r.nicknameReceived <=> r.nickname # NoNick,
           client' = [client EXCEPT ![c] = r],
           UNCHANGED <<conns, chans, channel>>, out' \in Replies
    PROVE  IInv'
<1>1. c \in Fds
  BY DEF IInv, TypeOK
<1>2. TypeOK'
  BY <1>1 DEF IInv, TypeOK, Replies
<1>3. NoStaleFd'
  BY <1>1 DEF IInv, TypeOK, NoStaleFd, ChannelState
<1>4. RegisteredIffComplete'
  BY <1>1 DEF IInv, TypeOK, RegisteredIffComplete
<1>5. ClosedIsNew'
  BY <1>1 DEF IInv, TypeOK, ClosedIsNew
<1>6. OperatorsAreMembers' /\ NoEmptyChannel'
  BY DEF IInv, OperatorsAreMembers, NoEmptyChannel
<1>7. QED
  BY <1>2, <1>3, <1>4, <1>5, <1>6 DEF IInv

\* A connection opens.
LEMMA ConnectKeepsIInv ==
    ASSUME IInv, NEW f \in Fds, connect(f)
    PROVE  IInv'
<1>1. TypeOK'
  BY NewClientType, NoReplyType DEF IInv, TypeOK, connect, Replies
<1>2. ClosedIsNew'
  BY DEF IInv, TypeOK, ClosedIsNew, connect
<1>3. NoStaleFd'
  BY DEF IInv, TypeOK, NoStaleFd, connect, ChannelState
<1>4. RegisteredIffComplete'
  BY DEF IInv, TypeOK, RegisteredIffComplete, connect, NewClient
<1>5. OperatorsAreMembers' /\ NoEmptyChannel'
  BY DEF IInv, OperatorsAreMembers, NoEmptyChannel, connect
<1>6. QED
  BY <1>1, <1>2, <1>3, <1>4, <1>5 DEF IInv

LEMMA LeaveType ==
    ASSUME NEW chan \in ChannelState, NEW f
    PROVE  /\ Leave(chan, f) \in ChannelState
           /\ Leave(chan, f).memberFds = chan.memberFds \ {f}
           /\ Leave(chan, f).operatorFds = chan.operatorFds \ {f}
           /\ Leave(chan, f).invitedFds = chan.invitedFds \ {f}
BY DEF Leave, RemoveMember, RemoveInvite, ChannelState

\* A connection closes: leave_chanels goes through every channel.
LEMMA DisconnectKeepsIInv ==
    ASSUME IInv, NEW f \in conns, disconnect(f)
    PROVE  IInv'
<1>1. /\ conns' = conns \ {f}
      /\ chans' \subseteq chans
      /\ \A ch \in chans' : channel'[ch] = Leave(channel[ch], f)
      /\ \A ch \in chans' : channel[ch] \in ChannelState
  BY DEF IInv, TypeOK, disconnect
<1>2. TypeOK'
  <2>1. channel' \in [Names -> ChannelState]
    BY LeaveType, NewChannelType DEF IInv, TypeOK, disconnect
  <2>2. QED
    BY <2>1, NewClientType, NoReplyType DEF IInv, TypeOK, disconnect, Replies
<1>3. ClosedIsNew'
  BY DEF IInv, TypeOK, ClosedIsNew, disconnect
<1>4. NoStaleFd'
  <2> SUFFICES ASSUME NEW ch \in chans'
               PROVE  /\ channel'[ch].memberFds \subseteq conns'
                      /\ channel'[ch].invitedFds \subseteq conns'
                      /\ \A g \in channel'[ch].memberFds : client'[g].registered
    BY DEF NoStaleFd
  <2>1. /\ channel[ch].memberFds \subseteq conns
        /\ channel[ch].invitedFds \subseteq conns
        /\ \A g \in channel[ch].memberFds : client[g].registered
    BY <1>1 DEF IInv, NoStaleFd
  <2>2. /\ channel'[ch].memberFds = channel[ch].memberFds \ {f}
        /\ channel'[ch].invitedFds = channel[ch].invitedFds \ {f}
    BY <1>1, LeaveType
  <2>3. \A g \in conns \ {f} : client'[g] = client[g]
    BY DEF IInv, TypeOK, disconnect
  <2>4. QED
    BY <1>1, <2>1, <2>2, <2>3
<1>5. OperatorsAreMembers'
  BY <1>1, LeaveType DEF IInv, OperatorsAreMembers
<1>6. NoEmptyChannel'
  BY DEF IInv, TypeOK, NoEmptyChannel, disconnect
<1>7. RegisteredIffComplete'
  BY DEF IInv, TypeOK, RegisteredIffComplete, disconnect
<1>8. QED
  BY <1>2, <1>3, <1>4, <1>5, <1>6, <1>7 DEF IInv

\* Admit: JOIN without refusal.
LEMMA AdmitKeepsIInv ==
    ASSUME IInv, NEW c \in conns, NEW ch \in Names,
           client[c].registered,
           chans' = chans \cup {ch},
           channel' = [channel EXCEPT ![ch] = Admit(channel[ch], c)],
           UNCHANGED <<conns, client>>, out' \in Replies
    PROVE  IInv'
<1> DEFINE chan == Admit(channel[ch], c)
<1>1. c \in Fds /\ channel[ch] \in ChannelState
  BY DEF IInv, TypeOK
<1>2. /\ chan \in ChannelState
      /\ chan.memberFds = channel[ch].memberFds \cup {c}
      /\ chan.operatorFds \subseteq channel[ch].operatorFds \cup {c}
      /\ chan.invitedFds = channel[ch].invitedFds
  BY <1>1 DEF Admit, ChannelState
<1>3. /\ channel[ch].memberFds \subseteq conns
      /\ channel[ch].invitedFds \subseteq conns
      /\ \A f \in channel[ch].memberFds : client[f].registered
      /\ channel[ch].operatorFds \subseteq channel[ch].memberFds
  BY DEF IInv, NoStaleFd, OperatorsAreMembers, NoEmptyChannel, NewChannel
<1> HIDE DEF chan
<1>4. channel' = [channel EXCEPT ![ch] = chan]
  BY DEF chan
<1>5. TypeOK'
  BY <1>2, <1>4 DEF IInv, TypeOK, Replies
<1>6. NoStaleFd'
  BY <1>2, <1>3, <1>4 DEF IInv, TypeOK, NoStaleFd
<1>7. OperatorsAreMembers'
  BY <1>2, <1>3, <1>4 DEF IInv, TypeOK, OperatorsAreMembers
<1>8. NoEmptyChannel'
  BY <1>2, <1>4 DEF IInv, TypeOK, NoEmptyChannel
<1>9. ClosedIsNew' /\ RegisteredIffComplete'
  BY DEF IInv, ClosedIsNew, RegisteredIffComplete
<1>10. QED
  BY <1>5, <1>6, <1>7, <1>8, <1>9 DEF IInv

\* Expel: KICK without refusal.
LEMMA ExpelKeepsIInv ==
    ASSUME IInv, NEW c \in conns, NEW ch \in chans, NEW t \in conns,
           Expel(c, ch, t), UNCHANGED <<conns, client>>
    PROVE  IInv'
<1> DEFINE chan == RemoveMember(channel[ch], t)
<1>1. c \in Fds /\ t \in Fds /\ ch \in Names /\ channel[ch] \in ChannelState
  BY DEF IInv, TypeOK
<1>2. /\ chan \in ChannelState
      /\ chan.memberFds = channel[ch].memberFds \ {t}
      /\ chan.operatorFds = channel[ch].operatorFds \ {t}
      /\ chan.invitedFds = channel[ch].invitedFds
  BY <1>1 DEF RemoveMember, ChannelState
<1>3. out' \in Replies
  <2>1. {client[t].nickname} \in SUBSET (Nicks \cup {NoNick})
    BY <1>1 DEF IInv, TypeOK, ClientState
  <2>2. FromClient(c, "KICK", ch, {client[t].nickname}) \in Message
    <3>1. TypeOK /\ "KICK" \in Relayed /\ ch \in Names \cup {Absent}
      BY <1>1 DEF IInv, Relayed
    <3>2. QED
      BY <1>1, <2>1, <3>1, FromClientType
  <2>3. QED
    BY <2>2, ToAllType DEF Expel
<1>4. /\ chans' = IF chan.memberFds = {} THEN chans \ {ch} ELSE chans
      /\ channel' = [channel EXCEPT ![ch] =
                       IF chan.memberFds = {} THEN NewChannel ELSE chan]
  BY DEF Expel
<1> HIDE DEF chan
<1>5. TypeOK'
  BY <1>1, <1>2, <1>3, <1>4, NewChannelType DEF IInv, TypeOK, Replies
<1>6. NoStaleFd'
  BY <1>1, <1>2, <1>4 DEF IInv, TypeOK, NoStaleFd
<1>7. OperatorsAreMembers'
  BY <1>1, <1>2, <1>4 DEF IInv, TypeOK, OperatorsAreMembers
<1>8. NoEmptyChannel'
  BY <1>1, <1>2, <1>4 DEF IInv, TypeOK, NoEmptyChannel
<1>9. ClosedIsNew' /\ RegisteredIffComplete'
  BY DEF IInv, ClosedIsNew, RegisteredIffComplete
<1>10. QED
  BY <1>5, <1>6, <1>7, <1>8, <1>9 DEF IInv
-----------------------------------------------------------------------------
(* The handlers of Registration keep the invariant.                        *)

LEMMA PassKeepsIInv ==
    ASSUME IInv, NEW c \in conns, NEW pw, passHundler(c, pw)
    PROVE  IInv'
<1>1. c \in Fds /\ client[c] \in ClientState
  BY DEF IInv, TypeOK
<1>2. CASE PassError(c, pw) # OK
  <2>1. PassError(c, pw) \in Replied /\ Refuse(c, PassError(c, pw), Absent)
    BY <1>2 DEF passHundler, PassError, Replied
  <2>2. QED
    BY <1>1, <2>1, RefuseKeepsIInv
<1>3. CASE PassError(c, pw) = OK
  <2> DEFINE r == [client[c] EXCEPT !.passRecived = TRUE]
  <2>1. ~client[c].registered
    BY <1>3 DEF PassError, OK
  <2>2. client' = [client EXCEPT ![c] = r] /\ out' \in Replies
    BY <1>1, <1>3, NoReplyType DEF passHundler, IInv, TypeOK
  <2>3. UNCHANGED <<conns, chans, channel>>
    BY <1>3 DEF passHundler
  <2>4. /\ r \in ClientState /\ r.passRecived
        /\ r.registered = client[c].registered
        /\ r.nicknameReceived = client[c].nicknameReceived
        /\ r.userRecived = client[c].userRecived
        /\ r.nickname = client[c].nickname
    BY <1>1 DEF ClientState
  <2>5. /\ ~(r.nicknameReceived /\ r.userRecived)
        /\ r.nicknameReceived <=> r.nickname # NoNick
    BY <2>1, <2>4 DEF IInv, RegisteredIffComplete
  <2> HIDE DEF r
  <2>6. QED
    BY <2>1, <2>2, <2>3, <2>4, <2>5, RegisterKeepsIInv
<1>4. QED
  BY <1>2, <1>3

LEMMA NickKeepsIInv ==
    ASSUME IInv, NEW c \in conns, NEW n \in Nicks \cup {Absent, Invalid},
           nickHundler(c, n)
    PROVE  IInv'
<1>1. c \in Fds /\ client[c] \in ClientState
  BY DEF IInv, TypeOK
<1>2. CASE NickError(c, n) # OK
  <2>1. NickError(c, n) \in Replied /\ Refuse(c, NickError(c, n), Absent)
    BY <1>2 DEF nickHundler, NickError, Replied
  <2>2. QED
    BY <1>1, <2>1, RefuseKeepsIInv
<1>3. CASE NickError(c, n) = OK
  <2> DEFINE r == SetNickname(client[c], n)
  <2>1. n \in Nicks /\ client[c].passRecived
    BY <1>3 DEF NickError, OK
  <2>2. client' = [client EXCEPT ![c] = r]
    BY <1>3 DEF nickHundler
  <2>3. out' \in Replies
    <3>1. NickLine(n) \in Message
      BY <2>1 DEF NickLine, Numeric, Message, Relayed, ChannelReplies
    <3>2. Numeric("001", Absent) \in Message
      BY NumericType DEF Replied
    <3>3. QED
      BY <1>1, <1>3, <3>1, <3>2, ToOneType, NoReplyType DEF nickHundler, NickReply
  <2>4. UNCHANGED <<conns, chans, channel>>
    BY <1>3 DEF nickHundler
  <2>5. /\ r \in ClientState
        /\ r.nickname = n /\ r.nicknameReceived
        /\ r.passRecived = client[c].passRecived
        /\ r.userRecived = client[c].userRecived
        /\ r.registered = (client[c].registered \/ client[c].userRecived)
    BY <1>1, <2>1 DEF SetNickname, ClientState
  <2>6. client[c].registered => client[c].userRecived
    BY DEF IInv, RegisteredIffComplete
  <2>7. n # NoNick
    BY <2>1, StateAssumption
  <2> HIDE DEF r
  <2>8. QED
    BY <2>1, <2>2, <2>3, <2>4, <2>5, <2>6, <2>7, RegisterKeepsIInv
<1>4. QED
  BY <1>2, <1>3

LEMMA UserKeepsIInv ==
    ASSUME IInv, NEW c \in conns, NEW enough \in BOOLEAN, userHandler(c, enough)
    PROVE  IInv'
<1>1. c \in Fds /\ client[c] \in ClientState
  BY DEF IInv, TypeOK
<1>2. CASE UserError(c, enough) # OK
  <2>1. UserError(c, enough) \in Replied /\ Refuse(c, UserError(c, enough), Absent)
    BY <1>2 DEF userHandler, UserError, Replied
  <2>2. QED
    BY <1>1, <2>1, RefuseKeepsIInv
<1>3. CASE UserError(c, enough) = OK
  <2> DEFINE r == SetUser(client[c])
  <2>1. ~client[c].registered /\ client[c].passRecived
    BY <1>3 DEF UserError, OK
  <2>2. client' = [client EXCEPT ![c] = r] /\ UNCHANGED <<conns, chans, channel>>
    BY <1>3 DEF userHandler
  <2>3. out' \in Replies
    <3>1. Numeric("001", Absent) \in Message
      BY NumericType DEF Replied
    <3>2. QED
      BY <1>1, <1>3, <3>1, ToOneType, NoReplyType DEF userHandler
  <2>4. /\ r \in ClientState
        /\ r.userRecived
        /\ r.nickname = client[c].nickname
        /\ r.passRecived = client[c].passRecived
        /\ r.nicknameReceived = client[c].nicknameReceived
        /\ r.registered = (client[c].registered \/ client[c].nicknameReceived)
    BY <1>1 DEF SetUser, ClientState
  <2>5. client[c].nicknameReceived <=> client[c].nickname # NoNick
    BY DEF IInv, RegisteredIffComplete
  <2> HIDE DEF r
  <2>6. QED
    BY <2>1, <2>2, <2>3, <2>4, <2>5, RegisterKeepsIInv
<1>4. QED
  BY <1>2, <1>3
-----------------------------------------------------------------------------
(* The handlers of ChannelCommands keep the invariant.                     *)

\* What a handler relays about a channel is a message.
LEMMA RelayType ==
    ASSUME IInv, NEW c \in conns, NEW cmd \in Relayed, NEW ch \in Names,
           NEW who \in SUBSET (Nicks \cup {NoNick})
    PROVE  FromClient(c, cmd, ch, who) \in Message
<1>1. TypeOK /\ c \in Fds /\ ch \in Names \cup {Absent}
  BY DEF IInv, TypeOK
<1>2. QED
  BY <1>1, FromClientType

LEMMA NamesReplyType ==
    ASSUME IInv, NEW c \in conns, NEW ch \in Names, NEW chan
    PROVE  NamesReply(c, ch, chan) \in Seq(Message)
<1>1. TypeOK
  BY DEF IInv
<1>2. /\ Nicknames(chan.memberFds) \in SUBSET (Nicks \cup {NoNick})
      /\ Nicknames(chan.operatorFds) \in SUBSET (Nicks \cup {NoNick})
  BY <1>1, NicknamesType
<1>3. [Numeric("353", ch) EXCEPT !.who = Nicknames(chan.memberFds),
                                 !.ops = Nicknames(chan.operatorFds)] \in Message
  BY <1>2 DEF Numeric, Message, Replied
<1>4. Numeric("366", ch) \in Message
  BY NumericType DEF Replied
<1>5. QED
  BY <1>3, <1>4 DEF NamesReply

LEMMA JoinKeepsIInv ==
    ASSUME IInv, NEW c \in conns, NEW ch \in Names \cup {Absent, Invalid}, NEW k,
           joinHandler(c, ch, k)
    PROVE  IInv'
<1> DEFINE err == JoinError(c, ch, k)
<1>1. c \in Fds
  BY DEF IInv, TypeOK
<1>2. CASE err \in {"451", "461", "403"}
  <2>1. err \in Replied /\ Refuse(c, err, ch)
    BY <1>2 DEF joinHandler, Replied, OK
  <2>2. QED
    BY <1>1, <2>1, RefuseKeepsIInv
<1>3. CASE err \in {"443", "473", "475", "471"}
  <2>1. ch \in Names
    BY <1>3 DEF JoinError, OK
  <2>2. ch \in chans
    <3> SUFFICES ASSUME ch \notin chans PROVE FALSE
      OBVIOUS
    <3>1. channel[ch] = NewChannel
      BY <2>1 DEF IInv, NoEmptyChannel
    <3>2. /\ c \notin Members(ch) /\ ~channel[ch].invite_only
          /\ ~HasKey(channel[ch]) /\ ~HasLimit(channel[ch])
      BY <3>1 DEF NewChannel, Members, HasKey, HasLimit
    <3>3. err \in {"451", "461", "403", OK}
      BY <3>2 DEF JoinError
    <3>4. QED
      BY <1>3, <3>3 DEF OK
  <2>3. /\ chans' = chans \cup {ch}
        /\ out' = ToOne(c, Numeric(err, ch))
        /\ UNCHANGED <<conns, client, channel>>
    BY <1>3 DEF joinHandler, OK
  <2>4. err \in Replied
    BY <1>3 DEF Replied
  <2> HIDE DEF err
  <2>5. out' \in Replies
    BY <1>1, <2>3, <2>4, NumericType, ToOneType
  <2>6. QED
    BY <2>2, <2>3, <2>5, SteadyKeepsIInv
<1>4. CASE err = OK
  <2>1. ch \in Names /\ client[c].registered
    BY <1>4 DEF JoinError, OK
  <2>2. /\ chans' = chans \cup {ch}
        /\ channel' = [channel EXCEPT ![ch] = Admit(channel[ch], c)]
        /\ UNCHANGED <<conns, client>>
    BY <1>4 DEF joinHandler, OK
  <2>3. out' = [ToAll(Admit(channel[ch], c).memberFds, FromClient(c, "JOIN", ch, {}))
                  EXCEPT ![c] = @ \o NamesReply(c, ch, Admit(channel[ch], c))]
    BY <1>4 DEF joinHandler, OK
  <2>4. out' \in Replies
    <3>1. FromClient(c, "JOIN", ch, {}) \in Message
      BY <2>1, RelayType DEF Relayed
    <3>2. NamesReply(c, ch, Admit(channel[ch], c)) \in Seq(Message)
      BY <2>1, NamesReplyType
    <3>3. QED
      BY <1>1, <2>3, <3>1, <3>2, ToAllType, AppendType
  <2>5. QED
    BY <2>1, <2>2, <2>4, AdmitKeepsIInv
<1>5. QED
  BY <1>2, <1>3, <1>4 DEF JoinError

LEMMA KickKeepsIInv ==
    ASSUME IInv, NEW c \in conns, NEW ch \in Names, NEW n, kickHandler(c, ch, n)
    PROVE  IInv'
<1>1. c \in Fds
  BY DEF IInv, TypeOK
<1>2. CASE KickError(c, ch, n) # OK
  <2>1. KickError(c, ch, n) \in Replied /\ Refuse(c, KickError(c, ch, n), ch)
    BY <1>2 DEF kickHandler, KickError, Replied
  <2>2. QED
    BY <1>1, <2>1, RefuseKeepsIInv
<1>3. CASE KickError(c, ch, n) = OK
  <2>1. ch \in chans
    BY <1>3 DEF KickError, OK
  <2>2. PICK t \in conns : KickTarget(c, ch, t)
    BY <1>3 DEF kickHandler, Named
  <2>3. CASE Refuse(c, "441", ch) \/ Refuse(c, "NOTICE", ch)
    BY <1>1, <2>3, RefuseKeepsIInv DEF Replied
  <2>4. CASE Expel(c, ch, t) /\ UNCHANGED <<conns, client>>
    BY <2>1, <2>4, ExpelKeepsIInv
  <2>5. QED
    BY <2>2, <2>3, <2>4 DEF KickTarget
<1>4. QED
  BY <1>2, <1>3

LEMMA InviteKeepsIInv ==
    ASSUME IInv, NEW c \in conns, NEW ch \in Names, NEW n \in Nicks \cup {Absent},
           inviteHandler(c, n, ch)
    PROVE  IInv'
<1>1. c \in Fds
  BY DEF IInv, TypeOK
<1>2. CASE InviteError(c, n, ch) # OK
  <2>1. InviteError(c, n, ch) \in Replied /\ Refuse(c, InviteError(c, n, ch), ch)
    BY <1>2 DEF inviteHandler, InviteError, Replied
  <2>2. QED
    BY <1>1, <2>1, RefuseKeepsIInv
<1>3. CASE InviteError(c, n, ch) = OK
  <2>1. ch \in chans /\ n \in Nicks
    BY <1>3 DEF InviteError, OK
  <2>2. PICK t \in conns :
          \/ t \in Members(ch) /\ Refuse(c, "443", ch)
          \/ /\ t \notin Members(ch)
             /\ channel' = [channel EXCEPT ![ch].invitedFds = @ \cup {t}]
             /\ out' = [ToOne(t, FromClient(c, "INVITE", ch, {n}))
                          EXCEPT ![c] = @ \o <<Numeric("341", ch)>>]
             /\ UNCHANGED <<conns, client, chans>>
    BY <1>3 DEF inviteHandler, Named
  <2>3. CASE Refuse(c, "443", ch)
    BY <1>1, <2>3, RefuseKeepsIInv DEF Replied
  <2>4. CASE /\ channel' = [channel EXCEPT ![ch].invitedFds = @ \cup {t}]
             /\ out' = [ToOne(t, FromClient(c, "INVITE", ch, {n}))
                          EXCEPT ![c] = @ \o <<Numeric("341", ch)>>]
             /\ UNCHANGED <<conns, client, chans>>
    <3> DEFINE chan == [channel[ch] EXCEPT !.invitedFds = @ \cup {t}]
    <3>1. channel[ch] \in ChannelState /\ t \in Fds
      BY DEF IInv, TypeOK
    <3>2. /\ chan \in ChannelState
          /\ chan.memberFds = channel[ch].memberFds
          /\ chan.operatorFds = channel[ch].operatorFds
          /\ chan.invitedFds = channel[ch].invitedFds \cup {t}
      BY <3>1 DEF ChannelState
    <3>3. /\ chan.operatorFds \subseteq chan.memberFds
          /\ chan.invitedFds \subseteq conns
      BY <2>1, <3>2 DEF IInv, OperatorsAreMembers, NoStaleFd
    <3>4. channel' = [channel EXCEPT ![ch] = chan]
      BY <2>4
    <3>5. out' \in Replies
      <4>1. FromClient(c, "INVITE", ch, {n}) \in Message
        BY <2>1, RelayType DEF Relayed
      <4>2. <<Numeric("341", ch)>> \in Seq(Message)
        BY NumericType DEF Replied
      <4>3. QED
        BY <1>1, <2>4, <3>1, <4>1, <4>2, ToOneType, AppendType
    <3> HIDE DEF chan
    <3>6. QED
      BY <2>1, <2>4, <3>2, <3>3, <3>4, <3>5, UpdateKeepsIInv
  <2>5. QED
    BY <2>2, <2>3, <2>4
<1>4. QED
  BY <1>2, <1>3

\* A change that leaves the three lists of the channel alone.
LEMMA SettingKeepsIInv ==
    ASSUME IInv, NEW c \in conns, NEW ch \in chans, NEW chan \in ChannelState,
           chan.memberFds = channel[ch].memberFds,
           chan.operatorFds = channel[ch].operatorFds,
           chan.invitedFds = channel[ch].invitedFds,
           NEW cmd \in Relayed, NEW S,
           NEW arg \in Topics \cup {NoTopic} \cup Keys \cup {NoKey}
                          \cup (0 .. MaxLimit) \cup {Absent},
           Update(ch, chan, S, [FromClient(c, cmd, ch, {}) EXCEPT !.arg = arg])
    PROVE  IInv'
<1>1. ch \in Names
  BY DEF IInv, TypeOK
<1>2. out' \in Replies
  <2>1. [FromClient(c, cmd, ch, {}) EXCEPT !.arg = arg] \in Message
    BY <1>1, RelayType, ArgType
  <2>2. QED
    BY <2>1, ToAllType DEF Update
<1>3. /\ chan.operatorFds \subseteq chan.memberFds
      /\ chan.invitedFds \subseteq conns
  BY DEF IInv, OperatorsAreMembers, NoStaleFd
<1>4. QED
  BY <1>2, <1>3, UpdateKeepsIInv DEF Update

LEMMA TopicKeepsIInv ==
    ASSUME IInv, NEW c \in conns, NEW ch \in Names \cup {Absent},
           NEW t \in Topics \cup {NoTopic, Absent}, topicHandler(c, ch, t)
    PROVE  IInv'
<1>1. c \in Fds
  BY DEF IInv, TypeOK
<1>2. CASE TopicError(c, ch, t) \notin {OK, "332"}
  <2>1. TopicError(c, ch, t) \in Replied /\ Refuse(c, TopicError(c, ch, t), ch)
    BY <1>2 DEF topicHandler, TopicError, Replied, OK
  <2>2. QED
    BY <1>1, <2>1, RefuseKeepsIInv
<1>4. CASE TopicError(c, ch, t) = "332"
  <2>1. ch \in chans /\ Answer(c, TopicReply(ch))
    BY <1>4 DEF topicHandler, TopicError, OK
  <2>2. ch \in Names /\ channel[ch].topic \in Topics \cup {NoTopic}
    BY <2>1 DEF IInv, TypeOK, ChannelState
  <2>3. TopicReply(ch) \in Message
    <3>1. Numeric("332", ch) \in Message
      BY <2>2, NumericType DEF Replied
    <3>2. QED
      BY <2>2, <3>1, ArgType DEF TopicReply
  <2>4. QED
    BY <1>1, <2>1, <2>3, AnswerKeepsIInv
<1>3. CASE TopicError(c, ch, t) = OK
  <2> DEFINE chan == [channel[ch] EXCEPT !.topic = t]
  <2>1. ch \in chans /\ t \in Topics \cup {NoTopic}
    BY <1>3 DEF TopicError, OK
  <2>2. Update(ch, chan, Members(ch) \cup {c},
               [FromClient(c, "TOPIC", ch, {}) EXCEPT !.arg = t])
    BY <1>3 DEF topicHandler, Refuse, OK
  <2>3. channel[ch] \in ChannelState
    BY <2>1 DEF IInv, TypeOK
  <2>4. /\ chan \in ChannelState
        /\ chan.memberFds = channel[ch].memberFds
        /\ chan.operatorFds = channel[ch].operatorFds
        /\ chan.invitedFds = channel[ch].invitedFds
    BY <2>1, <2>3 DEF ChannelState
  <2> HIDE DEF chan
  <2>5. QED
    BY <2>1, <2>2, <2>4, SettingKeepsIInv DEF Relayed
<1>5. QED
  BY <1>2, <1>3, <1>4

LEMMA PrivmsgKeepsIInv ==
    ASSUME IInv, NEW c \in conns, NEW target \in Names \cup Nicks \cup {Absent},
           NEW text \in BOOLEAN, privmsgHandler(c, target, text)
    PROVE  IInv'
<1>1. c \in Fds
  BY DEF IInv, TypeOK
<1>2. CASE PrivmsgError(c, target, text) # OK
  <2>1. /\ PrivmsgError(c, target, text) \in Replied
        /\ Refuse(c, PrivmsgError(c, target, text), target)
    BY <1>2 DEF privmsgHandler, PrivmsgError, Replied
  <2>2. PrivmsgError(c, target, text) \in ChannelReplies => target \in Names
    BY DEF PrivmsgError, ChannelReplies, OK
  <2>3. QED
    BY <1>1, <2>1, <2>2, RefuseKeepsIInv
<1>3. CASE PrivmsgError(c, target, text) = OK /\ target \in Names
  <2>1. FromClient(c, "PRIVMSG", target, {}) \in Message
    BY <1>3, RelayType DEF Relayed
  <2>2. out' \in Replies
    BY <1>3, <2>1, ToAllType DEF privmsgHandler
  <2>3. UNCHANGED <<conns, client, chans, channel>>
    BY <1>3 DEF privmsgHandler
  <2>4. QED
    BY <2>2, <2>3, SteadyKeepsIInv
<1>4. CASE PrivmsgError(c, target, text) = OK /\ target \notin Names
  <2>1. target \in Nicks
    BY <1>4 DEF PrivmsgError, OK
  <2>2. PICK t \in conns : out' = ToOne(t, FromClient(c, "PRIVMSG", Absent, {target}))
    BY <1>4 DEF privmsgHandler, Named
  <2>3. TypeOK /\ t \in Fds
    BY DEF IInv, TypeOK
  <2>4. FromClient(c, "PRIVMSG", Absent, {target}) \in Message
    BY <1>1, <2>1, <2>3, FromClientType DEF Relayed
  <2>5. UNCHANGED <<conns, client, chans, channel>>
    BY <1>4 DEF privmsgHandler
  <2>6. out' \in Replies
    BY <2>2, <2>3, <2>4, ToOneType
  <2>7. QED
    BY <2>5, <2>6, SteadyKeepsIInv
<1>5. QED
  BY <1>2, <1>3, <1>4

\* MODE +o and -o without refusal: the operators stay among the members.
LEMMA OperatorsKeepIInv ==
    ASSUME IInv, NEW c \in conns, NEW ch \in chans, NEW t \in conns,
           t \in Members(ch), Op(c, ch, t) \/ Deop(c, ch, t)
    PROVE  IInv'
<1>1. /\ c \in Fds /\ t \in Fds /\ ch \in Names
      /\ channel[ch] \in ChannelState
      /\ {client[t].nickname} \in SUBSET (Nicks \cup {NoNick})
  BY DEF IInv, TypeOK, ClientState
<1>2. CASE out' = NoReply /\ UNCHANGED <<conns, client, chans, channel>>
  BY <1>2, NoReplyType, SteadyKeepsIInv
<1>3. CASE Refuse(c, "NOTICE", ch)
  BY <1>1, <1>3, RefuseKeepsIInv DEF Replied
<1>4. ASSUME NEW flag \in {"+o", "-o"}, NEW ops \in SUBSET channel[ch].memberFds,
             ChangeMode(c, ch, flag, [channel[ch] EXCEPT !.operatorFds = ops],
                        {client[t].nickname})
      PROVE  IInv'
  <2> DEFINE chan == [channel[ch] EXCEPT !.operatorFds = ops]
             m    == [FromClient(c, flag, ch, {client[t].nickname})
                        EXCEPT !.arg = Setting(flag, chan)]
  <2>1. /\ chan \in ChannelState
        /\ chan.memberFds = channel[ch].memberFds
        /\ chan.operatorFds = ops
        /\ chan.invitedFds = channel[ch].invitedFds
    BY <1>1 DEF ChannelState
  <2>2. m \in Message
    <3>1. FromClient(c, flag, ch, {client[t].nickname}) \in Message
      BY <1>1, RelayType DEF Relayed, Flags
    <3>2. Setting(flag, chan) = Absent
      BY DEF Setting
    <3>3. QED
      BY <3>1, <3>2, ArgType
  <2>3. /\ channel' = [channel EXCEPT ![ch] = chan]
        /\ out' = ToAll(Members(ch), m)
        /\ UNCHANGED <<conns, client, chans>>
    BY <1>4 DEF ChangeMode, Update
  <2>4. chan.invitedFds \subseteq conns
    BY <2>1 DEF IInv, NoStaleFd
  <2> HIDE DEF m
  <2>5. out' \in Replies
    BY <2>2, <2>3, ToAllType
  <2> HIDE DEF chan
  <2>6. QED
    BY <2>1, <2>3, <2>4, <2>5, UpdateKeepsIInv
<1>5. /\ channel[ch].operatorFds \cup {t} \in SUBSET channel[ch].memberFds
      /\ channel[ch].operatorFds \ {t} \in SUBSET channel[ch].memberFds
  BY DEF IInv, OperatorsAreMembers, Members
<1>6. CASE ChangeMode(c, ch, "+o",
             [channel[ch] EXCEPT !.operatorFds = @ \cup {t}], {client[t].nickname})
  BY <1>4, <1>5, <1>6
<1>7. CASE ChangeMode(c, ch, "-o",
             [channel[ch] EXCEPT !.operatorFds = @ \ {t}], {client[t].nickname})
  BY <1>4, <1>5, <1>7
<1>8. QED
  BY <1>2, <1>3, <1>6, <1>7 DEF Op, Deop

\* A MODE other than +o and -o, without refusal.
LEMMA ModeSettingKeepsIInv ==
    ASSUME IInv, NEW c \in conns, NEW ch \in chans, NEW flag \in Flags,
           NEW chan \in ChannelState,
           chan.memberFds = channel[ch].memberFds,
           chan.operatorFds = channel[ch].operatorFds,
           chan.invitedFds = channel[ch].invitedFds,
           ChangeMode(c, ch, flag, chan, {})
    PROVE  IInv'
<1>1. Setting(flag, chan) \in Topics \cup {NoTopic} \cup Keys \cup {NoKey}
                                 \cup (0 .. MaxLimit) \cup {Absent}
  BY DEF Setting, ChannelState
<1>2. QED
  BY <1>1, SettingKeepsIInv DEF ChangeMode, Relayed

LEMMA InviteOnlyKeepsIInv ==
    ASSUME IInv, NEW c \in conns, NEW ch \in chans, NEW flag,
           invite_only(c, ch, flag)
    PROVE  IInv'
<1> DEFINE chan == [channel[ch] EXCEPT !.invite_only = (flag = "+i")]
<1>1. channel[ch] \in ChannelState
  BY DEF IInv, TypeOK
<1>2. /\ chan \in ChannelState
      /\ chan.memberFds = channel[ch].memberFds
      /\ chan.operatorFds = channel[ch].operatorFds
      /\ chan.invitedFds = channel[ch].invitedFds
  BY <1>1 DEF ChannelState
<1>3. flag \in Flags /\ ChangeMode(c, ch, flag, chan, {})
  BY DEF invite_only, Flags
<1> HIDE DEF chan
<1>4. QED
  BY <1>2, <1>3, ModeSettingKeepsIInv

LEMMA ChangeTopicKeepsIInv ==
    ASSUME IInv, NEW c \in conns, NEW ch \in chans, NEW flag,
           let_s_change_the_topic(c, ch, flag)
    PROVE  IInv'
<1> DEFINE chan == [channel[ch] EXCEPT !.change_topic = (flag = "+t")]
<1>1. channel[ch] \in ChannelState
  BY DEF IInv, TypeOK
<1>2. /\ chan \in ChannelState
      /\ chan.memberFds = channel[ch].memberFds
      /\ chan.operatorFds = channel[ch].operatorFds
      /\ chan.invitedFds = channel[ch].invitedFds
  BY <1>1 DEF ChannelState
<1>3. flag \in Flags /\ ChangeMode(c, ch, flag, chan, {})
  BY DEF let_s_change_the_topic, Flags
<1> HIDE DEF chan
<1>4. QED
  BY <1>2, <1>3, ModeSettingKeepsIInv

LEMMA SecretKeyKeepsIInv ==
    ASSUME IInv, NEW c \in conns, NEW ch \in chans, NEW flag,
           NEW k \in Keys \cup {NoKey, Absent}, secret_key(c, ch, flag, k)
    PROVE  IInv'
<1> DEFINE chan == [channel[ch] EXCEPT !.key = IF flag = "+k" THEN k ELSE NoKey]
<1>1. channel[ch] \in ChannelState
  BY DEF IInv, TypeOK
<1>2. CASE k = Absent /\ Refuse(c, "461", ch)
  BY <1>2, RefuseKeepsIInv DEF IInv, TypeOK, Replied
<1>3. CASE k # Absent /\ ChangeMode(c, ch, flag, chan, {})
  <2>1. /\ chan \in ChannelState
        /\ chan.memberFds = channel[ch].memberFds
        /\ chan.operatorFds = channel[ch].operatorFds
        /\ chan.invitedFds = channel[ch].invitedFds
    BY <1>1, <1>3 DEF ChannelState
  <2>2. flag \in Flags
    BY DEF secret_key, Flags
  <2> HIDE DEF chan
  <2>3. QED
    BY <1>3, <2>1, <2>2, ModeSettingKeepsIInv
<1>4. QED
  BY <1>2, <1>3 DEF secret_key

LEMMA LimitedUsageKeepsIInv ==
    ASSUME IInv, NEW c \in conns, NEW ch \in chans, NEW flag,
           NEW l \in 0 .. MaxLimit, limited_usage(c, ch, flag, l)
    PROVE  IInv'
<1>1. channel[ch] \in ChannelState
  BY DEF IInv, TypeOK
<1>2. CASE Refuse(c, "461", ch)
  BY <1>2, RefuseKeepsIInv DEF IInv, TypeOK, Replied
<1>3. ASSUME NEW m \in 0 .. MaxLimit, NEW flg \in {"+l", "-l"},
             ChangeMode(c, ch, flg, [channel[ch] EXCEPT !.limit = m], {})
      PROVE  IInv'
  <2> DEFINE chan == [channel[ch] EXCEPT !.limit = m]
  <2>1. /\ chan \in ChannelState
        /\ chan.memberFds = channel[ch].memberFds
        /\ chan.operatorFds = channel[ch].operatorFds
        /\ chan.invitedFds = channel[ch].invitedFds
    BY <1>1 DEF ChannelState
  <2>2. ChangeMode(c, ch, flg, chan, {}) /\ flg \in Flags
    BY <1>3 DEF Flags
  <2> HIDE DEF chan
  <2>3. QED
    BY <2>1, <2>2, ModeSettingKeepsIInv
<1>4. 0 \in 0 .. MaxLimit
  BY StateAssumption
<1>5. QED
  BY <1>2, <1>3, <1>4 DEF limited_usage

LEMMA ModesKeepIInv ==
    ASSUME IInv, NEW c \in conns, NEW ch \in Names,
           NEW flag \in Flags \cup {Absent, Invalid}, modes(c, ch, flag)
    PROVE  IInv'
<1>1. CASE ModeError(c, ch, flag) # OK
  <2>1. ModeError(c, ch, flag) \in Replied /\ Refuse(c, ModeError(c, ch, flag), ch)
    BY <1>1 DEF modes, ModeError, Replied
  <2>2. QED
    BY <2>1, RefuseKeepsIInv DEF IInv, TypeOK
<1>2. CASE ModeError(c, ch, flag) = OK
  <2>1. ch \in chans
    BY <1>2 DEF ModeError, OK
  <2>2. CASE invite_only(c, ch, flag)
    BY <2>1, <2>2, InviteOnlyKeepsIInv
  <2>3. CASE let_s_change_the_topic(c, ch, flag)
    BY <2>1, <2>3, ChangeTopicKeepsIInv
  <2>4. CASE \E k \in Keys \cup {NoKey, Absent} : secret_key(c, ch, flag, k)
    BY <2>1, <2>4, SecretKeyKeepsIInv
  <2>5. CASE \E l \in 0 .. MaxLimit : limited_usage(c, ch, flag, l)
    BY <2>1, <2>5, LimitedUsageKeepsIInv
  <2>6. CASE \E n \in Nicks \cup {NoNick, Absent} : operators(c, ch, flag, n)
    <3>1. PICK n \in Nicks \cup {NoNick, Absent} : operators(c, ch, flag, n)
      BY <2>6
    <3>2. \/ \E code \in Replied : Refuse(c, code, ch)
          \/ \E t \in conns : t \in Members(ch) /\ (Op(c, ch, t) \/ Deop(c, ch, t))
      BY <3>1 DEF operators, Named, Replied
    <3>3. QED
      BY <2>1, <3>2, OperatorsKeepIInv, RefuseKeepsIInv DEF IInv, TypeOK
  <2>7. CASE Refuse(c, "472", ch)
    BY <2>7, RefuseKeepsIInv DEF IInv, TypeOK, Replied
  <2>8. QED
    BY <1>2, <2>2, <2>3, <2>4, <2>5, <2>6, <2>7 DEF modes
<1>3. QED
  BY <1>1, <1>2
-----------------------------------------------------------------------------
(* The theorems.                                                           *)

LEMMA InitIInv == Init => IInv
<1> SUFFICES ASSUME Init PROVE IInv
  OBVIOUS
<1>1. TypeOK
  BY NewClientType, NewChannelType, NoReplyType DEF Init, TypeOK, Replies
<1>2. ClosedIsNew /\ NoStaleFd /\ OperatorsAreMembers /\ NoEmptyChannel
  BY DEF Init, ClosedIsNew, NoStaleFd, OperatorsAreMembers, NoEmptyChannel
<1>3. RegisteredIffComplete
  BY DEF Init, RegisteredIffComplete
<1>4. QED
  BY <1>1, <1>2, <1>3 DEF IInv

LEMMA NextIInv == IInv /\ [Next]_vars => IInv'
<1> SUFFICES ASSUME IInv, [Next]_vars PROVE IInv'
  OBVIOUS
<1>1. CASE \E f \in Fds : connect(f)
  BY <1>1, ConnectKeepsIInv
<1>2. CASE \E f \in conns : disconnect(f)
  BY <1>2, DisconnectKeepsIInv
<1>3. ASSUME NEW c \in conns, dispatchCommand(c) PROVE IInv'
  <2>1. CASE \E pw \in {"right", "wrong", "absent"} : passHundler(c, pw)
    BY <2>1, PassKeepsIInv
  <2>2. CASE \E n \in Nicks \cup {Absent, Invalid} : nickHundler(c, n)
    BY <2>2, NickKeepsIInv
  <2>3. CASE \E enough \in BOOLEAN : userHandler(c, enough)
    BY <2>3, UserKeepsIInv
  <2>4. CASE \E ch \in Names \cup {Absent, Invalid}, k \in Keys \cup {Absent} :
               joinHandler(c, ch, k)
    BY <2>4, JoinKeepsIInv
  <2>5. CASE \E target \in Names \cup Nicks \cup {Absent}, text \in BOOLEAN :
               privmsgHandler(c, target, text)
    BY <2>5, PrivmsgKeepsIInv
  <2>6. CASE \E ch \in Names \cup {Absent}, t \in Topics \cup {NoTopic, Absent} :
               topicHandler(c, ch, t)
    BY <2>6, TopicKeepsIInv
  <2>7. CASE \E ch \in Names, n \in Nicks \cup {NoNick, Absent} : kickHandler(c, ch, n)
    BY <2>7, KickKeepsIInv
  <2>8. CASE \E ch \in Names, n \in Nicks \cup {Absent} : inviteHandler(c, n, ch)
    BY <2>8, InviteKeepsIInv
  <2>9. CASE \E ch \in Names, flag \in Flags \cup {Absent, Invalid} : modes(c, ch, flag)
    BY <2>9, ModesKeepIInv
  <2>10. CASE unknownCommand(c)
    BY <2>10, RefuseKeepsIInv DEF unknownCommand, IInv, TypeOK, Replied
  <2>11. QED
    BY <1>3, <2>1, <2>2, <2>3, <2>4, <2>5, <2>6, <2>7, <2>8, <2>9, <2>10
       DEF dispatchCommand
<1>4. CASE UNCHANGED vars
  <2>1. out' \in Replies /\ UNCHANGED <<conns, client, chans, channel>>
    BY <1>4 DEF vars, IInv, TypeOK, Replies
  <2>2. QED
    BY <2>1, SteadyKeepsIInv
<1>5. QED
  BY <1>1, <1>2, <1>3, <1>4 DEF Next

\* The conjuncts of IInv hold together in every reachable state.
THEOREM Invariance == Spec => []IInv
BY InitIInv, NextIInv, PTL DEF Spec

\* Every variable keeps its type, whatever the clients send.
THEOREM TypeCorrect == Spec => []TypeOK
<1>1. IInv => TypeOK
  BY DEF IInv
<1>2. QED
  BY <1>1, Invariance, PTL

\* No list of a channel names a closed descriptor or an unregistered member, so
\* a descriptor that is used again brings nothing with it.
THEOREM NoStaleDescriptor == Spec => []NoStaleFd
<1>1. IInv => NoStaleFd
  BY DEF IInv
<1>2. QED
  BY <1>1, Invariance, PTL

\* The operators of a channel are members of it.
THEOREM OperatorsMembers == Spec => []OperatorsAreMembers
<1>1. IInv => OperatorsAreMembers
  BY DEF IInv
<1>2. QED
  BY <1>1, Invariance, PTL

\* A channel exists exactly while it has members.
THEOREM ChannelLifetime == Spec => []NoEmptyChannel
<1>1. IInv => NoEmptyChannel
  BY DEF IInv
<1>2. QED
  BY <1>1, Invariance, PTL

\* Registration is complete exactly when its three commands were accepted.
THEOREM Registered == Spec => []RegisteredIffComplete
<1>1. IInv => RegisteredIffComplete
  BY DEF IInv
<1>2. QED
  BY <1>1, Invariance, PTL
=============================================================================
