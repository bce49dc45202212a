--------------------------- MODULE IrcStepProofs ---------------------------
(***************************************************************************)
(* Theorems about the steps of IrcCommands, which rest on the invariant of *)
(* IrcCommandsProofs: nicknames stay unique, no command takes the last     *)
(* operator away from a channel that keeps members, nobody enters a        *)
(* channel against its modes, and one without operators stays as it is;    *)
(* and IrcCommands implements Membership: each handler changes the lists   *)
(* of the channels as one action of Membership does, or not at all.        *)
(***************************************************************************)
EXTENDS IrcCommandsProofs
-----------------------------------------------------------------------------
(* Nicknames.                                                              *)

\* The commands about channels and conversations, in the order of
\* dispatchCommand.
ChannelCommand(c) ==
    \/ \E ch \in Names \cup {Absent, Invalid}, k \in Keys \cup {Absent} :
         joinHandler(c, ch, k)
    \/ \E target \in Names \cup Nicks \cup {Absent}, text \in BOOLEAN :
         privmsgHandler(c, target, text)
    \/ \E ch \in Names \cup {Absent}, t \in Topics \cup {NoTopic, Absent} :
         topicHandler(c, ch, t)
    \/ \E ch \in Names, n \in Nicks \cup {NoNick, Absent} : kickHandler(c, ch, n)
    \/ \E ch \in Names, n \in Nicks \cup {Absent} : inviteHandler(c, n, ch)
    \/ \E ch \in Names, flag \in Flags \cup {Absent, Invalid} : modes(c, ch, flag)
    \/ unknownCommand(c)

\* None of them touches a Client object.
LEMMA ChannelCommandKeepsClients ==
    ASSUME NEW c, ChannelCommand(c)
    PROVE  UNCHANGED <<conns, client>>
<1>1. ASSUME NEW ch, NEW k, joinHandler(c, ch, k) PROVE UNCHANGED <<conns, client>>
  BY <1>1 DEF joinHandler, Refuse, Answer
<1>2. ASSUME NEW target, NEW text, privmsgHandler(c, target, text)
      PROVE  UNCHANGED <<conns, client>>
  BY <1>2 DEF privmsgHandler, Refuse, Answer
<1>3. ASSUME NEW ch, NEW t, topicHandler(c, ch, t) PROVE UNCHANGED <<conns, client>>
  BY <1>3 DEF topicHandler, Refuse, Answer, Update
<1>4. ASSUME NEW ch, NEW n, kickHandler(c, ch, n) PROVE UNCHANGED <<conns, client>>
  BY <1>4 DEF kickHandler, KickTarget, Refuse, Answer
<1>5. ASSUME NEW ch, NEW n, inviteHandler(c, n, ch) PROVE UNCHANGED <<conns, client>>
  BY <1>5 DEF inviteHandler, Refuse, Answer
<1>6. ASSUME NEW ch, NEW flag, modes(c, ch, flag) PROVE UNCHANGED <<conns, client>>
  BY <1>6 DEF modes, invite_only, let_s_change_the_topic, secret_key, limited_usage,
              operators, Op, Deop, ChangeMode, Update, Refuse, Answer
<1>7. unknownCommand(c) => UNCHANGED <<conns, client>>
  BY DEF unknownCommand, Refuse, Answer
<1>8. QED
  BY <1>1, <1>2, <1>3, <1>4, <1>5, <1>6, <1>7 DEF ChannelCommand

\* A step that opens no connection and changes no nickname.
LEMMA SameNicknames ==
    ASSUME NickUnique, conns' \subseteq conns,
           \A f \in conns' : client'[f].nickname = client[f].nickname
    PROVE  NickUnique'
BY DEF NickUnique

LEMMA NickKeepsUnique ==
    ASSUME IInv, NickUnique, NEW c \in conns, NEW n \in Nicks \cup {Absent, Invalid},
           nickHundler(c, n)
    PROVE  NickUnique'
<1>1. \A f \in conns : f \in Fds /\ client[f] \in ClientState
  BY DEF IInv, TypeOK
<1>2. CASE NickError(c, n) # OK
  BY <1>2, SameNicknames DEF nickHundler, Refuse, Answer
<1>3. CASE NickError(c, n) = OK
  <2>1. \A f \in conns \ {c} : client[f].nickname # n
    BY <1>3 DEF NickError, Named, OK
  <2>2. /\ conns' = conns
        /\ client' = [client EXCEPT ![c] = SetNickname(client[c], n)]
    BY <1>3 DEF nickHundler
  <2>3. SetNickname(client[c], n).nickname = n
    BY <1>1 DEF SetNickname, ClientState
  <2>4. \A f \in conns : client'[f].nickname =
                            IF f = c THEN n ELSE client[f].nickname
    BY <1>1, <2>2, <2>3 DEF IInv, TypeOK
  <2>5. QED
    BY <2>1, <2>2, <2>4 DEF NickUnique
<1>4. QED
  BY <1>2, <1>3

LEMMA NextNickUnique == IInv /\ NickUnique /\ [Next]_vars => NickUnique'
<1> SUFFICES ASSUME IInv, NickUnique, [Next]_vars PROVE NickUnique'
  OBVIOUS
<1>1. \A f \in conns : f \in Fds /\ client[f] \in ClientState
  BY DEF IInv, TypeOK
<1>2. ASSUME NEW f \in Fds, connect(f) PROVE NickUnique'
  BY <1>1, <1>2 DEF connect, NickUnique, NewClient, IInv, TypeOK
<1>3. ASSUME NEW f \in conns, disconnect(f) PROVE NickUnique'
  <2>1. conns' = conns \ {f} /\ \A g \in conns' : client'[g] = client[g]
    BY <1>1, <1>3 DEF disconnect, IInv, TypeOK
  <2>2. QED
    BY <2>1, SameNicknames
<1>4. ASSUME NEW c \in conns, dispatchCommand(c) PROVE NickUnique'
  <2>1. CASE \E pw \in {"right", "wrong", "absent"} : passHundler(c, pw)
    <3>1. [client[c] EXCEPT !.passRecived = TRUE].nickname = client[c].nickname
      BY <1>1 DEF ClientState
    <3>2. /\ conns' = conns
          /\ \/ client' = client
             \/ client' = [client EXCEPT ![c] = [client[c] EXCEPT !.passRecived = TRUE]]
      BY <2>1 DEF passHundler, Refuse, Answer, IInv, TypeOK
    <3>3. QED
      BY <1>1, <3>1, <3>2, SameNicknames DEF IInv, TypeOK
  <2>2. CASE \E n \in Nicks \cup {Absent, Invalid} : nickHundler(c, n)
    BY <2>2, NickKeepsUnique
  <2>3. CASE \E enough \in BOOLEAN : userHandler(c, enough)
    <3>1. SetUser(client[c]).nickname = client[c].nickname
      BY <1>1 DEF SetUser, ClientState
    <3>2. /\ conns' = conns
          /\ client' = client \/ client' = [client EXCEPT ![c] = SetUser(client[c])]
      BY <2>3 DEF userHandler, Refuse, Answer
    <3>3. QED
      BY <1>1, <3>1, <3>2, SameNicknames DEF IInv, TypeOK
  <2>4. CASE ChannelCommand(c)
    BY <2>4, ChannelCommandKeepsClients, SameNicknames
  <2>5. QED
    BY <1>4, <2>1, <2>2, <2>3, <2>4 DEF dispatchCommand, ChannelCommand
<1>5. CASE UNCHANGED vars
  BY <1>5, SameNicknames DEF vars
<1>6. QED
  BY <1>2, <1>3, <1>4, <1>5 DEF Next

\* Two clients never have the same nickname.
THEOREM NicknamesUnique == Spec => []NickUnique
<1>1. Init => NickUnique
  BY DEF Init, NickUnique
<1>2. QED
  BY <1>1, NextNickUnique, Invariance, PTL DEF Spec
-----------------------------------------------------------------------------
(* Operators.                                                              *)

\* No channel that survives the step loses an operator, or it keeps another.
KeepsOperators ==
    \A ch \in chans \cap chans' :
        channel[ch].operatorFds # {} => channel'[ch].operatorFds # {}

LEMMA SameChannelsKeepOperators ==
    ASSUME UNCHANGED channel
    PROVE  KeepsOperators
BY DEF KeepsOperators

LEMMA AnswerKeepsOperators ==
    ASSUME NEW c, NEW m, Answer(c, m)
    PROVE  KeepsOperators
BY DEF Answer, KeepsOperators

\* One channel changes and has operators if it had some.
LEMMA UpdateKeepsOperators ==
    ASSUME TypeOK, NEW ch \in chans, NEW chan,
           channel[ch].operatorFds # {} => chan.operatorFds # {},
           channel' = [channel EXCEPT ![ch] = chan]
    PROVE  KeepsOperators
BY DEF KeepsOperators, TypeOK

\* The changes that do not mention operatorFds.
LEMMA SettingKeepsOperators ==
    ASSUME NEW chan \in ChannelState, NEW v
    PROVE  /\ [chan EXCEPT !.topic = v].operatorFds = chan.operatorFds
           /\ [chan EXCEPT !.invitedFds = v].operatorFds = chan.operatorFds
           /\ [chan EXCEPT !.invite_only = v].operatorFds = chan.operatorFds
           /\ [chan EXCEPT !.change_topic = v].operatorFds = chan.operatorFds
           /\ [chan EXCEPT !.key = v].operatorFds = chan.operatorFds
           /\ [chan EXCEPT !.limit = v].operatorFds = chan.operatorFds
BY DEF ChannelState

\* A set of descriptors that loses its only element had cardinality one.
LEMMA LosesLast ==
    ASSUME NEW S \in SUBSET Fds, NEW t \in S, S \ {t} = {}
    PROVE  S = {t} /\ Cardinality(S) = 1
<1>1. S = {t}
  OBVIOUS
<1>2. QED
  BY <1>1, FS_Singleton

LEMMA JoinKeepsOperators ==
    ASSUME IInv, NEW c \in conns, NEW ch \in Names \cup {Absent, Invalid}, NEW k,
           joinHandler(c, ch, k)
    PROVE  KeepsOperators
<1>1. CASE Refuse(c, JoinError(c, ch, k), ch) \/ UNCHANGED channel
  BY <1>1, AnswerKeepsOperators, SameChannelsKeepOperators DEF Refuse
<1>2. CASE /\ JoinError(c, ch, k) = OK
           /\ channel' = [channel EXCEPT ![ch] = Admit(channel[ch], c)]
  <2>1. ch \in Names
    BY <1>2 DEF JoinError, OK
  <2>2. channel[ch] \in ChannelState
    BY <2>1 DEF IInv, TypeOK
  <2>3. channel[ch].operatorFds \subseteq Admit(channel[ch], c).operatorFds
    BY <2>2 DEF Admit, ChannelState
  <2>4. QED
    BY <1>2, <2>3 DEF KeepsOperators, IInv, TypeOK
<1>3. QED
  BY <1>1, <1>2 DEF joinHandler

\* The guard of KICK: the last operator is kicked only from a channel that
\* dies with it.
LEMMA KickKeepsOperators ==
    ASSUME IInv, NEW c \in conns, NEW ch \in Names, NEW n, kickHandler(c, ch, n)
    PROVE  KeepsOperators
<1>1. CASE KickError(c, ch, n) # OK
  BY <1>1, AnswerKeepsOperators DEF Refuse, kickHandler
<1>2. CASE KickError(c, ch, n) = OK
  <2>1. ch \in chans
    BY <1>2 DEF KickError, OK
  <2>2. PICK t \in conns : KickTarget(c, ch, t)
    BY <1>2 DEF kickHandler, Named
  <2>3. CASE Refuse(c, "441", ch) \/ Refuse(c, "NOTICE", ch)
    BY <2>3, AnswerKeepsOperators DEF Refuse
  <2>4. CASE /\ t \in Members(ch) /\ Expel(c, ch, t)
             /\ ~(LastOperator(channel[ch], t) /\ Cardinality(Members(ch)) > 1)
    <3> DEFINE chan == RemoveMember(channel[ch], t)
               ops  == channel[ch].operatorFds
    <3>1. /\ chan.operatorFds = ops \ {t}
          /\ chan.memberFds = Members(ch) \ {t}
          /\ ops \in SUBSET Fds /\ Members(ch) \in SUBSET Fds
      BY <2>1 DEF IInv, TypeOK, ChannelState, RemoveMember, Members
    <3>2. CASE chan.memberFds = {}
      <4>1. chans' = chans \ {ch}
        BY <2>4, <3>2 DEF Expel
      <4>2. \A d \in Names \ {ch} : channel'[d] = channel[d]
        BY <2>1, <2>4 DEF Expel, IInv, TypeOK
      <4>3. QED
        BY <4>1, <4>2 DEF KeepsOperators, IInv, TypeOK
    <3>3. CASE chan.memberFds # {}
      <4>1. channel' = [channel EXCEPT ![ch] = chan]
        BY <2>4, <3>3 DEF Expel
      <4>2. Cardinality(Members(ch)) > 1
        <5>1. IsFiniteSet(Members(ch) \ {t}) /\ IsFiniteSet(Members(ch))
          BY <3>1, FS_Subset, StateAssumption
        <5>2. Cardinality(Members(ch) \ {t}) = Cardinality(Members(ch)) - 1
          BY <2>4, <5>1, FS_RemoveElement
        <5>3. /\ Cardinality(Members(ch)) \in Nat
              /\ Cardinality(Members(ch) \ {t}) \in Nat
          BY <5>1, FS_CardinalityType
        <5>4. Cardinality(Members(ch) \ {t}) # 0
          BY <3>1, <3>3, <5>1, FS_EmptySet
        <5>5. QED
          BY <5>2, <5>3, <5>4
      <4>3. ops # {} => chan.operatorFds # {}
        <5> SUFFICES ASSUME ops # {}, ops \ {t} = {} PROVE FALSE
          BY <3>1
        <5>1. t \in ops
          OBVIOUS
        <5>2. Cardinality(ops) = 1
          BY <3>1, <5>1, LosesLast
        <5>3. QED
          BY <2>4, <4>2, <5>1, <5>2 DEF LastOperator
      <4>4. QED
        BY <2>1, <4>1, <4>3, UpdateKeepsOperators DEF IInv
    <3>4. QED
      BY <3>2, <3>3
  <2>5. QED
    BY <2>2, <2>3, <2>4 DEF KickTarget
<1>3. QED
  BY <1>1, <1>2

\* The guard of MODE -o.
LEMMA OpDeopKeepOperators ==
    ASSUME IInv, NEW c \in conns, NEW ch \in chans, NEW t \in conns,
           Op(c, ch, t) \/ Deop(c, ch, t)
    PROVE  KeepsOperators
<1> DEFINE ops == channel[ch].operatorFds
<1>1. ops \in SUBSET Fds /\ channel[ch] \in ChannelState
  BY DEF IInv, TypeOK, ChannelState
<1>2. CASE UNCHANGED channel
  BY <1>2, SameChannelsKeepOperators
<1>3. CASE channel' = [channel EXCEPT ![ch] =
                        [channel[ch] EXCEPT !.operatorFds = ops \cup {t}]]
  <2>1. [channel[ch] EXCEPT !.operatorFds = ops \cup {t}].operatorFds # {}
    BY <1>1 DEF ChannelState
  <2>2. QED
    BY <1>3, <2>1, UpdateKeepsOperators DEF IInv
<1>4. CASE /\ t \in ops /\ ~LastOperator(channel[ch], t)
           /\ channel' = [channel EXCEPT ![ch] =
                            [channel[ch] EXCEPT !.operatorFds = ops \ {t}]]
  <2>1. ops \ {t} # {}
    BY <1>1, <1>4, LosesLast DEF LastOperator
  <2>2. [channel[ch] EXCEPT !.operatorFds = ops \ {t}].operatorFds # {}
    BY <1>1, <2>1 DEF ChannelState
  <2>3. QED
    BY <1>4, <2>2, UpdateKeepsOperators DEF IInv
<1>5. QED
  BY <1>2, <1>3, <1>4 DEF Op, Deop, ChangeMode, Update, Refuse, Answer

LEMMA ModesKeepOperators ==
    ASSUME IInv, NEW c \in conns, NEW ch \in Names,
           NEW flag \in Flags \cup {Absent, Invalid}, modes(c, ch, flag)
    PROVE  KeepsOperators
<1>1. CASE UNCHANGED channel
  BY <1>1, SameChannelsKeepOperators
<1>2. ASSUME ModeError(c, ch, flag) = OK PROVE ch \in chans /\ TypeOK
  BY <1>2 DEF ModeError, OK, IInv
<1>3. ASSUME NEW chan, ch \in chans, chan.operatorFds = channel[ch].operatorFds,
             ChangeMode(c, ch, flag, chan, {})
      PROVE  KeepsOperators
  BY <1>3, UpdateKeepsOperators DEF ChangeMode, Update, IInv
<1>4. CASE ModeError(c, ch, flag) = OK /\ invite_only(c, ch, flag)
  BY <1>2, <1>3, <1>4, SettingKeepsOperators DEF invite_only, TypeOK
<1>5. CASE ModeError(c, ch, flag) = OK /\ let_s_change_the_topic(c, ch, flag)
  BY <1>2, <1>3, <1>5, SettingKeepsOperators DEF let_s_change_the_topic, TypeOK
<1>6. CASE /\ ModeError(c, ch, flag) = OK
           /\ \E k \in Keys \cup {NoKey, Absent} : secret_key(c, ch, flag, k)
  <2>1. PICK k \in Keys \cup {NoKey, Absent} : secret_key(c, ch, flag, k)
    BY <1>6
  <2>2. QED
    BY <1>1, <1>2, <1>3, <1>6, <2>1, SettingKeepsOperators
       DEF secret_key, Refuse, Answer, TypeOK
<1>7. CASE /\ ModeError(c, ch, flag) = OK
           /\ \E l \in 0 .. MaxLimit : limited_usage(c, ch, flag, l)
  <2>1. PICK l \in 0 .. MaxLimit : limited_usage(c, ch, flag, l)
    BY <1>7
  <2>2. QED
    BY <1>1, <1>2, <1>3, <1>7, <2>1, SettingKeepsOperators
       DEF limited_usage, Refuse, Answer, TypeOK
<1>8. CASE /\ ModeError(c, ch, flag) = OK
           /\ \E n \in Nicks \cup {NoNick, Absent} : operators(c, ch, flag, n)
  <2>1. PICK n \in Nicks \cup {NoNick, Absent} : operators(c, ch, flag, n)
    BY <1>8
  <2>2. UNCHANGED channel \/ \E t \in conns : Op(c, ch, t) \/ Deop(c, ch, t)
    BY <2>1 DEF operators, Named, Refuse, Answer
  <2>3. QED
    BY <1>1, <1>2, <1>8, <2>2, OpDeopKeepOperators
<1>9. QED
  BY <1>1, <1>4, <1>5, <1>6, <1>7, <1>8 DEF modes, Refuse, Answer

LEMMA CommandsKeepOperators ==
    ASSUME IInv, NEW c \in conns, dispatchCommand(c)
    PROVE  KeepsOperators
<1>1. ASSUME NEW pw, passHundler(c, pw) PROVE KeepsOperators
  BY <1>1, SameChannelsKeepOperators DEF passHundler, Refuse, Answer
<1>2. ASSUME NEW n, nickHundler(c, n) PROVE KeepsOperators
  BY <1>2, SameChannelsKeepOperators DEF nickHundler, Refuse, Answer
<1>3. ASSUME NEW enough, userHandler(c, enough) PROVE KeepsOperators
  BY <1>3, SameChannelsKeepOperators DEF userHandler, Refuse, Answer
<1>4. ASSUME NEW target, NEW text, privmsgHandler(c, target, text)
      PROVE  KeepsOperators
  BY <1>4, SameChannelsKeepOperators DEF privmsgHandler, Refuse, Answer
<1>5. ASSUME NEW ch, NEW t, topicHandler(c, ch, t) PROVE KeepsOperators
  <2>1. CASE TopicError(c, ch, t) # OK
    BY <1>5, <2>1, AnswerKeepsOperators DEF Refuse, topicHandler
  <2>2. CASE TopicError(c, ch, t) = OK
    <3>1. ch \in chans
      BY <2>2 DEF TopicError, OK
    <3>2. channel' = [channel EXCEPT ![ch] = [channel[ch] EXCEPT !.topic = t]]
      BY <1>5, <2>2 DEF topicHandler, Update, OK
    <3>3. channel[ch] \in ChannelState
      BY <3>1 DEF IInv, TypeOK
    <3>4. QED
      BY <3>1, <3>2, <3>3, SettingKeepsOperators, UpdateKeepsOperators DEF IInv
  <2>3. QED
    BY <2>1, <2>2
<1>6. ASSUME NEW ch \in Names, NEW n, inviteHandler(c, n, ch) PROVE KeepsOperators
  <2>1. CASE UNCHANGED channel
    BY <2>1, SameChannelsKeepOperators
  <2>2. ASSUME NEW t, ch \in chans,
               channel' = [channel EXCEPT ![ch].invitedFds = @ \cup {t}]
        PROVE  KeepsOperators
    <3> DEFINE invited == channel[ch].invitedFds \cup {t}
    <3>1. channel' = [channel EXCEPT ![ch] =
                        [channel[ch] EXCEPT !.invitedFds = invited]]
      BY <2>2
    <3>2. channel[ch] \in ChannelState
      BY DEF IInv, TypeOK
    <3> HIDE DEF invited
    <3>3. QED
      BY <2>2, <3>1, <3>2, SettingKeepsOperators, UpdateKeepsOperators DEF IInv
  <2>3. InviteError(c, n, ch) = OK => ch \in chans
    BY DEF InviteError, OK
  <2>4. QED
    BY <1>6, <2>1, <2>2, <2>3 DEF inviteHandler, Refuse, Answer
<1>7. unknownCommand(c) => KeepsOperators
  BY AnswerKeepsOperators DEF Refuse, unknownCommand
<1>8. QED
  BY <1>1, <1>2, <1>3, <1>4, <1>5, <1>6, <1>7,
     JoinKeepsOperators, KickKeepsOperators, ModesKeepOperators
     DEF dispatchCommand

\* Only the disconnection of its last operator leaves a channel that has
\* members without one.
THEOREM OperatorsLast == Spec => OnlyDisconnectOrphans
<1>1. KeepsOperators => OrphansByDisconnect
  BY DEF KeepsOperators, OrphansByDisconnect
<1>2. ASSUME IInv, NEW f \in conns, disconnect(f) PROVE OrphansByDisconnect
  <2> SUFFICES ASSUME NEW ch \in chans \cap chans',
                      channel[ch].operatorFds # {}, channel'[ch].operatorFds = {}
               PROVE  conns' = conns \ {f} /\ channel[ch].operatorFds = {f}
    BY DEF OrphansByDisconnect
  <2>1. /\ conns' = conns \ {f}
        /\ channel'[ch] = Leave(channel[ch], f)
        /\ channel[ch] \in ChannelState
    BY <1>2 DEF disconnect, IInv, TypeOK
  <2>2. QED
    BY <2>1, LeaveType
<1>3. ASSUME IInv, NEW f \in Fds, connect(f) PROVE KeepsOperators
  BY <1>3, SameChannelsKeepOperators DEF connect
<1>4. IInv /\ [Next]_vars => [OrphansByDisconnect]_vars
  BY <1>1, <1>2, <1>3, CommandsKeepOperators DEF Next
<1>5. QED
  BY <1>4, Invariance, PTL DEF Spec, OnlyDisconnectOrphans
-----------------------------------------------------------------------------
(* The effects of a step on a channel.                                     *)

\* f disconnects.
LeftBy(ch, f) ==
    /\ f \in conns /\ conns' = conns \ {f}
    /\ channel'[ch] = IF ch \in chans' THEN Leave(channel[ch], f) ELSE NewChannel

\* c has passed the refusals of JOIN.
EnteredBy(ch, c) ==
    /\ c \in conns /\ conns' = conns
    /\ \E k : JoinError(c, ch, k) = OK
    /\ channel'[ch] = Admit(channel[ch], c)

\* An operator acts on the channel; nobody enters.
LedBy(ch, c) ==
    /\ c \in channel[ch].operatorFds
    /\ channel'[ch].memberFds \subseteq channel[ch].memberFds

\* A member sets the topic.
Retopic(ch) ==
    /\ conns' = conns
    /\ \E t : channel'[ch] = [channel[ch] EXCEPT !.topic = t]

EffectOn(ch) ==
    \/ channel'[ch] = channel[ch] /\ conns \subseteq conns'
    \/ \E f : LeftBy(ch, f)
    \/ \E c : EnteredBy(ch, c)
    \/ \E c : LedBy(ch, c)
    \/ Retopic(ch)

LEMMA SameEffect ==
    ASSUME UNCHANGED <<conns, channel>>, NEW ch
    PROVE  EffectOn(ch)
BY DEF EffectOn

LEMMA AnswerEffect ==
    ASSUME NEW c, NEW m, Answer(c, m), NEW ch
    PROVE  EffectOn(ch)
BY SameEffect DEF Answer

\* Only one channel has another state after the step.
LEMMA OtherEffect ==
    ASSUME TypeOK, NEW ch \in Names, NEW new, NEW d \in Names, d # ch,
           conns' = conns, channel' = [channel EXCEPT ![ch] = new]
    PROVE  EffectOn(d)
BY DEF EffectOn, TypeOK

LEMMA JoinEffect ==
    ASSUME IInv, NEW c \in conns, NEW ch \in Names \cup {Absent, Invalid}, NEW k,
           joinHandler(c, ch, k), NEW d \in Names
    PROVE  EffectOn(d)
<1>1. CASE Refuse(c, JoinError(c, ch, k), ch) \/ UNCHANGED <<conns, channel>>
  BY <1>1, AnswerEffect, SameEffect DEF Refuse
<1>2. CASE /\ JoinError(c, ch, k) = OK /\ conns' = conns
           /\ channel' = [channel EXCEPT ![ch] = Admit(channel[ch], c)]
  <2>1. ch \in Names
    BY <1>2 DEF JoinError, OK
  <2>2. CASE d # ch
    BY <1>2, <2>1, <2>2, OtherEffect DEF IInv
  <2>3. CASE d = ch
    <3>1. channel'[ch] = Admit(channel[ch], c)
      BY <1>2, <2>1 DEF IInv, TypeOK
    <3>2. EnteredBy(ch, c)
      BY <1>2, <3>1 DEF EnteredBy
    <3>3. QED
      BY <2>3, <3>2 DEF EffectOn
  <2>4. QED
    BY <2>2, <2>3
<1>3. QED
  BY <1>1, <1>2 DEF joinHandler

\* Somebody who is an operator changes the channel without adding a member.
LEMMA LedEffect ==
    ASSUME IInv, NEW ch \in Names, NEW c \in channel[ch].operatorFds, NEW new,
           new.memberFds \subseteq channel[ch].memberFds, conns' = conns,
           channel' = [channel EXCEPT ![ch] = new], NEW d \in Names
    PROVE  EffectOn(d)
<1>1. CASE d # ch
  BY <1>1, OtherEffect DEF IInv
<1>2. CASE d = ch
  <2>1. LedBy(ch, c)
    BY DEF LedBy, IInv, TypeOK
  <2>2. QED
    BY <1>2, <2>1 DEF EffectOn
<1>3. QED
  BY <1>1, <1>2

LEMMA KickEffect ==
    ASSUME IInv, NEW c \in conns, NEW ch \in Names, NEW n, kickHandler(c, ch, n),
           NEW d \in Names
    PROVE  EffectOn(d)
<1>1. CASE KickError(c, ch, n) # OK
  BY <1>1, AnswerEffect DEF Refuse, kickHandler
<1>2. CASE KickError(c, ch, n) = OK
  <2>1. c \in channel[ch].operatorFds
    BY <1>2 DEF KickError, OK
  <2>2. PICK t : KickTarget(c, ch, t)
    BY <1>2 DEF kickHandler
  <2>3. CASE Refuse(c, "441", ch) \/ Refuse(c, "NOTICE", ch)
    BY <2>3, AnswerEffect DEF Refuse
  <2>4. CASE Expel(c, ch, t) /\ conns' = conns
    <3> DEFINE left == RemoveMember(channel[ch], t)
               new  == IF left.memberFds = {} THEN NewChannel ELSE left
    <3>1. left.memberFds \subseteq channel[ch].memberFds
      BY DEF RemoveMember, IInv, TypeOK, ChannelState
    <3>2. new.memberFds \subseteq channel[ch].memberFds
      BY <3>1 DEF NewChannel
    <3>3. channel' = [channel EXCEPT ![ch] = new]
      BY <2>4 DEF Expel
    <3> HIDE DEF new
    <3>4. QED
      BY <2>1, <2>4, <3>2, <3>3, LedEffect
  <2>5. QED
    BY <2>2, <2>3, <2>4 DEF KickTarget
<1>3. QED
  BY <1>1, <1>2

LEMMA InviteEffect ==
    ASSUME IInv, NEW c \in conns, NEW ch \in Names, NEW n, inviteHandler(c, n, ch),
           NEW d \in Names
    PROVE  EffectOn(d)
<1>1. CASE UNCHANGED <<conns, channel>>
  BY <1>1, SameEffect
<1>2. ASSUME NEW t, c \in channel[ch].operatorFds, conns' = conns,
             channel' = [channel EXCEPT ![ch].invitedFds = @ \cup {t}]
      PROVE  EffectOn(d)
  <2> DEFINE inv == channel[ch].invitedFds \cup {t}
             new == [channel[ch] EXCEPT !.invitedFds = inv]
  <2>1. channel' = [channel EXCEPT ![ch] = new]
    BY <1>2
  <2> HIDE DEF inv
  <2>2. new.memberFds = channel[ch].memberFds
    BY DEF IInv, TypeOK, ChannelState
  <2> HIDE DEF new
  <2>3. QED
    BY <1>2, <2>1, <2>2, LedEffect
<1>3. InviteError(c, n, ch) = OK => c \in channel[ch].operatorFds
  BY DEF InviteError, OK
<1>4. QED
  BY <1>1, <1>2, <1>3 DEF inviteHandler, Refuse, Answer

LEMMA TopicEffect ==
    ASSUME IInv, NEW c \in conns, NEW ch, NEW t, topicHandler(c, ch, t), NEW d \in Names
    PROVE  EffectOn(d)
<1>1. CASE TopicError(c, ch, t) # OK
  BY <1>1, AnswerEffect DEF Refuse, topicHandler
<1>2. CASE TopicError(c, ch, t) = OK
  <2> DEFINE new == [channel[ch] EXCEPT !.topic = t]
  <2>1. ch \in Names
    BY <1>2 DEF TopicError, OK, IInv, TypeOK
  <2>2. channel' = [channel EXCEPT ![ch] = new] /\ conns' = conns
    BY <1>2 DEF topicHandler, Update, OK
  <2>3. CASE d # ch
    BY <2>1, <2>2, <2>3, OtherEffect DEF IInv
  <2>4. CASE d = ch
    <3>1. channel'[ch] = new
      BY <2>1, <2>2 DEF IInv, TypeOK
    <3>2. Retopic(ch)
      BY <2>2, <3>1 DEF Retopic
    <3>3. QED
      BY <2>4, <3>2 DEF EffectOn
  <2>5. QED
    BY <2>3, <2>4
<1>3. QED
  BY <1>1, <1>2

\* Every mode change is made by an operator and leaves the members alone.
LEMMA ModesEffect ==
    ASSUME IInv, NEW c \in conns, NEW ch \in Names,
           NEW flag \in Flags \cup {Absent, Invalid}, modes(c, ch, flag),
           NEW d \in Names
    PROVE  EffectOn(d)
<1>1. CASE UNCHANGED <<conns, channel>>
  BY <1>1, SameEffect
<1>2. ASSUME ModeError(c, ch, flag) = OK
      PROVE  c \in channel[ch].operatorFds /\ channel[ch] \in ChannelState
  BY <1>2 DEF ModeError, OK, IInv, TypeOK
<1>3. ASSUME NEW new, NEW who, NEW f, c \in channel[ch].operatorFds,
             new.memberFds = channel[ch].memberFds, ChangeMode(c, ch, f, new, who)
      PROVE  EffectOn(d)
  BY <1>3, LedEffect DEF ChangeMode, Update
<1>4. ASSUME NEW v, channel[ch] \in ChannelState
      PROVE  /\ [channel[ch] EXCEPT !.invite_only = v].memberFds = channel[ch].memberFds
             /\ [channel[ch] EXCEPT !.change_topic = v].memberFds = channel[ch].memberFds
             /\ [channel[ch] EXCEPT !.key = v].memberFds = channel[ch].memberFds
             /\ [channel[ch] EXCEPT !.limit = v].memberFds = channel[ch].memberFds
             /\ [channel[ch] EXCEPT !.operatorFds = v].memberFds = channel[ch].memberFds
  BY <1>4 DEF ChannelState
<1>5. CASE ModeError(c, ch, flag) = OK /\ invite_only(c, ch, flag)
  BY <1>2, <1>3, <1>4, <1>5 DEF invite_only
<1>6. CASE ModeError(c, ch, flag) = OK /\ let_s_change_the_topic(c, ch, flag)
  BY <1>2, <1>3, <1>4, <1>6 DEF let_s_change_the_topic
<1>7. CASE /\ ModeError(c, ch, flag) = OK
           /\ \E k \in Keys \cup {NoKey, Absent} : secret_key(c, ch, flag, k)
  <2>1. PICK k \in Keys \cup {NoKey, Absent} : secret_key(c, ch, flag, k)
    BY <1>7
  <2>2. QED
    BY <1>1, <1>2, <1>3, <1>4, <1>7, <2>1 DEF secret_key, Refuse, Answer
<1>8. CASE /\ ModeError(c, ch, flag) = OK
           /\ \E l \in 0 .. MaxLimit : limited_usage(c, ch, flag, l)
  <2>1. PICK l \in 0 .. MaxLimit : limited_usage(c, ch, flag, l)
    BY <1>8
  <2>2. QED
    BY <1>1, <1>2, <1>3, <1>4, <1>8, <2>1 DEF limited_usage, Refuse, Answer
<1>9. CASE /\ ModeError(c, ch, flag) = OK
           /\ \E n \in Nicks \cup {NoNick, Absent} : operators(c, ch, flag, n)
  <2>1. PICK n \in Nicks \cup {NoNick, Absent} : operators(c, ch, flag, n)
    BY <1>9
  <2>2. UNCHANGED <<conns, channel>> \/ \E t : Op(c, ch, t) \/ Deop(c, ch, t)
    BY <2>1 DEF operators, Refuse, Answer
  <2>3. ASSUME NEW t, Op(c, ch, t) \/ Deop(c, ch, t)
        PROVE  EffectOn(d)
    <3> DEFINE ops == channel[ch].operatorFds
    <3>1. \/ UNCHANGED <<conns, channel>>
          \/ \E f : ChangeMode(c, ch, f, [channel[ch] EXCEPT !.operatorFds = ops \cup {t}],
                               {client[t].nickname})
          \/ \E f : ChangeMode(c, ch, f, [channel[ch] EXCEPT !.operatorFds = ops \ {t}],
                               {client[t].nickname})
      BY <2>3 DEF Op, Deop, Refuse, Answer
    <3>2. QED
      BY <1>1, <1>2, <1>3, <1>4, <1>9, <3>1
  <2>4. QED
    BY <1>1, <2>2, <2>3
<1>10. QED
  BY <1>1, <1>5, <1>6, <1>7, <1>8, <1>9 DEF modes, Refuse, Answer

LEMMA CommandEffect ==
    ASSUME IInv, NEW c \in conns, dispatchCommand(c), NEW d \in Names
    PROVE  EffectOn(d)
<1>1. ASSUME NEW pw, passHundler(c, pw) PROVE EffectOn(d)
  BY <1>1, SameEffect DEF passHundler, Refuse, Answer
<1>2. ASSUME NEW n, nickHundler(c, n) PROVE EffectOn(d)
  BY <1>2, SameEffect DEF nickHundler, Refuse, Answer
<1>3. ASSUME NEW enough, userHandler(c, enough) PROVE EffectOn(d)
  BY <1>3, SameEffect DEF userHandler, Refuse, Answer
<1>4. ASSUME NEW target, NEW text, privmsgHandler(c, target, text) PROVE EffectOn(d)
  BY <1>4, SameEffect DEF privmsgHandler, Refuse, Answer
<1>5. unknownCommand(c) => EffectOn(d)
  BY AnswerEffect DEF Refuse, unknownCommand
<1>6. QED
  BY <1>1, <1>2, <1>3, <1>4, <1>5,
     JoinEffect, TopicEffect, KickEffect, InviteEffect, ModesEffect DEF dispatchCommand

LEMMA NextEffect ==
    ASSUME IInv, [Next]_vars, NEW d \in Names
    PROVE  EffectOn(d)
<1>1. CASE UNCHANGED vars
  BY <1>1, SameEffect DEF vars
<1>2. ASSUME NEW f \in Fds, connect(f) PROVE EffectOn(d)
  BY <1>2 DEF connect, EffectOn
<1>3. ASSUME NEW f \in conns, disconnect(f) PROVE EffectOn(d)
  <2>1. LeftBy(d, f)
    BY <1>3 DEF disconnect, LeftBy
  <2>2. QED
    BY <2>1 DEF EffectOn
<1>4. QED
  BY <1>1, <1>2, <1>3, CommandEffect DEF Next
-----------------------------------------------------------------------------
(* The theorems.                                                           *)

LEMMA AdmitProperties ==
    ASSUME NEW chan \in ChannelState, NEW c
    PROVE  /\ Admit(chan, c).memberFds = chan.memberFds \cup {c}
           /\ chan.memberFds # {} => Admit(chan, c).operatorFds = chan.operatorFds
           /\ Admit(chan, c).invitedFds = chan.invitedFds
           /\ Admit(chan, c).invite_only = chan.invite_only
           /\ Admit(chan, c).change_topic = chan.change_topic
           /\ Admit(chan, c).key = chan.key
           /\ Admit(chan, c).limit = chan.limit
BY DEF Admit, ChannelState

LEMMA LeaveProperties ==
    ASSUME NEW chan \in ChannelState, NEW f
    PROVE  /\ Leave(chan, f).memberFds = chan.memberFds \ {f}
           /\ Leave(chan, f).operatorFds = chan.operatorFds \ {f}
           /\ Leave(chan, f).invitedFds = chan.invitedFds \ {f}
           /\ Leave(chan, f).invite_only = chan.invite_only
           /\ Leave(chan, f).change_topic = chan.change_topic
           /\ Leave(chan, f).key = chan.key
           /\ Leave(chan, f).limit = chan.limit
BY DEF Leave, RemoveMember, RemoveInvite, ChannelState

\* Whoever is a member after the step and was none before has passed JOIN.
LEMMA NewMember ==
    ASSUME IInv, NEW ch \in Names, EffectOn(ch),
           NEW f \in channel'[ch].memberFds \ channel[ch].memberFds
    PROVE  EnteredBy(ch, f)
<1>1. channel[ch] \in ChannelState
  BY DEF IInv, TypeOK
<1>2. ASSUME NEW g, LeftBy(ch, g) PROVE FALSE
  BY <1>1, <1>2, LeaveProperties DEF LeftBy, NewChannel
<1>3. ASSUME NEW c, EnteredBy(ch, c) PROVE f = c
  BY <1>1, <1>3, AdmitProperties DEF EnteredBy
<1>4. ASSUME Retopic(ch) PROVE FALSE
  BY <1>1, <1>4 DEF Retopic, ChannelState
<1>5. QED
  BY <1>2, <1>3, <1>4 DEF EffectOn, LedBy

\* Nobody enters an existing channel uninvited while it is invite-only, nor when
\* its limit is reached.
THEOREM Admission == Spec => AdmissionControl
<1> DEFINE Controlled ==
      \A ch \in chans : \A f \in channel'[ch].memberFds \ channel[ch].memberFds :
         /\ channel[ch].invite_only => f \in channel[ch].invitedFds
         /\ HasLimit(channel[ch]) =>
                Cardinality(channel'[ch].memberFds) <= channel[ch].limit
<1>1. ASSUME IInv, [Next]_vars,
             NEW ch \in chans, NEW f \in channel'[ch].memberFds \ channel[ch].memberFds
      PROVE  /\ channel[ch].invite_only => f \in channel[ch].invitedFds
             /\ HasLimit(channel[ch]) =>
                    Cardinality(channel'[ch].memberFds) <= channel[ch].limit
  <2>1. ch \in Names /\ channel[ch] \in ChannelState
    BY <1>1 DEF IInv, TypeOK
  <2>2. EnteredBy(ch, f)
    BY <1>1, <2>1, NextEffect, NewMember
  <2>3. PICK k : JoinError(f, ch, k) = OK
    BY <2>2 DEF EnteredBy
  <2>4. /\ channel[ch].invite_only => f \in channel[ch].invitedFds
        /\ HasLimit(channel[ch]) => ~(Cardinality(Members(ch)) >= channel[ch].limit)
    BY <2>3 DEF JoinError, OK
  <2>5. channel'[ch].memberFds = Members(ch) \cup {f} /\ f \notin Members(ch)
    BY <1>1, <2>1, <2>2, AdmitProperties DEF EnteredBy, Members
  <2>6. IsFiniteSet(Members(ch))
    BY <2>1, FS_Subset, StateAssumption DEF ChannelState, Members
  <2>7. /\ Cardinality(Members(ch) \cup {f}) = Cardinality(Members(ch)) + 1
        /\ Cardinality(Members(ch)) \in Nat
    BY <2>5, <2>6, FS_AddElement, FS_CardinalityType
  <2>8. channel[ch].limit \in Nat
    BY <2>1, StateAssumption DEF ChannelState
  <2>9. QED
    BY <2>4, <2>5, <2>7, <2>8
<1>2. IInv /\ [Next]_vars => [Controlled]_vars
  BY <1>1
<1>3. QED
  BY <1>2, Invariance, PTL DEF Spec, AdmissionControl

\* A channel without operators: its modes stay, nobody is invited or made an
\* operator, and members leave by disconnecting only.
THEOREM OrphansFrozen == Spec => OrphanFrozen
<1> DEFINE Frozen(ch) ==
             /\ channel'[ch].operatorFds = {}
             /\ channel'[ch].invite_only = channel[ch].invite_only
             /\ channel'[ch].change_topic = channel[ch].change_topic
             /\ channel'[ch].key = channel[ch].key
             /\ channel'[ch].limit = channel[ch].limit
             /\ channel'[ch].invitedFds \subseteq channel[ch].invitedFds
             /\ channel[ch].memberFds \cap conns' \subseteq channel'[ch].memberFds
<1>1. ASSUME IInv, [Next]_vars, NEW ch \in chans \cap chans',
             channel[ch].operatorFds = {}
      PROVE  Frozen(ch)
  <2>1. ch \in Names /\ channel[ch] \in ChannelState /\ channel[ch].memberFds # {}
    BY <1>1 DEF IInv, TypeOK, NoEmptyChannel
  <2>2. EffectOn(ch)
    BY <1>1, <2>1, NextEffect
  <2>3. ASSUME NEW f, LeftBy(ch, f) PROVE Frozen(ch)
    <3>1. channel'[ch] = Leave(channel[ch], f) /\ conns' = conns \ {f}
      BY <1>1, <2>3 DEF LeftBy
    <3>2. QED
      BY <1>1, <2>1, <3>1, LeaveProperties
  <2>4. ASSUME NEW c, EnteredBy(ch, c) PROVE Frozen(ch)
    BY <1>1, <2>1, <2>4, AdmitProperties DEF EnteredBy
  <2>5. ASSUME Retopic(ch) PROVE Frozen(ch)
    BY <1>1, <2>1, <2>5 DEF Retopic, ChannelState
  <2>6. CASE channel'[ch] = channel[ch]
    BY <1>1, <2>6
  <2>7. QED
    BY <1>1, <2>2, <2>3, <2>4, <2>5, <2>6 DEF EffectOn, LedBy
<1>2. IInv /\ [Next]_vars =>
        [\A ch \in chans \cap chans' : channel[ch].operatorFds = {} => Frozen(ch)]_vars
  BY <1>1
<1>3. QED
  BY <1>2, Invariance, PTL DEF Spec, OrphanFrozen
-----------------------------------------------------------------------------
(* The refinement of Membership.                                           *)

\* What a step does to the lists: an action of Membership, or nothing.
RollStep == [Roll!Next]_(Roll!memberVars)
-----------------------------------------------------------------------------
(* The lists after the shapes of step that the handlers have.              *)

\* Nobody comes, goes or moves.
LEMMA SteadyRoll ==
    ASSUME UNCHANGED <<conns, channel>>
    PROVE  RollStep
BY DEF RollStep, Roll!memberVars, memberLists, operatorLists, inviteLists

LEMMA AnswerRoll ==
    ASSUME NEW c, NEW m, Answer(c, m)
    PROVE  RollStep
BY SteadyRoll DEF Answer

\* One channel changes.
LEMMA OneChannel ==
    ASSUME TypeOK, NEW ch \in Names, NEW chan,
           channel' = [channel EXCEPT ![ch] = chan]
    PROVE  /\ memberLists' = [memberLists EXCEPT ![ch] = chan.memberFds]
           /\ operatorLists' = [operatorLists EXCEPT ![ch] = chan.operatorFds]
           /\ inviteLists' = [inviteLists EXCEPT ![ch] = chan.invitedFds]
BY DEF TypeOK, memberLists, operatorLists, inviteLists

\* A mode or the topic changes.
LEMMA SettingRoll ==
    ASSUME TypeOK, NEW ch \in Names, NEW chan,
           chan.memberFds = channel[ch].memberFds,
           chan.operatorFds = channel[ch].operatorFds,
           chan.invitedFds = channel[ch].invitedFds,
           channel' = [channel EXCEPT ![ch] = chan], conns' = conns
    PROVE  RollStep
<1>1. /\ memberLists' = memberLists
      /\ operatorLists' = operatorLists
      /\ inviteLists' = inviteLists
  BY OneChannel DEF memberLists, operatorLists, inviteLists
<1>2. QED
  BY <1>1 DEF RollStep, Roll!memberVars

\* The changes that do not mention the lists.
LEMMA SettingKeepsLists ==
    ASSUME NEW chan \in ChannelState, NEW v, NEW new,
           \/ new = [chan EXCEPT !.topic = v]
           \/ new = [chan EXCEPT !.invite_only = v]
           \/ new = [chan EXCEPT !.change_topic = v]
           \/ new = [chan EXCEPT !.key = v]
           \/ new = [chan EXCEPT !.limit = v]
    PROVE  /\ new.memberFds = chan.memberFds
           /\ new.operatorFds = chan.operatorFds
           /\ new.invitedFds = chan.invitedFds
BY DEF ChannelState
-----------------------------------------------------------------------------
(* Connections.                                                            *)

LEMMA ConnectRoll ==
    ASSUME NEW f \in Fds, connect(f)
    PROVE  RollStep
<1>1. Roll!Arrive(f)
  BY DEF connect, Roll!Arrive, memberLists, operatorLists, inviteLists
<1>2. QED
  BY <1>1 DEF RollStep, Roll!Next

\* The loop of leave_chanels empties the lists of the channels it erases.
LEMMA DisconnectRoll ==
    ASSUME IInv, NEW f \in conns, disconnect(f)
    PROVE  RollStep
<1>1. f \in Fds
  BY DEF IInv, TypeOK
<1>2. ASSUME NEW ch \in Names
      PROVE  /\ channel'[ch].memberFds = Roll!Without(memberLists, ch, f)
             /\ channel'[ch].operatorFds = Roll!Without(operatorLists, ch, f)
             /\ channel'[ch].invitedFds = Roll!Without(inviteLists, ch, f)
  <2>1. /\ channel[ch] \in ChannelState
        /\ channel'[ch] = IF ch \in chans' THEN Leave(channel[ch], f) ELSE NewChannel
        /\ ch \in chans' <=> ch \in chans /\ Leave(channel[ch], f).memberFds # {}
    BY DEF disconnect, IInv, TypeOK
  <2>2. /\ Leave(channel[ch], f).memberFds = channel[ch].memberFds \ {f}
        /\ Leave(channel[ch], f).operatorFds = channel[ch].operatorFds \ {f}
        /\ Leave(channel[ch], f).invitedFds = channel[ch].invitedFds \ {f}
    BY <2>1 DEF Leave, RemoveMember, RemoveInvite, ChannelState
  <2>3. ch \notin chans => channel[ch].memberFds = {}
    BY DEF IInv, NoEmptyChannel, NewChannel
  <2>4. ch \in chans' <=> ~(channel[ch].memberFds \subseteq {f})
    BY <2>1, <2>2, <2>3
  <2>5. /\ memberLists[ch] = channel[ch].memberFds
        /\ operatorLists[ch] = channel[ch].operatorFds
        /\ inviteLists[ch] = channel[ch].invitedFds
    BY DEF memberLists, operatorLists, inviteLists
  <2>6. CASE ch \in chans'
    BY <2>1, <2>2, <2>4, <2>5, <2>6 DEF Roll!Without
  <2>7. CASE ch \notin chans'
    BY <2>1, <2>4, <2>5, <2>7 DEF Roll!Without, NewChannel
  <2>8. QED
    BY <2>6, <2>7
<1>3. Roll!Depart(f)
  BY <1>2 DEF disconnect, Roll!Depart, memberLists, operatorLists, inviteLists
<1>4. QED
  BY <1>1, <1>3 DEF RollStep, Roll!Next
-----------------------------------------------------------------------------
(* JOIN, KICK and INVITE.                                                  *)

LEMMA JoinRoll ==
    ASSUME IInv, NEW c \in conns, NEW ch \in Names \cup {Absent, Invalid}, NEW k,
           joinHandler(c, ch, k)
    PROVE  RollStep
<1>1. CASE Refuse(c, JoinError(c, ch, k), ch)
  BY <1>1, AnswerRoll DEF Refuse
<1>2. CASE UNCHANGED <<conns, channel>>
  BY <1>2, SteadyRoll
<1>3. CASE /\ JoinError(c, ch, k) = OK /\ conns' = conns
           /\ channel' = [channel EXCEPT ![ch] = Admit(channel[ch], c)]
  <2> DEFINE chan == Admit(channel[ch], c)
  <2>1. ch \in Names /\ c \notin Members(ch) /\ c \in Fds
    BY <1>3 DEF JoinError, OK, IInv, TypeOK
  <2>2. channel[ch] \in ChannelState
    BY <2>1 DEF IInv, TypeOK
  <2>3. /\ chan.memberFds = Members(ch) \cup {c}
        /\ chan.operatorFds = IF Members(ch) = {}
                                THEN channel[ch].operatorFds \cup {c}
                                ELSE channel[ch].operatorFds
        /\ chan.invitedFds = channel[ch].invitedFds
    BY <2>2 DEF Admit, Members, ChannelState
  <2>4. Members(ch) = {} => channel[ch].operatorFds = {}
    BY <2>1 DEF IInv, NoEmptyChannel, NewChannel, Members
  <2> HIDE DEF chan
  <2>5. /\ memberLists' = [memberLists EXCEPT ![ch] = chan.memberFds]
        /\ operatorLists' = [operatorLists EXCEPT ![ch] = chan.operatorFds]
        /\ inviteLists' = [inviteLists EXCEPT ![ch] = chan.invitedFds]
    BY <1>3, <2>1, OneChannel DEF IInv, chan
  <2>6. /\ memberLists[ch] = Members(ch)
        /\ operatorLists[ch] = channel[ch].operatorFds
        /\ inviteLists[ch] = channel[ch].invitedFds
    BY <2>1 DEF memberLists, operatorLists, inviteLists, Members
  <2>7. memberLists' = [memberLists EXCEPT ![ch] = @ \cup {c}]
    BY <2>3, <2>5, <2>6
  <2>8. operatorLists' = IF memberLists[ch] = {}
                           THEN [operatorLists EXCEPT ![ch] = {c}]
                           ELSE operatorLists
    BY <2>1, <2>3, <2>4, <2>5, <2>6 DEF operatorLists
  <2>9. inviteLists' = inviteLists
    BY <2>1, <2>3, <2>5, <2>6 DEF inviteLists
  <2>10. Roll!Enter(c, ch)
    BY <1>3, <2>1, <2>6, <2>7, <2>8, <2>9 DEF Roll!Enter
  <2>11. QED
    BY <2>1, <2>10 DEF RollStep, Roll!Next
<1>4. QED
  BY <1>1, <1>2, <1>3 DEF joinHandler

\* The guard of KICK is the guard of Expel.
LEMMA ExpelGuard ==
    ASSUME IInv, NEW ch \in chans, NEW t \in Members(ch),
           ~(LastOperator(channel[ch], t) /\ Cardinality(Members(ch)) > 1)
    PROVE  channel[ch].operatorFds = {t} => Members(ch) = {t}
<1> SUFFICES ASSUME channel[ch].operatorFds = {t} PROVE Members(ch) \ {t} = {}
  OBVIOUS
<1>1. LastOperator(channel[ch], t)
  BY FS_Singleton DEF LastOperator
<1>2. Members(ch) \in SUBSET Fds
  BY DEF IInv, TypeOK, ChannelState, Members
<1>3. IsFiniteSet(Members(ch)) /\ IsFiniteSet(Members(ch) \ {t})
  BY <1>2, FS_Subset, StateAssumption
<1>4. Cardinality(Members(ch) \ {t}) = Cardinality(Members(ch)) - 1
  BY <1>3, FS_RemoveElement
<1>5. /\ Cardinality(Members(ch)) \in Nat
      /\ Cardinality(Members(ch) \ {t}) \in Nat
  BY <1>3, FS_CardinalityType
<1>6. Cardinality(Members(ch) \ {t}) = 0
  BY <1>1, <1>4, <1>5
<1>7. QED
  BY <1>3, <1>6, FS_EmptySet

LEMMA KickRoll ==
    ASSUME IInv, NEW c \in conns, NEW ch \in Names, NEW n, kickHandler(c, ch, n)
    PROVE  RollStep
<1>1. CASE KickError(c, ch, n) # OK
  BY <1>1, AnswerRoll DEF Refuse, kickHandler
<1>2. CASE KickError(c, ch, n) = OK
  <2>1. ch \in chans /\ c \in channel[ch].operatorFds /\ c \in Fds
    BY <1>2 DEF KickError, OK, IInv, TypeOK
  <2>2. PICK t \in conns : KickTarget(c, ch, t)
    BY <1>2 DEF kickHandler, Named
  <2>3. CASE Refuse(c, "441", ch) \/ Refuse(c, "NOTICE", ch)
    BY <2>3, AnswerRoll DEF Refuse
  <2>4. CASE /\ t \in Members(ch) /\ Expel(c, ch, t) /\ conns' = conns
             /\ ~(LastOperator(channel[ch], t) /\ Cardinality(Members(ch)) > 1)
    <3> DEFINE left == RemoveMember(channel[ch], t)
               chan == IF left.memberFds = {} THEN NewChannel ELSE left
               ops  == channel[ch].operatorFds
               inv  == channel[ch].invitedFds
    <3>1. /\ left.operatorFds = ops \ {t}
          /\ left.memberFds = Members(ch) \ {t}
          /\ left.invitedFds = inv
          /\ ops \subseteq Members(ch)
      BY <2>1 DEF IInv, TypeOK, ChannelState, RemoveMember, Members,
                  OperatorsAreMembers
    <3>2. channel' = [channel EXCEPT ![ch] = chan]
      BY <2>4 DEF Expel
    <3>3. /\ chan.memberFds = Members(ch) \ {t}
          /\ chan.operatorFds = ops \ {t}
          /\ chan.invitedFds = IF Members(ch) = {t} THEN {} ELSE inv
      <4>1. CASE left.memberFds = {}
        BY <2>4, <3>1, <4>1 DEF NewChannel
      <4>2. CASE left.memberFds # {}
        BY <3>1, <4>2
      <4>3. QED
        BY <4>1, <4>2
    <3> HIDE DEF chan, left
    <3>4. /\ memberLists' = [memberLists EXCEPT ![ch] = chan.memberFds]
          /\ operatorLists' = [operatorLists EXCEPT ![ch] = chan.operatorFds]
          /\ inviteLists' = [inviteLists EXCEPT ![ch] = chan.invitedFds]
      BY <3>2, OneChannel DEF IInv
    <3>5. memberLists[ch] = Members(ch) /\ operatorLists[ch] = ops
          /\ inviteLists[ch] = inv
      BY DEF memberLists, operatorLists, inviteLists, Members
    <3>6. operatorLists[ch] = {t} => memberLists[ch] = {t}
      BY <2>1, <2>4, <3>5, ExpelGuard
    <3>7. /\ memberLists' = [memberLists EXCEPT ![ch] = @ \ {t}]
          /\ operatorLists' = [operatorLists EXCEPT ![ch] = @ \ {t}]
          /\ inviteLists' = [inviteLists EXCEPT ![ch] =
                               IF memberLists[ch] = {t} THEN {} ELSE @]
      BY <3>3, <3>4, <3>5
    <3>8. Roll!Expel(c, t, ch)
      BY <2>1, <2>4, <3>5, <3>6, <3>7 DEF Roll!Expel
    <3>9. t \in Fds
      BY DEF IInv, TypeOK
    <3>10. QED
      BY <2>1, <3>8, <3>9 DEF RollStep, Roll!Next
  <2>5. QED
    BY <2>2, <2>3, <2>4 DEF KickTarget
<1>3. QED
  BY <1>1, <1>2

LEMMA InviteRoll ==
    ASSUME IInv, NEW c \in conns, NEW ch \in Names, NEW n, inviteHandler(c, n, ch)
    PROVE  RollStep
<1>1. CASE InviteError(c, n, ch) # OK
  BY <1>1, AnswerRoll DEF Refuse, inviteHandler
<1>2. CASE InviteError(c, n, ch) = OK
  <2>1. c \in channel[ch].operatorFds /\ c \in Fds
    BY <1>2 DEF InviteError, OK, IInv, TypeOK
  <2>2. CASE \E t \in Named(n) : Refuse(c, "443", ch)
    BY <2>2, AnswerRoll DEF Refuse
  <2>3. ASSUME NEW t \in conns, t \notin Members(ch), conns' = conns,
               channel' = [channel EXCEPT ![ch].invitedFds = @ \cup {t}]
        PROVE  RollStep
    <3> DEFINE inv  == channel[ch].invitedFds \cup {t}
               chan == [channel[ch] EXCEPT !.invitedFds = inv]
    <3>1. channel' = [channel EXCEPT ![ch] = chan]
      BY <2>3
    <3> HIDE DEF inv
    <3>2. /\ chan.memberFds = channel[ch].memberFds
          /\ chan.operatorFds = channel[ch].operatorFds
          /\ chan.invitedFds = inv
      BY DEF IInv, TypeOK, ChannelState
    <3> HIDE DEF chan
    <3>3. /\ memberLists' = [memberLists EXCEPT ![ch] = chan.memberFds]
          /\ operatorLists' = [operatorLists EXCEPT ![ch] = chan.operatorFds]
          /\ inviteLists' = [inviteLists EXCEPT ![ch] = chan.invitedFds]
      BY <3>1, OneChannel DEF IInv
    <3>4. /\ memberLists' = memberLists /\ operatorLists' = operatorLists
          /\ inviteLists' = [inviteLists EXCEPT ![ch] = @ \cup {t}]
      BY <3>2, <3>3 DEF memberLists, operatorLists, inviteLists, inv
    <3>5. Roll!Invite(c, t, ch)
      BY <2>1, <2>3, <3>4 DEF Roll!Invite, memberLists, operatorLists, Members
    <3>6. t \in Fds
      BY DEF IInv, TypeOK
    <3>7. QED
      BY <2>1, <3>5, <3>6 DEF RollStep, Roll!Next
  <2>4. QED
    BY <1>2, <2>2, <2>3 DEF inviteHandler, Named
<1>3. QED
  BY <1>1, <1>2
-----------------------------------------------------------------------------
(* MODE.                                                                   *)

\* Only the operators of a channel that exists change.
LEMMA OperatorsChange ==
    ASSUME IInv, NEW ch \in Names, NEW ops, conns' = conns,
           channel' = [channel EXCEPT ![ch] =
                         [channel[ch] EXCEPT !.operatorFds = ops]]
    PROVE  /\ UNCHANGED <<conns, memberLists, inviteLists>>
           /\ operatorLists' = [operatorLists EXCEPT ![ch] = ops]
<1> DEFINE chan == [channel[ch] EXCEPT !.operatorFds = ops]
<1>1. /\ chan.memberFds = channel[ch].memberFds
      /\ chan.operatorFds = ops
      /\ chan.invitedFds = channel[ch].invitedFds
  BY DEF IInv, TypeOK, ChannelState
<1> HIDE DEF chan
<1>2. /\ memberLists' = [memberLists EXCEPT ![ch] = chan.memberFds]
      /\ operatorLists' = [operatorLists EXCEPT ![ch] = chan.operatorFds]
      /\ inviteLists' = [inviteLists EXCEPT ![ch] = chan.invitedFds]
  BY OneChannel DEF IInv, chan
<1>3. QED
  BY <1>1, <1>2 DEF memberLists, inviteLists

LEMMA OpDeopRoll ==
    ASSUME IInv, NEW c \in conns, NEW ch \in chans, c \in channel[ch].operatorFds,
           NEW t \in Members(ch), Op(c, ch, t) \/ Deop(c, ch, t)
    PROVE  RollStep
<1> DEFINE ops == channel[ch].operatorFds
<1>1. /\ ch \in Names /\ c \in Fds /\ t \in Fds /\ ops \in SUBSET Fds
      /\ operatorLists[ch] = ops /\ memberLists[ch] = Members(ch)
  BY DEF IInv, TypeOK, ChannelState, operatorLists, memberLists, Members
<1>2. CASE UNCHANGED <<conns, channel>>
  BY <1>2, SteadyRoll
<1>3. CASE /\ conns' = conns
           /\ channel' = [channel EXCEPT ![ch] =
                            [channel[ch] EXCEPT !.operatorFds = ops \cup {t}]]
  <2>1. Roll!Promote(c, t, ch)
    BY <1>1, <1>3, OperatorsChange DEF Roll!Promote
  <2>2. QED
    BY <1>1, <2>1 DEF RollStep, Roll!Next
<1>4. CASE /\ t \in ops /\ ~LastOperator(channel[ch], t) /\ conns' = conns
           /\ channel' = [channel EXCEPT ![ch] =
                            [channel[ch] EXCEPT !.operatorFds = ops \ {t}]]
  <2>1. ops # {t}
    BY <1>4, FS_Singleton DEF LastOperator
  <2>2. Roll!Demote(c, t, ch)
    BY <1>1, <1>4, <2>1, OperatorsChange DEF Roll!Demote
  <2>3. QED
    BY <1>1, <2>2 DEF RollStep, Roll!Next
<1>5. QED
  BY <1>2, <1>3, <1>4 DEF Op, Deop, ChangeMode, Update, Refuse, Answer

LEMMA ModesRoll ==
    ASSUME IInv, NEW c \in conns, NEW ch \in Names,
           NEW flag \in Flags \cup {Absent, Invalid}, modes(c, ch, flag)
    PROVE  RollStep
<1>1. CASE UNCHANGED <<conns, channel>>
  BY <1>1, SteadyRoll
<1>2. ASSUME ModeError(c, ch, flag) = OK
      PROVE  /\ ch \in chans /\ c \in channel[ch].operatorFds
             /\ channel[ch] \in ChannelState
  BY <1>2 DEF ModeError, OK, IInv, TypeOK
<1>3. ASSUME NEW chan, chan.memberFds = channel[ch].memberFds,
             chan.operatorFds = channel[ch].operatorFds,
             chan.invitedFds = channel[ch].invitedFds,
             ChangeMode(c, ch, flag, chan, {})
      PROVE  RollStep
  BY <1>3, SettingRoll DEF ChangeMode, Update, IInv
<1>4. CASE ModeError(c, ch, flag) = OK /\ invite_only(c, ch, flag)
  BY <1>2, <1>3, <1>4, SettingKeepsLists DEF invite_only
<1>5. CASE ModeError(c, ch, flag) = OK /\ let_s_change_the_topic(c, ch, flag)
  BY <1>2, <1>3, <1>5, SettingKeepsLists DEF let_s_change_the_topic
<1>6. CASE /\ ModeError(c, ch, flag) = OK
           /\ \E k \in Keys \cup {NoKey, Absent} : secret_key(c, ch, flag, k)
  <2>1. PICK k \in Keys \cup {NoKey, Absent} : secret_key(c, ch, flag, k)
    BY <1>6
  <2>2. QED
    BY <1>1, <1>2, <1>3, <1>6, <2>1, SettingKeepsLists DEF secret_key, Refuse, Answer
<1>7. CASE /\ ModeError(c, ch, flag) = OK
           /\ \E l \in 0 .. MaxLimit : limited_usage(c, ch, flag, l)
  <2>1. PICK l \in 0 .. MaxLimit : limited_usage(c, ch, flag, l)
    BY <1>7
  <2>2. QED
    BY <1>1, <1>2, <1>3, <1>7, <2>1, SettingKeepsLists DEF limited_usage, Refuse, Answer
<1>8. CASE /\ ModeError(c, ch, flag) = OK
           /\ \E n \in Nicks \cup {NoNick, Absent} : operators(c, ch, flag, n)
  <2>1. PICK n \in Nicks \cup {NoNick, Absent} : operators(c, ch, flag, n)
    BY <1>8
  <2>2. \/ UNCHANGED <<conns, channel>>
        \/ \E t \in Members(ch) : Op(c, ch, t) \/ Deop(c, ch, t)
    BY <2>1 DEF operators, Refuse, Answer
  <2>3. QED
    BY <1>1, <1>2, <1>8, <2>2, OpDeopRoll
<1>9. QED
  BY <1>1, <1>4, <1>5, <1>6, <1>7, <1>8 DEF modes, Refuse, Answer
-----------------------------------------------------------------------------
(* Every step.                                                             *)

LEMMA TopicRoll ==
    ASSUME IInv, NEW c, NEW ch, NEW t, topicHandler(c, ch, t)
    PROVE  RollStep
<1>1. CASE TopicError(c, ch, t) # OK
  BY <1>1, AnswerRoll DEF Refuse, topicHandler
<1>2. CASE TopicError(c, ch, t) = OK
  <2> DEFINE chan == [channel[ch] EXCEPT !.topic = t]
  <2>1. ch \in chans
    BY <1>2 DEF TopicError, OK
  <2>2. channel' = [channel EXCEPT ![ch] = chan] /\ conns' = conns
    BY <1>2 DEF topicHandler, Update, OK
  <2>3. ch \in Names /\ channel[ch] \in ChannelState
    BY <2>1 DEF IInv, TypeOK
  <2>4. /\ chan.memberFds = channel[ch].memberFds
        /\ chan.operatorFds = channel[ch].operatorFds
        /\ chan.invitedFds = channel[ch].invitedFds
    BY <2>3, SettingKeepsLists
  <2> HIDE DEF chan
  <2>5. QED
    BY <2>2, <2>3, <2>4, SettingRoll DEF IInv
<1>3. QED
  BY <1>1, <1>2

LEMMA CommandRoll ==
    ASSUME IInv, NEW c \in conns, dispatchCommand(c)
    PROVE  RollStep
<1>1. ASSUME NEW pw, passHundler(c, pw) PROVE RollStep
  BY <1>1, SteadyRoll DEF passHundler, Refuse, Answer
<1>2. ASSUME NEW n, nickHundler(c, n) PROVE RollStep
  BY <1>2, SteadyRoll DEF nickHundler, Refuse, Answer
<1>3. ASSUME NEW enough, userHandler(c, enough) PROVE RollStep
  BY <1>3, SteadyRoll DEF userHandler, Refuse, Answer
<1>4. ASSUME NEW target, NEW text, privmsgHandler(c, target, text) PROVE RollStep
  BY <1>4, SteadyRoll DEF privmsgHandler, Refuse, Answer
<1>5. unknownCommand(c) => RollStep
  BY AnswerRoll DEF Refuse, unknownCommand
<1>6. QED
  BY <1>1, <1>2, <1>3, <1>4, <1>5,
     JoinRoll, TopicRoll, KickRoll, InviteRoll, ModesRoll DEF dispatchCommand

LEMMA NextRoll == IInv /\ [Next]_vars => RollStep
<1> SUFFICES ASSUME IInv, [Next]_vars PROVE RollStep
  OBVIOUS
<1>1. CASE UNCHANGED vars
  BY <1>1, SteadyRoll DEF vars
<1>2. CASE Next
  BY <1>2, ConnectRoll, DisconnectRoll, CommandRoll DEF Next
<1>3. QED
  BY <1>1, <1>2

\* The server implements Membership: whatever the clients send, and whenever
\* they vanish, each step changes the lists as one of its actions does.
THEOREM RefinesMembership == Spec => ImplementsMembership
<1>1. Init => Roll!Init
  BY DEF Init, Roll!Init, Roll!Nobody, memberLists, operatorLists, inviteLists,
         NewChannel
<1>2. IInv /\ [Next]_vars => [Roll!Next]_(Roll!memberVars)
  BY NextRoll DEF RollStep
<1>3. QED
  BY <1>1, <1>2, Invariance, PTL DEF Spec, ImplementsMembership, Roll!Spec
=============================================================================
