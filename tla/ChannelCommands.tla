-------------------------- MODULE ChannelCommands --------------------------
(***************************************************************************)
(* The handlers of the commands about channels and conversations: JOIN,    *)
(* KICK, INVITE, TOPIC, PRIVMSG and MODE with its five flags               *)
(* (srcs/commands, srcs/modes).  As in Registration, a handler is an error *)
(* chain in the order of its early returns followed by its effect.         *)
(*                                                                         *)
(* Absent as the last parameter stands for a message with too few of them. *)
(***************************************************************************)
EXTENDS Registration

Members(ch) == channel[ch].memberFds

Nicknames(S) == {client[f].nickname : f \in S \cap conns}
-----------------------------------------------------------------------------
\* Faulty variant: the limit is tested with > in place of >=.
JoinErrorOffByOne(c, ch, k) ==
    IF ~client[c].registered THEN "451"
    ELSE IF ch = Absent THEN "461"
    ELSE IF ch = Invalid THEN "403"
    ELSE IF c \in Members(ch) THEN "443"
    ELSE IF channel[ch].invite_only /\ c \notin channel[ch].invitedFds THEN "473"
    ELSE IF HasKey(channel[ch]) /\ k # channel[ch].key THEN "475"
    ELSE IF HasLimit(channel[ch])
            /\ Cardinality(Members(ch)) > channel[ch].limit THEN "471"
    ELSE OK

JoinError(c, ch, k) ==
    IF ~client[c].registered THEN "451"
    ELSE IF ch = Absent THEN "461"
    ELSE IF ch = Invalid THEN "403"
    ELSE IF c \in Members(ch) THEN "443"
    ELSE IF channel[ch].invite_only /\ c \notin channel[ch].invitedFds THEN "473"
    ELSE IF HasKey(channel[ch]) /\ k # channel[ch].key THEN "475"
    ELSE IF HasLimit(channel[ch])
            /\ Cardinality(Members(ch)) >= channel[ch].limit THEN "471"
    ELSE OK

\* Faulty variant: whoever joins is made an operator when there is none.
AdmitOperator(chan, c) ==
    [chan EXCEPT !.memberFds = @ \cup {c},
                 !.operatorFds = IF @ = {} THEN {c} ELSE @]

\* The first member becomes an operator.
Admit(chan, c) ==
    [chan EXCEPT !.memberFds = @ \cup {c},
                 !.operatorFds = IF chan.memberFds = {} THEN @ \cup {c} ELSE @]

\* Faulty variant: the list marks whoever joins and nobody else.
NamesReplySelf(c, ch, chan) ==
    <<[Numeric("353", ch) EXCEPT !.who = Nicknames(chan.memberFds),
                                 !.ops = Nicknames(chan.operatorFds \cap {c})],
      Numeric("366", ch)>>

\* The list of names: all the members, the operators marked.
NamesReply(c, ch, chan) ==
    <<[Numeric("353", ch) EXCEPT !.who = Nicknames(chan.memberFds),
                                 !.ops = Nicknames(chan.operatorFds)],
      Numeric("366", ch)>>

\* The channel is looked up, and constructed when the lookup fails, before the
\* refusals 443, 473, 475 and 471.
joinHandler(c, ch, k) ==
    LET err  == JoinError(c, ch, k)
        chan == Admit(channel[ch], c) IN
    \/ /\ err \in {"451", "461", "403"}
       /\ Refuse(c, err, ch)
    \/ /\ err \in {"443", "473", "475", "471"}
       /\ chans' = chans \cup {ch}
       /\ out' = ToOne(c, Numeric(err, ch))
       /\ UNCHANGED <<conns, client, channel>>
    \/ /\ err = OK
       /\ chans' = chans \cup {ch}
       /\ channel' = [channel EXCEPT ![ch] = chan]
       /\ out' = [ToAll(chan.memberFds, FromClient(c, "JOIN", ch, {}))
                    EXCEPT ![c] = @ \o NamesReply(c, ch, chan)]
       /\ UNCHANGED <<conns, client>>
-----------------------------------------------------------------------------
KickError(c, ch, n) ==
    IF ~client[c].registered THEN "451"
    ELSE IF n = Absent THEN "461"
    ELSE IF ch \notin chans THEN "403"
    ELSE IF c \notin channel[ch].operatorFds THEN "482"
    ELSE IF Named(n) = {} THEN "401"
    ELSE OK

\* Faulty variant: the broadcast comes after the removal.
ExpelSilently(c, ch, t) ==
    LET chan == RemoveMember(channel[ch], t) IN
    /\ chans' = IF chan.memberFds = {} THEN chans \ {ch} ELSE chans
    /\ channel' = [channel EXCEPT ![ch] =
                     IF chan.memberFds = {} THEN NewChannel ELSE chan]
    /\ out' = ToAll(chan.memberFds,
                    FromClient(c, "KICK", ch, {client[t].nickname}))

\* Faulty variant: the channel stays when the last member is kicked.
ExpelKeepingEmpty(c, ch, t) ==
    /\ chans' = chans
    /\ channel' = [channel EXCEPT ![ch] = RemoveMember(channel[ch], t)]
    /\ out' = ToAll(Members(ch), FromClient(c, "KICK", ch, {client[t].nickname}))

\* The target is told with the others, then removed; an empty channel is erased.
Expel(c, ch, t) ==
    LET chan == RemoveMember(channel[ch], t) IN
    /\ chans' = IF chan.memberFds = {} THEN chans \ {ch} ELSE chans
    /\ channel' = [channel EXCEPT ![ch] =
                     IF chan.memberFds = {} THEN NewChannel ELSE chan]
    /\ out' = ToAll(Members(ch), FromClient(c, "KICK", ch, {client[t].nickname}))

KickTarget(c, ch, t) ==
    LET last == LastOperator(channel[ch], t) /\ Cardinality(Members(ch)) > 1 IN
    \/ t \notin Members(ch) /\ Refuse(c, "441", ch)
    \/ t \in Members(ch) /\ last /\ Refuse(c, "NOTICE", ch)
    \/ /\ t \in Members(ch) /\ ~last
       /\ Expel(c, ch, t)
       /\ UNCHANGED <<conns, client>>

kickHandler(c, ch, n) ==
    LET err == KickError(c, ch, n) IN
    \/ err # OK /\ Refuse(c, err, ch)
    \/ err = OK /\ \E t \in Named(n) : KickTarget(c, ch, t)
-----------------------------------------------------------------------------
\* Faulty variant: any member may invite.
InviteErrorAnyMember(c, n, ch) ==
    IF ~client[c].registered THEN "451"
    ELSE IF n = Absent THEN "461"
    ELSE IF Named(n) = {} THEN "401"
    ELSE IF ch \notin chans THEN "403"
    ELSE IF c \notin Members(ch) THEN "482"
    ELSE OK

InviteError(c, n, ch) ==
    IF ~client[c].registered THEN "451"
    ELSE IF n = Absent THEN "461"
    ELSE IF Named(n) = {} THEN "401"
    ELSE IF ch \notin chans THEN "403"
    ELSE IF c \notin channel[ch].operatorFds THEN "482"
    ELSE OK

inviteHandler(c, n, ch) ==
    LET err == InviteError(c, n, ch) IN
    \/ err # OK /\ Refuse(c, err, ch)
    \/ /\ err = OK
       /\ \E t \in Named(n) :
            \/ t \in Members(ch) /\ Refuse(c, "443", ch)
            \/ /\ t \notin Members(ch)
               /\ channel' = [channel EXCEPT ![ch].invitedFds = @ \cup {t}]
               /\ out' = [ToOne(t, FromClient(c, "INVITE", ch, {n}))
                            EXCEPT ![c] = @ \o <<Numeric("341", ch)>>]
               /\ UNCHANGED <<conns, client, chans>>
-----------------------------------------------------------------------------
\* t = Absent is the query, which does not ask for membership.
TopicError(c, ch, t) ==
    IF ~client[c].registered THEN "451"
    ELSE IF ch = Absent THEN "461"
    ELSE IF ch \notin chans THEN "403"
    ELSE IF t = Absent THEN IF channel[ch].topic = NoTopic THEN "331" ELSE "332"
    ELSE IF c \notin Members(ch) THEN "442"
    ELSE IF channel[ch].change_topic /\ c \notin channel[ch].operatorFds THEN "482"
    ELSE OK

\* 332 is written out in the handler: it tells the topic.
TopicReply(ch) == [Numeric("332", ch) EXCEPT !.arg = channel[ch].topic]

topicHandler(c, ch, t) ==
    LET err == TopicError(c, ch, t) IN
    \/ err \notin {OK, "332"} /\ Refuse(c, err, ch)
    \/ err = "332" /\ Answer(c, TopicReply(ch))
    \/ /\ err = OK
       /\ Update(ch, [channel[ch] EXCEPT !.topic = t], Members(ch) \cup {c},
                 [FromClient(c, "TOPIC", ch, {}) EXCEPT !.arg = t])
-----------------------------------------------------------------------------
\* text: the message has a second parameter and it is not empty.
PrivmsgError(c, target, text) ==
    IF ~client[c].registered THEN "451"
    ELSE IF target = Absent THEN "411"
    ELSE IF ~text THEN "412"
    ELSE IF target \in Names /\ target \notin chans THEN "403"
    ELSE IF target \in Names /\ c \notin Members(target) THEN "404"
    ELSE IF target \notin Names /\ Named(target) = {} THEN "401"
    ELSE OK

\* Faulty variant: also delivers to those who are invited to the channel.
AudienceWithInvited(c, target) ==
    (Members(target) \cup channel[target].invitedFds) \ {c}

Audience(c, target) == Members(target) \ {c}

privmsgHandler(c, target, text) ==
    LET err == PrivmsgError(c, target, text) IN
    \/ err # OK /\ Refuse(c, err, target)
    \/ /\ err = OK /\ target \in Names
       /\ out' = ToAll(Audience(c, target), FromClient(c, "PRIVMSG", target, {}))
       /\ UNCHANGED <<conns, client, chans, channel>>
    \/ /\ err = OK /\ target \notin Names
       /\ \E t \in Named(target) :
            out' = ToOne(t, FromClient(c, "PRIVMSG", Absent, {target}))
       /\ UNCHANGED <<conns, client, chans, channel>>
-----------------------------------------------------------------------------
(* MODE.  flag = Absent stands for fewer than two parameters.              *)

ModeError(c, ch, flag) ==
    IF ~client[c].registered THEN "451"
    ELSE IF flag = Absent THEN "461"
    ELSE IF ch \notin chans THEN "403"
    ELSE IF c \notin channel[ch].operatorFds THEN "482"
    ELSE OK

\* The lines of +k and +l repeat the parameter.
Setting(flag, chan) ==
    CASE flag = "+k" -> chan.key [] flag = "+l" -> chan.limit [] OTHER -> Absent

\* The mode changes and the members are told.
ChangeMode(c, ch, flag, chan, who) ==
    Update(ch, chan, Members(ch),
           [FromClient(c, flag, ch, who) EXCEPT !.arg = Setting(flag, chan)])

invite_only(c, ch, flag) ==
    /\ flag \in {"+i", "-i"}
    /\ ChangeMode(c, ch, flag,
                  [channel[ch] EXCEPT !.invite_only = (flag = "+i")], {})

let_s_change_the_topic(c, ch, flag) ==
    /\ flag \in {"+t", "-t"}
    /\ ChangeMode(c, ch, flag,
                  [channel[ch] EXCEPT !.change_topic = (flag = "+t")], {})

\* Both flags ask for a parameter; +k takes the empty one too.
secret_key(c, ch, flag, k) ==
    /\ flag \in {"+k", "-k"}
    /\ \/ k = Absent /\ Refuse(c, "461", ch)
       \/ /\ k # Absent
          /\ ChangeMode(c, ch, flag,
               [channel[ch] EXCEPT !.key = IF flag = "+k" THEN k ELSE NoKey], {})

\* l = 0: no parameter, or one that atoi does not turn into a positive int.
limited_usage(c, ch, flag, l) ==
    \/ /\ flag = "-l"
       /\ ChangeMode(c, ch, flag, [channel[ch] EXCEPT !.limit = 0], {})
    \/ flag = "+l" /\ l = 0 /\ Refuse(c, "461", ch)
    \/ /\ flag = "+l" /\ l > 0
       /\ ChangeMode(c, ch, flag, [channel[ch] EXCEPT !.limit = l], {})

Op(c, ch, t) ==
    \/ /\ t \in channel[ch].operatorFds
       /\ out' = NoReply
       /\ UNCHANGED <<conns, client, chans, channel>>
    \/ /\ t \notin channel[ch].operatorFds
       /\ ChangeMode(c, ch, "+o",
            [channel[ch] EXCEPT !.operatorFds = @ \cup {t}], {client[t].nickname})

\* Faulty variant: -o does not ask whether the target is the last operator.
DeopUnguarded(c, ch, t) ==
    \/ /\ t \notin channel[ch].operatorFds
       /\ out' = NoReply
       /\ UNCHANGED <<conns, client, chans, channel>>
    \/ /\ t \in channel[ch].operatorFds
       /\ ChangeMode(c, ch, "-o",
            [channel[ch] EXCEPT !.operatorFds = @ \ {t}], {client[t].nickname})

Deop(c, ch, t) ==
    \/ /\ t \notin channel[ch].operatorFds
       /\ out' = NoReply
       /\ UNCHANGED <<conns, client, chans, channel>>
    \/ LastOperator(channel[ch], t) /\ Refuse(c, "NOTICE", ch)
    \/ /\ t \in channel[ch].operatorFds /\ ~LastOperator(channel[ch], t)
       /\ ChangeMode(c, ch, "-o",
            [channel[ch] EXCEPT !.operatorFds = @ \ {t}], {client[t].nickname})

operators(c, ch, flag, n) ==
    /\ flag \in {"+o", "-o"}
    /\ \/ n = Absent /\ Refuse(c, "461", ch)
       \/ n # Absent /\ Named(n) = {} /\ Refuse(c, "401", ch)
       \/ \E t \in Named(n) :
            \/ t \notin Members(ch) /\ Refuse(c, "441", ch)
            \/ t \in Members(ch) /\ flag = "+o" /\ Op(c, ch, t)
            \/ t \in Members(ch) /\ flag = "-o" /\ Deop(c, ch, t)

modes(c, ch, flag) ==
    LET err == ModeError(c, ch, flag) IN
    \/ err # OK /\ Refuse(c, err, ch)
    \/ /\ err = OK
       /\ \/ invite_only(c, ch, flag)
          \/ let_s_change_the_topic(c, ch, flag)
          \/ \E k \in Keys \cup {NoKey, Absent} : secret_key(c, ch, flag, k)
          \/ \E l \in 0 .. MaxLimit : limited_usage(c, ch, flag, l)
          \/ \E n \in Nicks \cup {NoNick, Absent} : operators(c, ch, flag, n)
          \/ flag \notin Flags /\ Refuse(c, "472", ch)
-----------------------------------------------------------------------------
\* A word that dispatchCommand does not know; any client may send it.
unknownCommand(c) == Refuse(c, "421", Absent)
=============================================================================
