---------------------------- MODULE Registration ----------------------------
(***************************************************************************)
(* The life of a connection: accept, PASS, NICK, USER, disconnect          *)
(* (srcs/Server.cpp, srcs/commands/pass.cpp, nick.cpp, user.cpp).          *)
(* Each handler runs to completion inside one iteration of the event loop, *)
(* so it is one action; its early returns are the error chain in front of  *)
(* it, in the order of the code.                                           *)
(***************************************************************************)
EXTENDS IrcState

\* Server::connect.  The kernel never returns a descriptor that is open.
connect(f) ==
    /\ f \notin conns
    /\ conns' = conns \cup {f}
    /\ client' = [client EXCEPT ![f] = NewClient]
    /\ out' = NoReply
    /\ UNCHANGED <<chans, channel>>

\* Faulty variant: forgets the invitations of the departing client.
LeaveKeepingInvites(chan, f) == RemoveMember(chan, f)

\* One iteration of Server::leave_chanels.
Leave(chan, f) == RemoveInvite(RemoveMember(chan, f), f)

\* Server::disconnect: leave every channel, erase those left empty, close.
disconnect(f) ==
    /\ f \in conns
    /\ chans' = {ch \in chans : Leave(channel[ch], f).memberFds # {}}
    /\ channel' = [ch \in Names |-> IF ch \in chans'
                                    THEN Leave(channel[ch], f) ELSE NewChannel]
    /\ conns' = conns \ {f}
    /\ client' = [client EXCEPT ![f] = NewClient]
    /\ out' = NoReply
-----------------------------------------------------------------------------
PassError(c, pw) ==
    IF client[c].registered THEN "462"
    ELSE IF pw = "absent" THEN "461"
    ELSE IF pw = "wrong" THEN "464"
    ELSE OK

passHundler(c, pw) ==
    LET err == PassError(c, pw) IN
    \/ err # OK /\ Refuse(c, err, Absent)
    \/ /\ err = OK
       /\ client' = [client EXCEPT ![c].passRecived = TRUE]
       /\ out' = NoReply
       /\ UNCHANGED <<conns, chans, channel>>
-----------------------------------------------------------------------------
\* Faulty variant: only the nicknames of registered clients are taken.
NickErrorRegisteredOnly(c, n) ==
    IF ~client[c].passRecived THEN "451"
    ELSE IF n = Absent THEN "431"
    ELSE IF n = Invalid THEN "432"
    ELSE IF \E f \in Named(n) \ {c} : client[f].registered THEN "433"
    ELSE OK

\* Faulty variant: the nickname is not validated.
NickErrorUnchecked(c, n) ==
    IF ~client[c].passRecived THEN "451"
    ELSE IF n = Absent THEN "431"
    ELSE IF Named(n) \ {c} # {} THEN "433"
    ELSE OK

NickError(c, n) ==
    IF ~client[c].passRecived THEN "451"
    ELSE IF n = Absent THEN "431"
    ELSE IF n = Invalid THEN "432"
    ELSE IF Named(n) \ {c} # {} THEN "433"
    ELSE OK

\* The line sent on a nickname change has no prefix and no line terminator.
NickLine(n) == [Numeric("NICK", Absent) EXCEPT !.who = {n}, !.eol = FALSE]

\* Faulty variant: NICK after USER does not complete the registration.
SetNicknameOnly(cl, n) == [cl EXCEPT !.nickname = n, !.nicknameReceived = TRUE]

SetNickname(cl, n) ==
    [cl EXCEPT !.nickname = n, !.nicknameReceived = TRUE,
               !.registered = cl.registered \/ cl.userRecived]

\* Faulty variant: welcomes the client at every change of nickname.
NickReplyWelcoming(c, n) ==
    IF client[c].userRecived THEN ToOne(c, Numeric("001", Absent)) ELSE NoReply

NickReply(c, n) ==
    IF client[c].registered THEN ToOne(c, NickLine(n))
    ELSE IF client[c].userRecived THEN ToOne(c, Numeric("001", Absent))
    ELSE NoReply

nickHundler(c, n) ==
    LET err == NickError(c, n) IN
    \/ err # OK /\ Refuse(c, err, Absent)
    \/ /\ err = OK
       /\ client' = [client EXCEPT ![c] = SetNickname(client[c], n)]
       /\ out' = NickReply(c, n)
       /\ UNCHANGED <<conns, chans, channel>>
-----------------------------------------------------------------------------
\* enough: the message has the four parameters of USER.
UserError(c, enough) ==
    IF client[c].registered THEN "462"
    ELSE IF ~client[c].passRecived THEN "451"
    ELSE IF ~enough THEN "461"
    ELSE OK

SetUser(cl) ==
    [cl EXCEPT !.userRecived = TRUE,
               !.registered = cl.registered \/ cl.nicknameReceived]

userHandler(c, enough) ==
    LET err == UserError(c, enough) IN
    \/ err # OK /\ Refuse(c, err, Absent)
    \/ /\ err = OK
       /\ client' = [client EXCEPT ![c] = SetUser(client[c])]
       /\ out' = IF client[c].nicknameReceived THEN ToOne(c, Numeric("001", Absent))
                 ELSE NoReply
       /\ UNCHANGED <<conns, chans, channel>>
=============================================================================
