------------------------------- MODULE Roster -------------------------------
(***************************************************************************)
(* The other end: what a client can know of its channels from the lines it *)
(* is sent.  The list of names in the reply to JOIN is the start; JOIN,    *)
(* KICK and MODE o bring it up to date.  A change of nickname and a        *)
(* disconnection are told to nobody else: they make a roster Unknown, for  *)
(* the one who changes it too, since the line that is sent to it is not    *)
(* terminated and swallows the next one.  (If that is a JOIN of its own,   *)
(* the list of names comes behind it.)                                     *)
(***************************************************************************)
EXTENDS IrcCommands, FiniteSetsExt

VARIABLE known  \* of each client and channel: the nicknames, and those marked

rosterVars == <<vars, known>>

Unknown == [who |-> {NoNick}, ops |-> {}]

RosterInit == Init /\ known = [f \in Fds |-> [ch \in Names |-> Unknown]]

\* What a line brings up to date in the roster of a client that has one.
Updated(roster, m) ==
    CASE m.cmd = "JOIN" -> [roster EXCEPT !.who = @ \cup {m.by}]
      [] m.cmd = "KICK" -> [who |-> roster.who \ m.who, ops |-> roster.ops \ m.who]
      [] m.cmd = "+o"   -> [roster EXCEPT !.ops = @ \cup m.who]
      [] m.cmd = "-o"   -> [roster EXCEPT !.ops = @ \ m.who]
      [] OTHER          -> roster

\* The list of names starts a roster over; behind it no line is missed.
Learn(roster, m) ==
    IF m.cmd = "353" THEN [who |-> m.who, ops |-> m.ops]
    ELSE IF roster = Unknown THEN Unknown ELSE Updated(roster, m)

\* The lines of the step that tell what somebody has done in the channel, and the
\* list of names; the other replies, 366 behind the list with them, tell nothing.
About(f, ch) ==
    {i \in DOMAIN out'[f] :
        out'[f][i].chan = ch /\ out'[f][i].cmd \in Relayed \cup {"353"}}

\* A step sends one such line, and if there is a second it is the list of names,
\* which makes the first superfluous: the last one decides.
LearnAll(f, ch) ==
    IF About(f, ch) = {} THEN known[f][ch]
    ELSE Learn(known[f][ch], out'[f][Max(About(f, ch))])

\* A member has left or changed its nickname, and the others are not told.
Unannounced(ch) ==
    \E g \in Members(ch) : g \notin conns' \/ client'[g].nickname # client[g].nickname

RosterNext ==
    /\ Next
    /\ known' = [f \in Fds |-> [ch \in Names |->
                   IF f \notin channel'[ch].memberFds \/ Unannounced(ch) THEN Unknown
                   ELSE LearnAll(f, ch)]]

RosterSpec == RosterInit /\ [][RosterNext]_rosterVars
-----------------------------------------------------------------------------
\* Who is in the channel and who leads it.
TrueRoster(ch) == [who |-> Nicknames(Members(ch)),
                   ops |-> Nicknames(channel[ch].operatorFds)]

\* A client that has joined a channel knows who is in it and who leads it, as long
\* as nobody has left by disconnecting or changed its nickname since: the list of
\* names is right, each later change reaches each member and names the right ones.
RosterRight ==
    \A ch \in Names : \A f \in Members(ch) :
        known[f][ch] # Unknown => known[f][ch] = TrueRoster(ch)
=============================================================================
