---------------------------- MODULE ChannelStore ----------------------------
(***************************************************************************)
(* The vectors in which the server keeps its channels (srcs/Channel.cpp,   *)
(* Server::channels): lookups by scanning, insertion at the end, removal   *)
(* of the first match, and leave_chanels, which erases while it scans: a   *)
(* step for each iteration of its loop.                                    *)
(* The handlers are here for what they do to the vectors; keys, limits and *)
(* the other modes, which may refuse a JOIN to an existing channel, are    *)
(* not: a refused request changes no vector and is not a step.             *)
(***************************************************************************)
EXTENDS Naturals, SequencesExt

CONSTANTS Fds, Names

VARIABLES
    conns,      \* descriptors of the connected clients
    channels,   \* the vector of channels
    leaving,    \* the descriptor that leave_chanels is called with
    at          \* and the index of its loop, which starts with the first

storeVars == <<conns, channels, leaving, at>>

Channel(ch) == [name |-> ch, memberFds |-> <<>>, operatorFds |-> <<>>,
                invitedFds |-> <<>>]

Init == conns = {} /\ channels = <<>> /\ leaving = {} /\ at = 1
-----------------------------------------------------------------------------
(* Class Channel.                                                          *)

\* addMember and addOperator: append unless found.
Add(list, f) == IF Contains(list, f) THEN list ELSE Append(list, f)

\* Faulty variant: appends without looking.
AddAgain(list, f) == Append(list, f)

addInvite(list, f) == Add(list, f)

\* remove_invite and remove_operator: erase the first match.
RemoveFd(list, f) == RemoveFirst(list, f)

removeMember(chan, f) ==
    [chan EXCEPT !.memberFds = RemoveFd(@, f), !.operatorFds = RemoveFd(@, f)]

isEmpty(chan) == chan.memberFds = <<>>
-----------------------------------------------------------------------------
(* Class Server.                                                           *)

\* The lookup of every handler but MODE: the last channel with the name, 0 if
\* there is none.  MODE stops at the first.
Lookup(cs, ch) == SelectLastInSeq(cs, LAMBDA chan : chan.name = ch)

FirstLookup(cs, ch) == SelectInSeq(cs, LAMBDA chan : chan.name = ch)

connect(f) ==
    /\ f \notin conns
    /\ conns' = conns \cup {f}
    /\ UNCHANGED <<channels, leaving, at>>

\* The departing client is taken from each list of the channel.
LeaveAt(p, f) ==
    [removeMember(channels[p], f) EXCEPT !.invitedFds = RemoveFd(@, f),
                                         !.operatorFds = RemoveFd(@, f)]

\* Faulty variant: the index moves on after an erasure too.
Advancing(erased) == at + 1

\* Where the loop goes on: after an erasure the next channel is at the same index.
Following(erased) == IF erased THEN at ELSE at + 1

\* One iteration of the loop.
leave_chanels(f) ==
    LET chan == LeaveAt(at, f) IN
    /\ at \in DOMAIN channels
    /\ channels' = IF isEmpty(chan) THEN RemoveAt(channels, at)
                                    ELSE ReplaceAt(channels, at, chan)
    /\ at' = Following(isEmpty(chan))
    /\ UNCHANGED <<conns, leaving>>

\* disconnect calls leave_chanels, and closes the descriptor behind its loop.
disconnect(f) ==
    /\ f \in conns
    /\ leaving' = {f}
    /\ UNCHANGED <<conns, channels, at>>

close(f) ==
    /\ at \notin DOMAIN channels
    /\ conns' = conns \ {f} /\ leaving' = {} /\ at' = 1
    /\ UNCHANGED channels
-----------------------------------------------------------------------------
(* The handlers.                                                           *)

\* The vector after the lookup of JOIN: a channel that is not there is appended.
Found(ch) == IF Lookup(channels, ch) = 0 THEN Append(channels, Channel(ch)) ELSE channels

joinHandler(f, ch) ==
    LET cs   == Found(ch)
        p    == Lookup(cs, ch)
        chan == [cs[p] EXCEPT !.memberFds = Add(@, f)] IN
    /\ f \in conns /\ ~Contains(cs[p].memberFds, f)
    /\ channels' = [cs EXCEPT ![p] =
                      IF isEmpty(cs[p]) THEN [chan EXCEPT !.operatorFds = Add(@, f)]
                      ELSE chan]
    /\ UNCHANGED <<conns, leaving, at>>

\* f, operator of the channel at p, asks for something about it.
Commands(f, p) ==
    /\ f \in conns /\ p # 0
    /\ Contains(channels[p].operatorFds, f)

\* Faulty variant: an emptied channel stays.
ExpelledKeeping(p, chan) == ReplaceAt(channels, p, chan)

\* The end of KICK: an emptied channel is erased.
Expelled(p, chan) ==
    IF isEmpty(chan) THEN RemoveAt(channels, p) ELSE ReplaceAt(channels, p, chan)

kickHandler(f, ch, t) ==
    LET p    == Lookup(channels, ch)
        chan == removeMember(channels[p], t) IN
    /\ Commands(f, p) /\ t \in conns /\ Contains(channels[p].memberFds, t)
    /\ ~ /\ Contains(channels[p].operatorFds, t)
         /\ Len(channels[p].operatorFds) = 1
         /\ Len(channels[p].memberFds) > 1
    /\ channels' = Expelled(p, chan)
    /\ UNCHANGED <<conns, leaving, at>>

inviteHandler(f, ch, t) ==
    LET p == Lookup(channels, ch) IN
    /\ Commands(f, p) /\ t \in conns /\ ~Contains(channels[p].memberFds, t)
    /\ channels' = [channels EXCEPT ![p].invitedFds = addInvite(@, t)]
    /\ UNCHANGED <<conns, leaving, at>>

\* MODE +o and -o.
promote(f, ch, t) ==
    LET p == FirstLookup(channels, ch) IN
    /\ Commands(f, p) /\ t \in conns /\ Contains(channels[p].memberFds, t)
    /\ channels' = [channels EXCEPT ![p].operatorFds = Add(@, t)]
    /\ UNCHANGED <<conns, leaving, at>>

demote(f, ch, t) ==
    LET p == FirstLookup(channels, ch) IN
    /\ Commands(f, p) /\ t \in conns /\ Contains(channels[p].memberFds, t)
    /\ Contains(channels[p].operatorFds, t) /\ Len(channels[p].operatorFds) # 1
    /\ channels' = [channels EXCEPT ![p].operatorFds = RemoveFd(@, t)]
    /\ UNCHANGED <<conns, leaving, at>>

\* The server does one thing at a time: nobody else's message is looked at before
\* the loop is through.
Next ==
    \/ /\ leaving = {}
       /\ \/ \E f \in Fds : connect(f) \/ disconnect(f)
          \/ \E f \in Fds, ch \in Names : joinHandler(f, ch)
          \/ \E f, t \in Fds, ch \in Names :
               \/ kickHandler(f, ch, t) \/ inviteHandler(f, ch, t)
               \/ promote(f, ch, t) \/ demote(f, ch, t)
    \/ \E f \in leaving : leave_chanels(f) \/ close(f)

StoreSpec == Init /\ [][Next]_storeVars
-----------------------------------------------------------------------------
\* No name is twice in the vector of channels and no descriptor twice in a list.
\* Each removal erases the first match only, and the first lookup of MODE must
\* find what the last one of the others finds.
NoDuplicates ==
    /\ IsInjective([p \in DOMAIN channels |-> channels[p].name])
    /\ \A p \in DOMAIN channels :
         /\ IsInjective(channels[p].memberFds)
         /\ IsInjective(channels[p].operatorFds)
         /\ IsInjective(channels[p].invitedFds)

\* The channels of the vector cs with the name ch.
Entries(cs, ch) == {chan \in ToSet(cs) : chan.name = ch}

\* For the clients a departing one is gone when the loop starts: what is left of a
\* list of chan without those who are gone, nothing if there are no other members.
Kept(chan, list, gone) ==
    IF ToSet(chan.memberFds) \subseteq gone THEN {} ELSE ToSet(list) \ gone

MembersIn(cs, gone, ch) ==
    UNION {Kept(chan, chan.memberFds, gone) : chan \in Entries(cs, ch)}

OperatorsIn(cs, gone, ch) ==
    UNION {Kept(chan, chan.operatorFds, gone) : chan \in Entries(cs, ch)}

InvitedIn(cs, gone, ch) ==
    UNION {Kept(chan, chan.invitedFds, gone) : chan \in Entries(cs, ch)}

memberLists == [ch \in Names |-> MembersIn(channels, leaving, ch)]

operatorLists == [ch \in Names |-> OperatorsIn(channels, leaving, ch)]

inviteLists == [ch \in Names |-> InvitedIn(channels, leaving, ch)]

Roll == INSTANCE Membership WITH
    online <- conns \ leaving, members <- memberLists, leaders <- operatorLists,
    invited <- inviteLists

\* What the vectors hold changes as Membership promises: the loop that erases while
\* it scans leaves nobody behind and no empty channel, however many steps it takes.
StoreImplementsMembership == Roll!Spec

\* A channel that is in the vector has a member; together with the above, the
\* channels that exist are those that Membership says exist.
NoEmptyEntry == \A p \in DOMAIN channels : ~isEmpty(channels[p])
-----------------------------------------------------------------------------
(* The inductive invariant.                                                *)

Entry == [name : Names, memberFds : Seq(Fds), operatorFds : Seq(Fds),
          invitedFds : Seq(Fds)]

TypeOK ==
    /\ conns \subseteq Fds
    /\ channels \in Seq(Entry)
    /\ leaving = {} \/ \E f \in conns : leaving = {f}
    /\ at \in Nat \ {0}

OperatorsInside ==
    \A p \in DOMAIN channels :
        ToSet(channels[p].operatorFds) \subseteq ToSet(channels[p].memberFds)

\* The loop has taken the departing client from every list in front of its index.
Swept ==
    \A f \in leaving : \A p \in DOMAIN channels :
        p < at => f \notin ToSet(channels[p].memberFds)
                            \cup ToSet(channels[p].operatorFds)
                            \cup ToSet(channels[p].invitedFds)

StoreInv ==
    /\ TypeOK
    /\ NoDuplicates
    /\ NoEmptyEntry
    /\ OperatorsInside
    /\ Swept
    /\ leaving = {} => at = 1
=============================================================================
