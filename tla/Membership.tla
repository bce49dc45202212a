----------------------------- MODULE Membership -----------------------------
(***************************************************************************)
(* What the server promises about who is where: the abstract specification *)
(* of connections and channels, without registration, modes, messages or   *)
(* data structures.  IrcCommands and ChannelStore implement it.            *)
(***************************************************************************)
CONSTANTS Fds, Names

VARIABLES
    online,     \* the connections
    members,    \* of each channel; a channel without members does not exist
    leaders,
    invited

memberVars == <<online, members, leaders, invited>>

Nobody == [ch \in Names |-> {}]

Init == online = {} /\ members = Nobody /\ leaders = Nobody /\ invited = Nobody
-----------------------------------------------------------------------------
\* A new connection is nowhere, whoever had its descriptor before.
Arrive(f) ==
    /\ f \notin online
    /\ online' = online \cup {f}
    /\ UNCHANGED <<members, leaders, invited>>

\* What is left of a list of ch without f: nothing when f was its only member.
Without(list, ch, f) == IF members[ch] \subseteq {f} THEN {} ELSE list[ch] \ {f}

\* A connection that ends leaves every list of every channel at once.
Depart(f) ==
    /\ f \in online
    /\ online' = online \ {f}
    /\ members' = [ch \in Names |-> Without(members, ch, f)]
    /\ leaders' = [ch \in Names |-> Without(leaders, ch, f)]
    /\ invited' = [ch \in Names |-> Without(invited, ch, f)]

\* Whoever founds a channel leads it; nobody else leads by entering.
Enter(f, ch) ==
    /\ f \in online \ members[ch]
    /\ members' = [members EXCEPT ![ch] = @ \cup {f}]
    /\ leaders' = IF members[ch] = {} THEN [leaders EXCEPT ![ch] = {f}]
                    ELSE leaders
    /\ UNCHANGED <<online, invited>>

\* An operator expels a member, but not the last operator from the others.
Expel(by, f, ch) ==
    /\ by \in leaders[ch] /\ f \in members[ch]
    /\ leaders[ch] = {f} => members[ch] = {f}
    /\ members' = [members EXCEPT ![ch] = @ \ {f}]
    /\ leaders' = [leaders EXCEPT ![ch] = @ \ {f}]
    /\ invited' = [invited EXCEPT ![ch] = IF members[ch] = {f} THEN {} ELSE @]
    /\ UNCHANGED online

\* An operator invites a connection that is not a member.
Invite(by, f, ch) ==
    /\ by \in leaders[ch] /\ f \in online \ members[ch]
    /\ invited' = [invited EXCEPT ![ch] = @ \cup {f}]
    /\ UNCHANGED <<online, members, leaders>>

\* An operator makes a member an operator.
Promote(by, f, ch) ==
    /\ by \in leaders[ch] /\ f \in members[ch]
    /\ leaders' = [leaders EXCEPT ![ch] = @ \cup {f}]
    /\ UNCHANGED <<online, members, invited>>

\* An operator takes the rank of one who is not the last.
Demote(by, f, ch) ==
    /\ by \in leaders[ch] /\ f \in leaders[ch] /\ leaders[ch] # {f}
    /\ leaders' = [leaders EXCEPT ![ch] = @ \ {f}]
    /\ UNCHANGED <<online, members, invited>>

Next ==
    \/ \E f \in Fds : Arrive(f) \/ Depart(f)
    \/ \E f \in Fds, ch \in Names : Enter(f, ch)
    \/ \E by, f \in Fds, ch \in Names :
         Expel(by, f, ch) \/ Invite(by, f, ch) \/ Promote(by, f, ch) \/ Demote(by, f, ch)

Spec == Init /\ [][Next]_memberVars
=============================================================================
