----------------------------- MODULE EventLoop -----------------------------
(***************************************************************************)
(* The life of the process (main.cpp, srcs/Server.cpp): the sockets are    *)
(* set up, then Server::launch runs the poll loop, with the vectors fds    *)
(* and clients that it walks through by index while its callees insert and *)
(* erase elements, the buffers behind POLLOUT, and SIGINT; whatever ends   *)
(* it closes what is open.                                                 *)
(*                                                                         *)
(* The server is one thread; what runs beside it is the kernel with the    *)
(* peers at the other ends, and the signal handler.  A step of the server  *)
(* goes from one system call to the next.  A command is reduced to the set *)
(* of clients it queues a reply for.                                       *)
(*                                                                         *)
(* Indices are those of TLA+: fds[1] is the listening socket, and the      *)
(* entry fds[p] belongs to clients[p - 1].                                 *)
(***************************************************************************)
EXTENDS Naturals, SequencesExt

CONSTANTS
    Fds,            \* descriptors accept() can return
    Listener,       \* the listening socket
    MaxIn,          \* lines a socket can hold for the server (bound)
    MaxPending,     \* replies a send buffer can hold (bound of the model)
    MaxWire,        \* replies the kernel takes before send() returns EAGAIN
    MaxBacklog      \* connections waiting for accept() (bound)

ASSUME LoopAssumption ==
    /\ Listener \notin Fds
    /\ {MaxIn, MaxPending, MaxWire, MaxBacklog} \subseteq Nat \ {0}

VARIABLES
    pc,         \* where the constructor or launch is
    listener,   \* whether the listening socket is open
    i,          \* the index of its for loop
    fds,        \* descriptor, POLLOUT bit of events, and revents
    clients,    \* descriptor and length of the send buffer
    _shutdown,  \* the flag of sig_handler
    peer,       \* state of the connection behind each descriptor
    inbox,      \* lines that recv can take
    wire,       \* replies sent that the peer has not read
    backlog     \* connections that accept can take

vectors == <<fds, clients, listener>>
server == <<pc, i, vectors>>
kernel == <<peer, inbox, wire, backlog>>
loopVars == <<server, kernel, _shutdown>>

Events == {"IN", "OUT", "HUP"}

Init ==
    /\ pc = "boot" /\ i = 1 /\ _shutdown = FALSE
    /\ listener = "closed" /\ fds = <<>> /\ clients = <<>>
    /\ peer = [f \in Fds |-> "none"]
    /\ inbox = [f \in Fds |-> 0] /\ wire = [f \in Fds |-> 0]
    /\ backlog = 0

\* The process has not called listen, or is over.
Booting == pc \in {"boot", "bind", "listen"}

Ended == pc \in {"stopped", "failed"}
-----------------------------------------------------------------------------
(* The peers and the kernel.                                               *)

dial ==
    /\ ~Booting /\ ~Ended /\ backlog < MaxBacklog
    /\ backlog' = backlog + 1
    /\ UNCHANGED <<server, _shutdown, peer, inbox, wire>>

peerSends(f) ==
    /\ peer[f] = "open" /\ inbox[f] < MaxIn
    /\ inbox' = [inbox EXCEPT ![f] = @ + 1]
    /\ UNCHANGED <<server, _shutdown, peer, wire, backlog>>

peerReads(f) ==
    /\ peer[f] = "open" /\ wire[f] > 0
    /\ wire' = [wire EXCEPT ![f] = @ - 1]
    /\ UNCHANGED <<server, _shutdown, peer, inbox, backlog>>

\* An orderly close: recv returns 0 once the inbox is empty.
peerCloses(f) ==
    /\ peer[f] = "open"
    /\ peer' = [peer EXCEPT ![f] = "closed"]
    /\ UNCHANGED <<server, _shutdown, inbox, wire, backlog>>

\* The connection is reset: recv returns what is in the inbox, then fails.
peerResets(f) ==
    /\ peer[f] \in {"open", "closed"}
    /\ peer' = [peer EXCEPT ![f] = "reset"]
    /\ UNCHANGED <<server, _shutdown, inbox, wire, backlog>>

\* SIGINT: the handler sets the flag; a poll that blocks fails with EINTR.
sig_handler ==
    /\ ~Ended
    /\ _shutdown' = TRUE
    /\ pc' = IF pc = "poll" THEN "test" ELSE pc
    /\ UNCHANGED <<i, vectors, kernel>>

\* The revents of an entry when poll looks at it.
Ready(e) ==
    IF e.fd = Listener THEN {x \in {"IN"} : backlog > 0}
    ELSE {x \in Events :
            \/ x = "IN"  /\ (inbox[e.fd] > 0 \/ peer[e.fd] # "open")
            \/ x = "OUT" /\ e.out /\ (wire[e.fd] < MaxWire \/ peer[e.fd] = "reset")
            \/ x = "HUP" /\ peer[e.fd] = "reset"}

SomeReady == \E p \in DOMAIN fds : Ready(fds[p]) # {}
-----------------------------------------------------------------------------
(* The constructor.  An exception in it runs no destructor: whoever throws  *)
(* closes the listening socket first.                                      *)

ThrowClosing ==
    /\ pc' = "failed" /\ listener' = "closed"
    /\ UNCHANGED <<i, fds, clients, kernel, _shutdown>>

\* The port is out of range, or socket, setsockopt or fcntl fails.
open_socket ==
    /\ pc = "boot"
    /\ \/ ThrowClosing
       \/ /\ pc' = "bind" /\ listener' = "open"
          /\ UNCHANGED <<i, fds, clients, kernel, _shutdown>>

\* Faulty variant: throws with the socket open.
bindingLeaking ==
    /\ pc = "bind" /\ pc' \in {"listen", "failed"}
    /\ UNCHANGED <<i, vectors, kernel, _shutdown>>

binding ==
    /\ pc = "bind"
    /\ \/ ThrowClosing
       \/ pc' = "listen" /\ UNCHANGED <<i, vectors, kernel, _shutdown>>

\* From here on the kernel completes connections.
listening ==
    /\ pc = "listen"
    /\ \/ ThrowClosing
       \/ pc' = "setup" /\ UNCHANGED <<i, vectors, kernel, _shutdown>>

poll_setup ==
    /\ pc = "setup" /\ pc' = "test"
    /\ fds' = <<[fd |-> Listener, out |-> FALSE, revents |-> {}]>>
    /\ UNCHANGED <<i, clients, listener, kernel, _shutdown>>
-----------------------------------------------------------------------------
(* The loop.                                                               *)

\* Faulty variant: the server waits for its clients to leave.
testFlagDraining ==
    /\ pc = "test"
    /\ pc' = IF _shutdown /\ clients = <<>> THEN "down" ELSE "enter"
    /\ UNCHANGED <<i, vectors, kernel, _shutdown>>

testFlag ==
    /\ pc = "test"
    /\ pc' = IF _shutdown THEN "down" ELSE "enter"
    /\ UNCHANGED <<i, vectors, kernel, _shutdown>>

\* poll returns at once or blocks until an entry is ready.
poll ==
    \/ /\ pc \in {"enter", "poll"} /\ SomeReady
       /\ fds' = [p \in DOMAIN fds |-> [fds[p] EXCEPT !.revents = Ready(fds[p])]]
       /\ pc' = "scan" /\ i' = 1
       /\ UNCHANGED <<clients, listener, kernel, _shutdown>>
    \/ /\ pc = "enter" /\ ~SomeReady
       /\ pc' = "poll"
       /\ UNCHANGED <<i, vectors, kernel, _shutdown>>

\* The entry at i is done with: on to the next one.  The model clears revents
\* then; in the code the old value stays, and nobody reads it before poll
\* writes it again.
Done(e) == [e EXCEPT !.revents = {}]

advance == pc' = "scan" /\ i' = i + 1

skip ==
    /\ pc = "scan" /\ i <= Len(fds) /\ fds[i].revents = {}
    /\ i' = i + 1
    /\ UNCHANGED <<pc, vectors, kernel, _shutdown>>

\* Faulty variant: insists on the listening socket while accept fails.
acceptFailsInsisting == UNCHANGED loopVars

\* accept fails when the process has no descriptor left.
acceptFails ==
    /\ advance
    /\ fds' = [fds EXCEPT ![i] = Done(@)]
    /\ UNCHANGED <<clients, listener, kernel, _shutdown>>

\* fcntl fails: the descriptor is closed again.
notSetUp ==
    /\ advance
    /\ fds' = [fds EXCEPT ![i] = Done(@)]
    /\ backlog' = backlog - 1
    /\ UNCHANGED <<clients, listener, peer, inbox, wire, _shutdown>>

connect ==
    /\ pc = "scan" /\ i <= Len(fds) /\ fds[i].fd = Listener /\ fds[i].revents # {}
    /\ \/ (\A f \in Fds : peer[f] # "none") /\ acceptFails
       \/ (\E f \in Fds : peer[f] = "none") /\ notSetUp
       \/ \E f \in Fds :
            /\ peer[f] = "none"
            /\ advance
            /\ fds' = Append([fds EXCEPT ![i] = Done(@)],
                             [fd |-> f, out |-> FALSE, revents |-> {}])
            /\ clients' = Append(clients, [fd |-> f, pending |-> 0])
            /\ peer' = [peer EXCEPT ![f] = "open"]
            /\ backlog' = backlog - 1
            /\ UNCHANGED <<inbox, wire, listener, _shutdown>>

\* The entry fds[p] and the client at q go, the descriptor is closed and the
\* loop continues at next.
Drop(p, q, next) ==
    LET f == fds[p].fd IN
    /\ fds' = RemoveAt(fds, p) /\ clients' = RemoveAt(clients, q)
    /\ peer' = [peer EXCEPT ![f] = "none"]
    /\ inbox' = [inbox EXCEPT ![f] = 0] /\ wire' = [wire EXCEPT ![f] = 0]
    /\ pc' = "scan" /\ i' = next
    /\ UNCHANGED <<backlog, listener, _shutdown>>

\* Faulty variant: the index moves on although the next entry took the place.
disconnectAdvancing(p) == Drop(p, p - 1, i + 1)

\* Faulty variant: the same index is used in the two vectors.
disconnectMisaligned(p) == Drop(p, IF p <= Len(clients) THEN p ELSE p - 1, i)

\* disconnect, then "continue" without i++: the next entry is at i now.
disconnect(p) == Drop(p, p - 1, i)

\* append_send_buff, bounded by the model.
Longer(cl) == [cl EXCEPT !.pending = IF @ < MaxPending THEN @ + 1 ELSE @]

\* Faulty variant: a reply is appended and POLLOUT is not asked for.
sending_queueUnarmed(S) ==
    /\ clients' = [p \in DOMAIN clients |->
                     IF p \in S THEN Longer(clients[p]) ELSE clients[p]]
    /\ fds' = fds

\* sending_queue, called for the clients at the indices S.
sending_queue(S) ==
    /\ clients' = [p \in DOMAIN clients |->
                     IF p \in S THEN Longer(clients[p]) ELSE clients[p]]
    /\ fds' = [p \in DOMAIN fds |->
                 IF p - 1 \in S THEN [fds[p] EXCEPT !.out = TRUE] ELSE fds[p]]

\* Faulty variant: recv returning 0 is taken for "nothing yet".
endOfInputIgnored(p) ==
    \/ peer[fds[p].fd] = "reset" /\ disconnect(p)
    \/ /\ peer[fds[p].fd] = "closed"
       /\ pc' = "events"
       /\ UNCHANGED <<i, vectors, kernel, _shutdown>>

\* recv returns 0, or fails.
endOfInput(p) == disconnect(p)

\* recv takes m of the lines.  (It is called only when poll said that there is
\* something to take, and nobody else takes it: no EAGAIN.)
handle_user ==
    LET f == fds[i].fd IN
    /\ pc = "scan" /\ i <= Len(fds) /\ f # Listener /\ "IN" \in fds[i].revents
    /\ \/ \E m \in 1 .. inbox[f], S \in SUBSET DOMAIN clients :
            /\ inbox' = [inbox EXCEPT ![f] = @ - m]
            /\ sending_queue(S)
            /\ pc' = "events"
            /\ UNCHANGED <<i, listener, peer, wire, backlog, _shutdown>>
       \/ inbox[f] = 0 /\ peer[f] # "open" /\ endOfInput(i)

\* An entry that is ready, but not for reading.
noInput ==
    /\ pc = "scan" /\ i <= Len(fds) /\ fds[i].fd # Listener
    /\ fds[i].revents # {} /\ "IN" \notin fds[i].revents
    /\ pc' = "events"
    /\ UNCHANGED <<i, vectors, kernel, _shutdown>>

\* Faulty variant: POLLOUT is cleared after a partial send too.
KeepsPollOutNever(left, n) == FALSE

\* POLLOUT stays while something is left to send.
KeepsPollOut(left, n) == left > n

\* send fails, or takes what fits; it may take nothing (EAGAIN).
handle_send(p) ==
    LET f    == fds[p].fd
        left == clients[p - 1].pending
        n    == IF left < MaxWire - wire[f] THEN left ELSE MaxWire - wire[f] IN
    \/ peer[f] = "reset" /\ left > 0 /\ disconnect(p)
    \/ /\ peer[f] # "reset" \/ left = 0
       /\ wire' = [wire EXCEPT ![f] = @ + n]
       /\ clients' = [clients EXCEPT ![p - 1].pending = left - n]
       /\ fds' = [fds EXCEPT ![p] = [Done(@) EXCEPT !.out = KeepsPollOut(left, n)]]
       /\ advance
       /\ UNCHANGED <<listener, peer, inbox, backlog, _shutdown>>

\* The rest of the iteration: errors and hang-ups first, then output.
otherEvents ==
    /\ pc = "events"
    /\ \/ "HUP" \in fds[i].revents /\ disconnect(i)
       \/ "HUP" \notin fds[i].revents /\ "OUT" \in fds[i].revents /\ handle_send(i)
       \/ /\ {"HUP", "OUT"} \cap fds[i].revents = {}
          /\ advance
          /\ fds' = [fds EXCEPT ![i] = Done(@)]
          /\ UNCHANGED <<clients, listener, kernel, _shutdown>>

\* The end of the pass.
endScan ==
    /\ pc = "scan" /\ i > Len(fds)
    /\ pc' = "test" /\ i' = 1
    /\ UNCHANGED <<vectors, kernel, _shutdown>>

\* The descriptors that the vector fds lists are closed, and with them the
\* listening socket.  What the send buffers held is lost.
CloseAll ==
    LET listed == {fds[p].fd : p \in DOMAIN fds} IN
    /\ fds' = <<>> /\ clients' = <<>> /\ listener' = "closed"
    /\ peer' = [f \in Fds |-> IF f \in listed THEN "none" ELSE peer[f]]
    /\ inbox' = [f \in Fds |-> IF f \in listed THEN 0 ELSE inbox[f]]
    /\ wire' = [f \in Fds |-> IF f \in listed THEN 0 ELSE wire[f]]
    /\ backlog' = 0
    /\ i' = 1
    /\ UNCHANGED _shutdown

\* The descriptors are closed twice here, first by the loop, then by disconnect.
shutdown == pc = "down" /\ pc' = "stopped" /\ CloseAll

\* poll fails, not with EINTR: launch throws, and main destroys the server.
pollFails == pc = "enter" /\ pc' = "failed" /\ CloseAll

main ==
    \/ open_socket \/ binding \/ listening \/ poll_setup \/ pollFails
    \/ testFlag \/ poll \/ skip \/ connect \/ handle_user \/ noInput
    \/ otherEvents \/ endScan \/ shutdown

Environment ==
    \/ dial \/ sig_handler
    \/ \E f \in Fds : peerSends(f) \/ peerReads(f) \/ peerCloses(f) \/ peerResets(f)

Next == main \/ Environment

LoopSpec == Init /\ [][Next]_loopVars

\* The scheduler runs the server thread; the peers and the signal owe nothing.
FairSpec == LoopSpec /\ WF_loopVars(main)
-----------------------------------------------------------------------------
(* Safety.                                                                 *)

Entry == [fd : Fds \cup {Listener}, out : BOOLEAN, revents : SUBSET Events]

Buffered == [fd : Fds, pending : 0 .. MaxPending]

\* Every variable has its type, and the index is where pc needs it.
LoopTypeOK ==
    /\ pc \in {"boot", "bind", "listen", "setup", "test", "enter", "poll", "scan",
               "events", "down", "stopped", "failed"}
    /\ listener \in {"open", "closed"}
    /\ fds \in Seq(Entry) /\ clients \in Seq(Buffered)
    /\ i \in 1 .. Len(fds) + 1
    /\ pc = "events" => i \in 2 .. Len(fds)
    /\ _shutdown \in BOOLEAN
    /\ peer \in [Fds -> {"none", "open", "closed", "reset"}]
    /\ inbox \in [Fds -> 0 .. MaxIn] /\ wire \in [Fds -> 0 .. MaxWire]
    /\ backlog \in 0 .. MaxBacklog

Running == pc \in {"test", "enter", "poll", "scan", "events", "down"}

\* The two vectors stay parallel whatever is inserted and erased during the
\* scan: the entry at p is for the client at p - 1, and the open descriptors
\* are those of the vectors, once each.  Every clients[i - 1] relies on it.
FdsAligned ==
    Running =>
        /\ Len(fds) = Len(clients) + 1
        /\ \A p \in DOMAIN clients : fds[p + 1].fd = clients[p].fd
        /\ \A p, q \in DOMAIN clients : clients[p].fd = clients[q].fd => p = q
        /\ {clients[p].fd : p \in DOMAIN clients} = {f \in Fds : peer[f] # "none"}

\* POLLOUT is asked for exactly for the clients that have something to send:
\* without it a reply would stay in its buffer, with it poll would never block.
PollOutArmed ==
    \A p \in DOMAIN clients : fds[p + 1].out <=> clients[p].pending > 0

\* No entry that poll found ready is left behind by the index: erasing one does
\* not skip the entry that takes its place, and a pass leaves nothing undone.
NothingSkipped ==
    \A p \in DOMAIN fds :
        fds[p].revents # {} => pc \in {"scan", "events"} /\ p >= i

\* However the process ends, by SIGINT, by an exception in the constructor, which
\* no destructor follows, or by one in launch: it leaves no descriptor open.
NothingLeftOpen ==
    Ended => listener = "closed" /\ \A f \in Fds : peer[f] = "none"

\* The first entry is the listening socket's while launch runs; there is none,
\* and no client, before and after.
ListenerFirst ==
    /\ listener = IF pc = "boot" \/ Ended THEN "closed" ELSE "open"
    /\ IF Running THEN fds[1].fd = Listener
                  ELSE fds = <<>> /\ clients = <<>> /\ i = 1
                       /\ \A f \in Fds : peer[f] = "none"

\* The listening socket is ready only while a connection waits for accept.
ReadyToAccept ==
    \A p \in DOMAIN fds : fds[p].fd = Listener /\ fds[p].revents # {} => backlog > 0

\* The inductive invariant: what each step of the loop relies on and restores.
LoopInv ==
    /\ LoopTypeOK
    /\ FdsAligned
    /\ PollOutArmed
    /\ NothingSkipped
    /\ ListenerFirst
    /\ ReadyToAccept
-----------------------------------------------------------------------------
(* Liveness.                                                               *)

Connected(f) == peer[f] # "none"

\* A reply in a send buffer reaches the kernel, or its connection ends.
QueuedReachesWire ==
    \A f \in Fds :
        (\E p \in DOMAIN clients : clients[p].fd = f /\ clients[p].pending > 0)
            ~> (wire[f] > 0 \/ ~Connected(f))

\* A client that has filled its socket is read from, whatever the others do.
InputIsRead == \A f \in Fds : inbox[f] = MaxIn ~> inbox[f] < MaxIn

\* README.md, "A disconnected client should not remain in the server's client
\* list": the server finds out about a peer that is gone.
DeadPeerRemoved == \A f \in Fds : peer[f] \in {"closed", "reset"} ~> ~Connected(f)

\* A server that knows of SIGINT anywhere but between the test of the flag and
\* poll stops, however busy its clients keep it; blocked in a poll that it
\* entered all the same, it stops with the next event of any socket.
SigintStopsUnlessEntering ==
    /\ _shutdown /\ pc \notin {"enter", "poll"} ~> Ended
    /\ _shutdown /\ pc = "poll" /\ SomeReady ~> Ended

\* Test 58 of testing.py, "SIGINT closes server and clients": one SIGINT stops
\* the server.
SigintStops == _shutdown ~> Ended
=============================================================================
