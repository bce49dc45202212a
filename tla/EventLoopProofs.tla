-------------------------- MODULE EventLoopProofs --------------------------
(***************************************************************************)
(* The safety invariants of EventLoop, proved for any number of            *)
(* descriptors and any bounds.                                             *)
(***************************************************************************)
EXTENDS EventLoop, SequenceTheorems, TLAPS
-----------------------------------------------------------------------------
(* Sequences.                                                              *)

\* Erasing an element moves those behind it one place forward.
LEMMA RemoveAtProperties ==
    ASSUME NEW S, NEW s \in Seq(S), NEW p \in 1 .. Len(s)
    PROVE  /\ RemoveAt(s, p) \in Seq(S)
           /\ Len(RemoveAt(s, p)) = Len(s) - 1
           /\ \A q \in 1 .. Len(s) - 1 :
                RemoveAt(s, p)[q] = IF q < p THEN s[q] ELSE s[q + 1]
<1> DEFINE before == SubSeq(s, 1, p - 1)
           behind == SubSeq(s, p + 1, Len(s))
<1>1. Len(s) \in Nat /\ \A q \in 1 .. Len(s) : s[q] \in S
  BY ElementOfSeq
<1>2. /\ before \in Seq(S) /\ Len(before) = p - 1
      /\ \A q \in 1 .. p - 1 : before[q] = s[q]
  <2>1. p - 1 \in Int /\ \A q \in 1 .. p - 1 : s[q] \in S
    BY <1>1
  <2>2. QED
    BY <1>1, <2>1, SubSeqProperties
<1>3. /\ behind \in Seq(S) /\ Len(behind) = Len(s) - p
      /\ \A q \in 1 .. Len(s) - p : behind[q] = s[q + p]
  <2>1. p + 1 \in Int /\ \A q \in p + 1 .. Len(s) : s[q] \in S
    BY <1>1
  <2>2. QED
    BY <1>1, <2>1, SubSeqProperties
<1>4. RemoveAt(s, p) = before \o behind
  BY DEF RemoveAt
<1> HIDE DEF before, behind
<1>5. /\ before \o behind \in Seq(S)
      /\ Len(before \o behind) = Len(before) + Len(behind)
      /\ \A q \in 1 .. Len(before) + Len(behind) :
           (before \o behind)[q] =
             IF q <= Len(before) THEN before[q] ELSE behind[q - Len(before)]
  BY <1>2, <1>3, ConcatProperties
<1>6. Len(before) + Len(behind) = Len(s) - 1
  BY <1>1, <1>2, <1>3
<1>7. ASSUME NEW q \in 1 .. Len(s) - 1
      PROVE  (before \o behind)[q] = IF q < p THEN s[q] ELSE s[q + 1]
  <2>1. CASE q < p
    BY <1>1, <1>2, <1>5, <1>6, <2>1
  <2>2. CASE ~(q < p)
    <3>1. q - (p - 1) \in 1 .. Len(s) - p /\ q - (p - 1) + p = q + 1
      BY <1>1, <2>2
    <3>2. (before \o behind)[q] = behind[q - (p - 1)]
      BY <1>1, <1>2, <1>5, <1>6, <2>2
    <3>3. QED
      BY <1>3, <2>2, <3>1, <3>2
  <2>3. QED
    BY <2>1, <2>2
<1>8. QED
  BY <1>4, <1>5, <1>6, <1>7

\* An update of each element is a sequence of the same length.
LEMMA MapProperties ==
    ASSUME NEW S, NEW s \in Seq(S), NEW t,
           DOMAIN t = DOMAIN s, \A p \in DOMAIN t : t[p] \in S,
           t = [p \in DOMAIN t |-> t[p]]
    PROVE  t \in Seq(S) /\ Len(t) = Len(s)
<1>1. Len(s) \in Nat /\ DOMAIN s = 1 .. Len(s)
  BY LenProperties
<1>2. t \in [1 .. Len(s) -> S]
  BY <1>1
<1>3. t \in Seq(S)
  BY <1>1, <1>2, SeqDef
<1>4. QED
  BY <1>1, <1>3, LenProperties
-----------------------------------------------------------------------------
(* What the invariant says of the vectors.                                 *)

LEMMA Shape ==
    ASSUME LoopInv
    PROVE  /\ Len(fds) \in Nat /\ DOMAIN fds = 1 .. Len(fds)
           /\ Len(clients) \in Nat /\ DOMAIN clients = 1 .. Len(clients)
           /\ \A p \in 1 .. Len(fds) : fds[p] \in Entry
           /\ \A p \in 1 .. Len(clients) : clients[p] \in Buffered
BY ElementOfSeq, LenProperties DEF LoopInv, LoopTypeOK

LEMMA Parallel ==
    ASSUME LoopInv, Running
    PROVE  /\ Len(fds) = Len(clients) + 1 /\ fds[1].fd = Listener
           /\ \A p \in 2 .. Len(fds) :
                /\ p - 1 \in 1 .. Len(clients)
                /\ fds[p].fd = clients[p - 1].fd
                /\ fds[p].fd \in Fds
                /\ peer[fds[p].fd] # "none"
                /\ fds[p].out <=> clients[p - 1].pending > 0
<1>1. Len(fds) = Len(clients) + 1 /\ fds[1].fd = Listener
  BY DEF LoopInv, FdsAligned, ListenerFirst
<1>2. ASSUME NEW q \in 1 .. Len(clients)
      PROVE  /\ fds[q + 1].fd = clients[q].fd
             /\ clients[q].fd \in Fds
             /\ peer[clients[q].fd] # "none"
             /\ fds[q + 1].out <=> clients[q].pending > 0
  <2>1. q \in DOMAIN clients /\ clients[q] \in Buffered
    BY <1>2, Shape
  <2>2. QED
    BY <2>1 DEF LoopInv, FdsAligned, PollOutArmed, Buffered
<1>3. ASSUME NEW p \in 2 .. Len(fds)
      PROVE  p - 1 \in 1 .. Len(clients) /\ (p - 1) + 1 = p
  BY <1>1, <1>3, Shape
<1>4. QED
  BY <1>1, <1>2, <1>3
-----------------------------------------------------------------------------
(* Steps that leave the vectors alone.                                     *)

LEMMA SteadyKeepsInv ==
    ASSUME LoopInv, UNCHANGED vectors,
           pc' \in {"boot", "bind", "listen", "setup", "test", "enter", "poll", "scan",
                    "events", "down", "stopped", "failed"},
           i' \in 1 .. Len(fds) + 1,
           pc' = "events" => i' \in 2 .. Len(fds),
           Running => Running', Running' => Running,
           \A p \in DOMAIN fds :
               fds[p].revents # {} => pc' \in {"scan", "events"} /\ p >= i',
           ~Running => i' = 1,
           pc' = "boot" \/ Ended' <=> pc = "boot" \/ Ended,
           _shutdown' \in BOOLEAN,
           peer' \in [Fds -> {"none", "open", "closed", "reset"}],
           \A f \in Fds : peer'[f] = "none" <=> peer[f] = "none",
           inbox' \in [Fds -> 0 .. MaxIn], wire' \in [Fds -> 0 .. MaxWire],
           backlog' \in 0 .. MaxBacklog, backlog > 0 => backlog' > 0
    PROVE  LoopInv'
<1>1. LoopTypeOK'
  BY DEF LoopInv, LoopTypeOK, vectors
<1>2. FdsAligned'
  <2>1. {f \in Fds : peer'[f] # "none"} = {f \in Fds : peer[f] # "none"}
    OBVIOUS
  <2>2. QED
    BY <2>1 DEF LoopInv, FdsAligned, vectors
<1>3. PollOutArmed' /\ NothingSkipped' /\ ReadyToAccept'
  BY DEF LoopInv, PollOutArmed, NothingSkipped, ReadyToAccept, vectors
<1>4. ListenerFirst'
  BY DEF LoopInv, ListenerFirst, vectors
<1>5. QED
  BY <1>1, <1>2, <1>3, <1>4 DEF LoopInv

LEMMA Bounds ==
    /\ MaxIn \in Nat /\ MaxPending \in Nat /\ MaxWire \in Nat /\ MaxBacklog \in Nat
    /\ MaxPending > 0 /\ Listener \notin Fds
BY LoopAssumption

LEMMA KernelKeepsInv ==
    ASSUME LoopInv, UNCHANGED <<server, _shutdown>>,
           peer' \in [Fds -> {"none", "open", "closed", "reset"}],
           \A f \in Fds : peer'[f] = "none" <=> peer[f] = "none",
           inbox' \in [Fds -> 0 .. MaxIn], wire' \in [Fds -> 0 .. MaxWire],
           backlog' \in 0 .. MaxBacklog, backlog > 0 => backlog' > 0
    PROVE  LoopInv'
<1>1. /\ UNCHANGED <<pc, i, vectors, _shutdown>>
      /\ (Running' <=> Running) /\ (Ended' <=> Ended)
  BY DEF server, Running, Ended
<1>2. QED
  BY <1>1, SteadyKeepsInv DEF LoopInv, LoopTypeOK, ListenerFirst, NothingSkipped

LEMMA EnvironmentKeepsInv ==
    ASSUME LoopInv, Environment
    PROVE  LoopInv'
<1>1. /\ peer \in [Fds -> {"none", "open", "closed", "reset"}]
      /\ inbox \in [Fds -> 0 .. MaxIn] /\ wire \in [Fds -> 0 .. MaxWire]
      /\ backlog \in 0 .. MaxBacklog
  BY DEF LoopInv, LoopTypeOK
<1>2. CASE dial
  BY <1>1, <1>2, Bounds, KernelKeepsInv DEF dial
<1>3. CASE sig_handler
  <2>1. /\ (pc' = pc \/ (pc = "poll" /\ pc' = "test"))
        /\ UNCHANGED <<i, vectors, peer, inbox, wire, backlog>>
        /\ _shutdown' = TRUE
    BY <1>3 DEF sig_handler, kernel
  <2>2. /\ (Running' <=> Running) /\ (Ended' <=> Ended)
        /\ pc' = "boot" <=> pc = "boot"
        /\ pc' = "events" <=> pc = "events"
        /\ pc' \in {"scan", "events"} <=> pc \in {"scan", "events"}
    BY <2>1 DEF Running, Ended
  <2>3. QED
    BY <2>1, <2>2, SteadyKeepsInv DEF LoopInv, LoopTypeOK, ListenerFirst, NothingSkipped
<1>4. ASSUME NEW f \in Fds, peerSends(f) PROVE LoopInv'
  <2>1. inbox' \in [Fds -> 0 .. MaxIn]
    BY <1>1, <1>4, Bounds DEF peerSends
  <2>2. QED
    BY <1>1, <1>4, <2>1, KernelKeepsInv DEF peerSends
<1>5. ASSUME NEW f \in Fds, peerReads(f) PROVE LoopInv'
  <2>1. wire' \in [Fds -> 0 .. MaxWire]
    BY <1>1, <1>5, Bounds DEF peerReads
  <2>2. QED
    BY <1>1, <1>5, <2>1, KernelKeepsInv DEF peerReads
<1>6. ASSUME NEW f \in Fds, peerCloses(f) PROVE LoopInv'
  BY <1>1, <1>6, KernelKeepsInv DEF peerCloses
<1>7. ASSUME NEW f \in Fds, peerResets(f) PROVE LoopInv'
  BY <1>1, <1>7, KernelKeepsInv DEF peerResets
<1>8. QED
  BY <1>2, <1>3, <1>4, <1>5, <1>6, <1>7 DEF Environment
-----------------------------------------------------------------------------
(* Before the loop.                                                        *)

\* The constructor keeps no client and no entry.
LEMMA ConstructorKeepsInv ==
    ASSUME LoopInv, ~Running, UNCHANGED <<i, fds, clients, kernel, _shutdown>>,
           pc' \in {"bind", "listen", "setup", "failed"},
           listener' = IF pc' = "failed" THEN "closed" ELSE "open"
    PROVE  LoopInv'
<1>1. UNCHANGED <<peer, inbox, wire, backlog>> /\ ~Running'
      /\ (Ended' <=> pc' = "failed") /\ pc' # "boot" /\ pc' # "events"
  BY DEF kernel, Running, Ended
<1>2. fds = <<>> /\ clients = <<>> /\ i = 1 /\ \A f \in Fds : peer[f] = "none"
  BY DEF LoopInv, ListenerFirst
<1>3. LoopTypeOK'
  BY <1>1 DEF LoopInv, LoopTypeOK
<1>4. FdsAligned' /\ PollOutArmed' /\ NothingSkipped' /\ ReadyToAccept'
  BY <1>1, <1>2 DEF FdsAligned, PollOutArmed, NothingSkipped, ReadyToAccept
<1>5. ListenerFirst'
  BY <1>1, <1>2 DEF ListenerFirst
<1>6. QED
  BY <1>3, <1>4, <1>5 DEF LoopInv

LEMMA SetupKeepsInv ==
    ASSUME LoopInv, poll_setup
    PROVE  LoopInv'
<1> DEFINE first == [fd |-> Listener, out |-> FALSE, revents |-> {}]
<1>1. /\ pc = "setup" /\ pc' = "test" /\ fds' = <<first>>
      /\ UNCHANGED <<i, clients, listener, peer, inbox, wire, backlog, _shutdown>>
  BY DEF poll_setup, kernel
<1>2. clients = <<>> /\ i = 1 /\ listener = "open" /\ \A f \in Fds : peer[f] = "none"
  BY <1>1 DEF LoopInv, ListenerFirst, Running, Ended
<1>3. first \in Entry /\ <<first>> \in Seq(Entry)
  BY DEF Entry
<1>4. LoopTypeOK'
  BY <1>1, <1>2, <1>3 DEF LoopInv, LoopTypeOK
<1>5. FdsAligned'
  BY <1>1, <1>2 DEF FdsAligned
<1>6. PollOutArmed' /\ NothingSkipped' /\ ReadyToAccept' /\ ListenerFirst'
  BY <1>1, <1>2 DEF PollOutArmed, NothingSkipped, ReadyToAccept, ListenerFirst,
                    Running, Ended
<1>7. QED
  BY <1>4, <1>5, <1>6 DEF LoopInv
-----------------------------------------------------------------------------
(* The steps of the loop that change no entry.                             *)

\* An entry that is not the listening socket's has a client.
LEMMA AtClient ==
    ASSUME LoopInv, Running, i <= Len(fds), fds[i].fd # Listener
    PROVE  i \in 2 .. Len(fds)
BY Shape, Parallel DEF LoopInv, LoopTypeOK

LEMMA WalkKeepsInv ==
    ASSUME LoopInv, testFlag \/ skip \/ noInput \/ endScan
    PROVE  LoopInv'
<1>1. /\ Len(fds) \in Nat /\ DOMAIN fds = 1 .. Len(fds) /\ i \in 1 .. Len(fds) + 1
      /\ _shutdown \in BOOLEAN /\ backlog \in 0 .. MaxBacklog
      /\ peer \in [Fds -> {"none", "open", "closed", "reset"}]
      /\ inbox \in [Fds -> 0 .. MaxIn] /\ wire \in [Fds -> 0 .. MaxWire]
      /\ \A p \in 1 .. Len(fds) :
           fds[p].revents # {} => pc \in {"scan", "events"} /\ p >= i
  BY Shape DEF LoopInv, LoopTypeOK, NothingSkipped
<1>2. CASE testFlag
  <2>1. /\ pc = "test" /\ pc' \in {"down", "enter"}
        /\ UNCHANGED <<i, vectors, peer, inbox, wire, backlog, _shutdown>>
    BY <1>2 DEF testFlag, kernel
  <2>2. QED
    BY <1>1, <2>1, SteadyKeepsInv DEF Running, Ended
<1>3. CASE skip
  <2>1. /\ pc = "scan" /\ pc' = "scan" /\ i' = i + 1 /\ i <= Len(fds)
        /\ fds[i].revents = {}
        /\ UNCHANGED <<vectors, peer, inbox, wire, backlog, _shutdown>>
    BY <1>3 DEF skip, kernel
  <2>2. QED
    BY <1>1, <2>1, SteadyKeepsInv DEF Running, Ended
<1>4. CASE noInput
  <2>1. /\ pc = "scan" /\ pc' = "events" /\ i <= Len(fds) /\ fds[i].fd # Listener
        /\ UNCHANGED <<i, vectors, peer, inbox, wire, backlog, _shutdown>>
    BY <1>4 DEF noInput, kernel
  <2>2. i \in 2 .. Len(fds)
    BY <2>1, AtClient DEF Running
  <2>3. QED
    BY <1>1, <2>1, <2>2, SteadyKeepsInv DEF Running, Ended
<1>5. CASE endScan
  <2>1. /\ pc = "scan" /\ pc' = "test" /\ i' = 1 /\ i > Len(fds)
        /\ UNCHANGED <<vectors, peer, inbox, wire, backlog, _shutdown>>
    BY <1>5 DEF endScan, kernel
  <2>2. /\ \A p \in 1 .. Len(fds) : fds[p].revents = {}
        /\ 1 \in 1 .. Len(fds) + 1
    BY <1>1, <2>1
  <2>3. QED
    BY <1>1, <2>1, <2>2, SteadyKeepsInv DEF Running, Ended
<1>6. QED
  BY <1>2, <1>3, <1>4, <1>5
-----------------------------------------------------------------------------
(* The steps that change entries and buffers in place.                     *)

LEMMA ReventsUpdate ==
    ASSUME NEW e \in Entry, NEW R \in SUBSET Events
    PROVE  /\ [e EXCEPT !.revents = R] \in Entry
           /\ [e EXCEPT !.revents = R].fd = e.fd
           /\ [e EXCEPT !.revents = R].out = e.out
           /\ [e EXCEPT !.revents = R].revents = R
BY DEF Entry

LEMMA DoneUpdate ==
    ASSUME NEW e \in Entry
    PROVE  /\ Done(e) \in Entry /\ Done(e).fd = e.fd
           /\ Done(e).out = e.out /\ Done(e).revents = {}
BY DEF Entry, Done

LEMMA OutUpdate ==
    ASSUME NEW e \in Entry, NEW b \in BOOLEAN
    PROVE  /\ [e EXCEPT !.out = b] \in Entry
           /\ [e EXCEPT !.out = b].fd = e.fd
           /\ [e EXCEPT !.out = b].out = b
           /\ [e EXCEPT !.out = b].revents = e.revents
BY DEF Entry

LEMMA BufferUpdates ==
    ASSUME NEW cl \in Buffered, NEW n \in 0 .. MaxPending
    PROVE  /\ [cl EXCEPT !.pending = n] \in Buffered
           /\ [cl EXCEPT !.pending = n].fd = cl.fd
           /\ [cl EXCEPT !.pending = n].pending = n
BY DEF Buffered

LEMMA InPlaceKeepsInv ==
    ASSUME LoopInv, Running,
           fds' \in Seq(Entry), Len(fds') = Len(fds),
           \A p \in 1 .. Len(fds) : fds'[p].fd = fds[p].fd,
           clients' \in Seq(Buffered), Len(clients') = Len(clients),
           \A p \in 1 .. Len(clients) :
               clients'[p].fd = clients[p].fd /\ (fds'[p + 1].out <=> clients'[p].pending > 0),
           pc' \in {"scan", "events"}, i' \in 1 .. Len(fds) + 1,
           pc' = "events" => i' \in 2 .. Len(fds),
           \A p \in 1 .. Len(fds) : fds'[p].revents # {} => p >= i',
           fds'[1].revents # {} => backlog' > 0,
           UNCHANGED <<listener, peer, _shutdown>>,
           inbox' \in [Fds -> 0 .. MaxIn], wire' \in [Fds -> 0 .. MaxWire],
           backlog' \in 0 .. MaxBacklog
    PROVE  LoopInv'
<1>1. /\ Len(fds) = Len(clients) + 1 /\ Len(clients) \in Nat /\ Len(fds) \in Nat
      /\ DOMAIN fds' = 1 .. Len(fds) /\ DOMAIN clients' = 1 .. Len(clients)
      /\ DOMAIN clients = 1 .. Len(clients)
      /\ fds[1].fd = Listener
  BY Shape, Parallel, LenProperties
<1>2. Running' /\ ~Ended' /\ ~Ended /\ pc' # "boot" /\ pc # "boot"
  BY DEF Running, Ended
<1>3. LoopTypeOK'
  BY DEF LoopInv, LoopTypeOK
<1>4. FdsAligned'
  <2>1. {clients'[p].fd : p \in DOMAIN clients'} = {clients[p].fd : p \in DOMAIN clients}
    BY <1>1
  <2>2. \A p \in 1 .. Len(clients) : p + 1 \in 1 .. Len(fds)
    BY <1>1
  <2>3. QED
    BY <1>1, <1>2, <2>1, <2>2 DEF LoopInv, FdsAligned
<1>5. PollOutArmed' /\ NothingSkipped'
  BY <1>1 DEF PollOutArmed, NothingSkipped
<1>6. ListenerFirst'
  BY <1>1, <1>2 DEF LoopInv, ListenerFirst
<1>7. ReadyToAccept'
  <2>1. \A p \in 2 .. Len(fds) : fds'[p].fd # Listener
    BY Parallel, Bounds, <1>1
  <2>2. QED
    BY <1>1, <2>1 DEF ReadyToAccept
<1>8. QED
  BY <1>3, <1>4, <1>5, <1>6, <1>7 DEF LoopInv

\* The entry at i is done with and the scan goes on.
LEMMA DoneKeepsInv ==
    ASSUME LoopInv, pc \in {"scan", "events"}, i \in 1 .. Len(fds), advance,
           fds' = [fds EXCEPT ![i] = Done(@)],
           UNCHANGED <<clients, listener, peer, inbox, wire, _shutdown>>,
           backlog' \in 0 .. MaxBacklog, i > 1 => backlog' = backlog
    PROVE  LoopInv'
<1>1. Running
  BY DEF Running
<1>2. fds[i] \in Entry /\ Len(fds) \in Nat /\ DOMAIN fds = 1 .. Len(fds)
      /\ DOMAIN clients = 1 .. Len(clients) /\ fds \in Seq(Entry)
  BY Shape DEF LoopInv, LoopTypeOK
<1>3. /\ Done(fds[i]) \in Entry /\ Done(fds[i]).fd = fds[i].fd
      /\ Done(fds[i]).out = fds[i].out /\ Done(fds[i]).revents = {}
  BY <1>2, DoneUpdate
<1>4. /\ fds' \in Seq(Entry) /\ Len(fds') = Len(fds)
      /\ \A p \in 1 .. Len(fds) : fds'[p] = IF p = i THEN Done(fds[i]) ELSE fds[p]
  BY <1>2, <1>3, ExceptSeq
<1>5. \A p \in 1 .. Len(fds) : fds'[p].fd = fds[p].fd /\ fds'[p].out = fds[p].out
  BY <1>3, <1>4
<1>6. \A p \in 1 .. Len(fds) : fds'[p].revents # {} => p >= i' /\ fds[p].revents # {}
  BY <1>2, <1>3, <1>4 DEF LoopInv, NothingSkipped, advance
<1>7. fds'[1].revents # {} => backlog' > 0
  <2>1. 1 \in 1 .. Len(fds) /\ fds[1].fd = Listener
    BY <1>1, <1>2, Parallel
  <2>2. SUFFICES ASSUME fds'[1].revents # {} PROVE i > 1 /\ backlog > 0
    BY <1>2
  <2>3. i > 1 /\ fds[1].revents # {}
    BY <1>2, <1>6, <2>1, <2>2 DEF advance
  <2>4. QED
    BY <1>2, <2>1, <2>3 DEF LoopInv, ReadyToAccept
<1>8. \A p \in 1 .. Len(clients) : fds'[p + 1].out <=> clients'[p].pending > 0
  <2>1. \A p \in 1 .. Len(clients) : p + 1 \in 1 .. Len(fds)
    BY <1>1, Parallel, Shape
  <2>2. QED
    BY <1>2, <1>5, <2>1 DEF LoopInv, PollOutArmed
<1>9. pc' = "scan" /\ i' \in 1 .. Len(fds) + 1
  BY <1>2 DEF advance
<1>10. QED
  BY <1>1, <1>4, <1>5, <1>6, <1>7, <1>8, <1>9, InPlaceKeepsInv DEF LoopInv, LoopTypeOK

\* poll
LEMMA PollKeepsInv ==
    ASSUME LoopInv, poll
    PROVE  LoopInv'
<1>1. CASE pc \in {"enter", "poll"} /\ SomeReady /\ pc' = "scan" /\ i' = 1
           /\ fds' = [p \in DOMAIN fds |-> [fds[p] EXCEPT !.revents = Ready(fds[p])]]
           /\ UNCHANGED <<clients, listener, kernel, _shutdown>>
  <2>1. UNCHANGED <<clients, listener, peer, inbox, wire, backlog, _shutdown>>
        /\ Running
    BY <1>1 DEF kernel, Running
  <2>2. /\ Len(fds) \in Nat /\ DOMAIN fds = 1 .. Len(fds) /\ fds \in Seq(Entry)
        /\ DOMAIN clients = 1 .. Len(clients)
        /\ \A p \in 1 .. Len(fds) : fds[p] \in Entry
    BY Shape DEF LoopInv, LoopTypeOK
  <2>3. \A e \in Entry : Ready(e) \in SUBSET Events
    BY DEF Ready, Events
  <2>4. \A p \in 1 .. Len(fds) :
          /\ fds'[p] \in Entry /\ fds'[p].fd = fds[p].fd
          /\ fds'[p].out = fds[p].out /\ fds'[p].revents = Ready(fds[p])
    BY <1>1, <2>2, <2>3, ReventsUpdate
  <2>5. fds' \in Seq(Entry) /\ Len(fds') = Len(fds)
    <3>1. DOMAIN fds' = DOMAIN fds /\ fds' = [p \in DOMAIN fds' |-> fds'[p]]
      BY <1>1
    <3>2. QED
      BY <2>2, <2>4, <3>1, MapProperties
  <2>6. fds'[1].revents # {} => backlog' > 0
    <3>1. 1 \in 1 .. Len(fds) /\ fds[1].fd = Listener
      BY <2>1, <2>2, Parallel, Shape
    <3>2. QED
      BY <2>1, <2>4, <3>1 DEF Ready
  <2>7. \A p \in 1 .. Len(clients) : fds'[p + 1].out <=> clients'[p].pending > 0
    <3>1. \A p \in 1 .. Len(clients) : p + 1 \in 1 .. Len(fds)
      BY <2>1, Parallel, Shape
    <3>2. QED
      BY <2>1, <2>2, <2>4, <3>1 DEF LoopInv, PollOutArmed
  <2>8. i' \in 1 .. Len(fds) + 1 /\ \A p \in 1 .. Len(fds) : p >= i'
    BY <1>1, <2>2
  <2>9. QED
    BY <1>1, <2>1, <2>4, <2>5, <2>6, <2>7, <2>8, InPlaceKeepsInv DEF LoopInv, LoopTypeOK
<1>2. CASE pc = "enter" /\ pc' = "poll" /\ UNCHANGED <<i, vectors, kernel, _shutdown>>
  <2>1. UNCHANGED <<i, vectors, peer, inbox, wire, backlog, _shutdown>>
    BY <1>2 DEF kernel
  <2>2. \A p \in DOMAIN fds : fds[p].revents = {}
    BY <1>2 DEF LoopInv, NothingSkipped
  <2>3. QED
    BY <1>2, <2>1, <2>2, SteadyKeepsInv DEF Running, Ended, LoopInv, LoopTypeOK
<1>3. QED
  BY <1>1, <1>2 DEF poll
-----------------------------------------------------------------------------
(* Connections.                                                            *)

\* accept: the new entry and the new client are the last, and the descriptor
\* was no client's.
LEMMA AcceptKeepsInv ==
    ASSUME LoopInv, pc = "scan", i \in 1 .. Len(fds), fds[i].fd = Listener,
           fds[i].revents # {}, NEW f \in Fds, peer[f] = "none", advance,
           fds' = Append([fds EXCEPT ![i] = Done(@)],
                         [fd |-> f, out |-> FALSE, revents |-> {}]),
           clients' = Append(clients, [fd |-> f, pending |-> 0]),
           peer' = [peer EXCEPT ![f] = "open"],
           backlog' = backlog - 1,
           UNCHANGED <<inbox, wire, listener, _shutdown>>
    PROVE  LoopInv'
<1> DEFINE n     == Len(fds)
           done  == [fds EXCEPT ![i] = Done(@)]
           entry == [fd |-> f, out |-> FALSE, revents |-> {}]
           cl    == [fd |-> f, pending |-> 0]
<1>1. Running /\ Running' /\ ~Ended' /\ ~Ended /\ pc' = "scan" /\ i' = i + 1
  BY DEF Running, Ended, advance
<1>2. /\ n \in Nat /\ Len(clients) = n - 1 /\ fds[1].fd = Listener
      /\ DOMAIN clients = 1 .. n - 1 /\ fds \in Seq(Entry) /\ clients \in Seq(Buffered)
      /\ \A p \in 2 .. n : /\ p - 1 \in 1 .. Len(clients)
                           /\ fds[p].fd = clients[p - 1].fd /\ fds[p].fd \in Fds
                           /\ peer[fds[p].fd] # "none"
                           /\ fds[p].out <=> clients[p - 1].pending > 0
  BY <1>1, Shape, Parallel DEF LoopInv, LoopTypeOK
<1>3. i = 1 /\ backlog > 0
  <2>1. i = 1
    BY <1>2, Bounds
  <2>2. QED
    BY <2>1, Shape DEF LoopInv, ReadyToAccept
<1>4. entry \in Entry /\ cl \in Buffered /\ fds[i] \in Entry
  BY Bounds, Shape DEF Entry, Buffered
<1>5. /\ done \in Seq(Entry) /\ Len(done) = n
      /\ \A p \in 1 .. n : done[p] = IF p = 1 THEN Done(fds[1]) ELSE fds[p]
  BY <1>2, <1>3, <1>4, DoneUpdate, ExceptSeq
<1> HIDE DEF done, entry, cl, n
<1>6. /\ fds' \in Seq(Entry) /\ Len(fds') = n + 1 /\ DOMAIN fds' = 1 .. n + 1
      /\ fds'[1] = Done(fds[1]) /\ fds'[n + 1] = entry
      /\ \A p \in 2 .. n : fds'[p] = fds[p]
  <2>1. fds' = Append(done, entry)
    BY DEF done, entry
  <2>2. 1 \in 1 .. n
    BY <1>2, <1>3 DEF n
  <2>3. /\ Append(done, entry) \in Seq(Entry)
        /\ Len(Append(done, entry)) = Len(done) + 1
        /\ \A p \in 1 .. Len(done) : Append(done, entry)[p] = done[p]
        /\ Append(done, entry)[Len(done) + 1] = entry
    BY <1>4, <1>5, AppendProperties
  <2>4. DOMAIN fds' = 1 .. n + 1
    BY <1>5, <2>1, <2>3, LenProperties
  <2>5. \A p \in 2 .. n : p \in 1 .. n /\ p # 1
    BY <1>2
  <2>6. QED
    BY <1>5, <2>1, <2>2, <2>3, <2>4, <2>5
<1>7. /\ clients' \in Seq(Buffered) /\ Len(clients') = n
      /\ DOMAIN clients' = 1 .. n
      /\ clients'[n] = cl
      /\ \A p \in 1 .. n - 1 : clients'[p] = clients[p]
  <2>1. clients' = Append(clients, cl)
    BY DEF cl
  <2>2. QED
    BY <1>2, <1>4, <2>1, AppendProperties, LenProperties
<1>8. /\ entry.fd = f /\ entry.out = FALSE /\ entry.revents = {}
      /\ cl.fd = f /\ cl.pending = 0
      /\ Done(fds[1]).fd = Listener /\ Done(fds[1]).revents = {}
  BY <1>2, <1>3, <1>4, DoneUpdate DEF entry, cl
<1>9. LoopTypeOK'
  <2>1. i' \in 1 .. Len(fds') + 1 /\ backlog' \in 0 .. MaxBacklog
    BY <1>1, <1>2, <1>3, <1>6, Bounds DEF LoopInv, LoopTypeOK
  <2>2. QED
    BY <1>1, <1>6, <1>7, <2>1 DEF LoopInv, LoopTypeOK
<1>10. FdsAligned'
  <2>1. \A p \in 1 .. n - 1 : clients[p].fd \in Fds \ {f}
    <3>1. \A p \in 1 .. n - 1 : p + 1 \in 2 .. n /\ (p + 1) - 1 = p
      BY <1>2
    <3>2. QED
      BY <1>2, <3>1
  <2>2. \A p \in 1 .. n : fds'[p + 1].fd = clients'[p].fd
    <3>1. \A p \in 1 .. n - 1 : p + 1 \in 2 .. n /\ (p + 1) - 1 = p
      BY <1>2
    <3>2. \A p \in 1 .. n - 1 : fds'[p + 1].fd = clients'[p].fd
      BY <1>2, <1>6, <1>7, <3>1
    <3>3. fds'[n + 1].fd = clients'[n].fd
      BY <1>6, <1>7, <1>8
    <3>4. \A p \in 1 .. n : p = n \/ p \in 1 .. n - 1
      BY <1>2
    <3>5. QED
      BY <3>2, <3>3, <3>4
  <2>3. \A p, q \in 1 .. n : clients'[p].fd = clients'[q].fd => p = q
    <3>1. \A p, q \in 1 .. n - 1 : clients[p].fd = clients[q].fd => p = q
      BY <1>1, <1>2 DEF LoopInv, FdsAligned
    <3>2. \A p \in 1 .. n : p = n \/ p \in 1 .. n - 1
      BY <1>2
    <3>3. QED
      BY <1>7, <1>8, <2>1, <3>1, <3>2
  <2>4. {clients'[p].fd : p \in 1 .. n} = {clients[p].fd : p \in 1 .. n - 1} \cup {f}
    <3>1. n \in 1 .. n /\ \A p \in 1 .. n : p = n \/ p \in 1 .. n - 1
      BY <1>2, <1>3 DEF n
    <3>2. QED
      BY <1>2, <1>7, <1>8, <3>1
  <2>5. {g \in Fds : peer'[g] # "none"} = {g \in Fds : peer[g] # "none"} \cup {f}
    BY DEF LoopInv, LoopTypeOK
  <2>6. {clients[p].fd : p \in 1 .. n - 1} = {g \in Fds : peer[g] # "none"}
    BY <1>1, <1>2 DEF LoopInv, FdsAligned
  <2>7. QED
    BY <1>6, <1>7, <2>2, <2>3, <2>4, <2>5, <2>6 DEF FdsAligned
<1>11. PollOutArmed'
  <2>1. \A p \in 1 .. n - 1 : p + 1 \in 2 .. n /\ (p + 1) - 1 = p
    BY <1>2
  <2>2. \A p \in 1 .. n - 1 : fds'[p + 1].out <=> clients'[p].pending > 0
    BY <1>2, <1>6, <1>7, <2>1
  <2>3. fds'[n + 1].out <=> clients'[n].pending > 0
    BY <1>6, <1>7, <1>8
  <2>4. \A p \in 1 .. n : p = n \/ p \in 1 .. n - 1
    BY <1>2
  <2>5. QED
    BY <1>7, <2>2, <2>3, <2>4 DEF PollOutArmed
<1>12. \A p \in 1 .. n + 1 : p = 1 \/ p = n + 1 \/ p \in 2 .. n
  BY <1>2
<1>13. NothingSkipped' /\ ReadyToAccept'
  <2>1. \A p \in 2 .. n : p >= i' /\ fds'[p].fd # Listener
    BY <1>1, <1>2, <1>3, <1>6, Bounds
  <2>2. fds'[1].revents = {} /\ fds'[n + 1].revents = {}
    BY <1>6, <1>8
  <2>3. QED
    BY <1>1, <1>6, <1>12, <2>1, <2>2 DEF NothingSkipped, ReadyToAccept
<1>14. ListenerFirst'
  BY <1>1, <1>6, <1>8 DEF LoopInv, ListenerFirst
<1>15. QED
  BY <1>9, <1>10, <1>11, <1>13, <1>14 DEF LoopInv

LEMMA ConnectKeepsInv ==
    ASSUME LoopInv, connect
    PROVE  LoopInv'
<1>1. /\ pc = "scan" /\ fds[i].fd = Listener /\ fds[i].revents # {}
      /\ i \in 1 .. Len(fds) /\ i = 1 /\ backlog \in 1 .. MaxBacklog
  <2>1. pc = "scan" /\ i <= Len(fds) /\ fds[i].fd = Listener /\ fds[i].revents # {}
    BY DEF connect
  <2>2. i \in 1 .. Len(fds) /\ backlog \in 0 .. MaxBacklog /\ Running
    BY <2>1, Shape DEF LoopInv, LoopTypeOK, Running
  <2>3. i = 1
    BY <2>1, <2>2, Parallel, Bounds
  <2>4. backlog > 0
    BY <2>1, <2>2, Shape DEF LoopInv, ReadyToAccept
  <2>5. QED
    BY <2>1, <2>2, <2>3, <2>4
<1>2. CASE acceptFails
  BY <1>1, <1>2, Bounds, DoneKeepsInv DEF acceptFails, kernel
<1>3. CASE notSetUp
  BY <1>1, <1>3, Bounds, DoneKeepsInv DEF notSetUp
<1>4. ASSUME NEW f \in Fds, peer[f] = "none", advance,
             fds' = Append([fds EXCEPT ![i] = Done(@)],
                           [fd |-> f, out |-> FALSE, revents |-> {}]),
             clients' = Append(clients, [fd |-> f, pending |-> 0]),
             peer' = [peer EXCEPT ![f] = "open"],
             backlog' = backlog - 1,
             UNCHANGED <<inbox, wire, listener, _shutdown>>
      PROVE  LoopInv'
  BY <1>1, <1>4, AcceptKeepsInv
<1>5. QED
  BY <1>2, <1>3, <1>4 DEF connect

\* disconnect: the entry at i and its client go, those behind them move up
\* together, and the descriptor is nobody's.
LEMMA DisconnectKeepsInv ==
    ASSUME LoopInv, pc \in {"scan", "events"}, i \in 2 .. Len(fds), disconnect(i)
    PROVE  LoopInv'
<1> DEFINE n == Len(fds)
           f == fds[i].fd
<1>1. /\ fds' = RemoveAt(fds, i) /\ clients' = RemoveAt(clients, i - 1)
      /\ peer' = [peer EXCEPT ![f] = "none"]
      /\ inbox' = [inbox EXCEPT ![f] = 0] /\ wire' = [wire EXCEPT ![f] = 0]
      /\ pc' = "scan" /\ i' = i
      /\ UNCHANGED <<backlog, listener, _shutdown>>
  BY DEF disconnect, Drop
<1>2. Running /\ Running' /\ ~Ended' /\ ~Ended /\ pc # "boot"
  BY <1>1 DEF Running, Ended
<1>3. /\ n \in Nat /\ Len(clients) = n - 1 /\ fds[1].fd = Listener
      /\ DOMAIN clients = 1 .. n - 1 /\ DOMAIN fds = 1 .. n
      /\ fds \in Seq(Entry) /\ clients \in Seq(Buffered)
      /\ \A p \in 2 .. n : /\ fds[p].fd = clients[p - 1].fd /\ fds[p].fd \in Fds
                           /\ fds[p].out <=> clients[p - 1].pending > 0
  BY <1>2, Shape, Parallel DEF LoopInv, LoopTypeOK
<1> HIDE DEF n
<1>4. i \in 1 .. n /\ i - 1 \in 1 .. n - 1 /\ i \in 2 .. n
  BY <1>3 DEF n
<1>5. /\ fds' \in Seq(Entry) /\ Len(fds') = n - 1 /\ DOMAIN fds' = 1 .. n - 1
      /\ \A p \in 1 .. n - 1 : fds'[p] = IF p < i THEN fds[p] ELSE fds[p + 1]
  <2>1. /\ RemoveAt(fds, i) \in Seq(Entry)
        /\ Len(RemoveAt(fds, i)) = Len(fds) - 1
        /\ \A p \in 1 .. Len(fds) - 1 :
             RemoveAt(fds, i)[p] = IF p < i THEN fds[p] ELSE fds[p + 1]
    BY <1>3, <1>4, RemoveAtProperties DEF n
  <2>2. QED
    BY <1>1, <2>1, LenProperties DEF n
<1>6. /\ clients' \in Seq(Buffered) /\ Len(clients') = n - 2
      /\ DOMAIN clients' = 1 .. n - 2
      /\ \A p \in 1 .. n - 2 :
           clients'[p] = IF p < i - 1 THEN clients[p] ELSE clients[p + 1]
  <2>1. /\ RemoveAt(clients, i - 1) \in Seq(Buffered)
        /\ Len(RemoveAt(clients, i - 1)) = Len(clients) - 1
        /\ \A p \in 1 .. Len(clients) - 1 :
             RemoveAt(clients, i - 1)[p] =
                 IF p < i - 1 THEN clients[p] ELSE clients[p + 1]
    <3>1. i - 1 \in 1 .. Len(clients)
      BY <1>3, <1>4
    <3>2. QED
      BY <1>3, <3>1, RemoveAtProperties
  <2>2. (n - 1) - 1 = n - 2
    BY <1>3
  <2>3. QED
    BY <1>1, <1>3, <2>1, <2>2, LenProperties
<1>7. \A p \in 1 .. n - 2 :
        LET q == IF p < i - 1 THEN p ELSE p + 1 IN
        /\ q \in 1 .. n - 1 /\ q # i - 1 /\ clients'[p] = clients[q]
        /\ fds'[p + 1] = fds[q + 1] /\ q + 1 \in 2 .. n /\ (q + 1) - 1 = q
  BY <1>3, <1>4, <1>5, <1>6
<1>8. f \in Fds /\ f = clients[i - 1].fd
  BY <1>3, <1>4
<1>9. LoopTypeOK'
  <2>1. i' \in 1 .. Len(fds') + 1
    BY <1>1, <1>3, <1>4, <1>5
  <2>2. /\ peer' \in [Fds -> {"none", "open", "closed", "reset"}]
        /\ inbox' \in [Fds -> 0 .. MaxIn] /\ wire' \in [Fds -> 0 .. MaxWire]
    <3>1. 0 \in 0 .. MaxIn /\ 0 \in 0 .. MaxWire
      BY Bounds
    <3>2. /\ peer \in [Fds -> {"none", "open", "closed", "reset"}]
          /\ inbox \in [Fds -> 0 .. MaxIn] /\ wire \in [Fds -> 0 .. MaxWire]
      BY DEF LoopInv, LoopTypeOK
    <3> HIDE DEF f
    <3>3. QED
      BY <1>1, <3>1, <3>2
  <2>3. QED
    BY <1>1, <1>5, <1>6, <2>1, <2>2 DEF LoopInv, LoopTypeOK
<1>10. FdsAligned'
  <2>1. \A p, q \in 1 .. n - 1 : clients[p].fd = clients[q].fd => p = q
    BY <1>2, <1>3 DEF LoopInv, FdsAligned
  <2>2. \A p, q \in 1 .. n - 2 : clients'[p].fd = clients'[q].fd => p = q
    <3> SUFFICES ASSUME NEW p \in 1 .. n - 2, NEW q \in 1 .. n - 2,
                        clients'[p].fd = clients'[q].fd
                 PROVE  p = q
      OBVIOUS
    <3> DEFINE old(r) == IF r < i - 1 THEN r ELSE r + 1
    <3>1. /\ clients'[p] = clients[old(p)] /\ old(p) \in 1 .. n - 1
          /\ clients'[q] = clients[old(q)] /\ old(q) \in 1 .. n - 1
      BY <1>7
    <3>2. old(p) = old(q)
      BY <2>1, <3>1
    <3>3. QED
      BY <1>3, <1>4, <3>2
  <2>3. ASSUME NEW p \in 1 .. n - 2 PROVE fds'[p + 1].fd = clients'[p].fd
    <3>1. PICK q \in 1 .. n - 1 :
             /\ clients'[p] = clients[q] /\ fds'[p + 1] = fds[q + 1]
             /\ q + 1 \in 2 .. n /\ (q + 1) - 1 = q
      BY <1>7
    <3>2. fds[q + 1].fd = clients[(q + 1) - 1].fd
      BY <1>3, <3>1
    <3>3. QED
      BY <3>1, <3>2
  <2> DEFINE now  == {clients'[p].fd : p \in 1 .. n - 2}
             then == {clients[q].fd : q \in 1 .. n - 1}
  <2>4. now = then \ {f}
    <3>1. ASSUME NEW p \in 1 .. n - 2
          PROVE  clients'[p].fd \in then \ {f}
      BY <1>4, <1>7, <1>8, <2>1
    <3>2. ASSUME NEW q \in 1 .. n - 1, clients[q].fd # f
          PROVE  clients[q].fd \in now
      <4>1. CASE q < i - 1
        <5>1. q \in 1 .. n - 2 /\ clients'[q] = clients[q]
          BY <1>3, <1>4, <1>6, <4>1
        <5>2. QED
          BY <5>1
      <4>2. CASE q > i - 1
        <5>1. q - 1 \in 1 .. n - 2 /\ clients'[q - 1] = clients[q]
          <6>1. q - 1 \in 1 .. n - 2 /\ ~(q - 1 < i - 1) /\ (q - 1) + 1 = q
            BY <1>3, <1>4, <4>2
          <6>2. QED
            BY <1>6, <6>1
        <5>2. QED
          BY <5>1
      <4>3. q # i - 1
        BY <1>8, <3>2
      <4>4. QED
        BY <1>3, <1>4, <4>1, <4>2, <4>3
    <3>3. QED
      BY <3>1, <3>2
  <2>5. {g \in Fds : peer'[g] # "none"} = {g \in Fds : peer[g] # "none"} \ {f}
    BY <1>1, <1>8 DEF LoopInv, LoopTypeOK
  <2>6. then = {g \in Fds : peer[g] # "none"}
    BY <1>2, <1>3 DEF LoopInv, FdsAligned
  <2>7. Len(fds') = Len(clients') + 1
    BY <1>3, <1>5, <1>6
  <2>8. QED
    BY <1>5, <1>6, <2>2, <2>3, <2>4, <2>5, <2>6, <2>7 DEF FdsAligned
<1>11. PollOutArmed'
  BY <1>3, <1>6, <1>7 DEF PollOutArmed
<1>12. NothingSkipped'
  <2>1. ASSUME NEW p \in 1 .. n - 1, fds'[p].revents # {} PROVE p >= i
    <3>1. SUFFICES ASSUME p < i PROVE FALSE
      BY <1>3, <1>4
    <3>2. p \in 1 .. n /\ fds[p].revents # {}
      BY <1>3, <1>4, <1>5, <2>1, <3>1
    <3>3. QED
      BY <1>3, <1>4, <3>1, <3>2 DEF LoopInv, NothingSkipped
  <2>2. QED
    BY <1>1, <1>5, <2>1 DEF NothingSkipped
<1>13. ListenerFirst' /\ ReadyToAccept'
  <2>1. 1 \in 1 .. n - 1 /\ fds'[1] = fds[1]
    BY <1>3, <1>4, <1>5
  <2>2. ASSUME NEW p \in 2 .. n - 1 PROVE fds'[p].fd # Listener
    BY <1>3, <1>4, <1>5, Bounds
  <2>3. ListenerFirst'
    BY <1>1, <1>2, <1>3, <2>1 DEF LoopInv, ListenerFirst
  <2>4. ReadyToAccept'
    <3>1. fds[1].revents # {} => backlog > 0
      <4>1. 1 \in DOMAIN fds
        BY <1>3, <1>4
      <4>2. QED
        BY <1>3, <4>1 DEF LoopInv, ReadyToAccept
    <3>2. \A p \in 1 .. n - 1 : p = 1 \/ p \in 2 .. n - 1
      BY <1>3
    <3>3. QED
      BY <1>1, <1>5, <2>1, <2>2, <3>1, <3>2 DEF ReadyToAccept
  <2>5. QED
    BY <2>3, <2>4
<1>14. QED
  BY <1>9, <1>10, <1>11, <1>12, <1>13 DEF LoopInv
-----------------------------------------------------------------------------
(* Input and output.                                                       *)

\* sending_queue keeps both vectors in place and arms what it fills.
LEMMA QueueProperties ==
    ASSUME LoopInv, Running, NEW S, sending_queue(S)
    PROVE  /\ fds' \in Seq(Entry) /\ Len(fds') = Len(fds)
           /\ clients' \in Seq(Buffered) /\ Len(clients') = Len(clients)
           /\ \A p \in 1 .. Len(fds) :
                fds'[p].fd = fds[p].fd /\ fds'[p].revents = fds[p].revents
           /\ \A p \in 1 .. Len(clients) :
                /\ clients'[p].fd = clients[p].fd
                /\ fds'[p + 1].out <=> clients'[p].pending > 0
<1>1. /\ Len(fds) \in Nat /\ DOMAIN fds = 1 .. Len(fds) /\ fds \in Seq(Entry)
      /\ Len(fds) = Len(clients) + 1
      /\ Len(clients) \in Nat /\ DOMAIN clients = 1 .. Len(clients)
      /\ clients \in Seq(Buffered)
      /\ \A p \in 1 .. Len(fds) : fds[p] \in Entry
      /\ \A p \in 1 .. Len(clients) : clients[p] \in Buffered
  BY Shape, Parallel DEF LoopInv, LoopTypeOK
<1>2. \A p \in 1 .. Len(clients) :
        clients'[p] = IF p \in S THEN Longer(clients[p]) ELSE clients[p]
  BY <1>1 DEF sending_queue
<1>3. \A p \in 1 .. Len(fds) :
        fds'[p] = IF p - 1 \in S THEN [fds[p] EXCEPT !.out = TRUE] ELSE fds[p]
  BY <1>1 DEF sending_queue
<1>4. ASSUME NEW cl \in Buffered
      PROVE  /\ Longer(cl) \in Buffered /\ Longer(cl).fd = cl.fd
             /\ Longer(cl).pending > 0
  <2> DEFINE m == IF cl.pending < MaxPending THEN cl.pending + 1 ELSE cl.pending
  <2>1. m \in 0 .. MaxPending /\ m > 0
    BY Bounds DEF Buffered
  <2>2. Longer(cl) = [cl EXCEPT !.pending = m]
    BY DEF Longer
  <2> HIDE DEF m
  <2>3. QED
    BY <2>1, <2>2, BufferUpdates
<1>5. \A p \in 1 .. Len(clients) :
        /\ clients'[p] \in Buffered /\ clients'[p].fd = clients[p].fd
        /\ clients'[p].pending > 0 <=> (p \in S \/ clients[p].pending > 0)
  BY <1>1, <1>2, <1>4
<1>6. \A p \in 1 .. Len(fds) :
        /\ fds'[p] \in Entry /\ fds'[p].fd = fds[p].fd
        /\ fds'[p].revents = fds[p].revents
        /\ fds'[p].out <=> (p - 1 \in S \/ fds[p].out)
  <2>1. ASSUME NEW e \in Entry
        PROVE  /\ [e EXCEPT !.out = TRUE] \in Entry
               /\ [e EXCEPT !.out = TRUE].fd = e.fd
               /\ [e EXCEPT !.out = TRUE].revents = e.revents
               /\ [e EXCEPT !.out = TRUE].out
    BY OutUpdate
  <2>2. QED
    BY <1>1, <1>3, <2>1
<1>7. fds' \in Seq(Entry) /\ Len(fds') = Len(fds)
  <2>1. DOMAIN fds' = DOMAIN fds /\ fds' = [p \in DOMAIN fds' |-> fds'[p]]
    BY DEF sending_queue
  <2>2. QED
    BY <1>1, <1>6, <2>1, MapProperties
<1>8. clients' \in Seq(Buffered) /\ Len(clients') = Len(clients)
  <2>1. /\ DOMAIN clients' = DOMAIN clients
        /\ clients' = [p \in DOMAIN clients' |-> clients'[p]]
    BY DEF sending_queue
  <2>2. QED
    BY <1>1, <1>5, <2>1, MapProperties
<1>9. \A p \in 1 .. Len(clients) : fds'[p + 1].out <=> clients'[p].pending > 0
  <2>1. \A p \in 1 .. Len(clients) : p + 1 \in 1 .. Len(fds) /\ (p + 1) - 1 = p
    BY <1>1
  <2>2. \A p \in 1 .. Len(clients) : fds[p + 1].out <=> clients[p].pending > 0
    BY <1>1 DEF LoopInv, PollOutArmed
  <2>3. QED
    BY <1>5, <1>6, <2>1, <2>2
<1>10. QED
  BY <1>5, <1>6, <1>7, <1>8, <1>9

LEMMA HandleUserKeepsInv ==
    ASSUME LoopInv, handle_user
    PROVE  LoopInv'
<1> DEFINE f == fds[i].fd
<1>1. pc = "scan" /\ i <= Len(fds) /\ f # Listener /\ "IN" \in fds[i].revents /\ Running
  BY DEF handle_user, Running
<1>2. i \in 2 .. Len(fds)
  BY <1>1, AtClient
<1>3. ASSUME NEW m \in 1 .. inbox[f], NEW S \in SUBSET DOMAIN clients,
             inbox' = [inbox EXCEPT ![f] = @ - m], sending_queue(S), pc' = "events",
             UNCHANGED <<i, listener, peer, wire, backlog, _shutdown>>
      PROVE  LoopInv'
  <2>1. f \in Fds /\ 1 \in 1 .. Len(fds) /\ fds[1].fd = Listener
    BY <1>1, <1>2, Parallel, Shape
  <2> HIDE DEF f
  <2>2. inbox' \in [Fds -> 0 .. MaxIn]
    BY <1>3, <2>1, Bounds DEF LoopInv, LoopTypeOK
  <2>3. \A p \in 1 .. Len(fds) : fds'[p].revents # {} => p >= i'
    BY <1>1, <1>3, QueueProperties, Shape DEF LoopInv, NothingSkipped
  <2>4. fds'[1].revents # {} => backlog' > 0
    BY <1>1, <1>3, <2>1, QueueProperties, Shape DEF LoopInv, ReadyToAccept
  <2>5. QED
    BY <1>1, <1>2, <1>3, <2>2, <2>3, <2>4, QueueProperties, InPlaceKeepsInv
       DEF LoopInv, LoopTypeOK
<1>4. CASE endOfInput(i)
  BY <1>1, <1>2, <1>4, DisconnectKeepsInv DEF endOfInput
<1>5. QED
  BY <1>3, <1>4 DEF handle_user

\* handle_send: what is left in the buffer decides about POLLOUT.
LEMMA HandleSendKeepsInv ==
    ASSUME LoopInv, pc = "events", i \in 2 .. Len(fds), handle_send(i)
    PROVE  LoopInv'
<1> DEFINE f    == fds[i].fd
           left == clients[i - 1].pending
           n    == IF left < MaxWire - wire[f] THEN left ELSE MaxWire - wire[f]
           done == [Done(fds[i]) EXCEPT !.out = KeepsPollOut(left, n)]
           rest == [clients[i - 1] EXCEPT !.pending = left - n]
<1>1. CASE disconnect(i)
  BY <1>1, DisconnectKeepsInv
<1>2. CASE /\ wire' = [wire EXCEPT ![f] = @ + n]
           /\ clients' = [clients EXCEPT ![i - 1] = rest]
           /\ fds' = [fds EXCEPT ![i] = done]
           /\ advance
           /\ UNCHANGED <<listener, peer, inbox, backlog, _shutdown>>
  <2>1. /\ Running /\ Len(fds) \in Nat /\ DOMAIN fds = 1 .. Len(fds)
        /\ fds \in Seq(Entry) /\ clients \in Seq(Buffered)
        /\ Len(fds) = Len(clients) + 1 /\ Len(clients) \in Nat
        /\ DOMAIN clients = 1 .. Len(clients)
        /\ i - 1 \in 1 .. Len(clients) /\ i \in 1 .. Len(fds) /\ 1 \in 1 .. Len(fds)
        /\ fds[1].fd = Listener /\ f \in Fds
    BY Shape, Parallel DEF Running, LoopInv, LoopTypeOK
  <2>2. fds[i] \in Entry /\ clients[i - 1] \in Buffered
    BY <2>1, Shape
  <2>3. left \in 0 .. MaxPending /\ wire[f] \in 0 .. MaxWire
    BY <2>1, <2>2 DEF Buffered, LoopInv, LoopTypeOK
  <2> HIDE DEF f, left
  <2>4. /\ n \in 0 .. MaxPending /\ left - n \in 0 .. MaxPending
        /\ wire[f] + n \in 0 .. MaxWire
    BY <2>3, Bounds
  <2>5. KeepsPollOut(left, n) \in BOOLEAN /\ (KeepsPollOut(left, n) <=> left - n > 0)
    BY <2>3, <2>4, Bounds DEF KeepsPollOut
  <2> HIDE DEF n
  <2>6. /\ done \in Entry /\ done.fd = fds[i].fd /\ done.revents = {}
        /\ done.out = KeepsPollOut(left, n)
    <3>1. Done(fds[i]) \in Entry /\ Done(fds[i]).fd = fds[i].fd
          /\ Done(fds[i]).revents = {}
      BY <2>2, DoneUpdate
    <3>2. QED
      BY <2>5, <3>1, OutUpdate
  <2>7. /\ rest \in Buffered /\ rest.fd = clients[i - 1].fd
        /\ rest.pending = left - n
    BY <2>2, <2>4, BufferUpdates
  <2> HIDE DEF done, rest
  <2>8. /\ fds' \in Seq(Entry) /\ Len(fds') = Len(fds)
        /\ \A p \in 1 .. Len(fds) : fds'[p] = IF p = i THEN done ELSE fds[p]
    BY <1>2, <2>1, <2>6, ExceptSeq
  <2>9. /\ clients' \in Seq(Buffered) /\ Len(clients') = Len(clients)
        /\ \A p \in 1 .. Len(clients) :
             clients'[p] = IF p = i - 1 THEN rest ELSE clients[p]
    BY <1>2, <2>1, <2>7, ExceptSeq
  <2>10. \A p \in 1 .. Len(fds) : fds'[p].fd = fds[p].fd
    BY <2>6, <2>8
  <2>11. \A p \in 1 .. Len(clients) :
           clients'[p].fd = clients[p].fd /\ (fds'[p + 1].out <=> clients'[p].pending > 0)
    <3>1. \A p \in 1 .. Len(clients) : fds[p + 1].out <=> clients[p].pending > 0
      BY <2>1 DEF LoopInv, PollOutArmed
    <3>2. \A p \in 1 .. Len(clients) :
            p + 1 \in 1 .. Len(fds) /\ (p + 1 = i <=> p = i - 1)
      BY <2>1
    <3>3. QED
      BY <2>5, <2>6, <2>7, <2>8, <2>9, <3>1, <3>2
  <2>12. \A p \in 1 .. Len(fds) : fds'[p].revents # {} => p >= i'
    BY <1>2, <2>1, <2>6, <2>8 DEF LoopInv, NothingSkipped, advance
  <2>13. fds'[1].revents # {} => backlog' > 0
    BY <1>2, <2>1, <2>8 DEF LoopInv, ReadyToAccept
  <2>14. wire' \in [Fds -> 0 .. MaxWire]
    BY <1>2, <2>1, <2>4 DEF LoopInv, LoopTypeOK
  <2>15. pc' = "scan" /\ i' \in 1 .. Len(fds) + 1
    BY <1>2, <2>1 DEF advance
  <2>16. QED
    BY <1>2, <2>1, <2>8, <2>9, <2>10, <2>11, <2>12, <2>13, <2>14, <2>15,
       InPlaceKeepsInv DEF LoopInv, LoopTypeOK
<1>3. QED
  BY <1>1, <1>2 DEF handle_send

LEMMA OtherEventsKeepInv ==
    ASSUME LoopInv, otherEvents
    PROVE  LoopInv'
<1>1. pc = "events" /\ i \in 2 .. Len(fds) /\ i \in 1 .. Len(fds)
  BY Shape DEF otherEvents, LoopInv, LoopTypeOK
<1>2. CASE advance /\ fds' = [fds EXCEPT ![i] = Done(@)]
           /\ UNCHANGED <<clients, listener, kernel, _shutdown>>
  BY <1>1, <1>2, DoneKeepsInv DEF kernel, LoopInv, LoopTypeOK
<1>3. QED
  BY <1>1, <1>2, DisconnectKeepsInv, HandleSendKeepsInv DEF otherEvents
-----------------------------------------------------------------------------
(* The end.                                                                *)

\* Every open descriptor is in the vector that CloseAll walks through.
LEMMA CloseKeepsInv ==
    ASSUME LoopInv, Running, pc' \in {"stopped", "failed"}, CloseAll
    PROVE  LoopInv'
<1> DEFINE listed == {fds[p].fd : p \in DOMAIN fds}
<1>1. \A f \in Fds : peer[f] # "none" => f \in listed
  <2>1. {clients[p].fd : p \in DOMAIN clients} = {f \in Fds : peer[f] # "none"}
    BY DEF LoopInv, FdsAligned
  <2>2. \A p \in DOMAIN clients : p + 1 \in DOMAIN fds /\ fds[p + 1].fd = clients[p].fd
    BY Shape, Parallel DEF LoopInv, FdsAligned
  <2>3. QED
    BY <2>1, <2>2
<1> HIDE DEF listed
<1>2. /\ fds' = <<>> /\ clients' = <<>> /\ listener' = "closed" /\ i' = 1
      /\ peer' = [f \in Fds |-> IF f \in listed THEN "none" ELSE peer[f]]
      /\ inbox' = [f \in Fds |-> IF f \in listed THEN 0 ELSE inbox[f]]
      /\ wire' = [f \in Fds |-> IF f \in listed THEN 0 ELSE wire[f]]
      /\ backlog' = 0 /\ _shutdown' = _shutdown
  BY DEF CloseAll, listed
<1>3. Ended' /\ ~Running' /\ \A f \in Fds : peer'[f] = "none"
  BY <1>1, <1>2 DEF Ended, Running
<1>4. LoopTypeOK'
  <2>1. 0 \in 0 .. MaxIn /\ 0 \in 0 .. MaxWire /\ 0 \in 0 .. MaxBacklog
    BY Bounds
  <2>2. /\ fds' \in Seq(Entry) /\ clients' \in Seq(Buffered)
        /\ i' \in 1 .. Len(fds') + 1
    BY <1>2, EmptySeq
  <2>3. QED
    BY <1>2, <2>1, <2>2 DEF LoopInv, LoopTypeOK
<1>5. FdsAligned' /\ PollOutArmed' /\ NothingSkipped' /\ ReadyToAccept'
  BY <1>2, <1>3 DEF FdsAligned, PollOutArmed, NothingSkipped, ReadyToAccept
<1>6. ListenerFirst'
  BY <1>2, <1>3 DEF ListenerFirst
<1>7. QED
  BY <1>4, <1>5, <1>6 DEF LoopInv
-----------------------------------------------------------------------------
(* The theorems.                                                           *)

LEMMA InitInv == Init => LoopInv
<1> SUFFICES ASSUME Init PROVE LoopInv
  OBVIOUS
<1>1. /\ pc = "boot" /\ i = 1 /\ _shutdown = FALSE /\ listener = "closed"
      /\ fds = <<>> /\ clients = <<>> /\ backlog = 0
      /\ peer = [f \in Fds |-> "none"]
      /\ inbox = [f \in Fds |-> 0] /\ wire = [f \in Fds |-> 0]
  BY DEF Init
<1>2. LoopTypeOK
  <2>1. fds \in Seq(Entry) /\ clients \in Seq(Buffered) /\ i \in 1 .. Len(fds) + 1
    BY <1>1, EmptySeq
  <2>2. 0 \in 0 .. MaxIn /\ 0 \in 0 .. MaxWire /\ 0 \in 0 .. MaxBacklog
    BY Bounds
  <2>3. QED
    BY <1>1, <2>1, <2>2 DEF LoopTypeOK
<1>3. QED
  BY <1>1, <1>2 DEF LoopInv, FdsAligned, PollOutArmed, NothingSkipped, ReadyToAccept,
                    ListenerFirst, Running, Ended

LEMMA MainKeepsInv ==
    ASSUME LoopInv, main
    PROVE  LoopInv'
<1>1. CASE open_socket \/ binding \/ listening
  <2>1. /\ UNCHANGED <<i, fds, clients, kernel, _shutdown>> /\ ~Running
        /\ pc' \in {"bind", "listen", "setup", "failed"}
        /\ listener' = IF pc' = "failed" THEN "closed" ELSE "open"
    BY <1>1 DEF open_socket, binding, listening, ThrowClosing, vectors, Running,
                Ended, LoopInv, ListenerFirst
  <2>2. QED
    BY <2>1, ConstructorKeepsInv
<1>2. CASE pollFails \/ shutdown
  BY <1>2, CloseKeepsInv DEF pollFails, shutdown, Running
<1>3. QED
  BY <1>1, <1>2, SetupKeepsInv, WalkKeepsInv, PollKeepsInv, ConnectKeepsInv,
     HandleUserKeepsInv, OtherEventsKeepInv DEF main

LEMMA NextLoopInv == LoopInv /\ [Next]_loopVars => LoopInv'
<1> SUFFICES ASSUME LoopInv, [Next]_loopVars PROVE LoopInv'
  OBVIOUS
<1>1. CASE UNCHANGED loopVars
  <2>1. UNCHANGED <<pc, i, fds, clients, listener, peer, inbox, wire, backlog, _shutdown>>
    BY <1>1 DEF loopVars, server, kernel, vectors
  <2>2. QED
    BY <2>1 DEF LoopInv, LoopTypeOK, FdsAligned, PollOutArmed, NothingSkipped,
                ListenerFirst, ReadyToAccept, Running, Ended
<1>2. QED
  BY <1>1, MainKeepsInv, EnvironmentKeepsInv DEF Next

\* The invariant of the loop holds whatever the peers, the kernel and the signal do.
THEOREM LoopInvariance == LoopSpec => []LoopInv
  BY InitInv, NextLoopInv, PTL DEF LoopSpec

\* Type correctness: the index is never outside the vector where it is used.
THEOREM IndexInRange == LoopSpec => []LoopTypeOK
<1>1. LoopInv => LoopTypeOK
  BY DEF LoopInv
<1>2. QED
  BY <1>1, LoopInvariance, PTL

\* The vectors fds and clients stay parallel, for any number of clients.
THEOREM VectorsParallel == LoopSpec => []FdsAligned
<1>1. LoopInv => FdsAligned
  BY DEF LoopInv
<1>2. QED
  BY <1>1, LoopInvariance, PTL

\* POLLOUT is armed exactly for the buffers that hold something.
THEOREM OutputArmed == LoopSpec => []PollOutArmed
<1>1. LoopInv => PollOutArmed
  BY DEF LoopInv
<1>2. QED
  BY <1>1, LoopInvariance, PTL

\* The scan leaves no ready entry behind.
THEOREM ScanComplete == LoopSpec => []NothingSkipped
<1>1. LoopInv => NothingSkipped
  BY DEF LoopInv
<1>2. QED
  BY <1>1, LoopInvariance, PTL

\* A process that has ended holds no descriptor.
THEOREM AllClosed == LoopSpec => []NothingLeftOpen
<1>1. LoopInv => NothingLeftOpen
  BY DEF LoopInv, NothingLeftOpen, ListenerFirst, Running, Ended
<1>2. QED
  BY <1>1, LoopInvariance, PTL
=============================================================================
