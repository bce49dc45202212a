------------------------------- MODULE Stream -------------------------------
(***************************************************************************)
(* One connection in both directions, byte by byte: what the peer writes,  *)
(* the chunks that recv takes, the receive buffer and the lines cut from   *)
(* it (Server::extract_msg), the replies, the send buffer and what of it   *)
(* send gets rid of, until the connection ends.                            *)
(*                                                                         *)
(* The rest of the server is relay: another client's line may queue a      *)
(* message for this one whenever the loop is at another entry.             *)
(***************************************************************************)
EXTENDS Naturals, SequencesExt

CONSTANTS
    MaxSent,    \* bytes the peer writes (bound of the model)
    MaxRelayed, \* messages of others (bound of the model)
    MaxRecv,    \* bytes one recv takes (4005 in the code)
    MaxWire     \* bytes the kernel holds for the peer

ASSUME StreamAssumption == {MaxSent, MaxRelayed, MaxRecv, MaxWire} \subseteq Nat

VARIABLES
    pc,             \* where launch is with respect to this connection
    revents,        \* what poll found
    peer,           \* what the peer has done to its end
    sent,           \* all the peer has written
    taken,          \* how much of it recv has taken
    buffer,         \* the receive buffer
    handled,        \* the lines given to dispatchCommand
    queued,         \* all that was ever put into the send buffer
    send_buffer,
    pollout,        \* whether POLLOUT is asked for
    wire,           \* bytes the kernel holds for the peer
    received        \* bytes the peer has read

input == <<sent, taken, buffer, handled>>
output == <<queued, send_buffer, pollout>>
streamVars == <<pc, revents, peer, input, output, wire, received>>

CR == "\r"
LF == "\n"

Bytes == {"a", CR, LF}

\* A message of two bytes, so that send can take half of it.
MessageBytes(kind, n) == <<[msg |-> kind, nr |-> n, half |-> 1],
                           [msg |-> kind, nr |-> n, half |-> 2]>>

Init ==
    /\ pc = "poll" /\ revents = {} /\ peer = "open"
    /\ sent = <<>> /\ taken = 0 /\ buffer = <<>> /\ handled = <<>>
    /\ queued = <<>> /\ send_buffer = <<>> /\ pollout = FALSE
    /\ wire = <<>> /\ received = <<>>

\* "gone": disconnect has closed the descriptor; "down": shutdown has.
Connected == pc \notin {"gone", "down"}

Shorter(m, n) == IF m < n THEN m ELSE n

Inbox == SubSeq(sent, taken + 1, Len(sent))
-----------------------------------------------------------------------------
(* The peer.                                                               *)

peerWrites(b) ==
    /\ Connected /\ peer = "open" /\ Len(sent) < MaxSent
    /\ sent' = Append(sent, b)
    /\ UNCHANGED <<pc, revents, peer, taken, buffer, handled, output, wire, received>>

\* What the kernel holds can be read after the server has closed its end too.
peerReads ==
    /\ peer = "open" /\ wire # <<>>
    /\ received' = Append(received, Head(wire)) /\ wire' = Tail(wire)
    /\ UNCHANGED <<pc, revents, peer, input, output>>

peerCloses ==
    /\ Connected /\ peer = "open" /\ peer' = "closed"
    /\ UNCHANGED <<pc, revents, input, output, wire, received>>

peerResets ==
    /\ Connected /\ peer \in {"open", "closed"} /\ peer' = "reset"
    /\ UNCHANGED <<pc, revents, input, output, wire, received>>
-----------------------------------------------------------------------------
(* Receiving.                                                              *)

\* One trailing CR belongs to the end of the line.
WithoutCR(msg) == IF msg # <<>> /\ Last(msg) = CR THEN Front(msg) ELSE msg

\* What dispatchCommand queues for its client: nothing for an empty line.
Reply(line) == IF line = <<>> THEN <<>> ELSE MessageBytes("reply", Len(handled) + 1)

sending_queue(bytes) ==
    /\ queued' = queued \o bytes
    /\ send_buffer' = send_buffer \o bytes
    /\ pollout' = (pollout \/ bytes # <<>>)

\* Another client's line makes the server queue a message for this one.
relay ==
    /\ pc \in {"poll", "in"} /\ Connected
    /\ Cardinality({n \in DOMAIN queued : queued[n].msg = "relayed"}) < 2 * MaxRelayed
    /\ sending_queue(MessageBytes("relayed", Len(queued)))
    /\ UNCHANGED <<pc, revents, peer, input, wire, received>>

\* The descriptor is closed.
disconnect ==
    /\ pc' = "gone"
    /\ send_buffer' = <<>> /\ pollout' = FALSE
    /\ UNCHANGED <<revents, peer, input, queued, wire, received>>

recv(m) ==
    /\ taken' = taken + m
    /\ buffer' = buffer \o SubSeq(Inbox, 1, m)
    /\ pc' = "extract"
    /\ UNCHANGED <<revents, peer, sent, handled, output, wire, received>>

\* Faulty variant: if for while, one line for each recv.
once == "events"

\* Behind a line the loop over find('\n') looks for the next.
again == "extract"

\* One iteration of the loop.
extract_msg ==
    LET pos  == SelectInSeq(buffer, LAMBDA b : b = LF)
        line == WithoutCR(SubSeq(buffer, 1, pos - 1)) IN
    /\ pc = "extract" /\ pos # 0
    /\ buffer' = SubSeq(buffer, pos + 1, Len(buffer))
    /\ handled' = Append(handled, line)
    /\ sending_queue(Reply(line))
    /\ pc' = again
    /\ UNCHANGED <<revents, peer, sent, taken, wire, received>>

noLine ==
    /\ pc = "extract" /\ ~Contains(buffer, LF)
    /\ pc' = "events"
    /\ UNCHANGED <<revents, peer, input, output, wire, received>>

\* recv returns 0 only behind the last byte.
inputEnds == peer = "closed" /\ Inbox = <<>>

handle_user ==
    /\ pc = "in" /\ "IN" \in revents
    /\ \/ inputEnds /\ disconnect
       \/ peer = "reset" /\ Inbox = <<>> /\ disconnect
       \/ ~inputEnds /\ \E m \in 1 .. Shorter(MaxRecv, Len(Inbox)) : recv(m)

noInput ==
    /\ pc = "in" /\ "IN" \notin revents
    /\ pc' = "events"
    /\ UNCHANGED <<revents, peer, input, output, wire, received>>
-----------------------------------------------------------------------------
(* Sending.                                                                *)

\* Faulty variant: the buffer is emptied although send took part of it.
UnsentAfterAll(n) == <<>>

\* "buffer.erase(0, bytes)".
Unsent(n) == SubSeq(send_buffer, n + 1, Len(send_buffer))

\* Faulty variant: POLLOUT is cleared after a partial send too.
keepsPollOutNever(n) == FALSE

keepsPollOut(n) == Unsent(n) # <<>>

\* send takes what the kernel has room for.
handle_send ==
    LET n == Shorter(Len(send_buffer), MaxWire - Len(wire)) IN
    /\ wire' = wire \o SubSeq(send_buffer, 1, n)
    /\ send_buffer' = Unsent(n)
    /\ pollout' = keepsPollOut(n)
    /\ pc' = "poll"
    /\ UNCHANGED <<revents, peer, input, queued, received>>

\* Faulty variant: the end of the peer's output (POLLRDHUP) counts as a hang-up.
hungUpOrClosed == "HUP" \in revents \/ peer = "closed"

\* "revents & (POLLERR | POLLHUP | POLLNVAL)".
hungUp == "HUP" \in revents

otherEvents ==
    /\ pc = "events"
    /\ \/ hungUp /\ disconnect
       \/ /\ ~hungUp /\ "OUT" \in revents
          /\ \/ peer = "reset" /\ send_buffer # <<>> /\ disconnect
             \/ (peer # "reset" \/ send_buffer = <<>>) /\ handle_send
       \/ /\ ~hungUp /\ "OUT" \notin revents
          /\ pc' = "poll"
          /\ UNCHANGED <<revents, peer, input, output, wire, received>>
-----------------------------------------------------------------------------
(* The loop and its end.                                                   *)

Ready ==
    {x \in {"IN", "OUT", "HUP"} :
        \/ x = "IN"  /\ (Inbox # <<>> \/ peer # "open")
        \/ x = "OUT" /\ pollout /\ (Len(wire) < MaxWire \/ peer = "reset")
        \/ x = "HUP" /\ peer = "reset"}

poll ==
    /\ pc = "poll" /\ Ready # {}
    /\ revents' = Ready /\ pc' = "in"
    /\ UNCHANGED <<peer, input, output, wire, received>>

Farewell == MessageBytes("farewell", 0)

\* SIGINT: the farewell goes past the send buffer, whatever that still holds, and
\* only as far as the kernel has room.
shutdown ==
    /\ pc = "poll" /\ Connected
    /\ \/ /\ peer = "open"
          /\ wire' = wire \o SubSeq(Farewell, 1, Shorter(Len(Farewell), MaxWire - Len(wire)))
       \/ peer # "open" /\ wire' = wire
    /\ pc' = "down"
    /\ send_buffer' = <<>> /\ pollout' = FALSE
    /\ UNCHANGED <<revents, peer, input, queued, received>>

serve == poll \/ handle_user \/ extract_msg \/ noLine \/ noInput \/ otherEvents

Next ==
    \/ serve \/ relay \/ shutdown
    \/ (\E b \in Bytes : peerWrites(b)) \/ peerReads \/ peerCloses \/ peerResets

\* The scheduler runs the server.
StreamSpec == Init /\ [][Next]_streamVars /\ WF_streamVars(serve)
-----------------------------------------------------------------------------
(* Safety.                                                                 *)

\* How far the lines have been cut.
Done == taken - Len(buffer)

Terminators == {p \in 1 .. Done : sent[p] = LF}

\* The line that ends at p: what is behind the LF before.
LineEndingAt(p) ==
    WithoutCR(SubSeq(sent, Max({0} \cup {q \in Terminators : q < p}) + 1, p - 1))

\* However the stream falls into chunks, in the middle of a line, between CR and LF
\* or with several lines in one: every line that has been cut off was handled, once
\* and in order, the buffer holds what has been taken behind the last of them, and
\* nothing that ends a line once the loop is through.
LinesInOrder ==
    /\ Len(handled) = Cardinality(Terminators)
    /\ \A p \in Terminators :
         handled[Cardinality({q \in Terminators : q <= p})] = LineEndingAt(p)
    /\ buffer = SubSeq(sent, Done + 1, taken)
    /\ Done = 0 \/ sent[Done] = LF
    /\ pc # "extract" => ~Contains(buffer, LF)

\* Where the lines end that the peer has written.
LinesWritten == {p \in DOMAIN sent : sent[p] = LF}

\* However recv, the hang-up branch and send come to disconnect a client, a peer that
\* has not reset the connection is let go only after it has closed its end, and
\* then every line that it ever wrote has been handled.
NobodyCutOff ==
    pc = "gone" /\ peer # "reset" =>
        peer = "closed" /\ Len(handled) = Cardinality(LinesWritten)

\* What has left the server.
Said == received \o wire

\* Partial sends lose, repeat and reorder no byte: what has left the server and what
\* its send buffer holds is all that was queued.  An end of the connection cuts the
\* end off, and only a shutdown puts anything behind the cut.
RepliesInOrder ==
    /\ Connected => Said \o send_buffer = queued
    /\ pc # "down" => IsPrefix(Said, queued)
    /\ pc = "down" => \E n \in 0 .. Len(queued), k \in 0 .. Len(Farewell) :
                         Said = SubSeq(queued, 1, n) \o SubSeq(Farewell, 1, k)
-----------------------------------------------------------------------------
(* The inductive invariant.                                                *)

Message == [msg : {"reply", "relayed", "farewell"}, nr : Nat, half : {1, 2}]

TypeOK ==
    /\ pc \in {"poll", "in", "extract", "events", "gone", "down"}
    /\ revents \subseteq {"IN", "OUT", "HUP"}
    /\ peer \in {"open", "closed", "reset"}
    /\ sent \in Seq(Bytes) /\ buffer \in Seq(Bytes) /\ handled \in Seq(Seq(Bytes))
    /\ taken \in 0 .. Len(sent) /\ Done \in Nat
    /\ {queued, send_buffer, wire, received} \subseteq Seq(Message)
    /\ Len(wire) <= MaxWire
    /\ pollout \in BOOLEAN

\* A hang-up that poll has found stays one.
HangUpIsReset == "HUP" \in revents => peer = "reset"

StreamInv ==
    /\ TypeOK
    /\ HangUpIsReset
    /\ LinesInOrder
    /\ NobodyCutOff
    /\ RepliesInOrder
-----------------------------------------------------------------------------
(* Liveness.                                                               *)

\* Every line of a peer that stays, or closes its end, is handled, although it may
\* come in pieces: only a reset or a shutdown is an excuse.
EveryLineHandled ==
    \A n \in 1 .. MaxSent :
        Cardinality(LinesWritten) >= n
            ~> (Len(handled) >= n \/ peer = "reset" \/ pc = "down")

\* A line that is answered has at least two bytes.
MaxMessages == MaxSent \div 2 + MaxRelayed

\* A peer that stays and reads receives all that was queued for it.
RepliesDelivered ==
    WF_streamVars(peerReads) =>
        \A n \in 1 .. MaxMessages :
            Len(queued) >= 2 * n
                ~> (Len(received) >= 2 * n \/ peer # "open" \/ pc = "down")
=============================================================================
