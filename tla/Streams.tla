------------------------------- MODULE Streams -------------------------------
(* SIP over TLS and WebSocket connections: the accept loops, the task that  *)
(* pumps a connection (tcp_server.rs, ws_server.rs) and the registry that   *)
(* finds the connection of an address for outbound messages                 *)
(* (transport.rs).                                                          *)
(*                                                                          *)
(* All connections come from one client address: the client reconnects from *)
(* the port it had, or uses it towards both servers.  A TLS connection      *)
(* carries lines, a WebSocket one frames.  Message n of a connection has    *)
(* the line "head" and, with a body, "len" (Content-Length) before the      *)
(* blank line and "body" after it; "crlf" is a keep-alive sent before it.   *)
EXTENDS Integers, Sequences, FiniteSets

CONSTANTS
    Tls, Ws,      \* connections to the TLS server and to the WebSocket one
    NoConn,
    Senders,      \* tasks that send to the address
    MaxMessages,  \* bound, by connection: messages the client sends
    MaxOutbound,  \* bound: messages sent to the address
    MaxFailures   \* bound: failed handshakes, reads and writes

Conns == Tls \cup Ws

ASSUME StreamsAssumption == Tls \cap Ws = {} /\ NoConn \notin Conns

Mangled == 0      \* what the handler is given when the lines are of no one message

VARIABLES
    pc,           \* where the task of a connection is
    peerOpen,     \* connections the client has not closed
    wire,         \* what the client sent and the task has not read
    partial,      \* lines held by the future read_next_sip_message
    inbound,      \* the message given to process_inbound
    registry,     \* TransportRegistry::streams at the address
    channel,      \* messages in a connection's unbounded channel
    sender,       \* a sender: idle, or the transmitter it cloned
    outbound,     \* number of messages sent to the address
    failures,
    sent,         \* history: messages the client sent
    handled,      \* history: what the handler was given
    cuts,         \* history: reads dropped after they had taken something
    shared        \* history: another one registered or ended since this one registered

connVars == <<pc, peerOpen, wire, partial, inbound, sent, handled, cuts>>
streamVars == <<connVars, registry, channel, sender, outbound, failures, shared>>

Idle == [pc |-> "idle"]

StreamsInit ==
    /\ pc = [c \in Conns |-> "new"]
    /\ peerOpen = {}
    /\ wire = [c \in Conns |-> <<>>]
    /\ partial = [c \in Conns |-> <<>>]
    /\ inbound = [c \in Conns |-> <<>>]
    /\ registry = NoConn
    /\ channel = [c \in Conns |-> 0]
    /\ sender = [s \in Senders |-> Idle]
    /\ outbound = 0 /\ failures = 0
    /\ sent = [c \in Conns |-> 0]
    /\ handled = [c \in Conns |-> <<>>]
    /\ cuts = [c \in Conns |-> 0]
    /\ shared = {}

Goto(c, l) == pc' = [pc EXCEPT ![c] = l]
Failure == failures < MaxFailures /\ failures' = failures + 1

-----------------------------------------------------------------------------
(* The client: one connection at a time to a server from one port.          *)
Connect(c) ==
    /\ pc[c] = "new"
    /\ \A d \in peerOpen : (d \in Tls) # (c \in Tls)
    /\ Goto(c, "handshake")
    /\ peerOpen' = peerOpen \cup {c}
    /\ UNCHANGED <<wire, partial, inbound, registry, channel, sender, outbound, failures,
                   sent, handled, cuts, shared>>

Part(n, p) == [n |-> n, part |-> p]
Lines(n, body) ==
    IF body THEN <<Part(n, "head"), Part(n, "len"), Part(n, "blank"), Part(n, "body")>>
    ELSE <<Part(n, "head"), Part(n, "blank")>>

(* A message; on TLS perhaps after a keep-alive.  A WebSocket message is    *)
(* one frame.                                                               *)
ClientSend(c) ==
    LET n == sent[c] + 1 IN
    \E lines \in IF c \in Ws THEN {<<Part(n, "frame")>>}
                 ELSE {Lines(n, TRUE), Lines(n, FALSE), <<Part(n, "crlf")>> \o Lines(n, FALSE)} :
        /\ pc[c] \in {"select", "process"}
        /\ c \in peerOpen
        /\ sent[c] < MaxMessages[c]
        /\ sent' = [sent EXCEPT ![c] = n]
        /\ wire' = [wire EXCEPT ![c] = @ \o lines]
        /\ UNCHANGED <<pc, peerOpen, partial, inbound, registry, channel, sender, outbound,
                       failures, handled, cuts, shared>>

ClientClose(c) ==
    /\ c \in peerOpen
    /\ peerOpen' = peerOpen \ {c}
    /\ UNCHANGED <<pc, wire, partial, inbound, registry, channel, sender, outbound, failures,
                   sent, handled, cuts, shared>>

-----------------------------------------------------------------------------
(* TransportRegistry::register: the address has a new transmitter, the old  *)
(* one is dropped.                                                          *)
register(c) ==
    /\ registry' = c
    /\ shared' = (shared \cup Conns) \ {c}

\* Faulty variant: a connection that ends after an error stays registered.
unregister_unless_peer_open(c) ==
    /\ registry' = IF c \in peerOpen THEN registry ELSE NoConn
    /\ shared' = shared \cup (Conns \ {c})

(* TransportRegistry::unregister: whatever the address has is removed.      *)
unregister(c) ==
    /\ registry' = NoConn
    /\ shared' = shared \cup (Conns \ {c})

(* The handshakes succeed and the pump starts.                              *)
Accept(c) ==
    /\ pc[c] = "handshake"
    /\ register(c)
    /\ Goto(c, "select")
    /\ UNCHANGED <<peerOpen, wire, partial, inbound, channel, sender, outbound, failures,
                   sent, handled, cuts>>

HandshakeFails(c) ==
    /\ pc[c] = "handshake"
    /\ IF c \in peerOpen THEN Failure ELSE UNCHANGED failures
    /\ Goto(c, "done")
    /\ UNCHANGED <<peerOpen, wire, partial, inbound, registry, channel, sender, outbound,
                   sent, handled, cuts, shared>>

-----------------------------------------------------------------------------
(* The pump of a TLS connection: select! of a read and of the channel.      *)
IsBlank(line) == line.part \in {"blank", "crlf"}
AwaitsBody(c) == partial[c] # <<>> /\ IsBlank(partial[c][Len(partial[c])])

\* Faulty variant: a blank line alone is a message.
read_line_blank(c) ==
    LET line == Head(wire[c])
        lines == Append(partial[c], line)
        whole == IsBlank(line) /\ ~ \E i \in DOMAIN lines : lines[i].part = "len"
    IN  /\ c \in Tls /\ pc[c] = "select" /\ wire[c] # <<>> /\ ~AwaitsBody(c)
        /\ wire' = [wire EXCEPT ![c] = Tail(@)]
        /\ partial' = [partial EXCEPT ![c] = IF whole THEN <<>> ELSE lines]
        /\ inbound' = [inbound EXCEPT ![c] = IF whole THEN lines ELSE @]
        /\ Goto(c, IF whole THEN "process" ELSE "select")
        /\ UNCHANGED <<peerOpen, registry, channel, sender, outbound, failures,
                       sent, handled, cuts, shared>>

(* read_next_sip_message takes a line.  A blank line ends the header; one   *)
(* that comes alone is skipped.                                             *)
read_line(c) ==
    LET line == Head(wire[c])
        lines == Append(partial[c], line)
        ends == IsBlank(line)
        whole == ends /\ Len(lines) > 1 /\ ~ \E i \in DOMAIN lines : lines[i].part = "len"
        skipped == ends /\ Len(lines) = 1
    IN  /\ c \in Tls /\ pc[c] = "select" /\ wire[c] # <<>> /\ ~AwaitsBody(c)
        /\ wire' = [wire EXCEPT ![c] = Tail(@)]
        /\ partial' = [partial EXCEPT ![c] = IF whole \/ skipped THEN <<>> ELSE lines]
        /\ inbound' = [inbound EXCEPT ![c] = IF whole THEN lines ELSE @]
        /\ Goto(c, IF whole THEN "process" ELSE "select")
        /\ UNCHANGED <<peerOpen, registry, channel, sender, outbound, failures,
                       sent, handled, cuts, shared>>

(* It takes the Content-Length bytes after a header that has one.           *)
read_exact(c) ==
    /\ c \in Tls /\ pc[c] = "select" /\ wire[c] # <<>> /\ AwaitsBody(c)
    /\ wire' = [wire EXCEPT ![c] = Tail(@)]
    /\ partial' = [partial EXCEPT ![c] = <<>>]
    /\ inbound' = [inbound EXCEPT ![c] = Append(partial[c], Head(wire[c]))]
    /\ Goto(c, "process")
    /\ UNCHANGED <<peerOpen, registry, channel, sender, outbound, failures,
                   sent, handled, cuts, shared>>

(* A text or binary frame is a message.  Pings and others are not seen by   *)
(* the handler.                                                             *)
next_frame(c) ==
    /\ c \in Ws /\ pc[c] = "select" /\ wire[c] # <<>>
    /\ wire' = [wire EXCEPT ![c] = Tail(@)]
    /\ inbound' = [inbound EXCEPT ![c] = <<Head(wire[c])>>]
    /\ Goto(c, "process")
    /\ UNCHANGED <<peerOpen, partial, registry, channel, sender, outbound, failures,
                   sent, handled, cuts, shared>>

\* Faulty variant: the end of the stream is only noticed between messages.
ReadEndsBetween(c) ==
    /\ pc[c] = "select"
    /\ partial[c] = <<>>
    /\ IF c \notin peerOpen /\ wire[c] = <<>> THEN UNCHANGED failures ELSE Failure
    /\ Goto(c, "ending")
    /\ UNCHANGED <<peerOpen, wire, partial, inbound, registry, channel, sender, outbound,
                   sent, handled, cuts, shared>>

(* The end of the stream, a close frame, or an error of the read.           *)
ReadEnds(c) ==
    /\ pc[c] = "select"
    /\ IF c \notin peerOpen /\ wire[c] = <<>> THEN UNCHANGED failures ELSE Failure
    /\ Goto(c, "ending")
    /\ UNCHANGED <<peerOpen, wire, partial, inbound, registry, channel, sender, outbound,
                   sent, handled, cuts, shared>>

(* What the lines are to the handler.                                       *)
Message(lines) ==
    LET n == lines[1].n IN
    IF lines \in {Lines(n, TRUE), Lines(n, FALSE), <<Part(n, "frame")>>} THEN n ELSE Mangled

(* handle_tcp_msg, and the response, if any, is written.                    *)
process_inbound(c) ==
    /\ pc[c] = "process"
    /\ handled' = [handled EXCEPT ![c] = Append(@, Message(inbound[c]))]
    /\ inbound' = [inbound EXCEPT ![c] = <<>>]
    /\ \/ Goto(c, "select") /\ UNCHANGED failures
       \/ Goto(c, "ending") /\ Failure
    /\ UNCHANGED <<peerOpen, wire, partial, registry, channel, sender, outbound,
                   sent, cuts, shared>>

(* What is left of a line of which a part was read; the rest of a blank     *)
(* line is still blank.                                                     *)
Rest(line) == IF IsBlank(line) THEN line ELSE Part(line.n, "rest")

\* Faulty variant: a connection that was replaced no longer empties its channel.
recv_if_registered(c) ==
    /\ pc[c] = "select"
    /\ channel[c] > 0
    /\ registry = c
    /\ channel' = [channel EXCEPT ![c] = @ - 1]
    /\ partial' = [partial EXCEPT ![c] = <<>>]
    /\ cuts' = [cuts EXCEPT ![c] = IF partial[c] # <<>> THEN @ + 1 ELSE @]
    /\ UNCHANGED <<pc, failures, wire, peerOpen, inbound, registry, sender, outbound, sent,
                   handled, shared>>

(* An outbound message wins the select!: the future of the read is dropped  *)
(* with what it has taken, perhaps a part of the next line.  The message is *)
(* written.                                                                 *)
recv(c) ==
    \E half \in BOOLEAN :
        /\ pc[c] = "select"
        /\ channel[c] > 0
        /\ half => c \in Tls /\ wire[c] # <<>> /\ Head(wire[c]).part # "rest"
        /\ channel' = [channel EXCEPT ![c] = @ - 1]
        /\ wire' = IF half THEN [wire EXCEPT ![c][1] = Rest(@)] ELSE wire
        /\ partial' = [partial EXCEPT ![c] = <<>>]
        /\ cuts' = [cuts EXCEPT ![c] = IF half \/ partial[c] # <<>> THEN @ + 1 ELSE @]
        /\ \/ UNCHANGED <<pc, failures>>
           \/ Goto(c, "ending") /\ Failure
        /\ UNCHANGED <<peerOpen, inbound, registry, sender, outbound, sent, handled, shared>>

(* The loop is left: the address is unregistered and the task returns.      *)
End(c) ==
    /\ pc[c] = "ending"
    /\ unregister(c)
    /\ Goto(c, "done")
    /\ peerOpen' = peerOpen \ {c}
    /\ UNCHANGED <<wire, partial, inbound, channel, sender, outbound, failures,
                   sent, handled, cuts>>

-----------------------------------------------------------------------------
(* TransportRegistry::send clones the transmitter under the lock; without   *)
(* one the message goes out by UDP.                                         *)
SendClone(s) ==
    /\ sender[s] = Idle
    /\ outbound < MaxOutbound /\ outbound' = outbound + 1
    /\ sender' = IF registry = NoConn THEN sender
                 ELSE [sender EXCEPT ![s] = [pc |-> "push", conn |-> registry]]
    /\ UNCHANGED <<connVars, registry, channel, failures, shared>>

(* It sends outside the lock; when the receiver is gone, by UDP.            *)
SendPush(s) ==
    /\ sender[s].pc = "push"
    /\ channel' = IF pc[sender[s].conn] = "done" THEN channel
                  ELSE [channel EXCEPT ![sender[s].conn] = @ + 1]
    /\ sender' = [sender EXCEPT ![s] = Idle]
    /\ UNCHANGED <<connVars, registry, outbound, failures, shared>>

Pump(c) ==
    \/ Accept(c) \/ HandshakeFails(c)
    \/ read_line(c) \/ read_exact(c) \/ next_frame(c) \/ ReadEnds(c)
    \/ process_inbound(c) \/ recv(c) \/ End(c)

StreamsNext ==
    \/ \E c \in Conns : Connect(c) \/ ClientSend(c) \/ ClientClose(c) \/ Pump(c)
    \/ \E s \in Senders : SendClone(s) \/ SendPush(s)

(* Tokio runs a task that can go on, and select! picks a ready branch at    *)
(* random, so that the channel is not passed over for ever.                 *)
StreamsFairness ==
    /\ \A c \in Conns : WF_streamVars(Pump(c)) /\ WF_streamVars(recv(c))
    /\ \A s \in Senders : WF_streamVars(SendPush(s))

StreamsSpec == StreamsInit /\ [][StreamsNext]_streamVars /\ StreamsFairness

-----------------------------------------------------------------------------
Running(c) == pc[c] \in {"select", "process", "ending"}

Line == [n : Nat, part : {"head", "len", "blank", "body", "crlf", "rest", "frame"}]

(* The state keeps its shape; a future of a read holds lines only while the *)
(* task is in its select!, and only a TLS read is ever cut.                 *)
StreamsTypeOK ==
    /\ pc \in [Conns -> {"new", "handshake", "select", "process", "ending", "done"}]
    /\ registry \in Conns \cup {NoConn}
    /\ wire \in [Conns -> Seq(Line)]
    /\ partial \in [Conns -> Seq(Line)]
    /\ inbound \in [Conns -> Seq(Line)]
    /\ sent \in [Conns -> Nat]
    /\ handled \in [Conns -> Seq(Nat)]
    /\ cuts \in [Conns -> Nat]
    /\ \A c \in Conns : partial[c] # <<>> => c \in Tls /\ pc[c] # "process"
    /\ \A c \in Conns : (inbound[c] # <<>>) = (pc[c] = "process")
    /\ \A c \in Ws : cuts[c] = 0

(* The registry never leads to a connection whose task has returned, and it *)
(* leads to a running connection unless another connection of the address   *)
(* registered or ended after it did.                                        *)
RegistryFollows ==
    /\ registry # NoConn => Running(registry)
    /\ \A c \in Conns : Running(c) /\ c \notin shared => registry = c

(* Messages of a connection that were read to the end.                      *)
Numbers(lines) == {lines[i].n : i \in DOMAIN lines}
ReadUp(c) == (1 .. sent[c]) \ (Numbers(wire[c]) \cup Numbers(partial[c]) \cup Numbers(inbound[c]))

(* The handler is given the client's messages whole, in order and once.     *)
(* Each outbound message that comes in the middle of a read costs at most   *)
(* two of them, the one that was being read and the next, and makes at most *)
(* two mangled messages; WebSocket frames are never lost.                   *)
DamageIsBounded ==
    \A c \in Conns :
        LET given == handled[c]
            Whole == {i \in DOMAIN given : given[i] # Mangled}
        IN  /\ \A i, j \in Whole : i < j => given[i] < given[j]
            /\ Cardinality(ReadUp(c) \ {given[i] : i \in Whole}) <= 2 * cuts[c]
            /\ Cardinality(DOMAIN given \ Whole) <= 2 * cuts[c]
            /\ c \in Ws => cuts[c] = 0

(* Messages the registry took are written, unless their connection ends: no *)
(* stream of inbound messages keeps them waiting, and neither does a newer  *)
(* connection that replaced the registration.                               *)
AcceptedIsWritten ==
    \A c \in Conns : channel[c] > 0 ~> (channel[c] = 0 \/ pc[c] \in {"ending", "done"})

(* Once the client has closed, the connection's task returns and the        *)
(* registry no longer leads to it, however the loop was left.               *)
ClosedIsForgotten ==
    \A c \in Conns : (Running(c) /\ c \notin peerOpen) ~> (pc[c] = "done" /\ registry # c)
=============================================================================
