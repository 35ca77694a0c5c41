--------------------------- MODULE EnetConnection ---------------------------
(***************************************************************************)
(* The life of connections between hosts: enet_host_connect, the handshake *)
(* of CONNECT and VERIFY_CONNECT, the ways of disconnecting, timeouts, and *)
(* the events the application is told of.  Each host is one thread that    *)
(* calls enet_host_service (with or without an event), enet_host_check_-   *)
(* events and the functions on peers; hosts meet in a network that loses,  *)
(* duplicates and reorders datagrams.                                      *)
(*                                                                         *)
(* A host is a record and every function of the code that changes a host   *)
(* is an operator from records to records, composed as the code composes   *)
(* its calls.  A datagram carries one command.  While a host is inside a   *)
(* call no other host acts: a call meets the others only in the network,   *)
(* so that a step of another host in the middle of it could as well come   *)
(* before it or after it.                                                  *)
(***************************************************************************)
EXTENDS Integers, Sequences, FiniteSets

CONSTANTS
  Hosts,         \* a host is named by its address
  Slots,         \* indices of host->peers, the same on every host
  None,          \* no slot and no host; as a peer identifier ENET_PROTOCOL_MAXIMUM_PEER_ID
  Initiators,    \* hosts whose application calls enet_host_connect
  LimitedHosts,  \* hosts with an incomingBandwidth other than 0
  Calls,         \* what the applications call, of AllCalls
  EventModes,    \* TRUE: service with an event; FALSE: with NULL
  Checksum,      \* host->checksum is set
  MaxConnects,   \* bound: calls of enet_host_connect
  MaxSequence,   \* bound: control commands per connection, for pings and limits
  MaxData,       \* bound: packets per connection and direction
  MaxAttempts,   \* bound: times a command is sent
  MaxCopies,     \* bound: times the network repeats a datagram
  MaxRestarts,   \* bound: hosts destroyed and created anew
  NetCapacity    \* bound: datagrams in flight

AllCalls == {"send", "disconnect", "abort", "later", "now", "reset", "limit"}

ASSUME ConnectionAssumption ==
  /\ Slots \subseteq Nat
  /\ IsFiniteSet(Slots)
  /\ None \notin Slots \union Hosts
  /\ Initiators \subseteq Hosts
  /\ LimitedHosts \subseteq Hosts
  /\ Calls \subseteq AllCalls
  /\ EventModes \subseteq BOOLEAN

VARIABLES
  host,       \* [h]: the ENetHost
  net,        \* datagrams in flight
  service,    \* the call a host is inside of, Idle between calls
  app,        \* [h][p]: what the application of h knows of slot p
  connectIDs, \* connect identifiers drawn so far
  restarts

vars == <<host, net, service, app, connectIDs, restarts>>

-----------------------------------------------------------------------------
(* Peers and commands.                                                     *)

States == {"DISCONNECTED", "CONNECTING", "ACKNOWLEDGING_CONNECT",
           "CONNECTION_PENDING", "CONNECTION_SUCCEEDED", "CONNECTED",
           "DISCONNECT_LATER", "DISCONNECTING", "ACKNOWLEDGING_DISCONNECT",
           "ZOMBIE"}

\* the states that count in connectedPeers
Established == {"CONNECTED", "DISCONNECT_LATER"}

\* the states before CONNECTION_PENDING in the order of ENetPeerState
BeforePending == {"DISCONNECTED", "CONNECTING", "ACKNOWLEDGING_CONNECT"}

NoSession == 255

\* A command of the control channel 0xFF; seq is given when it is queued.
\* The fields after attempts are those of CONNECT, VERIFY_CONNECT,
\* BANDWIDTH_LIMIT and DISCONNECT.
Command(type, reliable) ==
  [type |-> type, channel |-> "control", seq |-> 0, reliable |-> reliable,
   attempts |-> 0, peerID |-> None, incomingSessionID |-> NoSession,
   outgoingSessionID |-> NoSession, connectID |-> 0,
   incomingBandwidth |-> FALSE, data |-> 0]

NewPeer ==
  [state |-> "DISCONNECTED", outgoingPeerID |-> None, connectID |-> 0,
   address |-> None, incomingSessionID |-> NoSession,
   outgoingSessionID |-> NoSession,
   incomingBandwidth |-> FALSE,         \* TRUE: other than 0
   needsDispatch |-> FALSE,             \* ENET_PEER_FLAG_NEEDS_DISPATCH
   outgoingReliableSequenceNumber |-> 0,
   outgoingCommands |-> {},             \* with outgoingSendReliableCommands
   sentReliableCommands |-> {},
   acknowledgements |-> {},             \* the commands to acknowledge
   dispatchedCommands |-> <<>>,         \* the connectID each packet was sent under
   sent |-> 0,                          \* the one channel: outgoing and
   received |-> 0,                      \* incomingReliableSequenceNumber
   waiting |-> {},                      \* incomingReliableCommands
   eventData |-> 0]

NewHost(limited) ==
  [peer |-> [p \in Slots |-> NewPeer], dispatchQueue |-> <<>>,
   connectedPeers |-> 0, bandwidthLimitedPeers |-> 0, incomingBandwidth |-> limited,
   recalculateBandwidthLimits |-> FALSE]

NoEvent == [type |-> "NONE", slot |-> None, data |-> 0]

Idle == [host |-> None, phase |-> "app", events |-> FALSE, todo |-> {}, after |-> None]

\* missed: packets a peer sent before its enet_peer_disconnect_later and an
\* application that was not leaving itself never got
Unknown == [view |-> "free", received |-> 0, missed |-> 0]

Init ==
  /\ host = [h \in Hosts |-> NewHost(h \in LimitedHosts)]
  /\ net = {}
  /\ service = Idle
  /\ app = [h \in Hosts |-> [p \in Slots |-> Unknown]]
  /\ connectIDs = 0
  /\ restarts = 0

-----------------------------------------------------------------------------
(* Operators from hosts to hosts.                                          *)

State(H, p) == H.peer[p].state

\* n more connected peers, of the bandwidth of peer p
Count(H, p, n) ==
  [H EXCEPT !.connectedPeers = @ + n,
            !.bandwidthLimitedPeers = @ + (IF H.peer[p].incomingBandwidth THEN n ELSE 0)]

PeerOnConnect(H, p) == IF State(H, p) \in Established THEN H ELSE Count(H, p, 1)

PeerOnDisconnect(H, p) == IF State(H, p) \in Established THEN Count(H, p, -1) ELSE H

ChangeState(H, p, state) ==
  LET G == IF state \in Established THEN PeerOnConnect(H, p) ELSE PeerOnDisconnect(H, p)
  IN  [G EXCEPT !.peer[p].state = state]

\* Mutant: the flag is not looked at.
NeedsDispatchAgain(H, p) ==
  [H EXCEPT !.dispatchQueue = Append(@, p), !.peer[p].needsDispatch = TRUE]

\* ENET_PEER_FLAG_NEEDS_DISPATCH keeps a peer from being queued twice
NeedsDispatch(H, p) ==
  IF H.peer[p].needsDispatch
  THEN H
  ELSE [H EXCEPT !.dispatchQueue = Append(@, p), !.peer[p].needsDispatch = TRUE]

\* Mutant: the peer is not queued for its event.
DispatchStateUnqueued(H, p, state) == ChangeState(H, p, state)

DispatchState(H, p, state) == NeedsDispatch(ChangeState(H, p, state), p)

\* enet_peer_queue_outgoing_command on channel 0xFF
QueueOutgoing(H, p, command) ==
  LET seq == H.peer[p].outgoingReliableSequenceNumber + 1
  IN  [H EXCEPT !.peer[p].outgoingReliableSequenceNumber = seq,
                !.peer[p].outgoingCommands = @ \union {[command EXCEPT !.seq = seq]}]

\* Mutant: commands in transit are forgotten.
HasUnsent(H, p) == H.peer[p].outgoingCommands # {}

HasOutgoing(H, p) ==
  H.peer[p].outgoingCommands \union H.peer[p].sentReliableCommands # {}

\* enet_list_remove of the one node a peer has
Unlink(queue, p) ==
  LET i == CHOOSE j \in DOMAIN queue : queue[j] = p
  IN  SubSeq(queue, 1, i - 1) \o SubSeq(queue, i + 1, Len(queue))

\* The channels are freed, and with them their numbers.
ResetQueues(H, p) ==
  [H EXCEPT
     !.dispatchQueue = IF H.peer[p].needsDispatch THEN Unlink(@, p) ELSE @,
     !.peer[p] = [@ EXCEPT !.needsDispatch = FALSE, !.acknowledgements = {},
                           !.sentReliableCommands = {}, !.outgoingCommands = {},
                           !.dispatchedCommands = <<>>, !.waiting = {},
                           !.sent = 0, !.received = 0]]

\* peer->flags is cleared first, so that reset_queues leaves the peer in the
\* dispatch queue.  Address and session identifiers survive.
PeerReset(H, p) ==
  LET G == PeerOnDisconnect(H, p)
  IN  ResetQueues(
        [G EXCEPT !.peer[p] = [@ EXCEPT !.outgoingPeerID = None, !.connectID = 0,
                                        !.state = "DISCONNECTED",
                                        !.incomingBandwidth = FALSE,
                                        !.outgoingReliableSequenceNumber = 0,
                                        !.eventData = 0, !.needsDispatch = FALSE]], p)

\* enet_peer_disconnect of an established peer, and what it does before the
\* flush to one that is not.
BeginDisconnect(H, p, data) ==
  LET reliable == State(H, p) \in Established
      command == [Command("DISCONNECT", reliable) EXCEPT !.data = data]
      G == QueueOutgoing(ResetQueues(H, p), p, command)
  IN  IF reliable THEN ChangeState(G, p, "DISCONNECTING") ELSE G

-----------------------------------------------------------------------------
(* Events.  A result is a host and the event that is set in it.            *)

Quiet(H) == [host |-> H, event |-> NoEvent]

Tell(H, type, p, data) == [host |-> H, event |-> [type |-> type, slot |-> p, data |-> data]]

\* Where a connection waits whose CONNECT event cannot be told yet: the state
\* remembers whether the application asked for it.
EstablishedUntold(state) ==
  IF state = "CONNECTING" THEN "CONNECTION_SUCCEEDED" ELSE "CONNECTION_PENDING"

NotifyConnect(H, p, events) ==
  LET G == [H EXCEPT !.recalculateBandwidthLimits = TRUE]
  IN  IF events
      THEN Tell(ChangeState(G, p, "CONNECTED"), "CONNECT", p, H.peer[p].eventData)
      ELSE Quiet(DispatchState(G, p, EstablishedUntold(State(H, p))))

\* Mutant: a failed attempt goes without an event, too.
UnannouncedAttempt == {"DISCONNECTED", "CONNECTING", "ACKNOWLEDGING_CONNECT", "CONNECTION_PENDING"}

\* A peer the application was not told of goes without an event.
Unannounced == {"DISCONNECTED", "ACKNOWLEDGING_CONNECT", "CONNECTION_PENDING"}

NotifyDisconnect(H, p, events) ==
  LET G == [H EXCEPT !.recalculateBandwidthLimits = @ \/ State(H, p) \notin BeforePending]
  IN  CASE State(H, p) \in Unannounced ->
             Quiet(PeerReset(G, p))
        [] State(H, p) \notin Unannounced /\ events ->
             Tell(PeerReset(G, p), "DISCONNECT", p, 0)
        [] OTHER -> Quiet(DispatchState([G EXCEPT !.peer[p].eventData = 0], p, "ZOMBIE"))

\* One turn of the loop of enet_protocol_dispatch_incoming_commands.
DispatchHead(H) ==
  LET p == Head(H.dispatchQueue)
      q == H.peer[p]
      G == [H EXCEPT !.dispatchQueue = Tail(@), !.peer[p].needsDispatch = FALSE]
  IN  CASE q.state \in {"CONNECTION_PENDING", "CONNECTION_SUCCEEDED"} ->
             Tell(ChangeState(G, p, "CONNECTED"), "CONNECT", p, q.eventData)
        [] q.state = "ZOMBIE" ->
             Tell(PeerReset([G EXCEPT !.recalculateBandwidthLimits = TRUE], p),
                  "DISCONNECT", p, q.eventData)
        [] q.state = "CONNECTED" /\ q.dispatchedCommands # <<>> ->
             LET F == [G EXCEPT !.peer[p].dispatchedCommands = Tail(@)]
             IN  Tell(IF Len(q.dispatchedCommands) > 1 THEN NeedsDispatch(F, p) ELSE F,
                      "RECEIVE", p, 0)
        [] OTHER -> Quiet(G)

-----------------------------------------------------------------------------
(* Handlers of incoming commands.                                          *)

\* Mutant: the identifier is taken over without counting on.
SameSession(advertised, mine) == (IF advertised = NoSession THEN 0 ELSE advertised) % 4

\* Session identifiers have two bits; 255 stands for none yet.
NextSession(advertised, mine) ==
  LET next == ((IF advertised = NoSession THEN mine ELSE advertised) + 1) % 4
  IN  IF next = mine THEN (next + 1) % 4 ELSE next

\* Mutant: a slot whose end the application does not know of yet is taken.
FreeOrZombieSlots(H) == {p \in Slots : State(H, p) \in {"DISCONNECTED", "ZOMBIE"}}

FreeSlots(H) == {p \in Slots : State(H, p) = "DISCONNECTED"}

FirstFree(H) == CHOOSE p \in FreeSlots(H) : \A q \in FreeSlots(H) : p <= q

\* Mutant: only attempts that succeeded are compared.
KnownConnection(H, m) ==
  \E p \in Slots :
    State(H, p) \in Established /\ H.peer[p].address = m.from /\ H.peer[p].connectID = m.command.connectID

\* A CONNECT that is here already, sent again or repeated by the network.
KnownAttempt(H, m) ==
  \E p \in Slots :
    /\ State(H, p) \notin {"DISCONNECTED", "CONNECTING"}
    /\ H.peer[p].address = m.from
    /\ H.peer[p].connectID = m.command.connectID

AcceptsConnect(H, m) == FreeSlots(H) # {} /\ ~KnownAttempt(H, m)

HandleConnect(H, m) ==
  LET p == FirstFree(H)
      c == m.command
      incoming == NextSession(c.incomingSessionID, H.peer[p].outgoingSessionID)
      outgoing == NextSession(c.outgoingSessionID, H.peer[p].incomingSessionID)
      G == [H EXCEPT !.peer[p] =
              [@ EXCEPT !.state = "ACKNOWLEDGING_CONNECT", !.connectID = c.connectID,
                        !.address = m.from, !.outgoingPeerID = c.peerID,
                        !.incomingBandwidth = c.incomingBandwidth, !.eventData = c.data,
                        !.outgoingSessionID = incoming, !.incomingSessionID = outgoing]]
  IN  QueueOutgoing(G, p, [Command("VERIFY_CONNECT", TRUE) EXCEPT
                             !.peerID = p, !.incomingSessionID = incoming,
                             !.outgoingSessionID = outgoing, !.connectID = c.connectID,
                             !.incomingBandwidth = H.incomingBandwidth])

\* enet_protocol_remove_sent_reliable_command
Acknowledged(q, seq, channel) ==
  {c \in q.sentReliableCommands \union {d \in q.outgoingCommands : d.attempts > 0} :
     c.seq = seq /\ c.channel = channel}

RemoveSent(H, p, seq, channel) ==
  LET gone == Acknowledged(H.peer[p], seq, channel)
  IN  [H EXCEPT !.peer[p].sentReliableCommands = @ \ gone,
                !.peer[p].outgoingCommands = @ \ gone]

HandleVerifyConnect(H, p, c, events) ==
  CASE State(H, p) # "CONNECTING" -> Quiet(H)
    [] State(H, p) = "CONNECTING" /\ c.connectID # H.peer[p].connectID ->
         Quiet(DispatchState([H EXCEPT !.peer[p].eventData = 0], p, "ZOMBIE"))
    [] OTHER ->
         LET G == RemoveSent(H, p, 1, "control")
         IN  NotifyConnect(
               [G EXCEPT !.peer[p] = [@ EXCEPT !.outgoingPeerID = c.peerID,
                                               !.incomingSessionID = c.incomingSessionID,
                                               !.outgoingSessionID = c.outgoingSessionID,
                                               !.incomingBandwidth = c.incomingBandwidth]],
               p, events)

HandleAcknowledge(H, p, c, events) ==
  LET types == {d.type : d \in Acknowledged(H.peer[p], c.seq, c.channel)}
      G == RemoveSent(H, p, c.seq, c.channel)
  IN  CASE State(H, p) = "ACKNOWLEDGING_CONNECT" /\ "VERIFY_CONNECT" \in types ->
             NotifyConnect(G, p, events)
        [] State(H, p) = "DISCONNECTING" /\ "DISCONNECT" \in types ->
             NotifyDisconnect(G, p, events)
        [] State(H, p) = "DISCONNECT_LATER" /\ ~HasOutgoing(G, p) ->
             Quiet(BeginDisconnect(G, p, G.peer[p].eventData))
        [] OTHER -> Quiet(G)

HandleDisconnect(H, p, c) ==
  LET G == ResetQueues(H, p)
      Answer(F) == [F EXCEPT !.peer[p].eventData = c.data]
  IN  CASE State(H, p) = "ACKNOWLEDGING_DISCONNECT" -> H
        [] State(H, p) \in {"CONNECTION_SUCCEEDED", "DISCONNECTING", "CONNECTING"} ->
             Answer(DispatchState(G, p, "ZOMBIE"))
        [] State(H, p) \in {"ACKNOWLEDGING_CONNECT", "CONNECTION_PENDING"} ->
             PeerReset([G EXCEPT !.recalculateBandwidthLimits =
                          @ \/ State(H, p) = "CONNECTION_PENDING"], p)
        [] State(H, p) \in Established /\ c.reliable ->
             Answer(ChangeState(G, p, "ACKNOWLEDGING_DISCONNECT"))
        [] OTHER -> Answer(DispatchState(G, p, "ZOMBIE"))

\* Mutant: the old limit is not counted off.
HandleBandwidthLimitAdds(H, p, c) ==
  [H EXCEPT !.bandwidthLimitedPeers = @ + (IF c.incomingBandwidth THEN 1 ELSE 0),
            !.peer[p].incomingBandwidth = c.incomingBandwidth]

HandleBandwidthLimit(H, p, c) ==
  LET change == (IF c.incomingBandwidth THEN 1 ELSE 0)
                - (IF H.peer[p].incomingBandwidth THEN 1 ELSE 0)
  IN  [H EXCEPT !.bandwidthLimitedPeers = @ + change,
                !.peer[p].incomingBandwidth = c.incomingBandwidth]

\* enet_protocol_handle_send_reliable on the one channel; packets are
\* discarded, and acknowledged, when the peer waits to disconnect.
HandleSendReliable(H, p, c, connectID) ==
  LET q == H.peer[p]
      new == q.state = "CONNECTED" /\ c.seq > q.received
      waiting == q.waiting \union {[seq |-> c.seq, connectID |-> connectID]}
      ready == {e \in waiting : \A n \in (q.received + 1) .. e.seq : \E d \in waiting : d.seq = n}
      last == q.received + Cardinality(ready)
      arrived == [i \in 1 .. Cardinality(ready) |->
                  (CHOOSE e \in ready : e.seq = q.received + i).connectID]
      G == [H EXCEPT !.peer[p] =
              [@ EXCEPT !.waiting = waiting \ ready, !.received = last,
                        !.dispatchedCommands = q.dispatchedCommands \o arrived]]
  IN  CASE new /\ ready # {} -> NeedsDispatch(G, p)
        [] new /\ ready = {} -> G
        [] OTHER -> H

-----------------------------------------------------------------------------
(* Datagrams.                                                              *)

Datagram(H, h, p, command) ==
  LET q == H.peer[p]
      known == q.outgoingPeerID # None
  IN  [from |-> h, to |-> q.address, peerID |-> q.outgoingPeerID,
       sessionID |-> IF known THEN q.outgoingSessionID ELSE 0,
       connectID |-> q.connectID, command |-> [command EXCEPT !.attempts = 0], copies |-> 0]

\* A peer that is still connecting does not know its session yet.
SessionMatches(q, m) == q.outgoingPeerID # None => m.sessionID = q.incomingSessionID

\* Mutant: the checksum does not take in the connect identifier.
ChecksumUnsalted(q, m) == TRUE

ChecksumMatches(q, m) == Checksum => m.connectID = q.connectID

\* The tests of the header.
Accepts(H, m) ==
  IF m.peerID = None
  THEN m.command.type = "CONNECT" /\ AcceptsConnect(H, m)
  ELSE LET q == H.peer[m.peerID]
       IN  /\ q.state \notin {"DISCONNECTED", "ZOMBIE"}
           /\ m.from = q.address
           /\ SessionMatches(q, m)
           /\ ChecksumMatches(q, m)

Handle(H, m, events) ==
  LET p == m.peerID
      c == m.command
      established == State(H, p) \in Established
  IN  CASE c.type = "CONNECT" /\ p = None -> Quiet(HandleConnect(H, m))
        [] c.type = "VERIFY_CONNECT" -> HandleVerifyConnect(H, p, c, events)
        [] c.type = "ACKNOWLEDGE"    -> HandleAcknowledge(H, p, c, events)
        [] c.type = "DISCONNECT"     -> Quiet(HandleDisconnect(H, p, c))
        [] c.type = "BANDWIDTH_LIMIT" /\ established -> Quiet(HandleBandwidthLimit(H, p, c))
        [] c.type = "SEND_RELIABLE" /\ established ->
             Quiet(HandleSendReliable(H, p, c, m.connectID))
        [] OTHER -> Quiet(H)

NeedsConnection == {"PING", "BANDWIDTH_LIMIT", "SEND_RELIABLE"}

\* Whether a command that was handled is acknowledged: G is the host after it.
\* A CONNECT to a peer that exists is an error.
Acknowledges(H, G, p, c) ==
  /\ c.reliable
  /\ c.type # "CONNECT"
  /\ c.type \in NeedsConnection => State(H, p) \in Established
  /\ State(G, p) \notin {"DISCONNECTING", "ACKNOWLEDGING_CONNECT", "DISCONNECTED", "ZOMBIE"}
  /\ State(G, p) = "ACKNOWLEDGING_DISCONNECT" => c.type = "DISCONNECT"

QueueAcknowledgement(G, p, c) ==
  [G EXCEPT !.peer[p].acknowledgements =
     @ \union {[type |-> c.type, seq |-> c.seq, channel |-> c.channel]}]

\* enet_protocol_handle_incoming_commands.  The peer of an accepted CONNECT is
\* ACKNOWLEDGING_CONNECT and acknowledges nothing.
HandleIncoming(H, m, events) ==
  LET r == Handle(H, m, events)
      p == m.peerID
  IN  IF p # None /\ Acknowledges(H, r.host, p, m.command)
      THEN [host |-> QueueAcknowledgement(r.host, p, m.command), event |-> r.event]
      ELSE r

-----------------------------------------------------------------------------
(* Sending.                                                                *)

\* Mutant: a peer that acknowledged a DISCONNECT goes on waiting.
SendAcknowledgementsOnly(H, p) == [H EXCEPT !.peer[p].acknowledgements = {}]

\* A peer that acknowledged a DISCONNECT is done with.
SendAcknowledgements(H, p) ==
  LET types == {a.type : a \in H.peer[p].acknowledgements}
      G == [H EXCEPT !.peer[p].acknowledgements = {}]
  IN  IF "DISCONNECT" \in types THEN DispatchState(G, p, "ZOMBIE") ELSE G

TimeOut(H, p, late) ==
  [H EXCEPT !.peer[p].sentReliableCommands = @ \ late,
            !.peer[p].outgoingCommands = @ \union late]

CheckOutgoing(H, p) ==
  LET sent == {[c EXCEPT !.attempts = @ + 1] : c \in {d \in H.peer[p].outgoingCommands : d.reliable}}
      G == [H EXCEPT !.peer[p].outgoingCommands = {},
                     !.peer[p].sentReliableCommands = @ \union sent]
  IN  IF State(H, p) = "DISCONNECT_LATER" /\ ~HasOutgoing(G, p)
      THEN BeginDisconnect(G, p, G.peer[p].eventData)
      ELSE G

PeerPing(H, p) ==
  IF State(H, p) = "CONNECTED" THEN QueueOutgoing(H, p, Command("PING", TRUE)) ELSE H

Answers(q) ==
  {[Command("ACKNOWLEDGE", FALSE) EXCEPT !.seq = a.seq, !.channel = a.channel] :
     a \in q.acknowledgements}

\* The turn of peer p in enet_protocol_send_outgoing_commands when its
\* commands "late" time out: the host after it and the commands it sends.
\* Nothing being outstanding, a ping may be due.
SendOutgoing(H, p, late, ping) ==
  LET A == TimeOut(SendAcknowledgements(H, p), p, late)
      B == IF A.peer[p].outgoingCommands = {} THEN A ELSE CheckOutgoing(A, p)
      idle == B.peer[p].sentReliableCommands = {}
      C == IF ping /\ idle THEN PeerPing(B, p) ELSE B
  IN  [host |-> IF ping /\ idle THEN CheckOutgoing(C, p) ELSE C,
       sent |-> Answers(H.peer[p]) \union A.peer[p].outgoingCommands
                \union (IF ping /\ idle THEN C.peer[p].outgoingCommands ELSE {})]

\* enet_host_bandwidth_throttle as far as connections see it: when the limits
\* are to be recalculated, every connected peer is told.  A peer of a limited
\* host may be told 0 (no limit) all the same: the members of "limited" are not.
BandwidthThrottle(H, limited) ==
  IF H.connectedPeers = 0 \/ ~H.recalculateBandwidthLimits
  THEN H
  ELSE [H EXCEPT !.recalculateBandwidthLimits = FALSE,
                 !.peer = [p \in Slots |->
                   IF State(H, p) \in Established
                   THEN QueueOutgoing(H, p, [Command("BANDWIDTH_LIMIT", TRUE) EXCEPT
                                               !.incomingBandwidth = p \in limited]).peer[p]
                   ELSE H.peer[p]]]

-----------------------------------------------------------------------------
(* What the application knows.                                             *)

Hear(a, event) ==
  LET missing == IF event.data > a.received THEN event.data - a.received ELSE 0
  IN  CASE event.type = "CONNECT" -> [Unknown EXCEPT !.view = "connected"]
        [] event.type = "RECEIVE" -> [a EXCEPT !.received = @ + 1]
        [] event.type = "DISCONNECT" ->
             [Unknown EXCEPT !.missed = IF a.view = "connected" THEN missing ELSE 0]

-----------------------------------------------------------------------------
(* The phases of a call: of enet_host_service they are dispatch, throttle,  *)
(* send, receive, send again and dispatch again; waiting in it is a new     *)
(* call.  check is enet_host_check_events and flush enet_host_flush.        *)

Active(H) == {p \in Slots : State(H, p) \notin {"DISCONNECTED", "ZOMBIE"}}

\* MaxSequence bounds the pings and the limits that are sent.
SequenceLeft(H, p) == H.peer[p].outgoingReliableSequenceNumber < MaxSequence

\* Peers whose turn can change something; a connected one may be pinged.
Busy(H) ==
  {p \in Active(H) :
     \/ State(H, p) = "CONNECTED" /\ SequenceLeft(H, p)
     \/ State(H, p) = "DISCONNECT_LATER"
     \/ HasOutgoing(H, p)
     \/ H.peer[p].acknowledgements # {}}

SomethingToThrottle(H) ==
  /\ H.connectedPeers > 0 /\ H.recalculateBandwidthLimits
  /\ \A p \in Slots : State(H, p) \in Established => SequenceLeft(H, p)

\* Where a call with host H stands when it has nothing to do in phase s.phase:
\* the phases follow each other and the last one ends the call.
PassDispatch(H, s) ==
  IF s.phase = "dispatch" /\ H.dispatchQueue = <<>> THEN [s EXCEPT !.phase = "throttle"] ELSE s

PassThrottle(H, s) ==
  IF s.phase = "throttle" /\ ~SomethingToThrottle(H)
  THEN [s EXCEPT !.phase = "send", !.todo = Busy(H)] ELSE s

PassSend(s) ==
  CASE s.phase = "send" /\ s.todo = {} -> [s EXCEPT !.phase = "receive"]
    [] s.phase = "send_again" /\ s.todo = {} /\ s.events -> [s EXCEPT !.phase = "dispatch_again"]
    [] s.phase = "send_again" /\ s.todo = {} /\ ~s.events -> Idle
    [] OTHER -> s

PassLastDispatch(H, s) ==
  IF s.phase \in {"dispatch_again", "check"} /\ H.dispatchQueue = <<>> THEN Idle ELSE s

Proceed(H, s) == PassLastDispatch(H, PassSend(PassThrottle(H, PassDispatch(H, s))))

\* A call goes on with "next", unless an event makes it return.
Return(r, next) ==
  LET h == service.host
  IN  /\ host' = [host EXCEPT ![h] = r.host]
      /\ IF r.event = NoEvent
         THEN service' = Proceed(r.host, next) /\ UNCHANGED app
         ELSE /\ service' = Idle
              /\ app' = [app EXCEPT ![h][r.event.slot] = Hear(@, r.event)]

-----------------------------------------------------------------------------
(* Calls of the applications.                                              *)

\* The application of h calls a function on a peer it holds, between calls of
\* enet_host_service.
Calling(call, h, p, views) ==
  /\ call \in Calls
  /\ service = Idle
  /\ app[h][p].view \in views

View(h, p, view) == app' = [app EXCEPT ![h][p] = [@ EXCEPT !.view = view]]

Flushing(h, p) ==
  [Idle EXCEPT !.host = h, !.phase = "flush", !.todo = Busy(host'[h]), !.after = p]

EnetHostConnect(h, a) ==
  LET H == host[h]
      p == FirstFree(H)
      q == H.peer[p]
      G == [H EXCEPT !.peer[p] = [@ EXCEPT !.state = "CONNECTING", !.address = a,
                                           !.connectID = connectIDs + 1]]
  IN  /\ service = Idle
      /\ connectIDs < MaxConnects
      /\ FreeSlots(H) # {}
      /\ connectIDs' = connectIDs + 1
      /\ host' = [host EXCEPT ![h] =
                    QueueOutgoing(G, p, [Command("CONNECT", TRUE) EXCEPT
                      !.peerID = p, !.connectID = connectIDs + 1,
                      !.incomingSessionID = q.incomingSessionID,
                      !.outgoingSessionID = q.outgoingSessionID,
                      !.incomingBandwidth = H.incomingBandwidth])]
      /\ app' = [app EXCEPT ![h][p] = [Unknown EXCEPT !.view = "connecting"]]
      /\ UNCHANGED <<net, service, restarts>>

EnetPeerSend(h, p) ==
  LET q == host[h].peer[p]
      command == [Command("SEND_RELIABLE", TRUE) EXCEPT !.channel = "data", !.seq = q.sent + 1]
  IN  /\ Calling("send", h, p, {"connected"})
      /\ q.state = "CONNECTED" /\ q.sent < MaxData
      /\ host' = [host EXCEPT ![h].peer[p] =
                    [@ EXCEPT !.sent = q.sent + 1,
                              !.outgoingCommands = q.outgoingCommands \union {command}]]
      /\ UNCHANGED <<net, service, app, connectIDs, restarts>>

\* enet_peer_disconnect of a peer the application was told is connected.
EnetPeerDisconnect(h, p) ==
  /\ Calling("disconnect", h, p, {"connected"})
  /\ host' = IF State(host[h], p) \in Established
             THEN [host EXCEPT ![h] = BeginDisconnect(@, p, 0)] ELSE host
  /\ View(h, p, "disconnecting")
  /\ UNCHANGED <<net, service, connectIDs, restarts>>

\* enet_peer_disconnect of a peer that is still connecting: the peer is reset
\* after a flush, without an event.
EnetPeerDisconnectAttempt(h, p) ==
  /\ Calling("abort", h, p, {"connecting"})
  /\ IF State(host[h], p) = "ZOMBIE"
     THEN host' = host /\ service' = Idle /\ View(h, p, "disconnecting")
     ELSE /\ host' = [host EXCEPT ![h] = BeginDisconnect(@, p, 0)]
          /\ service' = Flushing(h, p)
          /\ View(h, p, "free")
  /\ UNCHANGED <<net, connectIDs, restarts>>

\* The data tells how many packets were sent before the call.
EnetPeerDisconnectLater(h, p) ==
  LET q == host[h].peer[p]
  IN  /\ Calling("later", h, p, {"connected"})
      /\ host' = CASE q.state \in Established /\ HasOutgoing(host[h], p) ->
                        [host EXCEPT ![h].peer[p] =
                           [@ EXCEPT !.state = "DISCONNECT_LATER", !.eventData = q.sent]]
                   [] q.state \in Established /\ ~HasOutgoing(host[h], p) ->
                        [host EXCEPT ![h] = BeginDisconnect(@, p, q.sent)]
                   [] OTHER -> host
      /\ View(h, p, "leaving")
      /\ UNCHANGED <<net, service, connectIDs, restarts>>

Held == {"connecting", "connected", "leaving", "disconnecting"}

EnetPeerDisconnectNow(h, p) ==
  LET H == host[h]
      G == QueueOutgoing(ResetQueues(H, p), p, Command("DISCONNECT", FALSE))
  IN  /\ Calling("now", h, p, Held)
      /\ IF State(H, p) \in {"ZOMBIE", "DISCONNECTING"}
         THEN host' = [host EXCEPT ![h] = PeerReset(@, p)] /\ service' = Idle
         ELSE host' = [host EXCEPT ![h] = G] /\ service' = Flushing(h, p)
      /\ app' = [app EXCEPT ![h][p] = Unknown]
      /\ UNCHANGED <<net, connectIDs, restarts>>

EnetPeerReset(h, p) ==
  /\ Calling("reset", h, p, Held)
  /\ host' = [host EXCEPT ![h] = PeerReset(@, p)]
  /\ app' = [app EXCEPT ![h][p] = Unknown]
  /\ UNCHANGED <<net, service, connectIDs, restarts>>

EnetHostBandwidthLimit(h) ==
  /\ "limit" \in Calls
  /\ service = Idle
  /\ ~host[h].recalculateBandwidthLimits
  /\ host' = [host EXCEPT ![h].incomingBandwidth = ~@, ![h].recalculateBandwidthLimits = TRUE]
  /\ UNCHANGED <<net, service, app, connectIDs, restarts>>

-----------------------------------------------------------------------------
(* enet_host_service, enet_host_check_events and enet_host_flush.          *)

\* A call that would find nothing to do is left out.
SomethingToDo(h) ==
  \/ host[h].dispatchQueue # <<>>
  \/ Busy(host[h]) # {}
  \/ SomethingToThrottle(host[h])
  \/ \E m \in net : m.to = h /\ Accepts(host[h], m)

EnetHostService(h, events) ==
  /\ service = Idle
  /\ SomethingToDo(h)
  /\ events \in EventModes
  /\ service' = Proceed(host[h], [Idle EXCEPT !.host = h, !.events = events,
                                    !.phase = IF events THEN "dispatch" ELSE "throttle"])
  /\ UNCHANGED <<host, net, app, connectIDs, restarts>>

EnetHostCheckEvents(h) ==
  /\ service = Idle
  /\ host[h].dispatchQueue # <<>>
  /\ service' = [Idle EXCEPT !.host = h, !.events = TRUE, !.phase = "check"]
  /\ UNCHANGED <<host, net, app, connectIDs, restarts>>

Dispatch ==
  /\ service.phase \in {"dispatch", "dispatch_again", "check"}
  /\ Return(DispatchHead(host[service.host]), service)
  /\ UNCHANGED <<net, connectIDs, restarts>>

\* Once a second, so not in every call.
Throttle ==
  LET h == service.host
  IN  /\ service.phase = "throttle"
      /\ \E limited \in IF host[h].incomingBandwidth THEN SUBSET Slots ELSE {{}} :
           host' \in {host, [host EXCEPT ![h] = BandwidthThrottle(@, limited)]}
      /\ service' = PassSend([service EXCEPT !.phase = "send", !.todo = Busy(host'[h])])
      /\ UNCHANGED <<net, app, connectIDs, restarts>>

Sending == service.phase \in {"send", "send_again", "flush"}

Turn == CHOOSE p \in service.todo : \A q \in service.todo : p <= q

TurnDone == [service EXCEPT !.todo = @ \ {Turn}]

\* The network loses what it has no room for, old or new.
Transmit(messages) ==
  net' \in {kept \in SUBSET (net \union messages) :
             LET all == Cardinality(net \union messages)
             IN  Cardinality(kept) = IF all > NetCapacity THEN NetCapacity ELSE all}

MaySend(p, late, ping) ==
  LET q == host[service.host].peer[p]
  IN  /\ late \subseteq q.sentReliableCommands
      /\ late # {} => service.phase # "flush"
      /\ \A c \in late : c.attempts < MaxAttempts
      /\ ping => \/ q.state = "DISCONNECT_LATER"
                 \/ q.state = "CONNECTED" /\ SequenceLeft(host[service.host], p)

SendTurn(late, ping) ==
  LET h == service.host
      p == Turn
      r == SendOutgoing(host[h], p, late, ping)
  IN  /\ Sending /\ service.todo # {}
      /\ MaySend(p, late, ping)
      /\ Return(Quiet(r.host), TurnDone)
      /\ Transmit({Datagram(r.host, h, p, c) : c \in r.sent})
      /\ UNCHANGED <<connectIDs, restarts>>

\* check_timeouts gives the peer up, after MaxAttempts sends of a command; the
\* acknowledgements prepared are lost.
GiveUp ==
  LET h == service.host
      p == Turn
      H == SendAcknowledgements(host[h], p)
  IN  /\ service.phase \in {"send", "send_again"} /\ service.todo # {}
      /\ \E c \in host[h].peer[p].sentReliableCommands : c.attempts = MaxAttempts
      /\ Return(NotifyDisconnect(H, p, service.events), TurnDone)
      /\ UNCHANGED <<net, connectIDs, restarts>>

\* The end of enet_host_flush in the functions that reset a peer after it.
FlushDone ==
  /\ service.phase = "flush" /\ service.todo = {}
  /\ host' = [host EXCEPT ![service.host] = PeerReset(@, service.after)]
  /\ service' = Idle
  /\ UNCHANGED <<net, app, connectIDs, restarts>>

Receive(m) ==
  LET H == host[m.to]
      r == HandleIncoming(H, m, service.events)
  IN  /\ service.phase = "receive" /\ service.host = m.to
      /\ Accepts(H, m)
      /\ net' = IF m.copies < MaxCopies
                THEN (net \ {m}) \union {[m EXCEPT !.copies = @ + 1]} ELSE net \ {m}
      /\ Return(r, service)
      /\ UNCHANGED <<connectIDs, restarts>>

ReceiveDone ==
  /\ service.phase = "receive"
  /\ Return(Quiet(host[service.host]),
            [service EXCEPT !.phase = "send_again", !.todo = Busy(host[service.host])])
  /\ UNCHANGED <<net, connectIDs, restarts>>

\* A host goes without a word and is created anew under the same address.
EnetHostCreate(h) ==
  /\ service = Idle
  /\ restarts < MaxRestarts
  /\ host' = [host EXCEPT ![h] = NewHost(h \in LimitedHosts)]
  /\ app' = [app EXCEPT ![h] = [p \in Slots |-> Unknown]]
  /\ restarts' = restarts + 1
  /\ UNCHANGED <<net, service, connectIDs>>

Next ==
  \/ \E h \in Initiators, a \in Hosts : h # a /\ EnetHostConnect(h, a)
  \/ \E h \in Hosts, p \in Slots :
       \/ EnetPeerSend(h, p)
       \/ EnetPeerDisconnect(h, p)
       \/ EnetPeerDisconnectAttempt(h, p)
       \/ EnetPeerDisconnectLater(h, p)
       \/ EnetPeerDisconnectNow(h, p)
       \/ EnetPeerReset(h, p)
  \/ \E h \in Hosts :
       \/ EnetHostBandwidthLimit(h)
       \/ EnetHostCreate(h)
       \/ EnetHostCheckEvents(h)
       \/ \E events \in BOOLEAN : EnetHostService(h, events)
  \/ Dispatch \/ Throttle
  \/ \E ping \in BOOLEAN :
       \E late \in SUBSET UNION {host[h].peer[p].sentReliableCommands : h \in Hosts, p \in Slots} :
         SendTurn(late, ping)
  \/ GiveUp \/ FlushDone
  \/ \E m \in net : Receive(m)
  \/ ReceiveDone

Spec == Init /\ [][Next]_vars

\* A call that was begun goes on and ends.
Continue ==
  \/ Dispatch \/ Throttle \/ FlushDone \/ ReceiveDone
  \/ \E ping \in BOOLEAN : SendTurn({}, ping)

Resend ==
  \E late \in SUBSET UNION {host[h].peer[p].sentReliableCommands : h \in Hosts, p \in Slots} :
    late # {} /\ SendTurn(late, FALSE)

\* Every application calls enet_host_service with an event over and over, and
\* what is not acknowledged is sent again and given up in the end.
FairSpec ==
  /\ Spec
  /\ WF_vars(Continue)
  /\ \A h \in Hosts :
       /\ SF_vars(EnetHostService(h, TRUE))
       /\ SF_vars(service.host = h /\ Resend)
       /\ SF_vars(service.host = h /\ GiveUp)

-----------------------------------------------------------------------------
(* Properties.                                                             *)

CommandTypes == {"CONNECT", "VERIFY_CONNECT", "ACKNOWLEDGE", "DISCONNECT", "PING",
                 "BANDWIDTH_LIMIT", "SEND_RELIABLE"}

Sessions == 0 .. 3 \union {NoSession}

CommandType ==
  [type : CommandTypes, channel : {"control", "data"}, seq : Nat, reliable : BOOLEAN,
   attempts : 0 .. MaxAttempts, peerID : Slots \union {None}, incomingSessionID : Sessions,
   outgoingSessionID : Sessions, connectID : Nat, incomingBandwidth : BOOLEAN, data : Nat]

PeerType ==
  [state : States, outgoingPeerID : Slots \union {None}, connectID : Nat,
   address : Hosts \union {None}, incomingSessionID : Sessions, outgoingSessionID : Sessions,
   incomingBandwidth : BOOLEAN, needsDispatch : BOOLEAN,
   outgoingReliableSequenceNumber : Nat, outgoingCommands : SUBSET CommandType,
   sentReliableCommands : SUBSET CommandType,
   acknowledgements : SUBSET [type : CommandTypes, seq : Nat, channel : {"control", "data"}],
   dispatchedCommands : Seq(Nat), sent : 0 .. MaxData, received : 0 .. MaxData,
   waiting : SUBSET [seq : Nat, connectID : Nat], eventData : Nat]

HostType ==
  [peer : [Slots -> PeerType], dispatchQueue : Seq(Slots), connectedPeers : Nat,
   bandwidthLimitedPeers : Nat, incomingBandwidth : BOOLEAN,
   recalculateBandwidthLimits : BOOLEAN]

DatagramType ==
  [from : Hosts, to : Hosts, peerID : Slots \union {None}, sessionID : 0 .. 3,
   connectID : Nat, command : CommandType, copies : 0 .. MaxCopies]

Phases == {"app", "check", "dispatch", "throttle", "send", "receive", "send_again",
           "dispatch_again", "flush"}

\* The unsigned counters of peers never go below 0; what a host tells others
\* of its sessions has the width of the header.
TypeOK ==
  /\ host \in [Hosts -> HostType]
  /\ net \subseteq DatagramType
  /\ service \in [host : Hosts \union {None}, phase : Phases, events : BOOLEAN,
                  todo : SUBSET Slots, after : Slots \union {None}]
  /\ app \in [Hosts -> [Slots -> [view : Held \union {"free"}, received : Nat,
                                missed : Nat]]]
  /\ connectIDs \in 0 .. MaxConnects
  /\ restarts \in 0 .. MaxRestarts

\* connectedPeers and bandwidthLimitedPeers, kept by hand in five places,
\* count the peers that are connected and those of them with a limit;
\* enet_host_bandwidth_throttle divides by them and counts them down.
ConnectedCounted ==
  \A h \in Hosts :
    LET connected == {p \in Slots : State(host[h], p) \in Established}
    IN  /\ host[h].connectedPeers = Cardinality(connected)
        /\ host[h].bandwidthLimitedPeers =
             Cardinality({p \in connected : host[h].peer[p].incomingBandwidth})

\* What the application was told of a peer fits its state: no slot is used
\* anew before the application was told that its connection ended, and no
\* connection ends twice.
StatesOf(view) ==
  CASE view = "free"          -> {"DISCONNECTED", "ACKNOWLEDGING_CONNECT", "CONNECTION_PENDING"}
    [] view = "connecting"    -> {"CONNECTING", "CONNECTION_SUCCEEDED", "ZOMBIE"}
    [] view = "connected"     -> {"CONNECTED", "ACKNOWLEDGING_DISCONNECT", "ZOMBIE"}
    [] view = "leaving"       -> {"DISCONNECT_LATER", "DISCONNECTING",
                                  "ACKNOWLEDGING_DISCONNECT", "ZOMBIE"}
    [] view = "disconnecting" -> {"DISCONNECTING", "ACKNOWLEDGING_DISCONNECT", "ZOMBIE"}

ApplicationKnows ==
  \A h \in Hosts, p \in Slots :
    (service.host = h /\ service.after = p) \/ State(host[h], p) \in StatesOf(app[h][p].view)

\* A peer is in the dispatch queue once at most: entries are list nodes, and a
\* node inserted twice makes the list a cycle, which the loop of
\* enet_protocol_dispatch_incoming_commands follows without end.  It holds when
\* every call takes an event; a peer that an event waits for and that is reset stays in
\* the queue (peer.c:254, peer.c:356), and its next connection may be queued again.
QueuedOnce ==
  \A h \in Hosts :
    \A i, j \in DOMAIN host[h].dispatchQueue :
      host[h].dispatchQueue[i] = host[h].dispatchQueue[j] => i = j

\* A peer with an event to tell is in the dispatch queue, flagged as such,
\* unless a call is about to reset it: no event is forgotten.
TellsItsEvents ==
  \A h \in Hosts : \A p \in Slots \ {service.after} :
    LET q == host[h].peer[p]
    IN  \/ q.state \in {"CONNECTION_PENDING", "CONNECTION_SUCCEEDED", "ZOMBIE"}
        \/ q.state = "CONNECTED" /\ q.dispatchedCommands # <<>>
        => q.needsDispatch /\ \E i \in DOMAIN host[h].dispatchQueue : host[h].dispatchQueue[i] = p

\* The session identifier in the header keeps the datagrams of an earlier
\* connection of a slot from a later one.
SessionsTellApart ==
  \A m \in net :
    m.peerID # None /\ m.command.type # "VERIFY_CONNECT" =>
      (State(host[m.to], m.peerID) \in Established /\ Accepts(host[m.to], m)
         => m.connectID = host[m.to].peer[m.peerID].connectID)

\* No packet of one connection is given to the application as of another.
NoCrossTalk ==
  \A h \in Hosts, p \in Slots :
    LET q == host[h].peer[p]
    IN  /\ \A i \in DOMAIN q.dispatchedCommands : q.dispatchedCommands[i] = q.connectID
        /\ \A e \in q.waiting : e.connectID = q.connectID

\* A CONNECT that is repeated does not take a second slot.
OneSlotPerAttempt ==
  \A h \in Hosts : \A p, q \in Active(host[h]) :
    /\ host[h].peer[p].address = host[h].peer[q].address
    /\ host[h].peer[p].connectID = host[h].peer[q].connectID
    => p = q

\* enet_peer_disconnect_later lets everything sent before be received, by an
\* application that waits for its events.
LaterDelivers == \A h \in Hosts, p \in Slots : app[h][p].missed = 0

\* An attempt to connect ends with an event, of success or of failure.
AttemptResolves ==
  \A h \in Hosts, p \in Slots : app[h][p].view = "connecting" ~> app[h][p].view # "connecting"

\* A disconnection that was asked for ends with an event.
DisconnectResolves ==
  \A h \in Hosts, p \in Slots :
    app[h][p].view \in {"leaving", "disconnecting"} ~> app[h][p].view = "free"

=============================================================================
