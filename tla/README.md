# ENet, modelled, checked and proved

This directory holds TLA+ models of the ENet networking library in `src/src`
and `src/include/enet` (a fork of ENet: reliable UDP with connections, channels
and packets), TLC configurations that check them on small instances, and proofs
that TLAPS checks for every instance.

## 1. Inventory of the system

An `ENetHost` owns a UDP socket and a fixed array of `ENetPeer` slots. It is
single-threaded: everything happens inside calls of the application, above all
`enet_host_service`, which dispatches queued events, sends what is queued,
receives datagrams and sends again. Two hosts interact only by datagrams, which
UDP may lose, repeat, delay and reorder.

| component | state | operations | what is hard | what must hold |
|---|---|---|---|---|
| Reliable stream (`peer.c`, `protocol.c`) | per channel: sequence numbers, `reliableWindows`, `usedReliableWindows`, `incomingReliableCommands`; per peer: outgoing and sent lists, `reliableDataInTransit`, `dispatchedCommands`, `totalWaitingData`, `acknowledgements` | `enet_peer_send`, `check_outgoing_commands`, `check_timeouts`, `handle_acknowledge`, `handle_send_reliable`, `handle_send_fragment`, `queue_incoming_command`, `dispatch_incoming_reliable_commands`, `queue_acknowledgement`, `enet_peer_receive` | 16 bit numbers that wrap, windows, acknowledgements withheld, retries racing late acknowledgements, limits shared by channels | each channel is a FIFO queue; counters agree with lists; nothing is forgotten before it is received; everything is delivered in the end |
| Connection lifecycle (`host.c`, `peer.c`, `protocol.c`) | per peer: `state`, `connectID`, session identifiers, `outgoingPeerID`, control commands, `flags`, `eventData`; per host: `dispatchQueue`, `connectedPeers`, `bandwidthLimitedPeers` | `enet_host_connect`, `handle_connect`, `handle_verify_connect`, `notify_connect`, `notify_disconnect`, `handle_disconnect`, the four ways to disconnect, dispatch of events | half-open connections, stale datagrams of earlier connections of a slot, events with and without an event structure, slots reused while queued | events fit what the application knows; counters agree with states; no packet of one connection is given to another |
| Unreliable and unsequenced packets (`peer.c`, `protocol.c`) | `incomingUnreliableCommands`, `incomingUnreliableSequenceNumber`, `unsequencedWindow`, `incomingUnsequencedGroup`, `dispatchedCommands` | `enet_peer_send`, the drop in `check_outgoing_commands`, `handle_send_unreliable`, `handle_send_unsequenced`, `handle_send_unreliable_fragment`, `dispatch_incoming_unreliable_commands` | order relative to the reliable packets, packets dropped while they are being collected, three number spaces | newest first, no duplicates, nothing waits that could be told |
| Host bandwidth and packet throttle (`host.c`, `peer.c`) | `outgoingDataTotal`, `packetThrottleLimit`, `packetThrottle`, `recalculateBandwidthLimits` | `enet_host_bandwidth_throttle`, `enet_peer_throttle`, `enet_host_bandwidth_limit` | passes that take peers out one by one, unsigned products that wrap | shares within the bandwidth, nobody throttled without cause |
| Timeouts and the clock (`protocol.c`, `time.h`) | `nextTimeout`, `earliestTimeout`, `sentTime`, `roundTripTime`, `roundTripTimeVariance` | `check_timeouts`, `handle_acknowledge`, the time comparisons | wrap of the clock, a sentinel 0, 16 of 32 bits echoed | given up for a cause, and in time |
| Linked list (`list.c`) | `next`, `previous` | clear, insert, remove, move | links changed by functions that do not know the list | lists stay linked |
| Packets and their reference counts (`packet.c`, `peer.c`, `protocol.c`) | `referenceCount`, `flags`, the lists of commands | create, send, broadcast, receive, drop, reset, destroy | one packet in many queues, memory that runs out half way | freed once, when the last queue lets go |
| Range coder (`compress.c`) | the pool of symbols, `encodeLow`, `encodeRange` | compress, decompress | buffers that are empty, rescaling, renormalisation, an end that is not written, a pool at its limit | what is decompressed is what was compressed; the pool never overflows |
| Wire format, sockets, callbacks | buffers, system resources | | pure data or system calls | not modelled, see section 9 |

`PROJECT.json` lists the components with their status and every hazard with its
line.

## 2. Plan

| step | modules | state |
|---|---|---|
| 1 | `ReliableStream` (abstract), `EnetReliable`, `EnetReliableProofs`, `EnetStreamProofs` | done |
| 2 | `EnetConnection`, `EnetConnectionProofs` | modelled, checked, the invariants proved |
| 3 | `PacketOrder` (abstract), `EnetIncoming`, `EnetIncomingProofs` | modelled and checked, the types and the throttle proved |
| 4 | `EnetBandwidth`, `EnetBandwidthProofs`, `EnetTiming`, `EnetTimingProofs` | modelled and checked, the bandwidth throttle and two invariants of the clock proved |
| 5 | `EnetList`, `EnetPackets`, `EnetPacketsProofs` | modelled, checked, all invariants proved |
| 6 | `EnetRangeCoder` | checked |

What is left is proofs: of `EnetIncoming`, `NothingOverdue`, `KeepsOrder` and
`DropsOnlyOvertaken`, which all need what section 5 calls the positions of late
packets. What only TLC checks is listed at the end of each section on proofs.

Modules are split where the code shares little state. `EnetReliable`,
`EnetConnection`, `EnetIncoming` and `EnetTiming` are four views of the same
peer: the first has numbers, windows and fragments of the reliable stream, the
second states and events, the third the packets that are not reliable, the
fourth times. Each leaves open (a nondeterministic choice) what another decides:
`EnetReliable` lets any command in transit time out, `EnetPackets` lets any
command be picked. `EnetPackets` is built on `EnetList`; the other modules use
sequences where the code has lists, which `ListsAlwaysLinked` justifies.

`TypeOK` of `EnetConnection`, `EnetPackets` and `EnetTiming` says what the
variables hold; the runs leave it out in favour of invariants that say more.

## 3. The reliable stream

`ReliableStream.tla` says what ENet promises: every channel is a FIFO queue of
whole packets. `EnetReliable.tla` is the code of one direction of a connection:
the sending half of a peer, the receiving half of the peer at the other end and
the network between them.

| model | code |
|---|---|
| `EnetPeerSend` | `enet_peer_send`, `enet_peer_setup_outgoing_command` |
| `Resend`, `FirstSend` | one turn of the loop of `enet_protocol_check_outgoing_commands`, on a command sent before or not |
| `CheckTimeouts` | `enet_protocol_check_timeouts` |
| `HandleAcknowledge` | `enet_protocol_handle_acknowledge`, `enet_protocol_remove_sent_reliable_command` |
| `HandleIncomingCommand` with `DiscardCommand`, `DiscardDuplicate`, `MarkFragment`, `QueueIncomingCommand`, `RefuseCommand` | `enet_protocol_handle_send_reliable`, `enet_protocol_handle_send_fragment`, `enet_peer_queue_incoming_command`, `enet_peer_dispatch_incoming_reliable_commands`, `enet_peer_queue_acknowledgement` |
| `SendAcknowledgements` | `enet_protocol_send_acknowledgements` |
| `EnetPeerReceive` | `enet_peer_receive` |
| `LoseData`, `LoseAcknowledgement`, `Transmit`, `Alive` | the network (external) |

Every reliable command has a position 1, 2, 3, ... in its channel; the code sees
it modulo 2^16 and so does the model, modulo `ReliableWindows * WindowSize`. The
position stands for the payload and no modelled decision reads it. The list
`outgoingSendReliableCommands` is split into `unsent` (a sequence, in the order
of `queueTime`) and `resend` (a set: `check_timeouts` puts these in front, and
the network does not keep their order anyway). Sizes are counted in commands.

Abstractions: time (any command in transit may time out), the giving up of a
peer after many timeouts, the aggregation of commands into datagrams, the
throttle's effect on the window size (`MaxInTransit` is a constant), exhaustion
of memory.

The network keeps a datagram until it is lost, delivered for the last time, or
the stream has advanced by more than `Lifetime` commands. Some bound is needed:
a datagram delayed by a whole sequence space is indistinguishable from a new
one. `stream_wrap` uses the largest value for which the properties hold:
`(ReliableWindows - FreeWindows + 1) * WindowSize` commands and older (36,864
in the code) can be taken for new ones, one less cannot.

### Runs

All use 6 windows with 3 free ones in place of 16 with 8, the smallest numbers
that keep the order of the code's inequalities (`2 < FreeWindows` and
`FreeWindows + 2 < ReliableWindows`), and start shortly before the wrap of the
sequence numbers (`StartPosition`) where a run is to cross it. Deadlock checking
is off in every run: the bounded stream ends.

| run | question | bounds |
|---|---|---|
| `stream_wrap` | does the stream survive the wrap with the oldest datagrams the code tolerates? | windows of 1, positions 1-9, lifetime 4 |
| `stream_fragments` | do counters and lists agree across the wrap, are packets reassembled whole and in order, with an exact `totalWaitingData`, and is every packet delivered in the end? | windows of 2, packets of 1 and 3 commands, positions 11-13, which lie on both sides of the wrap and inside one receive window, so that two packets wait for a third; a waiting-data limit out of reach; fairness below |
| `stream_channels` | is no acknowledgement credited to another channel or given for a command that was discarded, and are shared limits kept? | 2 channels, windows of 2, positions 10-12, the last of which is beyond the receive window until the first was dispatched; 1 datagram at a time each way |

`StreamIsFIFO` is the refinement of `ReliableStream`: what `enet_peer_send` was
given and what `enet_peer_receive` returned are the queues of that module.

### Fairness

`FairSpec`: `enet_host_service` is called over and over on both hosts, so sending,
timing out, acknowledging and receiving are weakly fair; `FirstSend` is strongly
fair because a pass of `check_outgoing_commands` goes on from the commands it
resends to the unsent ones; deliveries are strongly fair per command, which says
that the network does not lose every copy of a datagram it is given again and
again.

### Proofs

`EnetReliableProofs.tla` proves, for any number of channels, windows, window
sizes, limits and bounds:

- `TypeCorrect`: `Spec => []TypeOK`; `reliableDataInTransit`, unsigned in the
  code, never goes below 0;
- `WindowAccountingCorrect`: `Spec => []WindowAccounting`;
- `OutstandingIsBounded`: `Spec => []OutstandingBounded`;
- `WaitingAlwaysAccounted`: `Spec => []WaitingAccounting`.

The first three rest on the inductive invariant `SenderInv`. The counters alone are not
inductive: to know that a first send adds one element to the right window, the
command must not be outstanding already, so `SenderInv` adds that the lists are
disjoint, that the unsent commands of a channel are in order and that every
command already sent is older than all of them.

`WaitingAccounting` is the receiver's counter: `totalWaitingData` is the length of the packets
in the lists of all channels and in `dispatchedCommands`. `Lengths` sums along a list; across the
channels the sum is the number of elements of `WaitingIn`, so that a change in one channel is one
of a set (`WaitingChanges`), and a sum over an arbitrary set of channels needs no recursion.
With the types and the finiteness of that set (`WaitingInv`) it is inductive: copying a
fragment changes no length (`LengthsMark`), a first fragment brings the length of its whole packet
(`LengthsInsert`), and a dispatch moves the front of one list to the end of another
(`LengthsDispatched`).

The second half of the module proves `AcknowledgementsAlwaysMatch`:
`Spec => []AcknowledgementsMatch`. Its invariant, `AcknowledgementInv`, names for
every channel the position `H[c]` of the last command sent, which the code does not
keep. The heart is `WindowOpen`: a command of the window before that of `H[c]` is
not outstanding any more. `WindowBlocked` checks exactly that, and that the windows
to come are unused, before the first command of a window goes out, so everything
outstanding is at most `Span` commands behind `H[c]`, and everything in the network
or queued to be acknowledged at most `Reach`, the larger of `Span` and `Lifetime`.
`LifetimeAssumption` says that this, and two windows more, is less than the
sequence space; then an acknowledgement and an outstanding command with the same
number are of the same position (`ModEqual` of `EnetArithmetic`).

`EnetStreamProofs.tla` proves, under `PacketsFit`:

- `StreamImplementsFIFO`: `Spec => StreamIsFIFO`, the refinement of
  `ReliableStream`;
- `AcknowledgedAlwaysHeld`: `Spec => []AcknowledgedIsHeld`;
- `IncomingAlwaysSorted`: `Spec => []IncomingSorted`.

Their invariant, `StreamDelivered`, names in addition the position `R[c]` of the
last command dispatched; `incomingReliableSequenceNumber[c]` is its sequence number.
It has five parts:

- `PositionInv`: the window of `H[c]` is at most `FreeWindows - 1` ahead of that of
  `R[c]`. A window opens only when a command of the window before it was
  acknowledged, and no command is acknowledged that is `FreeWindows - 1` windows
  ahead of `R[c]` (`WithholdsAcknowledgement`); so the sender cannot run away from
  the receiver, although neither knows the other's numbers;
- `ListInv`: the entries of `incomingReliableCommands` are parts of packets that
  were sent, after `R[c]`, in order, and the head waits for something;
- `DispatchedInv`: what is dispatched and not received is what was sent and not
  received, up to `R[c]`;
- `CommandInv`: a command, wherever it is, belongs to a packet that is not
  dispatched, or to one that lies before `R[c]` as a whole;
- `HeldInv`: what is acknowledged, now or in the past, the receiver has.

Within these bounds every comparison of sequence numbers (`StopsAtIs`,
`RelativeWindowIs`, `InOrderIs`) is one of positions. What lies behind `R[c]` is the
delicate case: a late command must be taken for old (`OldIsDiscarded`).
`PacketsFit` is what that takes: `Reach + k - 1` is at most
`(ReliableWindows - FreeWindows + 1) * WindowSize` for every packet of `k` commands.
It is a hypothesis of the theorems and not an assumption of the module, because the
code allows larger packets: with 16 windows of 4096, 8 of them free, it holds for
packets of up to 8194 commands when `Lifetime` is `Span`, the time a command can be
outstanding, and for smaller packets the longer datagrams live. The three
stream configurations satisfy it. For larger packets nothing is proved.

The proofs use `WindowAssumption`, `LimitAssumption` and `LifetimeAssumption`, and
the library's facts about `Cardinality` and sequences. Both invariants were checked
with TLC on the three stream configurations before they were proved (with `H[c]` and
`R[c]` computed from the state).

Only model-checked: `EventuallyDelivered`, since TLAPS has no fairness reasoning here.

## 4. The life of connections

`EnetConnection.tla` has hosts, each with the slots of `host->peers`, that meet in
a network. `host[h]` is the `ENetHost` as a record, `host[h].peer[p]` an `ENetPeer`.
Every function of the code that changes a host is an operator from hosts to
hosts, and the operators are composed as the code composes its calls:

| model | code |
|---|---|
| `PeerOnConnect`, `PeerOnDisconnect`, `ChangeState`, `NeedsDispatch`, `DispatchState` | `enet_peer_on_connect`, `enet_peer_on_disconnect`, `enet_protocol_change_state`, `enet_protocol_dispatch_state` |
| `ResetQueues`, `PeerReset`, `BeginDisconnect` | `enet_peer_reset_queues`, `enet_peer_reset`, `enet_peer_disconnect` |
| `NotifyConnect`, `NotifyDisconnect`, `DispatchHead` | `enet_protocol_notify_connect`, `enet_protocol_notify_disconnect`, one turn of `enet_protocol_dispatch_incoming_commands` |
| `HandleConnect`, `HandleVerifyConnect`, `HandleAcknowledge`, `HandleDisconnect`, `HandleBandwidthLimit`, `HandleSendReliable` | the handlers of these commands |
| `Accepts`, `Handle`, `Acknowledges`, `HandleIncoming` | `enet_protocol_handle_incoming_commands`: header, switch, acknowledgement |
| `SendAcknowledgements`, `TimeOut`, `CheckOutgoing`, `PeerPing`, `SendOutgoing` | the turn of one peer in `enet_protocol_send_outgoing_commands` |
| `BandwidthThrottle` | `enet_host_bandwidth_throttle`, the part that tells peers new limits |

The actions are the calls of the applications (`EnetHostConnect`, `EnetPeerSend`,
`EnetPeerDisconnect`, `EnetPeerDisconnectAttempt`, `EnetPeerDisconnectLater`,
`EnetPeerDisconnectNow`, `EnetPeerReset`, `EnetHostBandwidthLimit`,
`EnetHostService` with or without an event, `EnetHostCheckEvents`), the steps
inside a call (`Dispatch`, `Throttle`, `SendTurn`, `GiveUp`, `Receive`,
`ReceiveDone`, `FlushDone`) and `EnetHostCreate`, a host that vanishes and comes
back. `service` says which host is inside which phase of a call; phases with
nothing to do are passed over. `app[h][p]` is what the application was told of
a slot: `free`, `connecting`, `connected`, or that it asked for the end of the
connection. The application uses a slot only while it holds it.

Abstractions:

- A datagram carries one command, and a host inside a call runs alone. Each host
  is one thread and sees the others only through the network, so that the steps
  of another host in the middle of a call could as well come before or after it.
  Commands that share a datagram arrive together or not at all in the code;
  here also apart, which a network that loses datagrams brings about as well.
- Time: any command in transit may time out in any call that checks timeouts,
  and a peer is given up only after a command was sent `MaxAttempts` times. A
  ping may be due in any turn in which nothing is outstanding.
- A bandwidth is 0 or not. What a limited host tells a peer may be 0 all the
  same (the peer's own outgoing bandwidth, `host.c:464-468`), so `Throttle` picks
  who is told a limit.
- `connectID` is drawn without repetition (the code draws 32 random bits).
- One data channel, with unfragmented reliable packets; the stream itself is
  `EnetReliable`. Sequence numbers are not bounded by 16 bits here.
- Not modelled: the limit `duplicatePeers` (its default never bites), the checks
  of channel counts and throttle parameters, exhaustion of memory, errors of the
  socket, the intercept callback. Peers that connect to a broadcast address.

The network loses, repeats (`MaxCopies`) and reorders datagrams; it keeps
`NetCapacity` of them, and what it loses is any choice among the old and the new.

### Runs

| run | question | bounds |
|---|---|---|
| `connect_reuse` | do two bits of session identifier keep the datagrams of a slot's last connection from the next? | 1 slot, 2 connections, every datagram may be repeated |
| `connect_leave` | does what the application was told fit the peer, does `enet_peer_disconnect_later` deliver, and do checksums keep a restarted host's connections apart? | 2 connections, 2 packets each way, 1 restart |
| `connect_slots` | does a repeated CONNECT take one slot, and do the counters of the host count? | 2 slots, repeated datagrams, limits that change |
| `connect_live` | does every attempt that is not aborted and every disconnection of an established connection end with an event, and is every event that had to wait told? | 1 initiator, 1 connection, calls with and without an event, attempts given up by the application, commands sent twice before the peer is given up, fairness below |

Two hosts are enough for every rule here, since no function of the code looks at
two peers but to find a free or a known one; two slots are enough for those.
Two connections meet the reuse of a slot; session identifiers repeat after four,
which a network would have to survive that keeps a datagram over three whole
connections of the same slot (not checked).

`connect_leave` has applications that pass an event in every call. When they do
not, `QueuedOnce` fails (section 8), and after that the list of the code is no
longer a list and the model's sequence no longer stands for it; `connect_live` therefore
has one connection per slot. `LaterDelivers` is for such applications, too: one that
calls `enet_host_service` with NULL lets a DISCONNECT overtake packets that wait
to be dispatched. `connect_live` has one initiator; with two, `AttemptResolves`
fails (section 8). An application that aborts an attempt is done with it at once, since
the code tells it nothing more (section 8, 10): `DisconnectResolves` is about connections
that were established.

### Fairness

`FairSpec`: a call that was begun goes on to its end (weak fairness of its
steps); the applications call `enet_host_service` with an event over and over;
what stays unacknowledged is sent again over and over and given up in the end.
The last three are strongly fair, because other calls and other peers come in
between. Nothing is assumed of the network: what it loses for ever is given up.

### Proofs

`EnetConnectionProofs.tla` proves, for any hosts, slots, calls, event modes and
bounds, with and without checksums:

- `ApplicationsKnow`: `Spec => []ApplicationKnows`;
- `EventsAreTold`: `Spec => []TellsItsEvents`;
- `CountersAreRight`: `Spec => []ConnectedCounted`;
- `AttemptsTakeOneSlot`: `Spec => []OneSlotPerAttempt`;
- `PeersQueuedOnce`: `Spec => []QueuedOnce`, when every call takes an event
  (`EventModes \subseteq {TRUE}`, as in `connect_leave`; without it the property fails,
  section 8).

None of the first four is inductive alone. `ConnectionInv` adds what the steps need:

- `HostOK`, of one host: the flag of a peer implies that it is in the dispatch queue
  (else `NeedsDispatch` would leave an event untold); nothing is dispatched before a
  peer is connected; a DISCONNECT is acknowledged only by a peer in
  `ACKNOWLEDGING_DISCONNECT` (sending that acknowledgement makes it a zombie); the
  counters are the cardinalities they stand for;
- `Draws`: `drawn[h]` are the connect identifiers host `h` drew, which the code does
  not keep. They are disjoint, and every CONNECT, queued, sent or in the network,
  carries one of its sender's; so the CONNECT of another host never has the
  identifier of an own attempt, and a repeated one meets the slot it took before;
- `ServiceOK`: a phase that dispatches has a queue to dispatch from, and a flush
  belongs to a peer the application has let go;
- `TellsAll`: every peer but the one that a flush is about to reset `Fits` what its
  application was told.

The lemmas follow the model: one for each operator from hosts to hosts, which says
that `HostOK` is kept and which views the peer fits afterwards (`Moves`, `Follows`),
one for each action, and `NextStep`. They use `ConnectionAssumption`; that `None` is
neither a slot nor a host stands for identifiers the code keeps apart by their range.
The invariants were checked with TLC on the configurations of `connect_live`,
`connect_slots` and `connect_leave` first, with `drawn` computed from the state.

`PeersQueuedOnce` has an invariant of its own next to `ConnectionInv`. `QueueOK`, of
one host: no peer is in the queue twice; a peer with the flag is in it, and in a state
that waits there (`Waiting`); a peer in `ACKNOWLEDGING_DISCONNECT` is not in it, since
it will be inserted when its acknowledgement goes out. `Takes`, of the call in
progress: the code inserts a peer when its flag is clear, so at every insertion no peer
may be in the queue without the flag (`AllFlagged`). `PeerReset` leaves peers behind
like that, and so does the code that tells an event at once; but a call with an event
then returns to the application, and the next one empties the queue before it looks at
the network. A call without an event does neither, which is why the hypothesis is needed.
Each operator from hosts to hosts `Keeps` the queue, each handler `Leaves` it so unless
there is an event to return, and `NextQueue` puts the actions together.

A sequence stands for the dispatch list as long as no peer is in it twice. That is
proved for programs that pass an event to every call; in a program that also passes NULL,
once a peer is in it twice, the code has no list any more, and the other theorems say
nothing of it.

Only model-checked: `SessionsTellApart`, `NoCrossTalk` and `LaterDelivers`, which
hold only within bounds on the connections a datagram may outlive and on what
applications do (see the runs), and the two liveness properties.

## 5. Packets that are not reliable

`PacketOrder.tla` says what ENet promises for the packets of a channel, reliable
and not: none twice; those that are sequenced in the order they were sent; none
before a reliable packet sent ahead of it. `EnetIncoming.tla` is the code for one
channel; `KeepsOrder` is the refinement.

| model | code |
|---|---|
| `KindOf`, `EnetPeerSend` | `enet_peer_send`, `enet_peer_setup_outgoing_command`: which command a packet becomes, and its numbers |
| `DroppedCommands`, `ThrottleOutgoing`, `SendOutgoing` | the unreliable part of `enet_protocol_check_outgoing_commands` |
| `Overtaken`, `GroupIsOld`, `Receive` and what it uses | the handlers of the three commands, `enet_peer_queue_incoming_command` |
| `WalkStep` ... `DispatchUnreliable` | `enet_peer_dispatch_incoming_unreliable_commands`, with its three iterators |
| `DispatchReliable` | `enet_peer_dispatch_incoming_reliable_commands`, with the call at its end |
| `EnetPeerReceive` | `enet_peer_receive` |

A packet is known by its place in the order of `enet_peer_send`; `sent[i]` has the
numbers the code writes into its commands. A reliable command is in the network
from being queued until it has arrived, which stands for its waiting, loss and
retransmission (`EnetReliable` has all of that), and a fragmented reliable packet
arrives as a whole. `MayArrive` keeps reliable commands inside the windows
`EnetReliable` allows them and lets a datagram die when the stream, or the window
of groups, has moved on too far (`Lifetime`, `GroupLifetime`), as section 3 does.

Not modelled: the exhaustion of memory (see `EnetPackets`), a peer that is
disconnecting.

`incoming_order`: 3 packets of 1 or 2 commands of every kind, 6 windows of one
reliable number with 3 free, unreliable numbers up to 2, 4 windows of 2
unsequenced groups, room for 3 waiting fragments. The stream starts at position 5 and
group 6, so that the reliable numbers (modulo 6) and the groups (modulo 8) wrap
within the run, and the unreliable numbers reach their last. Three packets are
what the rules speak of: one that is collected, one that overtakes it, a reliable
one between. The code's limit of incomplete packets (section 8) takes three as
well.

### Proofs

`EnetIncomingProofs.tla` proves, from `IncomingAssumption` alone (no bound on packets,
windows or lifetimes, whatever the network does):

- `IncomingTyped`: `Spec => []TypeOK`. What is hard in it is
  `totalWaitingData \in Nat`: the counter is unsigned in the code, and
  `enet_peer_receive` subtracts from it;
- `ThrottleAlwaysDropsWhole`: `Spec => []ThrottleDropsWhole`.

Neither is inductive. `IInv`, checked with TLC on the constants of `incoming_order` before it
was proved, consists of three parts.

- `SenderOK`: `InOrder` says that `outgoingCommands` has the commands in the order of
  `enet_peer_send`, fragment after fragment, each behind all those that were sent;
  `WholeOrNone` is the property itself. The drop loop takes commands from the front as long
  as their numbers are those of the first. `DropsToABoundary`: since
  the first command is a first fragment (the code tests it: `fragmentOffset == 0`), and the
  commands are in order, what the loop takes ends where a packet ends, and no
  command of those packets was sent before.
- `NetworkOK`: what is under way, or was received, belongs to a packet that was sent.
- `ReceiverOK`: the types, and `Accounted`: the reliable packets that wait, the list of
  unreliable ones and the dispatched ones together weigh at most `totalWaitingData`. It is an
  inequality and no equation, because the code drops unreliable packets without giving
  their share back (`enet_peer_remove_incoming_commands`, `peer.c:211`); the
  counter may run ahead of what is held, never behind.

`Load` (in `EnetArithmetic`) is the weight of a sequence; section 3 uses it as well. It
is defined by its partial sums (`Running`), so that no fold has to be reasoned about:
`LoadAppend`, `LoadConcat`, `LoadTail` and `LoadInsert` follow from `Iterates` of
`EnetArithmetic`. `ChosenLoad` is what the dispatch needs: two disjoint choices from a
list, those `enet_list_move` moves and those that stay, weigh together no more than the
list. `WalkOverIs` bounds the three iterators of the dispatch along the way, so that
every run it moves lies inside the list. `DispatchReadyIs` and `HeldLeave` do the same
for reliable packets, which leave the set of those that wait as they enter the queue.

Only model-checked: `NothingOverdue`, `KeepsOrder` and `DropsOnlyOvertaken`. They compare the
numbers of late packets with those of the channel, as section 3 does for the reliable stream;
they need `Lifetime` and `GroupLifetime` to be small enough for the windows, a bound
on the unreliable numbers between two reliable ones, and an invariant that gives the
position of every packet the receiver may still be sent.

## 6. Memory, lists and the range coder

### Lists

`EnetList.tla` has the list functions as operators on a heap `[next, previous]`.
`Linked` says that following `next` and coming back by `previous` is staying where
one is. `EnetPacketsProofs.tla` begins with what holds of every heap:

- `ClearKeepsLinked`, `InsertKeepsLinked`, `RemoveKeepsLinked`: the function keeps
  the heap linked, if the node that is inserted was in no list, and the node that
  is removed is pointed to by none that stays;
- `MoveKeepsLinked`: moving a run keeps it linked, also when the run stands in
  front of `position` already, but not when `position` is the first node of the
  run. The callers never pass that.

### Packets

`EnetPackets.tla` is the memory of a host: `memory` holds the list fields of
all nodes, the commands, `referenceCount` of the packets and who has to free them.
Its actions are what the functions of `peer.c`, `protocol.c`, `host.c` and
`packet.c` do to packets and lists; which command they pick is left open wherever it depends
on numbers, windows or times. `enet_malloc` may fail between two fragments, and between
a command and its packet. The buffers of a datagram that is being assembled are
modelled (`buffers`), since they point into packets that other functions free.

A loop is written as what one round of it does (`Drain` for the loops that run while a
list is not empty, `Walk` for those along a list that read the next command before
the body unlinks the current one) and done once for every command there is, which is as
often as any of these loops can go round. The commands without a packet that are acknowledged
(pings, settings) have the kind `control`; the disconnection that is not
(`notice`) is freed as soon as it is written into the datagram (`TakeNotice`).

`packets`: 2 peers (a broadcast has two receivers), 2 packets, 3 commands, 2
fragments. Three commands leave one for a second packet while both fragments of
the first are queued, and run out in the middle of a packet. `ListsLinked` says, on top
of `Linked`, that every allocated command is in exactly one list.

`EnetPacketsProofs.tla` proves the four invariants of this run and `TypeOK` for any sets
of peers, packets and commands and any number of fragments. The only assumption is
`PacketsAssumption`: the memory is finite, `MaxFragments` is at least 1,
and the sentinels of the lists are no commands.

- The invariants of the run are not inductive: they say of each command that it is in
  one list, of each node that its neighbours agree, but an action needs to know that
  the list it walks along holds what it thinks and ends. `IInv` has a witness instead:
  an assignment `at` of the commands to the lists (`None` for the free ones) that
  agrees with everything else (`Good`).
- `Lists(heap, at)`: the links agree both ways, no list is left by following them, and no
  set that has the sentinels and is closed under `next` misses a command of a list. The
  last is what makes the loops end and rules out a ring of commands beside a
  list; from it `ElementsIs` shows that the recursive function `ElementsOf` yields every
  command of a list, once.
- `Counted`, `Owned`: each count is the number of commands with the packet and a place
  in a list, and ENet owns exactly the packets that have a command. Both have a
  parameter for the exception inside `enet_peer_send`, where fragments are in a local list before
  they are counted, of a packet that is still the application's.
- `Incoming`: a packet that was received has one command, so that `enet_peer_receive` can give
  it away.
- `Pointed`: while a datagram is assembled, each packet a buffer points into has a command
  among the sent ones of the peer that is sending, or in the list of the pass. Nothing else
  that is done then takes commands from those two lists.

There is a lemma for each list function (`InsertLists`, `RemoveLists`, `MoveLists`), for
what is made of them (`DropGood`, `RelocateGood`, `AllocateGood`, `GiveBackGood`), for
each loop (`DropAllGood`, `ThrottleGood`, `TimeoutGood`, `DispatchedGood`,
`AllocateFragmentsGood`, `FreeFragmentsGood`, `SetupFragmentsGood`, `BroadcastGood`) and for
each action. `MoveLists` is the hard one: the run that is moved is described by its
numbers along the list (`Stretch`), for which `WalkAround` provides the numbering. The loops
that move commands while walking (`TimeoutGood`) are proved with an invariant of their own
(`Walking`): the command that is read next is still in the list that is walked along.
`CountFragments` counts what the loops of `enet_peer_send` have queued against
`referenceCount += fragmentNumber`.

One thing the model does not see: the drop loop compares sequence numbers only
(`protocol.c:1604`), so a control command whose number has wrapped to 0 looks like the unsequenced
packets in front of it. `SameNumbers` tells commands apart by kind and packet instead.

### Range coder

`EnetRangeCoder.tla` is `compress.c`. A turn of the compressor's loop is
`FromBuffer` or `BehindEmptyBuffer`, the two things that can happen where it reads
`*inData++`, followed by `Compress`, which encodes the byte in the contexts of order 2, 1
and 0. Where one buffer ends and the next begins makes no difference unless the next is
empty, so buffers have no lengths in the model: `FromBuffer` stands for the next byte of
the current buffer and for the first of the next one. An empty buffer is read behind its
end (section 8): the byte is any, and the program may stop there, which a behaviour
that ends stands for. `input` is what the buffers contain, `taken` what the loop read.
`Decompressed` decodes a whole output.

`coder_roundtrip` takes every `taken` of up to 8 bytes over three of 4 byte values, one of
which may come from behind an empty buffer, with a pool of 14 symbols and counts up to
9, so that contexts are halved because of a count and because of their total, the range
is renormalised with and without a carry, and the pool starts anew.

- `RoundTrip`: after every byte, what is decompressed is what was taken, which is the input
  if no buffer was empty, and the contexts of both ends are the same.
- `PoolSuffices`: the pool never holds more symbols than it has room for. `peak` is the
  largest number a turn left before `ENET_RANGE_CODER_FREE_SYMBOLS` counted them; a byte
  that is new in its three contexts makes three symbols, and the guard leaves room for
  exactly these: with a guard one symbol later the pool overflows.

`InputComesBack`, that what is decompressed is the content of the buffers, is what
`enet.h:324` says and is no invariant: it fails with the first empty buffer (section 8).

Not modelled: `outLimit` (a datagram that would not shrink is sent as it is), and the
exclusion of contexts, which is compiled out.
The operators are recursive, over the trees; this module is only model-checked.

## 7. Bandwidth and time

### Bandwidth

`EnetBandwidth.tla`: `EnetHostBandwidthThrottle` is the function of that name as
one action: `Rounds` is the loop that divides the outgoing bandwidth and takes out the
peers that cannot take their part, turn by turn, `Pass` one turn of it, peer by peer,
and `LimitsOf` what the others get; `Divisions` and `AnnouncePass` are the loop that
decides what peers are told to send (`AnnouncedTo`). The loops are recursive functions,
over the peers and over the turns. A turn that takes out nobody is the last, so there
are at most as many as peers, and `Rounds` repeats the last one.
`EnetPeerThrottle` is the answer to a round trip time, `Queue` what the
application sends, `Time` the clock. Numbers wrap at `Word`.

`bandwidth`: 3 peers, that take at most 58, any and 20 bytes an interval and send at
most 10, 200 and any; loads of 0 or 150; a host with and without limits (130);
rounds that come in time, or so late that bandwidth times time wraps. These
numbers make every combination of peers taken out by the first, by a later or by
no pass come up, and a part that grows when a peer does not use its own.

- `SharesWithinBandwidth`: what the limits let through is within the bandwidth of the
  host and of each peer, apart from the minimum of 1, also when bandwidth times time
  wraps.
- `ThrottledForCause`: a limit below the scale is there because the load does not
  fit. A product of bandwidth and time that wrapped gives no such cause; the property
  excludes it (`BandwidthsFit`, section 8).
- `AnnouncedWithinBandwidth`: the peers that have a limit are told no more than the host
  can take, and no less than an even share or their own limit.

The first two are about intervals whose loads fit in the numbers (`LoadsFit`): the sum
of the loads, and each times the scale, less than 2^32 bytes (section 8). The loads of
the run do.

`EnetBandwidthProofs.tla` proves, for any number of peers, any bandwidths, loads,
pauses, scale and word:

- `BandwidthTyped`: `Spec => []TypeOK`, in which no throttle is above its limit;
- `RoundsShareBandwidth`: `Spec => SharesWithinBandwidth`;
- `RoundsThrottleForCause`: `Spec => ThrottledForCause`;
- `RoundsAnnounceBandwidth`: `Spec => AnnouncedWithinBandwidth`.

The invariant of the first loop is `Left` with `EnoughFor`. The code subtracts the
share of a peer that is taken out from `bandwidth` and from `dataTotal`, although its
data is more than its share, so `dataTotal` stays at least the data of the peers that
are left; and with the throttle of the turn what is left of the bandwidth is enough for
each of them, also in the middle of the turn, when some were taken out. A peer is taken
out because its part is more than its share, so the subtraction cannot go below zero.
`Settled` is what holds when the loop ends: nobody that is left takes more than its
share. The second loop has `Divided` and `PartFits`: what was told and what is left are
the bandwidth of the host, and the part is never less than an even one (`EvenPart`).
The loops are unfolded one turn at a time (`PassIs`, `RoundsIs`, `AnnouncePassIs`,
`DivisionsIs`), with `Iterates` for the existence of the recursive functions and `UpTo`
in place of induction. The only assumption is `BandwidthAssumption`: the constants are
numbers of their width, and the interval, the scale and the number of peers are not 0.

Not modelled: `enet_peer_throttle_configure`; the interval statistics that choose
the round trip time `enet_peer_throttle` compares with.

### Time

`EnetTiming.tla` is the clock and one peer. `EnetHostService` and
`EnetHostFlush` are a turn of `enet_protocol_send_outgoing_commands` with and
without the check of timeouts; `CheckTimeouts` is that function, command by command;
`HandleAcknowledge` measures the round trip time and removes the command. A
command keeps, beside its fields in the code, the time it was sent first.

`timing`: a clock of 64 ticks with an overflow of 32, of which an acknowledgement echoes
the lower 2 bits; all start times, so that every sum and comparison meets the wrap; 2
commands, limit 2, minimum 5, maximum 6, and calls 2 or 3 ticks apart. At these
bounds the smoothing of the round trip time (an eighth of a difference) is zero, so
that estimates move by the variance only. A prefix of the waiting commands, of
any length, is sent in a turn, which stands for windows and full datagrams. An
acknowledgement arrives within `Lifetime`, less than a turn of what it echoes, and
an application that only flushes comes back to `enet_host_service` within
`MaxUnserved` of a timeout.

`NextTimeoutIsDue` is about the front of the list, the oldest transmission. A command behind
it may be due earlier, when the timeout of the front was doubled, and then it is looked at
with the front, late. `GivenUpInTime` bounds what comes of that and of two more things
(section 8): every acknowledgement sets `earliestTimeout` back to 0, and 0 is also a time.
Its bound, `MaxUnanswered`, was found by trying: 10 times the maximum, 60 ticks, is the
least multiple for which it holds. In the same instance 50 ticks do when an acknowledgement
leaves `earliestTimeout` alone, 40 when the value for none is no time, and 30 with both.

`EnetTimingProofs.tla` proves, for every clock that is a multiple of the turn of the
echo, with `Overflow` at least a turn and at most a turn less than the clock:

- `EchoAlwaysTellsTime`: `Spec => []EchoTellsTime`. The lemma `EchoIsTime` is the
  arithmetic: less than a turn ago was in this turn of the lower bits or in the one
  before, also where that is the turn before the wrap of the clock;
- `NextTimeoutAlwaysDue`: `Spec => []NextTimeoutIsDue`.

`TimingInv` ties both to the ages of the acknowledgements and the types of the lists.
The loop of `enet_protocol_check_timeouts` is a recursive function (`ScanAll`);
`ScanAllIs` shows that a function exists which the recursion defines, and
`CheckTimeoutsStep` that each of its values keeps `ScanOK`, by the least number for
which it would not (`LeastNumber` of `EnetArithmetic`, which does the work of
induction here). `GivenUpInTime` and `GivesUpForCause` are only model-checked: they
depend on the bounds, on how the pauses of the application, the doubled timeouts and
`MaxUnserved` add up.

`ping` is a reliable command like the others and has no action of its own.

## 8. Where the code and its documentation differ

The following came up while modelling. The runs are instances in which they
do not bite; where a property fails, the change of constants that makes it fail is
named.

1. *The stream can stand still at the waiting-data limit* (`peer.c:847`;
   `enet.h:417` has `maximumWaitingData` as the buffer space for packets waiting to be
   delivered). Packets received out of order count, and when they fill the limit, the packet
   the channel waits for is refused like any other and sent again for ever. It takes a
   limit smaller than what the windows let through. With
   `MaxWaiting = 2` in `stream_fragments`, where two packets may wait for a
   third, `EventuallyDelivered` fails.
2. *A peer can be in the dispatch queue twice* (`peer.c:254`, `peer.c:356`).
   `enet_peer_reset` clears the flag `NEEDS_DISPATCH` before `enet_peer_reset_queues`
   looks at it, so a peer that is reset while it waits in `dispatchQueue` stays
   there, and is inserted a second time for its next connection. It takes
   calls without an event, which the code allows. With `EventModes = {TRUE, FALSE}` in
   `connect_leave`, `QueuedOnce` fails.
3. *An attempt to connect can hang* (`protocol.c:970`, `protocol.c:1110`;
   `docs/tutorial.dox:320-323` says an attempt ends with an event). A connecting peer takes datagrams
   of any session, and the late acknowledgement of the VERIFY_CONNECT of an earlier
   connection has the number of the CONNECT and removes it. With both hosts as
   `Initiators` and `MaxConnects = 2` in `connect_live`, `AttemptResolves` fails.
4. *`totalWaitingData` leaks* (`peer.c:211`; `enet.h:418` has it as the data waiting to be delivered).
   `enet_peer_remove_incoming_commands` frees unreliable packets that are
   overtaken without lowering it. A peer that loses many in this way reaches its
   limit and receives nothing more.
5. *Late rounds of the bandwidth throttle* (`host.c:345`): bandwidth times elapsed
   time wraps when the product passes 2^32 and leaves less bandwidth than there
   is, so that peers are throttled without cause for one interval. Nothing is let through
   that should not be. The products of loads wrap as well (`host.c:374`, and the sum at
   `host.c:352`), but only when 2^27 bytes are queued for one peer in an interval.
6. *A peer whose own outgoing bandwidth is unlimited is told 0*
   (`host.c:444-467`), which means unlimited, also by a host that has a limit.
7. *A peer is given up later than `enet.h:820-830` says.* Any acknowledgement sets
   `earliestTimeout` to 0 (`protocol.c:964`), also that of another command, and the
   maximum then counts from the last transmission of what times out next. And 0 is a
   time (`protocol.c:1435`): a command sent at time 0 leaves `earliestTimeout` at the
   value that stands for none, which costs one more timeout. Section 7 has the
   numbers of the instance.
8. *Three packets in pieces* (`peer.c:596`): an unreliable fragmented packet is dropped,
   though nothing overtook it, when two more are being collected behind it.
9. *Unsequenced packets are dropped together* (`protocol.c:1590`): those that follow each
   other in the queue have equal numbers and share the fate of the first, while
   `enet.h:881` describes a choice for each packet.
10. *`enet_peer_disconnect` of a connecting peer generates no event*, although
    `enet.h:852` promises one.
11. *A peer in `DISCONNECT_LATER` acknowledges the packets it discards*
    (`peer.c:742`).
12. *Acknowledgements withheld inside a packet* (`peer.c:488`): fragments 7 and 8
    windows ahead are not acknowledged although they belong to the packet being
    received, so a packet of six to seven windows of fragments can come to a stop.
13. *A command that waits for its window ends the pass for all channels*
    (`protocol.c:1524`), although `docs/design.dox:71` has channels independent of each
    other.
14. *The compressor reads behind an empty buffer* (`compress.c:269-278`; `enet.h:324` has it
    compress the buffers, `inLimit` bytes). `inData >= inEnd` is not tested again after it
    has gone on to the next buffer. A packet of length 0 makes an empty one
    (`protocol.c:1631-1635`), whose `data` is NULL unless the application gave another
    (`packet.c:17-20`): the program reads through NULL, or compresses a byte more than there
    is. It takes a host with the range coder and a packet of length 0. With
    `InputComesBack` among the invariants of `coder_roundtrip` TLC shows the additional byte,
    after one byte of input.

## 9. What is not modelled

- The byte layout and the length checks of the wire format; checksums are modelled by
  what they tell apart (`EnetConnection`).
- Sockets and addresses, replaced by a network that loses, repeats and reorders.
- The memory callbacks; a failing `enet_malloc` only where a packet is split or
  queued (`EnetPackets`).
- `enet_packet_resize`, `enet_crc32`, the intercept callback, the statistics of
  packet loss.
- `enet_peer_throttle_configure`, `enet_peer_timeout` and the other functions that
  only set a field: their fields are constants.
