---------------------------- MODULE EnetIncoming ----------------------------
(***************************************************************************)
(* Unreliable, unsequenced and unreliable fragmented packets on a channel  *)
(* they share with reliable ones: enet_peer_send's choice of the kind, the *)
(* throttle's drop in check_outgoing_commands, the handlers of the three   *)
(* commands, queue_incoming_command, the two dispatch functions and        *)
(* enet_peer_receive.                                                      *)
(*                                                                         *)
(* EnetReliable has the reliable commands in full.  Here they are in the   *)
(* network from the moment they are queued until they have arrived, which  *)
(* stands for their waiting, their loss and their being sent again, and a  *)
(* fragmented one arrives as a whole.                                      *)
(*                                                                         *)
(* A packet is known by its place in the order of enet_peer_send; what the *)
(* code writes into its commands is sent[i].                               *)
(***************************************************************************)
EXTENDS Integers, Sequences, FiniteSets, FiniteSetsExt, SequencesExt

CONSTANTS
  Flags,             \* the flags an application sets, members of FlagKinds
  FragmentCounts,    \* commands a packet may need
  ReliableWindows,   \* ENET_PEER_RELIABLE_WINDOWS, 16 in the code
  WindowSize,        \* ENET_PEER_RELIABLE_WINDOW_SIZE, 0x1000
  FreeWindows,       \* ENET_PEER_FREE_RELIABLE_WINDOWS, 8
  MaxUnreliable,     \* the last unreliable sequence number, 0xFFFF
  GroupWindows,      \* windows in the space of unsequenced groups, 64
  GroupWindowSize,   \* ENET_PEER_UNSEQUENCED_WINDOW_SIZE, 1024
  FreeGroupWindows,  \* ENET_PEER_FREE_UNSEQUENCED_WINDOWS, 32
  MaxWaiting,        \* host->maximumWaitingData, in fragments
  StartPosition,     \* reliable commands delivered before the start
  StartGroup,        \* unsequenced packets delivered before the start
  MaxPackets,        \* bound: packets sent
  MaxBacklog,        \* bound: reliable commands queued and not dispatched
  NetCapacity,       \* bound: commands in flight that are not reliable
  Lifetime,          \* a datagram dies before the channel's stream has
                     \* advanced by more than Lifetime reliable commands
  GroupLifetime      \* ... and the window of groups by more than GroupLifetime

\* ENET_PACKET_FLAG_RELIABLE, _UNSEQUENCED, _UNRELIABLE_FRAGMENT, or none
FlagKinds == {"reliable", "unsequenced", "fragment", "none"}

ASSUME IncomingAssumption ==
  /\ Flags \subseteq FlagKinds
  /\ FragmentCounts \subseteq Nat \ {0}
  /\ {ReliableWindows, WindowSize, FreeWindows, MaxUnreliable} \subseteq Nat \ {0}
  /\ {GroupWindows, GroupWindowSize, FreeGroupWindows} \subseteq Nat \ {0}
  /\ {MaxWaiting, StartPosition, StartGroup, MaxPackets} \subseteq Nat
  /\ {MaxBacklog, NetCapacity, Lifetime, GroupLifetime} \subseteq Nat

VARIABLES
  \* the sender
  sent,                              \* the packets handed to enet_peer_send
  outgoingReliableSequenceNumber,    \* a position: not reduced to 16 bits
  outgoingUnreliableSequenceNumber,
  outgoingUnsequencedGroup,          \* a position, too
  outgoingCommands,                  \* of packets that are not reliable
  transmitted,                       \* commands that left outgoingCommands for the network
  \* the network
  network,
  \* the receiver
  incomingReliableSequenceNumber,    \* sequence numbers, as the code has them
  incomingUnreliableSequenceNumber,
  incomingUnsequencedGroup,
  unsequencedWindow,                 \* the set of bits that are 1
  incomingReliableCommands,          \* packets; EnetReliable has their order
  incomingUnreliableCommands,        \* packets and the fragments they lack
  dispatchedCommands,
  totalWaitingData,
  received                           \* what enet_peer_receive returned

senderVars == <<sent, outgoingReliableSequenceNumber,
                outgoingUnreliableSequenceNumber, outgoingUnsequencedGroup,
                outgoingCommands, transmitted>>
receiverVars == <<incomingReliableSequenceNumber,
                  incomingUnreliableSequenceNumber, incomingUnsequencedGroup,
                  unsequencedWindow, incomingReliableCommands,
                  incomingUnreliableCommands, dispatchedCommands,
                  totalWaitingData>>
vars == <<senderVars, network, receiverVars, received>>

-----------------------------------------------------------------------------
(* Packets, commands and their numbers.                                    *)

SequenceSpace == ReliableWindows * WindowSize

GroupSpace == GroupWindows * GroupWindowSize

Packet == [kind : {"reliable", "unreliable", "unsequenced", "fragment"},
           reliable : Nat, unreliable : Nat, group : Nat, count : Nat]

\* fragment is 1 for the packets of a single command
Command == [packet : 1..MaxPackets, fragment : Nat \ {0}]

Commands(i) == {[packet |-> i, fragment |-> f] : f \in 1..sent[i].count}

\* header.reliableSequenceNumber: for an unreliable packet, the number of the
\* last reliable command queued before it
ReliableNumber(i) == sent[i].reliable % SequenceSpace

UnreliableNumber(i) == sent[i].unreliable

GroupNumber(i) == sent[i].group % GroupSpace

\* the number of the last command of a reliable packet
LastReliableNumber(i) == (sent[i].reliable + sent[i].count - 1) % SequenceSpace

\* The position of the last reliable command dispatched.
Dispatched ==
  Max({StartPosition} \cup
      {sent[i].reliable + sent[i].count - 1 :
         i \in {j \in Range(dispatchedCommands \o received) : sent[j].kind = "reliable"}})

Init ==
  /\ sent = <<>>
  /\ outgoingReliableSequenceNumber = StartPosition
  /\ outgoingUnreliableSequenceNumber = 0
  /\ outgoingUnsequencedGroup = StartGroup
  /\ outgoingCommands = <<>>
  /\ transmitted = {}
  /\ network = {}
  /\ incomingReliableSequenceNumber = StartPosition % SequenceSpace
  /\ incomingUnreliableSequenceNumber = 0
  /\ LET group == StartGroup % GroupSpace
         index == group % GroupWindowSize
     IN  /\ incomingUnsequencedGroup = group - index
         /\ unsequencedWindow = IF StartGroup = 0 THEN {} ELSE 0..index
  /\ incomingReliableCommands = {}
  /\ incomingUnreliableCommands = <<>>
  /\ dispatchedCommands = <<>>
  /\ totalWaitingData = 0
  /\ received = <<>>

-----------------------------------------------------------------------------
(* enet_peer_send and enet_peer_setup_outgoing_command.                    *)

\* Mutant: unreliable numbers wrap like all the others.
KindOfWrapping(flag, count) ==
  CASE flag = "unsequenced" /\ count = 1 -> "unsequenced"
    [] flag = "fragment" /\ count > 1 -> "fragment"
    [] flag \in {"none", "fragment"} /\ count = 1 -> "unreliable"
    [] OTHER -> "reliable"

\* The fragments of a large packet are unreliable only if the application
\* asked for that; a channel without unreliable numbers left sends reliably.
KindOf(flag, count) ==
  LET numbersLeft == outgoingUnreliableSequenceNumber < MaxUnreliable IN
  CASE flag = "unsequenced" /\ count = 1 -> "unsequenced"
    [] flag = "fragment" /\ count > 1 /\ numbersLeft -> "fragment"
    [] flag \in {"none", "fragment"} /\ count = 1 /\ numbersLeft -> "unreliable"
    [] OTHER -> "reliable"

EnetPeerSend(flag, count) ==
  LET kind == KindOf(flag, count)
      i == Len(sent) + 1
      next == [kind |-> kind,
               reliable |-> CASE kind = "reliable" -> outgoingReliableSequenceNumber + 1
                              [] kind = "unsequenced" -> 0
                              [] OTHER -> outgoingReliableSequenceNumber,
               unreliable |-> IF kind \in {"unreliable", "fragment"}
                              THEN outgoingUnreliableSequenceNumber + 1
                              ELSE 0,
               group |-> IF kind = "unsequenced" THEN outgoingUnsequencedGroup + 1 ELSE 0,
               count |-> count]
      commands == [f \in 1..count |-> [packet |-> i, fragment |-> f]]
  IN  /\ Len(sent) < MaxPackets
      /\ outgoingReliableSequenceNumber + count - Dispatched <= MaxBacklog
      /\ sent' = Append(sent, next)
      /\ CASE kind = "reliable" ->
                /\ outgoingReliableSequenceNumber' = outgoingReliableSequenceNumber + count
                /\ outgoingUnreliableSequenceNumber' = 0
                /\ network' = network \cup {commands[1]}
                /\ UNCHANGED <<outgoingUnsequencedGroup, outgoingCommands>>
           [] kind = "unsequenced" ->
                /\ outgoingUnsequencedGroup' = next.group
                /\ outgoingCommands' = outgoingCommands \o commands
                /\ UNCHANGED <<outgoingReliableSequenceNumber,
                               outgoingUnreliableSequenceNumber, network>>
           [] OTHER ->
                /\ outgoingUnreliableSequenceNumber' = next.unreliable
                /\ outgoingCommands' = outgoingCommands \o commands
                /\ UNCHANGED <<outgoingReliableSequenceNumber,
                               outgoingUnsequencedGroup, network>>
      /\ UNCHANGED <<transmitted, receiverVars, received>>

-----------------------------------------------------------------------------
(* check_outgoing_commands: the commands that are not reliable.            *)

\* The fields the drop loop compares; those of unsequenced commands are 0.
Numbers(c) == <<ReliableNumber(c.packet), UnreliableNumber(c.packet)>>

\* Mutant: the throttle drops the command it looks at.
DroppedCommandsFirst == 1

\* How many commands are dropped together: all that follow with the numbers
\* of the first.
DroppedCommands ==
  Max({n \in DOMAIN outgoingCommands :
         \A k \in 1..n : Numbers(outgoingCommands[k]) = Numbers(outgoingCommands[1])})

\* packetThrottleCounter > packetThrottle, left open, is only looked at for
\* the first command of a packet.
ThrottleOutgoing ==
  /\ outgoingCommands # <<>>
  /\ Head(outgoingCommands).fragment = 1
  /\ outgoingCommands' =
       SubSeq(outgoingCommands, DroppedCommands + 1, Len(outgoingCommands))
  /\ UNCHANGED <<sent, outgoingReliableSequenceNumber,
                 outgoingUnreliableSequenceNumber, outgoingUnsequencedGroup,
                 transmitted, network, receiverVars, received>>

InFlight == {c \in network : sent[c.packet].kind # "reliable"}

SendOutgoing ==
  /\ outgoingCommands # <<>>
  /\ Cardinality(InFlight) < NetCapacity
  /\ network' = network \cup {Head(outgoingCommands)}
  /\ transmitted' = transmitted \cup {Head(outgoingCommands)}
  /\ outgoingCommands' = Tail(outgoingCommands)
  /\ UNCHANGED <<sent, outgoingReliableSequenceNumber,
                 outgoingUnreliableSequenceNumber, outgoingUnsequencedGroup,
                 receiverVars, received>>

-----------------------------------------------------------------------------
(* The windows of the receiver.                                            *)

Window(s) == s \div WindowSize

\* reliableWindow - currentWindow
RelativeWindow(s, r) ==
  Window(s) + (IF s < r THEN ReliableWindows ELSE 0) - Window(r)

InWindow(s, r) == RelativeWindow(s, r) \in 0..(FreeWindows - 2)

-----------------------------------------------------------------------------
(* enet_peer_dispatch_incoming_unreliable_commands.  The code walks the    *)
(* list with three iterators; startCommand, droppedCommand and             *)
(* currentCommand are places in the list as it was when the walk began,    *)
(* moved the places of what went to dispatchedCommands.                    *)

MoveRun(w, i) == [w EXCEPT !.moved = @ \cup w.start..(i - 1)]

\* The place before i of what is still in the list.
Previous(w, i) == Max({0} \cup {k \in 1..(i - 1) : k \notin w.moved})

\* Mutant: what is still incomplete is let go with what overtakes it.
WalkIncompleteDrops(w, i) == [MoveRun(w, i) EXCEPT !.start = i + 1, !.dropped = i + 1]

\* A packet whose turn it is and that lacks fragments.
WalkIncomplete(w, i) ==
  [(IF w.start # i THEN MoveRun(w, i) ELSE w) EXCEPT
     !.start = i + 1,
     !.dropped = CASE w.start # i -> i
                   [] w.start = i /\ w.dropped # i -> Previous(w, i)
                   [] OTHER -> w.dropped]

\* A packet that belongs before the reliable command dispatched last.
WalkOvertaken(w, i) ==
  [(IF w.start # i THEN MoveRun(w, i) ELSE w) EXCEPT !.start = i + 1, !.dropped = i + 1]

WalkStep(w, i, list, r) ==
  LET e == list[i]
      s == ReliableNumber(e.packet)
      next == [w EXCEPT !.current = i + 1]
  IN  IF w.stopped THEN w
      ELSE IF sent[e.packet].kind = "unsequenced" THEN next
      ELSE CASE s = r /\ e.missing = {} -> [next EXCEPT !.unreliable = UnreliableNumber(e.packet)]
             [] s = r /\ e.missing # {} -> WalkIncomplete(next, i)
             [] s # r /\ InWindow(s, r) -> [w EXCEPT !.stopped = TRUE]
             [] OTHER -> WalkOvertaken(next, i)

\* The walk is over: what lies before it is moved, too.
Ended(w) ==
  IF w.start # w.current THEN [MoveRun(w, w.current) EXCEPT !.dropped = w.current] ELSE w

Stays(w, i, e, queued) == i \notin w.moved /\ (i >= w.dropped \/ e.packet = queued)

\* What is at the places in S, in the order of the list.
Chosen(list, S) ==
  LET chosen[i \in 0..Len(list)] ==
        IF i = 0 THEN <<>> ELSE IF i \in S THEN Append(chosen[i - 1], list[i]) ELSE chosen[i - 1]
  IN  chosen[Len(list)]

PacketsOf(list) == [k \in DOMAIN list |-> list[k].packet]

\* queued, if it is a packet of the list, is not dropped.
Outcome(list, w, queued) ==
  [dispatched |-> PacketsOf(Chosen(list, w.moved)),
   list |-> Chosen(list, {i \in DOMAIN list : Stays(w, i, list[i], queued)}),
   unreliable |-> w.unreliable]

\* The walk over list when r is the number of the last reliable command
\* dispatched and u that of the last unreliable one.
WalkBegins(u) == [current |-> 1, start |-> 1, dropped |-> 1, moved |-> {}, unreliable |-> u, stopped |-> FALSE]

WalkOver(list, r, u) ==
  LET walk[i \in 0..Len(list)] == IF i = 0 THEN WalkBegins(u) ELSE WalkStep(walk[i - 1], i, list, r)
  IN  Ended(walk[Len(list)])

DispatchUnreliable(list, r, u, queued) == Outcome(list, WalkOver(list, r, u), queued)

-----------------------------------------------------------------------------
(* enet_peer_dispatch_incoming_reliable_commands.                          *)

\* The packets of held that are next, one after the other, after number r.
ReadyAfter(held, r) ==
  LET Ready[n \in 0..Cardinality(held)] ==
        IF n = 0 THEN <<>>
        ELSE LET before == Ready[n - 1]
                 last == IF before = <<>> THEN r ELSE LastReliableNumber(before[Len(before)])
                 next == {i \in held \ Range(before) : ReliableNumber(i) = (last + 1) % SequenceSpace}
             IN  IF Len(before) < n - 1 \/ next = {} THEN before
                 ELSE Append(before, CHOOSE i \in next : TRUE)
  IN  Ready[Cardinality(held)]

\* ready goes to dispatchedCommands, followed by what the unreliable list lets
\* go behind it; the unreliable numbers start anew at u.
Following(ready, reliable, later) ==
  [ready |-> Range(ready), reliable |-> reliable, unreliable |-> later.unreliable,
   list |-> later.list, dispatched |-> ready \o later.dispatched]

DispatchReady(ready, u) ==
  IF ready = <<>>
  THEN [ready |-> {}, reliable |-> incomingReliableSequenceNumber,
        unreliable |-> incomingUnreliableSequenceNumber,
        list |-> incomingUnreliableCommands, dispatched |-> <<>>]
  ELSE LET r == LastReliableNumber(ready[Len(ready)])
       IN  Following(ready, r, DispatchUnreliable(incomingUnreliableCommands, r, u, 0))

\* Mutant: unreliable numbers go on over a reliable packet.
DispatchReliableGoesOn(held) ==
  DispatchReady(ReadyAfter(held, incomingReliableSequenceNumber),
                incomingUnreliableSequenceNumber)

DispatchReliable(held) ==
  DispatchReady(ReadyAfter(held, incomingReliableSequenceNumber), 0)

-----------------------------------------------------------------------------
(* enet_peer_queue_incoming_command and the handlers that call it.         *)

BufferFull == totalWaitingData >= MaxWaiting

Discard == UNCHANGED receiverVars

\* Goes on from a list the code has just changed: what is dispatched and
\* dropped now.
TakeDispatched(to) ==
  /\ incomingUnreliableCommands' = to.list
  /\ incomingUnreliableSequenceNumber' = to.unreliable
  /\ dispatchedCommands' = dispatchedCommands \o to.dispatched

TakeReliable(held, to) ==
  /\ incomingReliableCommands' = held \ to.ready
  /\ incomingReliableSequenceNumber' = to.reliable
  /\ TakeDispatched(to)

\* enet_protocol_handle_send_reliable, with the fragments of a packet at once
HandleSendReliable(i) ==
  IF \/ ~InWindow(ReliableNumber(i), incomingReliableSequenceNumber)
     \/ ReliableNumber(i) = incomingReliableSequenceNumber
     \/ \E j \in incomingReliableCommands : ReliableNumber(j) = ReliableNumber(i)
     \/ BufferFull
  THEN Discard
  ELSE LET held == incomingReliableCommands \cup {i}
       IN  /\ TakeReliable(held, DispatchReliable(held))
           /\ totalWaitingData' = totalWaitingData + sent[i].count
           /\ UNCHANGED <<incomingUnsequencedGroup, unsequencedWindow>>

\* The search from the end of the list goes past e for a packet numbered r, u.
GoesPast(e, r, u) ==
  LET current == incomingReliableSequenceNumber
      s == ReliableNumber(e.packet)
  IN  \/ r >= current /\ s < current
      \/ /\ r >= current \/ s < current
         /\ s > r \/ (s = r /\ UnreliableNumber(e.packet) > u)

\* Where the search ends: the place of the last packet it does not go past.
FoundPlace(i) ==
  Max({0} \cup {k \in DOMAIN incomingUnreliableCommands :
                  ~GoesPast(incomingUnreliableCommands[k], ReliableNumber(i), UnreliableNumber(i))})

AlreadyQueued(i) ==
  /\ FoundPlace(i) > 0
  /\ LET e == incomingUnreliableCommands[FoundPlace(i)] IN
     ReliableNumber(e.packet) = ReliableNumber(i) /\ UnreliableNumber(e.packet) = UnreliableNumber(i)

\* Mutant: a late unreliable packet is taken.
OvertakenNever(i) == FALSE

\* A packet of the present reliable number that is not newer than the last
\* unreliable one dispatched.
Overtaken(i) ==
  /\ ReliableNumber(i) = incomingReliableSequenceNumber
  /\ UnreliableNumber(i) <= incomingUnreliableSequenceNumber

\* The list with packet i behind place at.
QueuedBehind(at, i, missing) ==
  InsertAt(incomingUnreliableCommands, at + 1, [packet |-> i, missing |-> missing])

\* enet_protocol_handle_send_unreliable
HandleSendUnreliable(i) ==
  IF ~InWindow(ReliableNumber(i), incomingReliableSequenceNumber) \/ Overtaken(i) \/ AlreadyQueued(i) \/ BufferFull
  THEN Discard
  ELSE /\ TakeDispatched(DispatchUnreliable(QueuedBehind(FoundPlace(i), i, {}),
                                            incomingReliableSequenceNumber,
                                            incomingUnreliableSequenceNumber, i))
       /\ totalWaitingData' = totalWaitingData + sent[i].count
       /\ UNCHANGED <<incomingReliableSequenceNumber, incomingUnsequencedGroup,
                      unsequencedWindow, incomingReliableCommands>>

\* The list with packet i in it; the packet is queued with its first fragment.
WithPacket(i) ==
  IF AlreadyQueued(i)
  THEN [list |-> incomingUnreliableCommands,
        unreliable |-> incomingUnreliableSequenceNumber, dispatched |-> <<>>]
  ELSE DispatchUnreliable(QueuedBehind(FoundPlace(i), i, 1..sent[i].count),
                          incomingReliableSequenceNumber,
                          incomingUnreliableSequenceNumber, i)

Marked(list, i, f) ==
  [k \in DOMAIN list |-> IF list[k].packet = i THEN [list[k] EXCEPT !.missing = @ \ {f}] ELSE list[k]]

\* Dispatches again when the fragment was the last that was missing.
WithFragment(queue, marked) ==
  IF \E k \in DOMAIN marked : marked[k] # queue.list[k] /\ marked[k].missing = {}
  THEN [DispatchUnreliable(marked, incomingReliableSequenceNumber, queue.unreliable, 0)
          EXCEPT !.dispatched = queue.dispatched \o @]
  ELSE [queue EXCEPT !.list = marked]

TakeFragment(queue, i, f) == TakeDispatched(WithFragment(queue, Marked(queue.list, i, f)))

\* enet_protocol_handle_send_unreliable_fragment
HandleSendUnreliableFragment(i, f) ==
  IF \/ ~InWindow(ReliableNumber(i), incomingReliableSequenceNumber)
     \/ Overtaken(i)
     \/ ~AlreadyQueued(i) /\ BufferFull
  THEN Discard
  ELSE /\ TakeFragment(WithPacket(i), i, f)
       /\ totalWaitingData' = totalWaitingData + IF AlreadyQueued(i) THEN 0 ELSE sent[i].count
       /\ UNCHANGED <<incomingReliableSequenceNumber, incomingUnsequencedGroup,
                      unsequencedWindow, incomingReliableCommands>>

\* incomingUnsequencedGroup and unsequencedWindow when group arrives
WindowOf(group) ==
  LET first == group - (group % GroupWindowSize)
  IN  [group |-> first,
       bits |-> IF first = incomingUnsequencedGroup THEN unsequencedWindow ELSE {}]

\* Mutant: a group of an earlier window is ahead by the whole space.
GroupIsOldNever(group) == FALSE

GroupIsOld(group) ==
  group + (IF group < incomingUnsequencedGroup THEN GroupSpace ELSE 0)
    >= incomingUnsequencedGroup + FreeGroupWindows * GroupWindowSize

\* enet_protocol_handle_send_unsequenced.  The window has moved when the
\* packet is refused; its bit is set only when it is not.
HandleSendUnsequenced(i) ==
  LET group == GroupNumber(i)
      window == WindowOf(group)
      index == group % GroupWindowSize
      to == DispatchUnreliable(QueuedBehind(0, i, {}), incomingReliableSequenceNumber,
                               incomingUnreliableSequenceNumber, i)
  IN  IF GroupIsOld(group) \/ index \in window.bits
      THEN Discard
      ELSE /\ incomingUnsequencedGroup' = window.group
           /\ IF BufferFull
              THEN /\ unsequencedWindow' = window.bits
                   /\ UNCHANGED <<incomingUnreliableSequenceNumber,
                                  incomingUnreliableCommands, dispatchedCommands,
                                  totalWaitingData>>
              ELSE /\ unsequencedWindow' = window.bits \cup {index}
                   /\ TakeDispatched(to)
                   /\ totalWaitingData' = totalWaitingData + sent[i].count
           /\ UNCHANGED <<incomingReliableSequenceNumber, incomingReliableCommands>>

-----------------------------------------------------------------------------
(* The network.                                                            *)

\* The last unsequenced packet dispatched or refused has at least this group.
LastGroup ==
  Max({StartGroup} \cup
      {sent[i].group : i \in {j \in Range(dispatchedCommands \o received) :
                                sent[j].kind = "unsequenced"}})

\* What may arrive: nothing older than the lifetimes, and no reliable command
\* that check_outgoing_commands still holds back for its window (EnetReliable).
MayArrive(c) ==
  LET p == sent[c.packet] IN
  CASE p.kind = "unsequenced" -> p.group + GroupLifetime >= LastGroup
    [] p.kind = "reliable" -> /\ p.reliable + Lifetime >= Dispatched
                              /\ p.reliable <= Dispatched + (FreeWindows - 1) * WindowSize
    [] OTHER -> p.reliable + Lifetime >= Dispatched

\* A reliable command is sent again until it was received.
Acknowledged(i) ==
  i \in incomingReliableCommands \cup Range(dispatchedCommands \o received)

\* A command arrives; keep says whether a copy stays in the network.
Receive(c, keep) ==
  LET i == c.packet IN
  /\ sent[i].kind = "reliable" => keep
  /\ CASE sent[i].kind = "reliable" -> HandleSendReliable(i)
       [] sent[i].kind = "unreliable" -> HandleSendUnreliable(i)
       [] sent[i].kind = "unsequenced" -> HandleSendUnsequenced(i)
       [] OTHER -> HandleSendUnreliableFragment(i, c.fragment)
  /\ network' = IF keep THEN network ELSE network \ {c}
  /\ UNCHANGED <<senderVars, received>>

LoseCommand(c) ==
  /\ sent[c.packet].kind = "reliable" => Acknowledged(c.packet)
  /\ network' = network \ {c}
  /\ UNCHANGED <<senderVars, receiverVars, received>>

\* enet_peer_receive
EnetPeerReceive ==
  /\ dispatchedCommands # <<>>
  /\ received' = Append(received, Head(dispatchedCommands))
  /\ dispatchedCommands' = Tail(dispatchedCommands)
  /\ totalWaitingData' = totalWaitingData - sent[Head(dispatchedCommands)].count
  /\ UNCHANGED <<senderVars, network, incomingReliableSequenceNumber,
                 incomingUnreliableSequenceNumber, incomingUnsequencedGroup,
                 unsequencedWindow, incomingReliableCommands,
                 incomingUnreliableCommands>>

Next ==
  \/ \E flag \in Flags, count \in FragmentCounts : EnetPeerSend(flag, count)
  \/ ThrottleOutgoing
  \/ SendOutgoing
  \/ \E c \in network, keep \in BOOLEAN : MayArrive(c) /\ Receive(c, keep)
  \/ \E c \in network : LoseCommand(c)
  \/ EnetPeerReceive

Spec == Init /\ [][Next]_vars

-----------------------------------------------------------------------------
(* Properties.                                                             *)

\* Every variable keeps its type; in particular totalWaitingData, unsigned
\* in the code, is never lowered by more than it was raised by
\* (enet_peer_receive, queue_incoming_command).
TypeOK ==
  /\ sent \in Seq(Packet)
  /\ outgoingReliableSequenceNumber \in Nat
  /\ outgoingUnreliableSequenceNumber \in 0..MaxUnreliable
  /\ outgoingUnsequencedGroup \in Nat
  /\ outgoingCommands \in Seq(Command)
  /\ transmitted \subseteq Command
  /\ network \subseteq Command
  /\ incomingReliableSequenceNumber \in 0..(SequenceSpace - 1)
  /\ incomingUnreliableSequenceNumber \in 0..MaxUnreliable
  /\ incomingUnsequencedGroup \in 0..(GroupSpace - 1)
  /\ unsequencedWindow \subseteq 0..(GroupWindowSize - 1)
  /\ incomingReliableCommands \subseteq DOMAIN sent
  /\ incomingUnreliableCommands \in Seq([packet : DOMAIN sent, missing : SUBSET Nat])
  /\ dispatchedCommands \in Seq(DOMAIN sent)
  /\ totalWaitingData \in Nat
  /\ received \in Seq(DOMAIN sent)

\* What is received is what PacketOrder allows: nothing twice, the sequenced
\* packets in the order of enet_peer_send, none before a reliable packet sent
\* ahead of it.  The code sees 16 bit numbers that start anew with every
\* reliable packet, a window of 1024 groups, and datagrams that come late,
\* twice and in any order.
Order ==
  INSTANCE PacketOrder WITH
    Reliable <- "reliable", Unreliable <- "unreliable", Unsequenced <- "unsequenced",
    kinds <- [i \in DOMAIN sent |->
                IF sent[i].kind = "fragment" THEN "unreliable" ELSE sent[i].kind]

KeepsOrder == Order!Spec

\* incomingUnreliableCommands holds only what is still to come, in the order
\* of sending: every packet in it is newer than the unreliable one dispatched
\* last, and one whose turn it is lacks a fragment.  A packet that stays
\* although it is complete would never be told of; one that stays although it
\* is old would be received out of order
\* (enet_peer_dispatch_incoming_unreliable_commands).
NothingOverdue ==
  /\ \A k \in DOMAIN incomingUnreliableCommands :
       LET e == incomingUnreliableCommands[k]
           p == sent[e.packet]
       IN  /\ p.kind # "unsequenced"
           /\ p.reliable >= Dispatched
           /\ p.reliable = Dispatched =>
                e.missing # {} /\ p.unreliable > incomingUnreliableSequenceNumber
  /\ \A k, l \in DOMAIN incomingUnreliableCommands :
       k < l => incomingUnreliableCommands[k].packet < incomingUnreliableCommands[l].packet

Queued == {incomingUnreliableCommands[k].packet : k \in DOMAIN incomingUnreliableCommands}

\* A packet whose fragments are being collected is given up only for a newer
\* one: a sequenced packet that is dispatched in its place, or two more that
\* are being collected behind it.  An unsequenced packet, which is put into
\* the same list, never costs it anything (the iterators of
\* enet_peer_dispatch_incoming_unreliable_commands).
DropsOnlyOvertaken ==
  [][\A i \in Queued \ Queued' :
       \/ \E j \in Range(dispatchedCommands' \o received') :
            sent[j].kind # "unsequenced" /\ j >= i
       \/ Cardinality({j \in Queued' : j > i}) >= 2]_vars

\* The throttle lets go of whole packets only: no fragment of a packet is
\* sent when another one was dropped, also when a datagram was full between
\* the two (the drop loop of enet_protocol_check_outgoing_commands).
ThrottleDropsWhole ==
  \A i \in DOMAIN sent :
    sent[i].kind # "reliable" =>
      LET left == Commands(i) \ (Range(outgoingCommands) \cup transmitted)
      IN  left \in {{}, Commands(i)}

=============================================================================
