---------------------------- MODULE EnetReliable ----------------------------
(***************************************************************************)
(* The reliable packets of one connection, in one direction: the sending   *)
(* half of an ENetPeer (enet_peer_send, check_outgoing_commands,           *)
(* check_timeouts, handle_acknowledge) and the receiving half of the peer  *)
(* at the other end (handle_send_reliable, handle_send_fragment,           *)
(* queue_incoming_command, dispatch_incoming_reliable_commands,            *)
(* queue_acknowledgement, enet_peer_receive), joined by a network that     *)
(* loses, duplicates and reorders datagrams.                               *)
(*                                                                         *)
(* Every reliable command of a channel has a position in the channel's     *)
(* stream: 1, 2, 3, ...  The code only ever sees the position modulo 2^16, *)
(* here modulo ReliableWindows * WindowSize.  Positions identify the       *)
(* payload of a command and are never compared by the modelled code.       *)
(***************************************************************************)
EXTENDS Integers, Sequences, FiniteSets

CONSTANTS
  Channels,         \* channels of the connection
  ReliableWindows,  \* ENET_PEER_RELIABLE_WINDOWS, 16 in the code
  WindowSize,       \* ENET_PEER_RELIABLE_WINDOW_SIZE, 0x1000 in the code
  FreeWindows,      \* ENET_PEER_FREE_RELIABLE_WINDOWS, 8 in the code
  FragmentCounts,   \* commands a packet may need; 1 is an unfragmented packet
  MaxInTransit,     \* largest value of MAX(windowSize, mtu), in commands
  MaxWaiting,       \* host->maximumWaitingData, in commands
  StartPosition,    \* commands delivered and acknowledged before the start
  MaxSequence,      \* bound: last position used on a channel
  MaxUnsent,        \* bound: commands queued and never sent
  NetCapacity,      \* bound: datagrams in flight, the surplus is dropped
  Lifetime          \* a datagram dies before the channel's stream has
                    \* advanced by more than Lifetime commands

ASSUME WindowAssumption ==
  /\ ReliableWindows \in Nat
  /\ FreeWindows \in Nat
  /\ WindowSize \in Nat \ {0}
  /\ 2 < FreeWindows
  /\ FreeWindows + 2 < ReliableWindows

ASSUME LimitAssumption ==
  /\ FragmentCounts \subseteq Nat \ {0}
  /\ MaxInTransit \in Nat \ {0}
  /\ MaxWaiting \in Nat
  /\ StartPosition \in Nat
  /\ MaxSequence \in Nat
  /\ MaxUnsent \in Nat
  /\ NetCapacity \in Nat
  /\ Lifetime \in Nat

\* What is left of the sequence space when a datagram dies is wider than two
\* windows.  The code cannot tell a datagram older than that from a new one
\* with the same sequence number, and relies on there being none.
ASSUME LifetimeAssumption == Lifetime + 2 * WindowSize <= ReliableWindows * WindowSize

VARIABLES
  \* the sender
  outgoingReliableSequenceNumber,  \* [c]: position of the last command queued
  unsent,               \* outgoingSendReliableCommands with sendAttempts = 0
  resend,               \* outgoingSendReliableCommands with sendAttempts > 0
  sentReliableCommands, \* sent and waiting for an acknowledgement
  reliableWindows,      \* [c][w]: commands of window w sent and not acknowledged
  usedReliableWindows,  \* [c]: the set of bits that are 1
  reliableDataInTransit,
  \* the receiver
  incomingReliableSequenceNumber,  \* [c]: a sequence number, not a position
  incomingReliableCommands,        \* [c]: received, not yet in order
  dispatchedCommands,   \* in order, waiting for enet_peer_receive
  totalWaitingData,
  acknowledgements,     \* acknowledgements the next datagram will carry
  \* the network
  dataNet,
  ackNet,
  \* what the applications at the two ends have seen
  pending,              \* [c]: packets sent and not received
  delivered             \* [c]: the last packet received

senderVars == <<outgoingReliableSequenceNumber, unsent, resend,
                sentReliableCommands, reliableWindows, usedReliableWindows,
                reliableDataInTransit>>
receiverVars == <<incomingReliableSequenceNumber, incomingReliableCommands,
                  dispatchedCommands, totalWaitingData, acknowledgements>>
netVars == <<dataNet, ackNet>>
appVars == <<pending, delivered>>
vars == <<senderVars, receiverVars, netVars, appVars>>

-----------------------------------------------------------------------------
(* Sequence numbers and windows.                                           *)

SequenceSpace == ReliableWindows * WindowSize

SequenceNumber(n) == n % SequenceSpace

Window(s) == s \div WindowSize

\* reliableWindow - currentWindow as queue_incoming_command,
\* handle_send_fragment and queue_acknowledgement compute it
RelativeWindow(s, r) ==
  Window(s) + (IF s < r THEN ReliableWindows ELSE 0) - Window(r)

\* Mutant: a receive window that is one window too large.
InReceiveWindowTooLarge(s, r) == RelativeWindow(s, r) < FreeWindows

InReceiveWindow(s, r) == RelativeWindow(s, r) < FreeWindows - 1

\* Mutant: every command is acknowledged, also one discarded as too new.
WithholdsNoAcknowledgement(s, r) == FALSE

WithholdsAcknowledgement(s, r) ==
  RelativeWindow(s, r) \in {FreeWindows - 1, FreeWindows}

-----------------------------------------------------------------------------
(* A command names its packet by the position of the packet's first        *)
(* command and by the number of commands; count = 1 is SEND_RELIABLE,      *)
(* count > 1 is SEND_FRAGMENT.                                             *)

Command == [ch : Channels, num : Nat, start : Nat, count : Nat]

PacketCommands(c, first, k) ==
  [i \in 1..k |-> [ch |-> c, num |-> first + i - 1, start |-> first, count |-> k]]

\* The payload of a packet: the positions of its commands.
Packet(first, k) == [i \in 1..k |-> first + i - 1]

\* A packet being assembled.  data[i] is the position of the command whose
\* payload was copied to slot i, 0 while bit i of fragments is clear.
IncomingCommand == [seq : 0..(SequenceSpace - 1), data : Seq(Nat)]

\* Mutant: a packet is complete with its first fragment.
CompleteTooSoon(e) == \E i \in DOMAIN e.data : e.data[i] # 0

Complete(e) == \A i \in DOMAIN e.data : e.data[i] # 0

LastSequenceNumber(e) == (e.seq + Len(e.data) - 1) % SequenceSpace

Acknowledgement == [ch : Channels, num : Nat]

Outstanding == sentReliableCommands \cup resend

\* A connection starts at StartPosition = 0; a larger value starts from the
\* state of a connection whose first commands have all been delivered and
\* acknowledged, so that a short run crosses the wrap of sequence numbers.
Init ==
  /\ outgoingReliableSequenceNumber = [c \in Channels |-> StartPosition]
  /\ unsent = <<>>
  /\ resend = {}
  /\ sentReliableCommands = {}
  /\ reliableWindows = [c \in Channels |-> [w \in 0..(ReliableWindows - 1) |-> 0]]
  /\ usedReliableWindows = [c \in Channels |-> {}]
  /\ reliableDataInTransit = 0
  /\ incomingReliableSequenceNumber = [c \in Channels |-> SequenceNumber(StartPosition)]
  /\ incomingReliableCommands = [c \in Channels |-> <<>>]
  /\ dispatchedCommands = <<>>
  /\ totalWaitingData = 0
  /\ acknowledgements = {}
  /\ dataNet = {}
  /\ ackNet = {}
  /\ pending = [c \in Channels |-> <<>>]
  /\ delivered = [c \in Channels |-> <<>>]

-----------------------------------------------------------------------------
(* The network.  It keeps a datagram until it is delivered for the last    *)
(* time, lost, or outlived; a datagram it has no room for is lost.         *)

Transmit(net, msgs) ==
  IF Cardinality(net \cup msgs) <= NetCapacity THEN net \cup msgs ELSE net

Alive(net, c, n) == {x \in net : x.ch = c => n <= x.num + Lifetime}

LoseData ==
  /\ \E m \in dataNet : dataNet' = dataNet \ {m}
  /\ UNCHANGED <<senderVars, receiverVars, ackNet, appVars>>

LoseAcknowledgement ==
  /\ \E a \in ackNet : ackNet' = ackNet \ {a}
  /\ UNCHANGED <<senderVars, receiverVars, dataNet, appVars>>

-----------------------------------------------------------------------------
(* The sender.                                                             *)

\* enet_peer_send of a reliable packet: number the commands of the packet
\* and append them to outgoingSendReliableCommands.
EnetPeerSend(c, k) ==
  LET first == outgoingReliableSequenceNumber[c] + 1 IN
  /\ outgoingReliableSequenceNumber[c] + k <= MaxSequence
  /\ Len(unsent) + k <= MaxUnsent
  /\ outgoingReliableSequenceNumber' = [outgoingReliableSequenceNumber EXCEPT ![c] = @ + k]
  /\ unsent' = unsent \o PacketCommands(c, first, k)
  /\ pending' = [pending EXCEPT ![c] = Append(@, Packet(first, k))]
  /\ UNCHANGED <<resend, sentReliableCommands, reliableWindows,
                 usedReliableWindows, reliableDataInTransit, receiverVars,
                 netVars, delivered>>

\* The first command of a window waits until the window before it has an
\* acknowledged command and the windows that would look old are unused.
WindowBlocked(c, s) ==
  /\ s % WindowSize = 0
  /\ \/ reliableWindows[c][(Window(s) + ReliableWindows - 1) % ReliableWindows] >= WindowSize
     \/ \E k \in 0..(FreeWindows + 1) :
          (Window(s) + k) % ReliableWindows \in usedReliableWindows[c]

\* Mutant: the command to be sent is not counted.
FitsInTransitPlusOne == reliableDataInTransit <= MaxInTransit

FitsInTransit == reliableDataInTransit + 1 <= MaxInTransit

\* One turn of the loop of check_outgoing_commands, on a command that was
\* sent before.  check_timeouts put these ahead of the unsent ones.
Resend(m) ==
  /\ m \in resend
  /\ FitsInTransit
  /\ resend' = resend \ {m}
  /\ sentReliableCommands' = sentReliableCommands \cup {m}
  /\ reliableDataInTransit' = reliableDataInTransit + 1
  /\ dataNet' = Transmit(dataNet, {m})
  /\ UNCHANGED <<outgoingReliableSequenceNumber, unsent, reliableWindows,
                 usedReliableWindows, receiverVars, ackNet, appVars>>

\* The same for a command that was never sent.  A blocked command ends the
\* pass for every reliable command behind it, whatever its channel.
FirstSend ==
  /\ unsent # <<>>
  /\ resend = {}
  /\ FitsInTransit
  /\ LET m == Head(unsent)
         s == SequenceNumber(m.num)
     IN /\ ~WindowBlocked(m.ch, s)
        /\ unsent' = Tail(unsent)
        /\ usedReliableWindows' = [usedReliableWindows EXCEPT ![m.ch] = @ \cup {Window(s)}]
        /\ reliableWindows' = [reliableWindows EXCEPT ![m.ch][Window(s)] = @ + 1]
        /\ sentReliableCommands' = sentReliableCommands \cup {m}
        /\ reliableDataInTransit' = reliableDataInTransit + 1
        /\ dataNet' = Transmit(Alive(dataNet, m.ch, m.num), {m})
        /\ ackNet' = Alive(ackNet, m.ch, m.num)
  /\ UNCHANGED <<outgoingReliableSequenceNumber, resend, receiverVars, appVars>>

\* check_timeouts: the commands whose round trip timeout has run out (any of
\* those in transit: time is abstracted) go back to the outgoing list.
CheckTimeouts(T) ==
  /\ T # {}
  /\ T \subseteq sentReliableCommands
  /\ sentReliableCommands' = sentReliableCommands \ T
  /\ resend' = resend \cup T
  /\ reliableDataInTransit' = reliableDataInTransit - Cardinality(T)
  /\ UNCHANGED <<outgoingReliableSequenceNumber, unsent, reliableWindows,
                 usedReliableWindows, receiverVars, netVars, appVars>>

\* Mutant: the channel of an acknowledgement is ignored.
AcknowledgesAnyChannel(a, m) == SequenceNumber(m.num) = SequenceNumber(a.num)

\* Mutant: the sequence numbers are compared without their top bit.
AcknowledgesNarrow(a, m) ==
  /\ m.ch = a.ch
  /\ SequenceNumber(m.num) % (SequenceSpace \div 2)
       = SequenceNumber(a.num) % (SequenceSpace \div 2)

\* The command an acknowledgement is taken to be for: one with the same
\* channel and sequence number, searched in sentReliableCommands first.
Acknowledges(a, m) ==
  m.ch = a.ch /\ SequenceNumber(m.num) = SequenceNumber(a.num)

FindSentReliableCommand(a) ==
  LET sent == {m \in sentReliableCommands : Acknowledges(a, m)}
  IN IF sent # {} THEN sent ELSE {m \in resend : Acknowledges(a, m)}

\* Mutant: the bit of a window is cleared while commands remain in it.
ClearWindowEarly(c, w, n) == usedReliableWindows' = [usedReliableWindows EXCEPT ![c] = @ \ {w}]

ClearWindow(c, w, n) ==
  usedReliableWindows' =
    IF n = 1 THEN [usedReliableWindows EXCEPT ![c] = @ \ {w}] ELSE usedReliableWindows

\* Mutant: a command waiting to be resent is taken off the data in transit
\* a second time, without the test of wasSent.
LeavesTransitTwice(m) == 1

\* Mutant: what is acknowledged stays counted as in transit.
LeavesTransitNever(m) == 0

\* A command waiting to be resent left the data in transit when it timed out.
LeavesTransit(m) == IF m \in sentReliableCommands THEN 1 ELSE 0

RemoveSentReliableCommand(m) ==
  LET w == Window(SequenceNumber(m.num))
      n == reliableWindows[m.ch][w]
  IN /\ IF n > 0
        THEN /\ reliableWindows' = [reliableWindows EXCEPT ![m.ch][w] = n - 1]
             /\ ClearWindow(m.ch, w, n)
        ELSE UNCHANGED <<reliableWindows, usedReliableWindows>>
     /\ sentReliableCommands' = sentReliableCommands \ {m}
     /\ resend' = IF m \in sentReliableCommands THEN resend ELSE resend \ {m}
     /\ reliableDataInTransit' = reliableDataInTransit - LeavesTransit(m)

\* handle_acknowledge.  An acknowledgement of nothing changes nothing.
HandleAcknowledge(a, net) ==
  /\ a \in ackNet
  /\ ackNet' = net
  /\ \/ \E m \in FindSentReliableCommand(a) : RemoveSentReliableCommand(m)
     \/ /\ FindSentReliableCommand(a) = {}
        /\ UNCHANGED <<resend, sentReliableCommands, reliableWindows,
                       usedReliableWindows, reliableDataInTransit>>
  /\ UNCHANGED <<outgoingReliableSequenceNumber, unsent, receiverVars,
                 dataNet, appVars>>

-----------------------------------------------------------------------------
(* The receiver.                                                           *)

\* Mutant: sequence numbers are compared as if they never wrapped.
StopsAtUnwrapped(e, s, r) == e.seq <= s

\* The searches of queue_incoming_command and handle_send_fragment walk the
\* list from its end and stop at an entry that is not after s.
StopsAt(e, s, r) ==
  IF s >= r THEN e.seq >= r /\ e.seq <= s ELSE e.seq >= r \/ e.seq <= s

\* p is the index of the entry where the search stops, 0 at the list's head.
SearchStopsAt(list, s, r, p) ==
  /\ p # 0 => StopsAt(list[p], s, r)
  /\ \A j \in (p + 1)..Len(list) : ~StopsAt(list[j], s, r)

Found(list, s, p) == p # 0 /\ list[p].seq = s

InsertAfter(list, p, e) == SubSeq(list, 1, p) \o <<e>> \o SubSeq(list, p + 1, Len(list))

\* dispatch_incoming_reliable_commands moves the first k entries: those that
\* are complete and follow one another without a gap.
InOrder(list, r, k) ==
  \A i \in 1..k :
    /\ Complete(list[i])
    /\ list[i].seq =
         ((IF i = 1 THEN r ELSE LastSequenceNumber(list[i - 1])) + 1) % SequenceSpace

\* Mutant: the commands go to the front of dispatchedCommands.
DispatchToFront(c, list, k) ==
  [i \in 1..k |-> [ch |-> c, data |-> list[i].data]] \o dispatchedCommands

Dispatch(c, list, k) ==
  dispatchedCommands \o [i \in 1..k |-> [ch |-> c, data |-> list[i].data]]

DispatchIncomingReliableCommands(c, list) ==
  \E k \in 0..Len(list) :
    /\ InOrder(list, incomingReliableSequenceNumber[c], k)
    /\ k # Len(list) => ~InOrder(list, incomingReliableSequenceNumber[c], k + 1)
    /\ incomingReliableCommands' =
         [incomingReliableCommands EXCEPT ![c] = SubSeq(list, k + 1, Len(list))]
    /\ incomingReliableSequenceNumber' =
         IF k = 0 THEN incomingReliableSequenceNumber
         ELSE [incomingReliableSequenceNumber EXCEPT ![c] = LastSequenceNumber(list[k])]
    /\ dispatchedCommands' = Dispatch(c, list, k)

\* queue_acknowledgement, reached after the command was handled without error
QueueAcknowledgement(m) ==
  acknowledgements' =
    IF WithholdsAcknowledgement(SequenceNumber(m.num), incomingReliableSequenceNumber'[m.ch])
    THEN acknowledgements
    ELSE acknowledgements \cup {[ch |-> m.ch, num |-> m.num]}

\* The command is outside the receive window, taken for an old one.
DiscardCommand(m) ==
  /\ ~InReceiveWindow(SequenceNumber(m.start), incomingReliableSequenceNumber[m.ch])
  /\ UNCHANGED <<incomingReliableSequenceNumber, incomingReliableCommands,
                 dispatchedCommands, totalWaitingData>>
  /\ QueueAcknowledgement(m)

\* An unfragmented packet that was dispatched last or is in the list.
DiscardDuplicate(m, p) ==
  LET s == SequenceNumber(m.num) IN
  /\ m.count = 1
  /\ \/ s = incomingReliableSequenceNumber[m.ch]
     \/ Found(incomingReliableCommands[m.ch], s, p)
  /\ UNCHANGED <<incomingReliableSequenceNumber, incomingReliableCommands,
                 dispatchedCommands, totalWaitingData>>
  /\ QueueAcknowledgement(m)

\* A fragment of a packet in the list: copied once, dispatched when it is
\* the last one missing.
MarkFragment(m, p) ==
  LET list == incomingReliableCommands[m.ch]
      slot == m.num - m.start + 1
      marked == [list EXCEPT ![p].data[slot] = m.num]
  IN
  /\ m.count > 1
  /\ Found(list, SequenceNumber(m.start), p)
  /\ Len(list[p].data) = m.count
  /\ IF list[p].data[slot] # 0
     THEN UNCHANGED <<incomingReliableSequenceNumber, incomingReliableCommands,
                      dispatchedCommands>>
     ELSE IF Complete(marked[p])
          THEN DispatchIncomingReliableCommands(m.ch, marked)
          ELSE /\ incomingReliableCommands' =
                    [incomingReliableCommands EXCEPT ![m.ch] = marked]
               /\ UNCHANGED <<incomingReliableSequenceNumber, dispatchedCommands>>
  /\ UNCHANGED totalWaitingData
  /\ QueueAcknowledgement(m)

\* Mutant: only the fragment that arrived is counted as waiting.
FragmentDataLength(m) == 1

\* totalLength, the length of the whole packet, in commands
DataLength(m) == m.count

\* A packet the receiver has not heard of: queue_incoming_command inserts
\* it, whole or with its first fragment, and dispatches.
QueueIncomingCommand(m, p) ==
  LET s == SequenceNumber(m.start)
      e == [seq |-> s,
            data |-> [i \in 1..m.count |-> IF i = m.num - m.start + 1 THEN m.num ELSE 0]]
  IN
  /\ s # incomingReliableSequenceNumber[m.ch]
  /\ ~Found(incomingReliableCommands[m.ch], s, p)
  /\ totalWaitingData < MaxWaiting
  /\ totalWaitingData' = totalWaitingData + DataLength(m)
  /\ DispatchIncomingReliableCommands(m.ch,
       InsertAfter(incomingReliableCommands[m.ch], p, e))
  /\ QueueAcknowledgement(m)

\* The error paths: no room, a fragment of the packet dispatched last, a
\* fragment that does not fit the packet in the list.  Nothing is stored
\* and no acknowledgement is sent.
RefuseCommand(m, p) ==
  LET list == incomingReliableCommands[m.ch]
      s == SequenceNumber(m.start)
  IN
  /\ IF Found(list, s, p)
     THEN m.count > 1 /\ Len(list[p].data) # m.count
     ELSE \/ s = incomingReliableSequenceNumber[m.ch] /\ m.count > 1
          \/ s # incomingReliableSequenceNumber[m.ch] /\ totalWaitingData >= MaxWaiting
  /\ UNCHANGED receiverVars

\* A datagram with command m arrives.
HandleIncomingCommand(m, net) ==
  LET s == SequenceNumber(m.start)
      r == incomingReliableSequenceNumber[m.ch]
      list == incomingReliableCommands[m.ch]
  IN
  /\ m \in dataNet
  /\ dataNet' = net
  /\ \/ DiscardCommand(m)
     \/ /\ InReceiveWindow(s, r)
        /\ \E p \in 0..Len(list) :
             /\ SearchStopsAt(list, s, r, p)
             /\ \/ DiscardDuplicate(m, p)
                \/ MarkFragment(m, p)
                \/ QueueIncomingCommand(m, p)
                \/ RefuseCommand(m, p)
  /\ UNCHANGED <<senderVars, ackNet, appVars>>

\* send_acknowledgements empties the list into a datagram
SendAcknowledgements ==
  /\ acknowledgements # {}
  /\ acknowledgements' = {}
  /\ ackNet' = Transmit(ackNet, acknowledgements)
  /\ UNCHANGED <<senderVars, incomingReliableSequenceNumber,
                 incomingReliableCommands, dispatchedCommands,
                 totalWaitingData, dataNet, appVars>>

\* enet_peer_receive, called by the application or for an event
EnetPeerReceive ==
  /\ dispatchedCommands # <<>>
  /\ LET e == Head(dispatchedCommands)
     IN /\ dispatchedCommands' = Tail(dispatchedCommands)
        /\ totalWaitingData' = totalWaitingData - Len(e.data)
        /\ delivered' = [delivered EXCEPT ![e.ch] = e.data]
        /\ pending' = [pending EXCEPT ![e.ch] = IF @ = <<>> THEN @ ELSE Tail(@)]
  /\ UNCHANGED <<senderVars, incomingReliableSequenceNumber,
                 incomingReliableCommands, acknowledgements, netVars>>

-----------------------------------------------------------------------------

HandleData == \E m \in dataNet : \E net \in {dataNet, dataNet \ {m}} :
                HandleIncomingCommand(m, net)

HandleAck == \E a \in ackNet : \E net \in {ackNet, ackNet \ {a}} :
               HandleAcknowledge(a, net)

Next ==
  \/ \E c \in Channels, k \in FragmentCounts : EnetPeerSend(c, k)
  \/ \E m \in resend : Resend(m)
  \/ FirstSend
  \/ \E T \in SUBSET sentReliableCommands : CheckTimeouts(T)
  \/ HandleAck
  \/ HandleData
  \/ SendAcknowledgements
  \/ EnetPeerReceive
  \/ LoseData
  \/ LoseAcknowledgement

Spec == Init /\ [][Next]_vars

(***************************************************************************)
(* Fairness.  enet_host_service runs over and over on both hosts, so what  *)
(* may be sent is sent, what is due times out and what was dispatched is   *)
(* received; the network does not lose every copy of a datagram it is      *)
(* given again and again.  FirstSend is strongly fair because a pass of    *)
(* check_outgoing_commands goes on from the commands it resends to the     *)
(* unsent ones: a command that times out over and over ahead of them does  *)
(* not keep them from their turn.                                          *)
(***************************************************************************)
Fairness ==
  /\ SF_vars(FirstSend)
  /\ WF_vars(SendAcknowledgements)
  /\ WF_vars(EnetPeerReceive)
  /\ \A c \in Channels, n \in (StartPosition + 1)..MaxSequence :
       /\ WF_vars(\E m \in resend : m.ch = c /\ m.num = n /\ Resend(m))
       /\ WF_vars(\E m \in sentReliableCommands :
                    m.ch = c /\ m.num = n /\ CheckTimeouts({m}))
       /\ SF_vars(\E m \in dataNet :
                    /\ m.ch = c /\ m.num = n
                    /\ HandleIncomingCommand(m, dataNet \ {m}))
       /\ SF_vars(\E a \in ackNet :
                    /\ a.ch = c /\ a.num = n
                    /\ HandleAcknowledge(a, ackNet \ {a}))

FairSpec == Spec /\ Fairness

-----------------------------------------------------------------------------
(* Properties.                                                             *)

\* The variables hold what the ENetPeer and ENetChannel fields can hold:
\* sequence numbers stay inside their 16 bits and reliableDataInTransit, an
\* unsigned counter that is only ever added to and subtracted from, does not
\* go below 0.  (That totalWaitingData does not is WaitingAccounting.)
SenderType ==
  /\ outgoingReliableSequenceNumber \in [Channels -> Nat]
  /\ unsent \in Seq(Command)
  /\ resend \subseteq Command
  /\ sentReliableCommands \subseteq Command
  /\ reliableWindows \in [Channels -> [0..(ReliableWindows - 1) -> Nat]]
  /\ usedReliableWindows \in [Channels -> SUBSET (0..(ReliableWindows - 1))]
  /\ reliableDataInTransit \in Nat

ReceiverType ==
  /\ incomingReliableSequenceNumber \in [Channels -> 0..(SequenceSpace - 1)]
  /\ incomingReliableCommands \in [Channels -> Seq(IncomingCommand)]
  /\ dispatchedCommands \in Seq([ch : Channels, data : Seq(Nat)])
  /\ totalWaitingData \in Int
  /\ acknowledgements \subseteq Acknowledgement

NetType == dataNet \subseteq Command /\ ackNet \subseteq Acknowledgement

AppType ==
  /\ pending \in [Channels -> Seq(Seq(Nat))]
  /\ delivered \in [Channels -> Seq(Nat)]

TypeOK == SenderType /\ ReceiverType /\ NetType /\ AppType

\* The commands of window w of channel c that were sent and not acknowledged.
InWindow(c, w) == {m \in Outstanding : m.ch = c /\ Window(SequenceNumber(m.num)) = w}

\* The counters check_outgoing_commands, check_timeouts and
\* remove_sent_reliable_command keep by increments and decrements agree with
\* the lists: reliableWindows counts the outstanding commands of each window,
\* usedReliableWindows has the bits of the windows with some, and
\* reliableDataInTransit is what sentReliableCommands holds.  One command too
\* many or too few here stops the channel for good or lets it overrun.
WindowsCounted ==
  \A c \in Channels, w \in 0..(ReliableWindows - 1) :
    /\ reliableWindows[c][w] = Cardinality(InWindow(c, w))
    /\ w \in usedReliableWindows[c] <=> InWindow(c, w) # {}

TransitCounted == reliableDataInTransit = Cardinality(sentReliableCommands)

WindowAccounting == WindowsCounted /\ TransitCounted

\* What the packets in a list weigh, in commands.
Lengths(list) ==
  LET total[i \in 0..Len(list)] == IF i = 0 THEN 0 ELSE total[i - 1] + Len(list[i].data)
  IN  total[Len(list)]

\* One element for every command's worth of data in the lists of the channels.
WaitingIn(lists) == UNION {{c} \X (1..Lengths(lists[c])) : c \in Channels}

\* totalWaitingData is what the receiver holds: enet_peer_receive gives back
\* exactly what queue_incoming_command took, for every packet, so that the
\* limit maximumWaitingData neither leaks nor is overrun.
WaitingAccounting ==
  totalWaitingData =
    Lengths(dispatchedCommands) + Cardinality(WaitingIn(incomingReliableCommands))

\* A command that was handed back to the outgoing list counts against the
\* limit on data in transit when it is sent again and never twice, so timing
\* out and resending cannot push the outstanding data over the limit.
OutstandingBounded == Cardinality(Outstanding) <= MaxInTransit

\* The receiver has the payload of position n of channel c.
Holds(c, n) ==
  \/ \E i \in DOMAIN dispatchedCommands :
       /\ dispatchedCommands[i].ch = c
       /\ \E j \in DOMAIN dispatchedCommands[i].data : dispatchedCommands[i].data[j] = n
  \/ \E i \in DOMAIN incomingReliableCommands[c] :
       \E j \in DOMAIN incomingReliableCommands[c][i].data :
         incomingReliableCommands[c][i].data[j] = n

\* The sender forgets a command (remove_sent_reliable_command) only when the
\* receiver has its payload or has delivered it: an acknowledgement is never
\* sent for a command the receiver discarded as too new, although
\* queue_acknowledgement does acknowledge what it discarded as old.
AcknowledgedIsHeld ==
  \A c \in Channels : \A i \in DOMAIN pending[c] : \A j \in DOMAIN pending[c][i] :
    LET n == pending[c][i][j] IN
    \/ Holds(c, n)
    \/ \E m \in Outstanding : m.ch = c /\ m.num = n
    \/ \E k \in DOMAIN unsent : unsent[k].ch = c /\ unsent[k].num = n

\* A late or duplicated acknowledgement is never taken for one of a newer
\* command with the same 16 bit sequence number, at any time it may arrive.
AcknowledgementsMatch ==
  \A a \in ackNet : \A m \in FindSentReliableCommand(a) : m.num = a.num

\* Distance from the last sequence number dispatched to s.
Ahead(c, s) == (s - incomingReliableSequenceNumber[c] - 1) % SequenceSpace

\* incomingReliableCommands is sorted from the next sequence number on, its
\* packets do not overlap, also where the numbers wrap to 0, and its head is
\* not a packet that could have been dispatched already.
IncomingSorted ==
  \A c \in Channels :
    LET list == incomingReliableCommands[c] IN
    /\ \A i, j \in DOMAIN list :
         i < j => Ahead(c, list[i].seq) + Len(list[i].data) <= Ahead(c, list[j].seq)
    /\ list # <<>> => ~InOrder(list, incomingReliableSequenceNumber[c], 1)

\* The reliable stream is a FIFO queue per channel: what enet_peer_receive
\* returns is, whole and in order, what enet_peer_send was given.
Stream == INSTANCE ReliableStream WITH Packets <- {Packet(n, k) : n \in 1..MaxSequence, k \in FragmentCounts}

StreamIsFIFO == Stream!Spec

\* Every reliable packet is received in the end: no loss, refusal, window or
\* timeout leaves the stream waiting for something that cannot happen.  The
\* applications send finitely many packets, so all are received at last.
EventuallyDelivered == <>[](\A c \in Channels : pending[c] = <<>>)

=============================================================================
