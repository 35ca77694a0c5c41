---------------------------- MODULE EnetPackets -----------------------------
(***************************************************************************)
(* The memory of a host: its packets with their reference counts, the      *)
(* commands that point to them, and the linked lists the commands are in.  *)
(* Which command an operation picks is left open wherever it depends on    *)
(* numbers, windows or times (EnetReliable, EnetIncoming and EnetTiming    *)
(* model those); what it does to counts and lists is as in the code.       *)
(***************************************************************************)
EXTENDS EnetList, Integers, SequencesExt

CONSTANTS
  Peers,
  Packets,        \* the addresses enet_malloc gives packets
  Commands,       \* and commands
  MaxFragments,   \* a packet is at most that many fragments
  None

\* The lists of a peer, the list of one sending pass, and the local list of enet_peer_send.
Queues == {"outgoing", "sendReliable", "sent", "incoming", "dispatched"}
SentUnreliable == <<"sentUnreliable", None>>
Fragments == <<"fragments", None>>
Sentinels == (Queues \X Peers) \cup {SentUnreliable, Fragments}
Nodes == Commands \cup Sentinels

\* The memory is finite, and the sentinels are parts of other structures than commands.
ASSUME PacketsAssumption ==
  /\ IsFiniteSet(Peers) /\ IsFiniteSet(Commands)
  /\ MaxFragments \in Nat \ {0}
  /\ Commands \cap Sentinels = {}
  /\ None \notin Peers \cup Packets \cup Nodes

\* A command that is not allocated, and the kinds of those that are.
Free == [kind |-> "free", packet |-> None, first |-> FALSE, attempted |-> FALSE]
Kinds == {"reliable", "unreliable", "unsequenced"}
Controls == {"control", "notice"}   \* without a packet: acknowledged, and not

VARIABLES
  memory,    \* [heap, command, count, holder]: the list fields of the nodes, the commands,
             \* referenceCount of the packets, and who has to free each packet
  sending,   \* the peer whose datagram is being assembled, or None
  buffers    \* the packets the buffers of that datagram point into

vars == <<memory, sending, buffers>>

Holders == {"nobody", "application", "library"}

FreeCommands(m) == {c \in Commands : m.command[c] = Free}
FreePackets(m) == {k \in Packets : m.holder[k] = "nobody"}
Queue(queue, peer) == <<queue, peer>>
Elements(m, list) == ElementsOf(m.heap, list)
Empty(m, list) == m.heap.next[list] = list
FirstOf(m, list) == m.heap.next[list]

\* Nothing is set in memory that was just allocated.
Unset == [next |-> [n \in Nodes |-> None], previous |-> [n \in Nodes |-> None]]

Init ==
  /\ memory = [heap |-> [next     |-> [n \in Nodes |-> IF n \in Sentinels THEN EnetListClear(Unset, n).next[n]
                                                     ELSE None],
                       previous |-> [n \in Nodes |-> IF n \in Sentinels THEN EnetListClear(Unset, n).previous[n]
                                                     ELSE None]],
               command |-> [c \in Commands |-> Free],
               count |-> [k \in Packets |-> 0],
               holder |-> [k \in Packets |-> "nobody"]]
  /\ sending = None
  /\ buffers = {}

-----------------------------------------------------------------------------
(* What the operations are made of.                                        *)

\* A loop of n rounds.
Repeat(Step(_), n, m) ==
  LET after[i \in 0..n] == IF i = 0 THEN m ELSE Step(after[i - 1]) IN after[n]

\* while (!enet_list_empty(list)): Body for the command at the front.
Drain(Body(_, _), list, m) ==
  Repeat(LAMBDA x : IF Empty(x, list) THEN x ELSE Body(x, FirstOf(x, list)), Cardinality(Commands), m)

\* One round of a walk along a list: the next command is read before Body is done.
Stride(Body(_, _), list, walk) ==
  IF walk.current = list THEN walk
  ELSE [memory  |-> Body(walk.memory, walk.current),
        current |-> walk.memory.heap.next[walk.current]]

\* Body for the first n commands of a list.
Walk(Body(_, _), list, n, m) ==
  Repeat(LAMBDA walk : Stride(Body, list, walk), n, [memory |-> m, current |-> FirstOf(m, list)]).memory

Push(m, position, c) == [m EXCEPT !.heap = EnetListInsert(@, position, c)]
Unlink(m, c) == [m EXCEPT !.heap = EnetListRemove(@, c)]

\* enet_malloc of a command, which is in no list yet.
NewCommand(m, c, record) == [m EXCEPT !.command[c] = record]

\* enet_free of a command: nothing can be read of it any more.
FreeCommand(m, c) ==
  [m EXCEPT !.command[c] = Free,
            !.heap = [next     |-> [m.heap.next EXCEPT ![c] = None],
                      previous |-> [m.heap.previous EXCEPT ![c] = None]]]

\* enet_packet_destroy.
EnetPacketDestroy(m, k) ==
  [m EXCEPT !.holder[k] = IF @ = "nobody" THEN "freedTwice" ELSE "nobody"]

\* Mutants: the count is tested before it is lowered; it is never found to be zero.
ReleaseTestsFirst(m, k) ==
  IF k = None THEN m
  ELSE IF m.count[k] = 1 THEN EnetPacketDestroy(m, k) ELSE [m EXCEPT !.count[k] = @ - 1]
ReleaseMissesZero(m, k) ==
  IF k = None THEN m
  ELSE LET less == [m EXCEPT !.count[k] = @ - 1]
       IN  IF less.count[k] < 0 THEN EnetPacketDestroy(less, k) ELSE less

\* --referenceCount, and the packet is destroyed by the last that lets go of it.
Release(m, k) ==
  IF k = None THEN m
  ELSE LET less == [m EXCEPT !.count[k] = @ - 1]
       IN  IF less.count[k] = 0 THEN EnetPacketDestroy(less, k) ELSE less

\* A command leaves its list, lets go of its packet and is freed.
DropCommand(m, c) == FreeCommand(Release(Unlink(m, c), m.command[c].packet), c)

DropAll(m, list) == Drain(DropCommand, list, m)

\* enet_peer_setup_outgoing_command: the list a command waits in.
SetupOutgoing(m, peer, c) ==
  Push(m, Queue(IF m.command[c].kind = "reliable" THEN "sendReliable" ELSE "outgoing", peer), c)

\* The fragments of enet_peer_send are allocated into a list of its own.
Allocate(m, k, kind) ==
  LET c == CHOOSE c \in FreeCommands(m) : TRUE
  IN  Push(NewCommand(m, c, [kind |-> kind, packet |-> k, first |-> Empty(m, Fragments), attempted |-> FALSE]),
           Fragments, c)
AllocateFragments(m, k, kind, n) == Repeat(LAMBDA x : Allocate(x, k, kind), n, m)

\* If one cannot be, those there are freed again; if all are, they are queued.
GiveBack(m, c) == FreeCommand(Unlink(m, c), c)
FreeFragments(m) == Drain(GiveBack, Fragments, m)
HandOver(m, peer, c) == SetupOutgoing(Unlink(m, c), peer, c)
Refer(m, k, n) == [m EXCEPT !.count[k] = @ + n]
SetupFragments(m, peer) == Drain(LAMBDA x, c : HandOver(x, peer, c), Fragments, m)

EnetPeerSend(m, peer, k, kind, pieces, got) ==
  LET allocated == AllocateFragments(m, k, kind, got)
  IN  IF got < pieces THEN FreeFragments(allocated)
      ELSE SetupFragments(Refer(allocated, k, pieces), peer)

-----------------------------------------------------------------------------
(* The application.                                                        *)

Idle == sending = None

EnetPacketCreate ==
  /\ Idle
  /\ \E k \in FreePackets(memory) : memory' = [memory EXCEPT !.holder[k] = "application"]
  /\ UNCHANGED <<sending, buffers>>

\* The application frees a packet of its own.
ApplicationDestroys ==
  /\ Idle
  /\ \E k \in Packets : /\ memory.holder[k] = "application"
                        /\ memory' = EnetPacketDestroy(memory, k)
  /\ UNCHANGED <<sending, buffers>>

\* The pieces of a packet: an unsequenced one is never in fragments.
PiecesOf(kind) == 1..(IF kind = "unsequenced" THEN 1 ELSE MaxFragments)

\* The allocations that succeed, of those asked for.
Allocations(m, wanted) ==
  LET free == Cardinality(FreeCommands(m)) IN IF wanted < free THEN wanted ELSE free

\* enet_peer_send: ENet owns a packet that is queued, the application one that is not.
ApplicationSends(peer) ==
  /\ Idle
  /\ \E k \in Packets, kind \in Kinds : \E pieces \in PiecesOf(kind), wanted \in 0..MaxFragments :
       LET got == Allocations(memory, wanted)
           sent == EnetPeerSend(memory, peer, k, kind, pieces, got)
       IN  /\ memory.holder[k] = "application"
           /\ wanted <= pieces
           /\ memory' = IF got < pieces THEN sent ELSE [sent EXCEPT !.holder[k] = "library"]
  /\ UNCHANGED <<sending, buffers>>

\* One round of enet_host_broadcast: a peer that is connected is sent the packet.
BroadcastTo(round, k, kind, pieces, wanted) ==
  LET p == CHOOSE p \in round.left : TRUE
  IN  IF round.left = {} THEN round
      ELSE [memory |-> EnetPeerSend(round.memory, p, k, kind, pieces, Allocations(round.memory, wanted[p])),
            left   |-> round.left \ {p}]

Broadcast(m, k, kind, pieces, connected, wanted) ==
  Repeat(LAMBDA round : BroadcastTo(round, k, kind, pieces, wanted), Cardinality(connected),
         [memory |-> m, left |-> connected]).memory

\* enet_host_broadcast to the peers that are connected; some sends may fail.
EnetHostBroadcast ==
  /\ Idle
  /\ \E k \in Packets, kind \in Kinds, connected \in SUBSET Peers :
     \E pieces \in PiecesOf(kind), wanted \in [connected -> 0..MaxFragments] :
       LET sent == Broadcast(memory, k, kind, pieces, connected, wanted)
       IN  /\ memory.holder[k] = "application"
           /\ \A p \in connected : wanted[p] <= pieces
           /\ memory' = IF sent.count[k] = 0 THEN EnetPacketDestroy(sent, k)
                        ELSE [sent EXCEPT !.holder[k] = "library"]
  /\ UNCHANGED <<sending, buffers>>

\* enet_peer_receive: the application gets the packet, with no reference left to it.
EnetPeerReceive(peer) ==
  LET c == FirstOf(memory, Queue("dispatched", peer))
      k == memory.command[c].packet
  IN  /\ Idle
      /\ ~Empty(memory, Queue("dispatched", peer))
      /\ memory' = [FreeCommand(Unlink(memory, c), c) EXCEPT !.count[k] = @ - 1,
                                                             !.holder[k] = "application"]
      /\ UNCHANGED <<sending, buffers>>

\* enet_peer_reset_queues, of a peer that is disconnected or given up.
EnetPeerResetQueues(peer) ==
  LET Dropped(m, queue) == DropAll(m, Queue(queue, peer))
      outgoing == Dropped(Dropped(Dropped(memory, "sent"), "outgoing"), "sendReliable")
  IN  /\ Idle
      /\ memory' = Dropped(Dropped(outgoing, "dispatched"), "incoming")
      /\ UNCHANGED <<sending, buffers>>

-----------------------------------------------------------------------------
(* Sending: the passes of enet_protocol_send_outgoing_commands.            *)

\* A command without a packet is queued: a ping, a setting, or the notice of a
\* disconnection that is not acknowledged.
QueueControl(peer, kind) ==
  /\ Idle
  /\ FreeCommands(memory) # {}
  /\ LET c == CHOOSE c \in FreeCommands(memory) : TRUE
     IN  memory' = SetupOutgoing(NewCommand(memory, c, [Free EXCEPT !.kind = kind]), peer, c)
  /\ UNCHANGED <<sending, buffers>>

MaySend(peer) == sending \in {None, peer}

PointInto(k) == buffers' = IF k = None THEN buffers ELSE buffers \cup {k}

\* A command that is acknowledged goes into the datagram and waits among the sent.
TakeReliable(peer, queue) ==
  LET c == FirstOf(memory, Queue(queue, peer))
  IN  /\ MaySend(peer)
      /\ ~Empty(memory, Queue(queue, peer))
      /\ memory.command[c].kind \in {"reliable", "control"}
      /\ memory' = [Push(Unlink(memory, c), Queue("sent", peer), c) EXCEPT !.command[c].attempted = TRUE]
      /\ PointInto(memory.command[c].packet)
      /\ sending' = peer

\* As TakeUnreliable, with the command freed when it is written, not when it is sent.
TakeUnreliableFreesAtOnce(peer) ==
  LET c == FirstOf(memory, Queue("outgoing", peer))
  IN  /\ MaySend(peer)
      /\ ~Empty(memory, Queue("outgoing", peer))
      /\ memory.command[c].kind \in {"unreliable", "unsequenced"}
      /\ memory' = DropCommand(memory, c)
      /\ PointInto(memory.command[c].packet)
      /\ sending' = peer

\* One that is not goes into the datagram and into the list of the pass.
TakeUnreliable(peer) ==
  LET c == FirstOf(memory, Queue("outgoing", peer))
  IN  /\ MaySend(peer)
      /\ ~Empty(memory, Queue("outgoing", peer))
      /\ memory.command[c].kind \in {"unreliable", "unsequenced"}
      /\ memory' = Push(Unlink(memory, c), SentUnreliable, c)
      /\ PointInto(memory.command[c].packet)
      /\ sending' = peer

\* One without a packet needs no list: it is freed when it is written.
TakeNotice(peer) ==
  LET c == FirstOf(memory, Queue("outgoing", peer))
  IN  /\ MaySend(peer)
      /\ ~Empty(memory, Queue("outgoing", peer))
      /\ memory.command[c].kind = "notice"
      /\ memory' = FreeCommand(Unlink(memory, c), c)
      /\ sending' = peer
      /\ UNCHANGED buffers

\* Commands with one pair of sequence numbers: the fragments of an unreliable
\* packet, and unsequenced packets whatever they are.
SameNumbers(m, c, d) ==
  \/ m.command[c].kind = "unsequenced" /\ m.command[d].kind = "unsequenced"
  \/ m.command[c].kind = "unreliable" /\ m.command[c].packet = m.command[d].packet

\* Those of them at the front of a queue are dropped.
DropAlike(m, queue, c) ==
  Repeat(LAMBDA x : IF Empty(x, queue) \/ ~SameNumbers(m, c, FirstOf(x, queue)) THEN x
                    ELSE DropCommand(x, FirstOf(x, queue)),
         Cardinality(Commands), m)

\* The throttle drops the command at the front and those with its numbers behind it.
ThrottleDrop(peer) ==
  LET queue == Queue("outgoing", peer)
      c == FirstOf(memory, queue)
  IN  /\ MaySend(peer)
      /\ ~Empty(memory, queue)
      /\ memory.command[c].kind \in {"unreliable", "unsequenced"}
      /\ memory.command[c].first
      /\ memory' = DropAlike(memory, queue, c)
      /\ UNCHANGED <<sending, buffers>>

\* The datagram is given to the socket, then the unreliable commands in it are removed.
SocketSend ==
  /\ sending # None
  /\ memory' = DropAll(memory, SentUnreliable)
  /\ sending' = None
  /\ buffers' = {}

\* The overdue commands go back, in their order, in front of what was at the front
\* of the queue they came from.
Requeue(m, peer, overdue) ==
  LET Position(c) ==
        FirstOf(m, Queue(IF m.command[c].packet = None THEN "outgoing" ELSE "sendReliable", peer))
  IN  Walk(LAMBDA x, c : IF c \in overdue THEN Push(Unlink(x, c), Position(c), c) ELSE x,
           Queue("sent", peer), Cardinality(Commands), m)

\* enet_protocol_check_timeouts.
Timeout(peer) ==
  /\ Idle
  /\ \E overdue \in SUBSET Commands : memory' = Requeue(memory, peer, overdue)
  /\ UNCHANGED <<sending, buffers>>

\* enet_protocol_find_sent_reliable_command: the commands sent before are in front.
FoundInQueue(queued) ==
  {queued[i] : i \in {i \in 1..Len(queued) :
     /\ memory.command[queued[i]].kind \in {"reliable", "control"}
     /\ \A j \in 1..i : memory.command[queued[j]].kind \in {"reliable", "control"}
                        => memory.command[queued[j]].attempted}}

\* enet_protocol_remove_sent_reliable_command.
Acknowledge(peer) ==
  /\ Idle
  /\ \E c \in ToSet(Elements(memory, Queue("sent", peer)))
              \cup FoundInQueue(Elements(memory, Queue("outgoing", peer)))
              \cup FoundInQueue(Elements(memory, Queue("sendReliable", peer))) :
       memory' = DropCommand(memory, c)
  /\ UNCHANGED <<sending, buffers>>

-----------------------------------------------------------------------------
(* Receiving.                                                              *)

\* What the dispatching of a channel does to its lists: a run of the commands
\* moves to the dispatched ones, then commands at the front are removed, all but
\* the one just queued.
Dispatched(m, peer, first, last, drop, queued) ==
  LET waiting == Elements(m, Queue("incoming", peer))
      moved == IF first > last THEN m
               ELSE [m EXCEPT !.heap = EnetListMove(@, Queue("dispatched", peer), waiting[first], waiting[last])]
  IN  Walk(LAMBDA x, c : IF c = queued THEN x ELSE DropCommand(x, c), Queue("incoming", peer), drop, moved)

\* The choices of a run and of a number of commands to drop in a list of n.
Runs(n) ==
  {run \in (1..n + 1) \X (0..n) \X (0..n) : /\ run[1] > run[2] => run[1] = 1 /\ run[2] = 0
                                            /\ run[3] <= n - (run[2] + 1 - run[1])}

\* A command that completes, or lets pass, what the list holds.
DispatchIncoming(peer) ==
  /\ Idle
  /\ \E run \in Runs(Len(Elements(memory, Queue("incoming", peer)))) :
       memory' = Dispatched(memory, peer, run[1], run[2], run[3], None)
  /\ UNCHANGED <<sending, buffers>>

\* The packet and the command of something received.
Received(m, k, c) ==
  NewCommand([m EXCEPT !.count[k] = 1, !.holder[k] = "library"], c, [Free EXCEPT !.kind = "incoming", !.packet = k])

\* enet_peer_queue_incoming_command: a packet, a command, its place, and the dispatching.
EnetPeerQueueIncomingCommand(peer) ==
  /\ Idle
  /\ FreeCommands(memory) # {}
  /\ FreePackets(memory) # {}
  /\ LET k == CHOOSE k \in FreePackets(memory) : TRUE
         c == CHOOSE c \in FreeCommands(memory) : TRUE
         list == Queue("incoming", peer)
     IN  \E position \in ToSet(Elements(memory, list)) \cup {list} :
         LET queued == Push(Received(memory, k, c), position, c)
         IN  \E run \in Runs(Len(Elements(queued, list))) :
               memory' = Dispatched(queued, peer, run[1], run[2], run[3], c)
  /\ UNCHANGED <<sending, buffers>>

-----------------------------------------------------------------------------
Next ==
  \/ EnetPacketCreate
  \/ ApplicationDestroys
  \/ EnetHostBroadcast
  \/ SocketSend
  \/ \E p \in Peers :
       \/ ApplicationSends(p)
       \/ EnetPeerReceive(p)
       \/ EnetPeerResetQueues(p)
       \/ \E kind \in Controls : QueueControl(p, kind)
       \/ TakeReliable(p, "outgoing")
       \/ TakeReliable(p, "sendReliable")
       \/ TakeUnreliable(p)
       \/ TakeNotice(p)
       \/ ThrottleDrop(p)
       \/ Timeout(p)
       \/ Acknowledge(p)
       \/ DispatchIncoming(p)
       \/ EnetPeerQueueIncomingCommand(p)

Spec == Init /\ [][Next]_vars

-----------------------------------------------------------------------------
\* Every field has a value of its kind.  (The fields of the structures in enet.h.)
TypeOK ==
  /\ memory.heap.next \in [Nodes -> Nodes \cup {None}]
  /\ memory.heap.previous \in [Nodes -> Nodes \cup {None}]
  /\ \A c \in Commands : /\ memory.command[c].kind \in Kinds \cup Controls \cup {"free", "incoming"}
                         /\ memory.command[c].packet \in Packets \cup {None}
  /\ memory.count \in [Packets -> 0..Cardinality(Commands)]
  /\ memory.holder \in [Packets -> Holders]
  /\ sending \in Peers \cup {None}
  /\ buffers \subseteq Packets

\* The nodes of a list are linked both ways, each allocated command is in one list
\* and no other, a freed one in none.  (What list.c is trusted with by the removal
\* of a command wherever it is, as in enet_protocol_remove_sent_reliable_command.)
ListsLinked ==
  LET allocated == Commands \ FreeCommands(memory)
  IN  /\ Linked(memory.heap, Sentinels \cup allocated)
      /\ \A c \in allocated :
           Cardinality({s \in Sentinels : c \in ToSet(Elements(memory, s))}) = 1

\* referenceCount tells how many commands, in whatever lists of whatever peers,
\* still use a packet.
CountsHolders ==
  \A k \in Packets :
    memory.count[k] = Cardinality({c \in Commands : memory.command[c].packet = k})

\* No command, and no buffer of the datagram being assembled, points to a packet that
\* was freed or given back to the application.
NothingDangles ==
  \A k \in buffers \cup {memory.command[c].packet : c \in Commands} :
    k # None => memory.holder[k] = "library"

\* Every packet ENet owns is owned through a command that will free it, and none is
\* freed twice: what is sent, dropped, acknowledged, refused or reset is not leaked.
NothingLeaks ==
  \A k \in Packets : /\ memory.holder[k] # "freedTwice"
                     /\ memory.holder[k] = "library" => memory.count[k] > 0
=============================================================================
