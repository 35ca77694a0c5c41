--------------------------- MODULE ReliableStream ---------------------------
(***************************************************************************)
(* What ENet promises for reliable packets: every channel is a FIFO queue. *)
(* A packet handed to enet_peer_send is delivered by enet_peer_receive     *)
(* once, whole, and after every packet sent before it on its channel.      *)
(* Nothing is said about the order of packets of different channels.       *)
(***************************************************************************)
EXTENDS Sequences

CONSTANTS
  Channels,     \* the channels of the connection
  Packets       \* what may be sent

VARIABLES
  pending,      \* pending[c]: packets sent on c and not delivered yet
  delivered     \* delivered[c]: the last packet delivered on c, <<>> before

vars == <<pending, delivered>>

Init ==
  /\ pending = [c \in Channels |-> <<>>]
  /\ delivered = [c \in Channels |-> <<>>]

Send(c, p) ==
  /\ pending' = [pending EXCEPT ![c] = Append(@, p)]
  /\ UNCHANGED delivered

Deliver(c) ==
  /\ pending[c] # <<>>
  /\ delivered' = [delivered EXCEPT ![c] = Head(pending[c])]
  /\ pending' = [pending EXCEPT ![c] = Tail(@)]

Next == \E c \in Channels : Deliver(c) \/ \E p \in Packets : Send(c, p)

Spec == Init /\ [][Next]_vars

=============================================================================
