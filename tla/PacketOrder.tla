---------------------------- MODULE PacketOrder ----------------------------
(***************************************************************************)
(* What ENet promises for the packets of one channel, reliable and not:    *)
(* none is received twice; those that are sequenced are received in the    *)
(* order in which they were sent, and none before a reliable packet that   *)
(* was sent ahead of it.  Packets that are not reliable may be missing.    *)
(***************************************************************************)
EXTENDS Naturals, Sequences

CONSTANTS
  Reliable,     \* the three ways in which a packet may travel
  Unreliable,
  Unsequenced

VARIABLES
  kinds,        \* kinds[i]: how the i-th packet handed to the channel travels
  received      \* the packets received, by their place in kinds

vars == <<kinds, received>>

Init == kinds = <<>> /\ received = <<>>

Send(kind) == kinds' = Append(kinds, kind) /\ UNCHANGED received

HasReceived(i) == \E k \in DOMAIN received : received[k] = i

InOrder(i) ==
  /\ \A k \in DOMAIN received : kinds[received[k]] = Unsequenced \/ received[k] < i
  /\ \A j \in 1..(i - 1) : kinds[j] = Reliable => HasReceived(j)

Receive(i) ==
  /\ ~HasReceived(i)
  /\ kinds[i] = Unsequenced \/ InOrder(i)
  /\ received' = Append(received, i)
  /\ UNCHANGED kinds

Next ==
  \/ \E kind \in {Reliable, Unreliable, Unsequenced} : Send(kind)
  \/ \E i \in DOMAIN kinds : Receive(i)

Spec == Init /\ [][Next]_vars

=============================================================================
