------------------------ MODULE EnetConnectionProofs ------------------------
(***************************************************************************)
(* What holds of EnetConnection whatever the hosts, their slots and the    *)
(* bounds are: the counters of connected peers are right, an application   *)
(* was told what the state of its peer says, a peer with an event to tell  *)
(* is queued for it, a CONNECT takes one slot, and no peer is queued twice *)
(* as long as every call takes an event.                                   *)
(*                                                                         *)
(* The operators from hosts to hosts keep HostOK, which says of one host   *)
(* what the actions need; the lemmas on them also tell what becomes of the *)
(* peer they work on.  The actions then keep ConnectionInv, which adds     *)
(* what hosts, the network, calls and applications know of each other.     *)
(* The second half is about the dispatch queue alone: QueueInv, which the  *)
(* same operators and actions keep when no call goes on past an event.     *)
(***************************************************************************)
EXTENDS EnetConnection, EnetArithmetic, FiniteSetTheorems, SequenceTheorems, TLAPS

-----------------------------------------------------------------------------
(* The invariant.                                                          *)

CommandFields ==
  {"type", "channel", "seq", "reliable", "attempts", "peerID", "incomingSessionID",
   "outgoingSessionID", "connectID", "incomingBandwidth", "data"}

PeerFields ==
  {"state", "outgoingPeerID", "connectID", "address", "incomingSessionID",
   "outgoingSessionID", "incomingBandwidth", "needsDispatch",
   "outgoingReliableSequenceNumber", "outgoingCommands", "sentReliableCommands",
   "acknowledgements", "dispatchedCommands", "sent", "received", "waiting", "eventData"}

HostFields ==
  {"peer", "dispatchQueue", "connectedPeers", "bandwidthLimitedPeers",
   "incomingBandwidth", "recalculateBandwidthLimits"}

DatagramFields == {"from", "to", "peerID", "sessionID", "connectID", "command", "copies"}

ServiceFields == {"host", "phase", "events", "todo", "after"}

IsSeq(s) == Len(s) \in Nat /\ s = [i \in 1 .. Len(s) |-> s[i]]

\* A CONNECT carries one of the connect identifiers "drawn" by its sender.
CommandOK(c, drawn) ==
  /\ DOMAIN c = CommandFields
  /\ c.peerID \in Slots \union {None}
  /\ c.incomingBandwidth \in BOOLEAN
  /\ c.type = "CONNECT" => c.connectID \in drawn

\* Nothing was received for the application before its CONNECT event.
BeforeConnected ==
  {"DISCONNECTED", "CONNECTING", "ACKNOWLEDGING_CONNECT", "CONNECTION_PENDING",
   "CONNECTION_SUCCEEDED"}

\* A peer of host h, which drew the identifiers "drawn" out of 1 .. n.
PeerOK(q, h, drawn, n) ==
  /\ DOMAIN q = PeerFields
  /\ q.state \in States
  /\ q.outgoingPeerID \in Slots \union {None}
  /\ q.incomingBandwidth \in BOOLEAN
  /\ q.needsDispatch \in BOOLEAN
  /\ q.address # h
  /\ q.connectID \in 0 .. n
  /\ q.state = "CONNECTING" => q.connectID \in drawn
  /\ \A c \in q.outgoingCommands \union q.sentReliableCommands : CommandOK(c, drawn)
  /\ (\E a \in q.acknowledgements : a.type = "DISCONNECT") => q.state = "ACKNOWLEDGING_DISCONNECT"
  /\ IsFiniteSet(q.waiting)
  /\ IsSeq(q.dispatchedCommands)
  /\ q.state \in BeforeConnected => q.dispatchedCommands = <<>>

Listed(s, p) == \E i \in DOMAIN s : s[i] = p

Queued(H, p) == Listed(H.dispatchQueue, p)

Connected(H) == {p \in Slots : State(H, p) \in Established}

Limited(H) == {p \in Connected(H) : H.peer[p].incomingBandwidth}

Counted(H) ==
  /\ H.connectedPeers = Cardinality(Connected(H))
  /\ H.bandwidthLimitedPeers = Cardinality(Limited(H))

Shape(H) ==
  /\ DOMAIN H = HostFields
  /\ DOMAIN H.peer = Slots
  /\ H.dispatchQueue \in Seq(Slots)
  /\ H.incomingBandwidth \in BOOLEAN

HostOK(H, h, drawn, n) ==
  /\ Shape(H)
  /\ \A p \in Slots : PeerOK(H.peer[p], h, drawn, n)
  /\ \A p \in Slots : H.peer[p].needsDispatch => Queued(H, p)
  /\ Counted(H)

OneSlot(H) ==
  \A p, q \in Active(H) :
    /\ H.peer[p].address = H.peer[q].address
    /\ H.peer[p].connectID = H.peer[q].connectID
    => p = q

HasEvent(q) ==
  \/ q.state \in {"CONNECTION_PENDING", "CONNECTION_SUCCEEDED", "ZOMBIE"}
  \/ q.state = "CONNECTED" /\ q.dispatchedCommands # <<>>

Tells(q) == HasEvent(q) => q.needsDispatch

Views == Held \union {"free"}

\* A peer that is not about to be reset: what the application knows of it, and
\* what it is yet to be told.
Fits(q, view) == q.state \in StatesOf(view) /\ Tells(q)

\* drawn: which host drew a connect identifier
HostsOK(drawn) ==
  /\ DOMAIN host = Hosts
  /\ \A h \in Hosts : HostOK(host[h], h, drawn[h], connectIDs)
  /\ \A h \in Hosts : OneSlot(host[h])

Draws(drawn) ==
  /\ connectIDs \in Nat
  /\ drawn \in [Hosts -> SUBSET (1 .. connectIDs)]
  /\ \A h, g \in Hosts : h # g => drawn[h] \cap drawn[g] = {}

NetOK(drawn) ==
  \A m \in net :
    /\ DOMAIN m = DatagramFields
    /\ m.from \in Hosts /\ m.from # m.to
    /\ m.peerID \in Slots \union {None}
    /\ CommandOK(m.command, drawn[m.from])

\* The phases that take a peer out of the dispatch queue.
Dispatching == {"dispatch", "dispatch_again", "check"}

\* The call a host is inside of works on its slots, and has something to dispatch
\* when it is about to; a flush is part of a call that resets a peer.
ServiceOK ==
  /\ DOMAIN service = ServiceFields
  /\ service.todo \subseteq Slots
  /\ service.after \in Slots \union {None}
  /\ service = Idle \/ (service.host \in Hosts /\ service.phase \in Phases \ {"app"})
  /\ service.phase \in Dispatching => host[service.host].dispatchQueue # <<>>
  /\ service.phase = "flush" <=> service.after # None
  /\ service.after # None => app[service.host][service.after].view = "free"

AppOK ==
  /\ DOMAIN app = Hosts
  /\ \A h \in Hosts : DOMAIN app[h] = Slots
  /\ \A h \in Hosts, p \in Slots :
       /\ DOMAIN app[h][p] = {"view", "received", "missed"}
       /\ app[h][p].view \in Views

Resetting(h, p) == service.host = h /\ service.after = p

TellsAll ==
  \A h \in Hosts, p \in Slots : Resetting(h, p) \/ Fits(host[h].peer[p], app[h][p].view)

InvWith(drawn) ==
  HostsOK(drawn) /\ Draws(drawn) /\ NetOK(drawn) /\ ServiceOK /\ AppOK /\ TellsAll

ConnectionInv == \E drawn \in [Hosts -> SUBSET Nat] : InvWith(drawn)

-----------------------------------------------------------------------------
(* Queues.                                                                 *)

\* The empty queue is one.
LEMMA EmptyIsSeq == IsSeq(<<>>)
  <1>1. Len(<<>>) = 0
    OBVIOUS
  <1>2. <<>> = [i \in 1 .. 0 |-> <<>>[i]]
    OBVIOUS
  <1> QED BY <1>1, <1>2 DEF IsSeq

\* Elements stay where they are when a queue grows.
LEMMA AppendQueued ==
  ASSUME NEW s \in Seq(Slots), NEW p \in Slots
  PROVE  /\ Append(s, p) \in Seq(Slots)
         /\ Listed(Append(s, p), p)
         /\ \A r : Listed(s, r) => Listed(Append(s, p), r)
  <1> DEFINE t == Append(s, p)
  <1>1. t \in Seq(Slots) /\ Len(t) = Len(s) + 1 /\ t[Len(s) + 1] = p
        /\ \A i \in 1 .. Len(s) : t[i] = s[i]
    OBVIOUS
  <1>2. DOMAIN t = 1 .. Len(s) + 1 /\ DOMAIN s = 1 .. Len(s) /\ Len(s) \in Nat
    BY <1>1
  <1> HIDE DEF t
  <1>3. t \in Seq(Slots)
    BY <1>1
  <1>4. \E i \in DOMAIN t : t[i] = p
    BY <1>1, <1>2
  <1>5. ASSUME NEW r, NEW i \in DOMAIN s, s[i] = r
        PROVE  \E j \in DOMAIN t : t[j] = r
    BY <1>1, <1>2, <1>5
  <1> QED BY <1>3, <1>4, <1>5 DEF t, Listed

\* The first element leaves; the others are still in the queue.
LEMMA TailQueued ==
  ASSUME NEW s \in Seq(Slots), s # <<>>
  PROVE  /\ Tail(s) \in Seq(Slots)
         /\ Head(s) \in Slots
         /\ \A r : r # Head(s) /\ Listed(s, r) => Listed(Tail(s), r)
  <1> DEFINE t == Tail(s)
  <1>1. t \in Seq(Slots) /\ Len(t) = Len(s) - 1 /\ Head(s) = s[1] /\ Head(s) \in Slots
        /\ \A i \in 1 .. Len(s) - 1 : t[i] = s[i + 1]
    OBVIOUS
  <1>2. DOMAIN t = 1 .. Len(s) - 1 /\ DOMAIN s = 1 .. Len(s) /\ Len(s) \in Nat
    BY <1>1
  <1> HIDE DEF t
  <1>3. ASSUME NEW r, r # Head(s), NEW i \in DOMAIN s, s[i] = r
        PROVE  \E j \in DOMAIN t : t[j] = r
    <2>1. i - 1 \in DOMAIN t /\ t[i - 1] = r
      BY <1>1, <1>2, <1>3
    <2> QED BY <2>1
  <1> QED BY <1>1, <1>3 DEF t, Listed

\* One peer is taken out; the others are still in the queue.
LEMMA UnlinkQueued ==
  ASSUME NEW s \in Seq(Slots), NEW p, Listed(s, p)
  PROVE  /\ Unlink(s, p) \in Seq(Slots)
         /\ \A r : r # p /\ Listed(s, r) => Listed(Unlink(s, p), r)
  <1> DEFINE k == CHOOSE j \in DOMAIN s : s[j] = p
             a == SubSeq(s, 1, k - 1)
             b == SubSeq(s, k + 1, Len(s))
             t == a \o b
  <1>1. k \in 1 .. Len(s) /\ s[k] = p /\ Len(s) \in Nat /\ DOMAIN s = 1 .. Len(s)
    BY DEF Listed
  <1> HIDE DEF k
  <1>2. a \in Seq(Slots) /\ Len(a) = k - 1 /\ \A i \in 1 .. k - 1 : a[i] = s[i]
    BY <1>1
  <1>3. b \in Seq(Slots) /\ Len(b) = Len(s) - k /\ \A i \in 1 .. Len(s) - k : b[i] = s[k + i]
    <2>1. k + 1 \in Int /\ Len(s) \in Int /\ \A i \in k + 1 .. Len(s) : s[i] \in Slots
      BY <1>1
    <2>2. /\ b \in Seq(Slots)
          /\ Len(b) = IF k + 1 <= Len(s) THEN Len(s) - (k + 1) + 1 ELSE 0
          /\ \A i \in 1 .. Len(s) - (k + 1) + 1 : b[i] = s[k + 1 + i - 1]
      BY <2>1, SubSeqProperties
    <2> HIDE DEF b
    <2>3. Len(b) = Len(s) - k
      <3> DEFINE n == Len(s)
      <3>1. k \in 1 .. n /\ n \in Nat /\ Len(b) = IF k + 1 <= n THEN n - (k + 1) + 1 ELSE 0
        BY <1>1, <2>2
      <3> HIDE DEF n
      <3>2. Len(b) = n - k
        BY <3>1
      <3> QED BY <3>2 DEF n
    <2>4. ASSUME NEW i \in 1 .. Len(s) - k PROVE b[i] = s[k + i]
      <3>1. i \in 1 .. Len(s) - (k + 1) + 1 /\ k + 1 + i - 1 = k + i
        BY <1>1
      <3> QED BY <2>2, <3>1
    <2> QED BY <2>2, <2>3, <2>4
  <1> HIDE DEF a, b
  <1>4. t \in Seq(Slots) /\ DOMAIN t = 1 .. Len(a) + Len(b)
        /\ (\A i \in 1 .. Len(a) : t[i] = a[i])
        /\ \A i \in 1 .. Len(b) : t[Len(a) + i] = b[i]
    <2>1. a \in Seq(Slots) /\ b \in Seq(Slots)
      BY <1>2, <1>3
    <2>2. /\ t \in Seq(Slots) /\ Len(t) = Len(a) + Len(b)
          /\ \A i \in 1 .. Len(a) + Len(b) : t[i] = IF i <= Len(a) THEN a[i] ELSE b[i - Len(a)]
      BY <2>1, ConcatProperties
    <2>3. Len(a) \in Nat /\ Len(b) \in Nat /\ DOMAIN t = 1 .. Len(t)
      BY <2>1, <2>2
    <2> HIDE DEF t
    <2>4. ASSUME NEW i \in 1 .. Len(b) PROVE t[Len(a) + i] = b[i]
      <3>1. Len(a) + i \in 1 .. Len(a) + Len(b) /\ ~(Len(a) + i <= Len(a)) /\ Len(a) + i - Len(a) = i
        BY <2>3
      <3> QED BY <2>2, <3>1
    <2> QED BY <2>2, <2>3, <2>4
  <1> HIDE DEF t
  <1>5. ASSUME NEW r, r # p, NEW i \in DOMAIN s, s[i] = r
        PROVE  \E j \in DOMAIN t : t[j] = r
    <2>1. CASE i < k
      <3>1. i \in DOMAIN t /\ t[i] = r
        BY <1>1, <1>2, <1>3, <1>4, <1>5, <2>1
      <3> QED BY <3>1
    <2>2. CASE i > k
      <3>1. i - k \in 1 .. Len(b) /\ b[i - k] = r
        BY <1>1, <1>3, <1>5, <2>2
      <3>2. Len(a) \in Nat /\ Len(b) \in Nat /\ t[Len(a) + (i - k)] = r
        <4>1. Len(a) \in Nat /\ Len(b) \in Nat
          BY <1>2, <1>3
        <4>2. t[Len(a) + (i - k)] = b[i - k]
          BY <1>4, <3>1
        <4> QED BY <3>1, <4>1, <4>2
      <3>3. Len(a) + (i - k) \in DOMAIN t
        BY <1>4, <3>1, <3>2
      <3> QED BY <3>2, <3>3
    <2> QED BY <1>1, <1>5, <2>1, <2>2
  <1>6. Unlink(s, p) = t
    BY DEF Unlink, k, a, b, t
  <1> QED BY <1>4, <1>5, <1>6 DEF Listed

-----------------------------------------------------------------------------
(* Counting.                                                               *)

\* The counters are of finite sets.
LEMMA CountsFinite ==
  ASSUME NEW H
  PROVE  /\ IsFiniteSet(Connected(H)) /\ Cardinality(Connected(H)) \in Nat
         /\ IsFiniteSet(Limited(H)) /\ Cardinality(Limited(H)) \in Nat
  <1>1. Connected(H) \in SUBSET Slots /\ Limited(H) \in SUBSET Slots
    BY DEF Connected, Limited
  <1>2. IsFiniteSet(Connected(H)) /\ IsFiniteSet(Limited(H))
    BY <1>1, FS_Subset, ConnectionAssumption
  <1> QED BY <1>2, FS_CardinalityType

One(b) == IF b THEN 1 ELSE 0

\* What an element adds to the number of a set.
LEMMA CountWithout ==
  ASSUME NEW S, IsFiniteSet(S), NEW p
  PROVE  Cardinality(S) = Cardinality(S \ {p}) + One(p \in S)
  <1>1. Cardinality(S) \in Nat
    BY FS_CardinalityType
  <1>2. Cardinality(S \ {p}) = IF p \in S THEN Cardinality(S) - 1 ELSE Cardinality(S)
    BY FS_RemoveElement
  <1> QED BY <1>1, <1>2 DEF One

Others(H, G, p) == \A r \in Slots \ {p} : G.peer[r] = H.peer[r]

IsConnected(q) == q.state \in Established

IsLimited(q) == IsConnected(q) /\ q.incomingBandwidth

\* What a step of peer p adds to the counters.
Counts(H, G, p) ==
  /\ G.connectedPeers =
       H.connectedPeers + One(IsConnected(G.peer[p])) - One(IsConnected(H.peer[p]))
  /\ G.bandwidthLimitedPeers =
       H.bandwidthLimitedPeers + One(IsLimited(G.peer[p])) - One(IsLimited(H.peer[p]))

\* Counters that are changed by what one peer becomes stay right.
LEMMA CountedStep ==
  ASSUME NEW H, NEW G, NEW p \in Slots, Others(H, G, p), Counted(H), Counts(H, G, p)
  PROVE  Counted(G)
  <1>1. Connected(G) \ {p} = Connected(H) \ {p} /\ Limited(G) \ {p} = Limited(H) \ {p}
    BY DEF Others, Connected, Limited, State
  <1>2. /\ p \in Connected(H) <=> IsConnected(H.peer[p])
        /\ p \in Connected(G) <=> IsConnected(G.peer[p])
        /\ p \in Limited(H) <=> IsLimited(H.peer[p])
        /\ p \in Limited(G) <=> IsLimited(G.peer[p])
    BY DEF Connected, Limited, IsConnected, IsLimited, State
  <1>3. /\ IsFiniteSet(Connected(H)) /\ IsFiniteSet(Limited(H))
        /\ IsFiniteSet(Connected(G)) /\ IsFiniteSet(Limited(G))
    BY CountsFinite
  <1> DEFINE c == Cardinality(Connected(H) \ {p})
             l == Cardinality(Limited(H) \ {p})
  <1>4. c \in Nat /\ l \in Nat
    BY <1>3, FS_RemoveElement, FS_CardinalityType
  <1>5. Cardinality(Connected(H)) = c + One(IsConnected(H.peer[p]))
    BY <1>2, <1>3, CountWithout DEF One
  <1>6. Cardinality(Limited(H)) = l + One(IsLimited(H.peer[p]))
    BY <1>2, <1>3, CountWithout DEF One
  <1>7. Cardinality(Connected(G)) = c + One(IsConnected(G.peer[p]))
    BY <1>1, <1>2, <1>3, CountWithout DEF One
  <1>8. Cardinality(Limited(G)) = l + One(IsLimited(G.peer[p]))
    BY <1>1, <1>2, <1>3, CountWithout DEF One
  <1> HIDE DEF c, l
  <1>9. /\ One(IsConnected(H.peer[p])) \in {0, 1} /\ One(IsLimited(H.peer[p])) \in {0, 1}
        /\ One(IsConnected(G.peer[p])) \in {0, 1} /\ One(IsLimited(G.peer[p])) \in {0, 1}
    BY DEF One
  <1> QED BY <1>4, <1>5, <1>6, <1>7, <1>8, <1>9 DEF Counted, Counts

-----------------------------------------------------------------------------
(* Steps of one peer.                                                      *)

\* A step of a host that keeps its shape and touches one peer only.
Touches(H, G, p) ==
  /\ Shape(G)
  /\ Others(H, G, p)
  /\ \A r \in Slots \ {p} : Queued(H, r) => Queued(G, r)

\* The host stays as it should be when the peer does.
LEMMA HostStep ==
  ASSUME NEW h, NEW drawn, NEW n, NEW H, HostOK(H, h, drawn, n), NEW p \in Slots, NEW G,
         Touches(H, G, p), Counts(H, G, p), PeerOK(G.peer[p], h, drawn, n),
         G.peer[p].needsDispatch => Queued(G, p)
  PROVE  HostOK(G, h, drawn, n)
  <1>1. \A r \in Slots : PeerOK(G.peer[r], h, drawn, n)
    BY DEF HostOK, Touches, Others
  <1>2. \A r \in Slots : G.peer[r].needsDispatch => Queued(G, r)
    BY DEF HostOK, Touches, Others
  <1>3. Counted(G)
    BY CountedStep DEF HostOK, Touches
  <1> QED BY <1>1, <1>2, <1>3 DEF HostOK, Touches

\* What a step leaves of a peer: all but the fields F.
SameBut(q, r, F) == DOMAIN r = PeerFields /\ \A f \in PeerFields \ F : r[f] = q[f]

SameCounters(H, G) ==
  G.connectedPeers = H.connectedPeers /\ G.bandwidthLimitedPeers = H.bandwidthLimitedPeers

\* The flag is set, and the peer is in the queue if it was there when it had the flag.
LEMMA NeedsDispatchEffect ==
  ASSUME NEW H, Shape(H), NEW p \in Slots, DOMAIN H.peer[p] = PeerFields,
         H.peer[p].needsDispatch \in BOOLEAN, H.peer[p].needsDispatch => Queued(H, p)
  PROVE  LET G == NeedsDispatch(H, p)
         IN  /\ Touches(H, G, p) /\ Queued(G, p)
             /\ SameCounters(H, G)
             /\ SameBut(H.peer[p], G.peer[p], {"needsDispatch"})
             /\ G.peer[p].needsDispatch
  <1> DEFINE G == NeedsDispatch(H, p)
  <1>1. CASE H.peer[p].needsDispatch
    <2>1. G = H
      BY <1>1 DEF NeedsDispatch
    <2> QED BY <1>1, <2>1 DEF Touches, Others, SameCounters, SameBut
  <1>2. CASE ~H.peer[p].needsDispatch
    <2>1. G.dispatchQueue = Append(H.dispatchQueue, p)
      BY <1>2 DEF NeedsDispatch, Shape, HostFields
    <2>2. Shape(G)
      BY <1>2, <2>1, AppendQueued DEF NeedsDispatch, Shape, HostFields
    <2>3. \A r \in Slots : Queued(H, r) => Queued(G, r)
      BY <2>1, AppendQueued DEF Shape, Queued
    <2>4. Queued(G, p)
      BY <2>1, AppendQueued DEF Shape, Queued
    <2>5. Others(H, G, p) /\ SameCounters(H, G)
      BY <1>2 DEF NeedsDispatch, Shape, HostFields, Others, SameCounters
    <2>6. SameBut(H.peer[p], G.peer[p], {"needsDispatch"}) /\ G.peer[p].needsDispatch
      BY <1>2 DEF NeedsDispatch, Shape, HostFields, SameBut, PeerFields
    <2> QED BY <2>2, <2>3, <2>4, <2>5, <2>6 DEF Touches
  <1> QED BY <1>1, <1>2

\* The counters follow the state.
LEMMA ChangeStateEffect ==
  ASSUME NEW H, Shape(H), NEW p \in Slots, DOMAIN H.peer[p] = PeerFields,
         H.connectedPeers \in Int, H.bandwidthLimitedPeers \in Int, NEW s
  PROVE  LET G == ChangeState(H, p, s)
         IN  /\ Touches(H, G, p) /\ G.dispatchQueue = H.dispatchQueue
             /\ Counts(H, G, p)
             /\ SameBut(H.peer[p], G.peer[p], {"state"})
             /\ G.peer[p].state = s
  <1> DEFINE G == ChangeState(H, p, s)
  <1> USE DEF ChangeState, PeerOnConnect, PeerOnDisconnect, Count, State, Shape, HostFields
  <1>1. Shape(G) /\ Others(H, G, p) /\ G.dispatchQueue = H.dispatchQueue
    BY DEF Others
  <1>2. SameBut(H.peer[p], G.peer[p], {"state"}) /\ G.peer[p].state = s
    BY DEF SameBut, PeerFields
  <1>3. G.peer[p].incomingBandwidth = H.peer[p].incomingBandwidth
    BY <1>2 DEF SameBut, PeerFields
  <1>4. G.connectedPeers = H.connectedPeers + One(s \in Established) - One(State(H, p) \in Established)
    BY DEF One
  <1>5. G.bandwidthLimitedPeers =
          H.bandwidthLimitedPeers
            + One(s \in Established /\ H.peer[p].incomingBandwidth)
            - One(State(H, p) \in Established /\ H.peer[p].incomingBandwidth)
    BY DEF One
  <1>6. Counts(H, G, p)
    BY <1>2, <1>3, <1>4, <1>5 DEF Counts, IsConnected, IsLimited, One
  <1> QED BY <1>1, <1>2, <1>6 DEF Touches, Queued

Emptied ==
  {"needsDispatch", "acknowledgements", "sentReliableCommands", "outgoingCommands",
   "dispatchedCommands", "waiting", "sent", "received"}

\* What a peer has after enet_peer_reset_queues.
IsEmpty(q) ==
  /\ q.needsDispatch = FALSE
  /\ q.acknowledgements = {}
  /\ q.sentReliableCommands = {}
  /\ q.outgoingCommands = {}
  /\ q.dispatchedCommands = <<>>
  /\ q.waiting = {}

\* The queues are empty, and the peer leaves the dispatch queue by its flag.
LEMMA ResetQueuesEffect ==
  ASSUME NEW H, Shape(H), NEW p \in Slots, DOMAIN H.peer[p] = PeerFields,
         H.peer[p].needsDispatch \in BOOLEAN, H.peer[p].needsDispatch => Queued(H, p)
  PROVE  LET G == ResetQueues(H, p)
         IN  /\ Touches(H, G, p)
             /\ SameCounters(H, G)
             /\ SameBut(H.peer[p], G.peer[p], Emptied)
             /\ IsEmpty(G.peer[p])
  <1> DEFINE G == ResetQueues(H, p)
             d == IF H.peer[p].needsDispatch THEN Unlink(H.dispatchQueue, p) ELSE H.dispatchQueue
  <1>1. d \in Seq(Slots)
    BY UnlinkQueued DEF Shape, Queued
  <1>2. \A r \in Slots \ {p} : Queued(H, r) => Listed(d, r)
    BY UnlinkQueued DEF Shape, Queued
  <1>3. G.dispatchQueue = d
    BY DEF ResetQueues, Shape, HostFields
  <1>4. Others(H, G, p) /\ SameCounters(H, G)
    BY DEF ResetQueues, Shape, HostFields, Others, SameCounters
  <1> HIDE DEF d
  <1>8. Shape(G)
    <2>1. DOMAIN G = HostFields /\ DOMAIN G.peer = Slots /\ G.incomingBandwidth \in BOOLEAN
      BY DEF ResetQueues, Shape, HostFields
    <2> HIDE DEF G
    <2> QED BY <1>1, <1>3, <2>1 DEF Shape
  <1>5. SameBut(H.peer[p], G.peer[p], Emptied)
    BY DEF ResetQueues, Shape, HostFields, SameBut, PeerFields, Emptied
  <1>6. IsEmpty(G.peer[p])
    BY DEF ResetQueues, Shape, HostFields, PeerFields, IsEmpty
  <1>7. \A r \in Slots \ {p} : Queued(H, r) => Queued(G, r)
    BY <1>2, <1>3 DEF Queued
  <1> QED BY <1>4, <1>5, <1>6, <1>7, <1>8 DEF Touches

-----------------------------------------------------------------------------
(* The operators keep HostOK.                                              *)

\* What the effects above need, of a host that is as it should be.
LEMMA HostFacts ==
  ASSUME NEW h, NEW drawn, NEW n, NEW H, HostOK(H, h, drawn, n), NEW p \in Slots
  PROVE  /\ Shape(H) /\ PeerOK(H.peer[p], h, drawn, n) /\ DOMAIN H.peer[p] = PeerFields
         /\ H.peer[p].needsDispatch \in BOOLEAN
         /\ H.peer[p].needsDispatch => Queued(H, p)
         /\ H.connectedPeers \in Int /\ H.bandwidthLimitedPeers \in Int
  <1>1. Shape(H) /\ PeerOK(H.peer[p], h, drawn, n) /\ (H.peer[p].needsDispatch => Queued(H, p))
    BY DEF HostOK
  <1>2. DOMAIN H.peer[p] = PeerFields /\ H.peer[p].needsDispatch \in BOOLEAN
    BY <1>1 DEF PeerOK
  <1>3. H.connectedPeers \in Int /\ H.bandwidthLimitedPeers \in Int
    BY CountsFinite DEF HostOK, Counted
  <1> QED BY <1>1, <1>2, <1>3

\* A step that leaves counters, state and bandwidth of the peer alone.
LEMMA SameCounts ==
  ASSUME NEW H, NEW G, NEW p, SameCounters(H, G),
         H.connectedPeers \in Int, H.bandwidthLimitedPeers \in Int,
         IsConnected(G.peer[p]) <=> IsConnected(H.peer[p]),
         IsConnected(H.peer[p]) =>
           G.peer[p].incomingBandwidth = H.peer[p].incomingBandwidth
  PROVE  Counts(H, G, p)
  BY DEF Counts, SameCounters, IsLimited, One

\* States a peer may be taken to with what it has received.
MayBecome(q, s) ==
  /\ s \in States \ {"CONNECTING"}
  /\ s \in BeforeConnected => q.dispatchedCommands = <<>>
  /\ q.state = "ACKNOWLEDGING_DISCONNECT" /\ q.acknowledgements # {} => s = "ACKNOWLEDGING_DISCONNECT"

\* enet_peer's change of state.
LEMMA ChangeStateStep ==
  ASSUME NEW h, NEW drawn, NEW n, NEW H, HostOK(H, h, drawn, n), NEW p \in Slots,
         NEW s, MayBecome(H.peer[p], s)
  PROVE  LET G == ChangeState(H, p, s)
         IN  /\ HostOK(G, h, drawn, n) /\ Touches(H, G, p)
             /\ SameBut(H.peer[p], G.peer[p], {"state"})
             /\ G.peer[p].state = s
  <1> DEFINE G == ChangeState(H, p, s)
             q == H.peer[p]
             r == G.peer[p]
  <1>1. Shape(H) /\ PeerOK(q, h, drawn, n) /\ DOMAIN q = PeerFields
        /\ (q.needsDispatch => Queued(H, p))
        /\ H.connectedPeers \in Int /\ H.bandwidthLimitedPeers \in Int
    BY HostFacts
  <1>2. Touches(H, G, p) /\ G.dispatchQueue = H.dispatchQueue /\ Counts(H, G, p)
        /\ SameBut(q, r, {"state"}) /\ r.state = s
    BY <1>1, ChangeStateEffect
  <1> HIDE DEF G, q, r
  <1>3. PeerOK(r, h, drawn, n)
    BY <1>1, <1>2 DEF PeerOK, SameBut, PeerFields, MayBecome, q
  <1>4. r.needsDispatch => Queued(G, p)
    BY <1>1, <1>2 DEF SameBut, PeerFields, Queued
  <1>5. HostOK(G, h, drawn, n)
    BY <1>2, <1>3, <1>4, HostStep DEF r
  <1> QED BY <1>2, <1>5 DEF G, q, r

\* The peer is queued for its event.
LEMMA NeedsDispatchStep ==
  ASSUME NEW h, NEW drawn, NEW n, NEW H, HostOK(H, h, drawn, n), NEW p \in Slots
  PROVE  LET G == NeedsDispatch(H, p)
         IN  /\ HostOK(G, h, drawn, n) /\ Touches(H, G, p)
             /\ SameBut(H.peer[p], G.peer[p], {"needsDispatch"})
             /\ G.peer[p].needsDispatch
  <1> DEFINE G == NeedsDispatch(H, p)
             q == H.peer[p]
             r == G.peer[p]
  <1>1. Shape(H) /\ PeerOK(q, h, drawn, n) /\ DOMAIN q = PeerFields
        /\ q.needsDispatch \in BOOLEAN /\ (q.needsDispatch => Queued(H, p))
        /\ H.connectedPeers \in Int /\ H.bandwidthLimitedPeers \in Int
    BY HostFacts
  <1>2. Touches(H, G, p) /\ Queued(G, p) /\ SameCounters(H, G)
        /\ SameBut(q, r, {"needsDispatch"}) /\ r.needsDispatch
    BY <1>1, NeedsDispatchEffect
  <1> HIDE DEF G, q, r
  <1>3. PeerOK(r, h, drawn, n)
    BY <1>1, <1>2 DEF PeerOK, SameBut, PeerFields
  <1>4. r.state = q.state /\ r.incomingBandwidth = q.incomingBandwidth
    BY <1>2 DEF SameBut, PeerFields
  <1>5. Counts(H, G, p)
    BY <1>1, <1>2, <1>4, SameCounts DEF q, r, IsConnected
  <1>6. HostOK(G, h, drawn, n)
    BY <1>2, <1>3, <1>5, HostStep DEF r
  <1> QED BY <1>2, <1>6 DEF G, q, r

\* A step after a step of the same peer.
LEMMA TouchesTwice ==
  ASSUME NEW H, NEW G, NEW F, NEW p, Touches(H, G, p), Touches(G, F, p)
  PROVE  Touches(H, F, p)
  BY DEF Touches, Others

\* enet_protocol_dispatch_state: a new state, and an event to tell.
LEMMA DispatchStateStep ==
  ASSUME NEW h, NEW drawn, NEW n, NEW H, HostOK(H, h, drawn, n), NEW p \in Slots,
         NEW s, MayBecome(H.peer[p], s)
  PROVE  LET G == DispatchState(H, p, s)
         IN  /\ HostOK(G, h, drawn, n) /\ Touches(H, G, p)
             /\ SameBut(H.peer[p], G.peer[p], {"state", "needsDispatch"})
             /\ G.peer[p].state = s /\ G.peer[p].needsDispatch
  <1> DEFINE F == ChangeState(H, p, s)
             G == NeedsDispatch(F, p)
  <1>1. HostOK(F, h, drawn, n) /\ Touches(H, F, p)
        /\ SameBut(H.peer[p], F.peer[p], {"state"}) /\ F.peer[p].state = s
    BY ChangeStateStep
  <1> HIDE DEF F
  <1>2. HostOK(G, h, drawn, n) /\ Touches(F, G, p)
        /\ SameBut(F.peer[p], G.peer[p], {"needsDispatch"}) /\ G.peer[p].needsDispatch
    BY <1>1, NeedsDispatchStep
  <1> HIDE DEF G
  <1>3. Touches(H, G, p)
    BY <1>1, <1>2, TouchesTwice
  <1>4. SameBut(H.peer[p], G.peer[p], {"state", "needsDispatch"}) /\ G.peer[p].state = s
    BY <1>1, <1>2 DEF SameBut, PeerFields
  <1>5. G = DispatchState(H, p, s)
    BY DEF DispatchState, F, G
  <1> QED BY <1>2, <1>3, <1>4, <1>5

\* A step that changes no more of a host than some fields of a peer.
Rewrites(H, G, p) ==
  /\ Shape(G) /\ Others(H, G, p) /\ SameCounters(H, G)
  /\ G.dispatchQueue = H.dispatchQueue
  /\ G.peer[p].state = H.peer[p].state
  /\ G.peer[p].incomingBandwidth = H.peer[p].incomingBandwidth
  /\ G.peer[p].needsDispatch = H.peer[p].needsDispatch

\* The host stays as it should be when the fields of the peer do.
LEMMA RewriteStep ==
  ASSUME NEW h, NEW drawn, NEW n, NEW H, HostOK(H, h, drawn, n), NEW p \in Slots, NEW G,
         Rewrites(H, G, p), PeerOK(G.peer[p], h, drawn, n)
  PROVE  HostOK(G, h, drawn, n) /\ Touches(H, G, p)
  <1>1. Touches(H, G, p)
    BY DEF Rewrites, Touches, Queued
  <1>2. Counts(H, G, p)
    BY HostFacts, SameCounts DEF Rewrites, IsConnected
  <1>3. G.peer[p].needsDispatch => Queued(G, p)
    BY HostFacts DEF Rewrites, Queued
  <1> QED BY <1>1, <1>2, <1>3, HostStep

\* enet_peer_queue_outgoing_command.
LEMMA QueueOutgoingStep ==
  ASSUME NEW h, NEW drawn, NEW n, NEW H, HostOK(H, h, drawn, n), NEW p \in Slots,
         NEW c, CommandOK(c, drawn)
  PROVE  LET G == QueueOutgoing(H, p, c)
         IN  /\ HostOK(G, h, drawn, n) /\ Touches(H, G, p)
             /\ SameBut(H.peer[p], G.peer[p], {"outgoingReliableSequenceNumber", "outgoingCommands"})
  <1> DEFINE G == QueueOutgoing(H, p, c)
             d == [c EXCEPT !.seq = H.peer[p].outgoingReliableSequenceNumber + 1]
  <1>1. Shape(H) /\ PeerOK(H.peer[p], h, drawn, n) /\ DOMAIN H.peer[p] = PeerFields
    BY HostFacts
  <1>2. CommandOK(d, drawn)
    BY DEF CommandOK, CommandFields
  <1> HIDE DEF d
  <1>3. Rewrites(H, G, p)
    BY <1>1 DEF Rewrites, Shape, HostFields, Others, SameCounters, PeerFields, QueueOutgoing
  <1>4. SameBut(H.peer[p], G.peer[p], {"outgoingReliableSequenceNumber", "outgoingCommands"})
    BY <1>1 DEF Shape, HostFields, SameBut, PeerFields, QueueOutgoing
  <1>5. G.peer[p].outgoingCommands = H.peer[p].outgoingCommands \union {d}
    BY <1>1 DEF Shape, HostFields, PeerFields, QueueOutgoing, d
  <1> HIDE DEF G
  <1>6. PeerOK(G.peer[p], h, drawn, n)
    BY <1>1, <1>2, <1>4, <1>5 DEF PeerOK, SameBut, PeerFields
  <1> QED BY <1>3, <1>4, <1>6, RewriteStep DEF G

\* enet_peer_reset_queues.
LEMMA ResetQueuesStep ==
  ASSUME NEW h, NEW drawn, NEW n, NEW H, HostOK(H, h, drawn, n), NEW p \in Slots
  PROVE  LET G == ResetQueues(H, p)
         IN  /\ HostOK(G, h, drawn, n) /\ Touches(H, G, p)
             /\ SameBut(H.peer[p], G.peer[p], Emptied)
             /\ IsEmpty(G.peer[p])
  <1> DEFINE G == ResetQueues(H, p)
             q == H.peer[p]
             r == G.peer[p]
  <1>1. Shape(H) /\ PeerOK(q, h, drawn, n) /\ DOMAIN q = PeerFields
        /\ q.needsDispatch \in BOOLEAN /\ (q.needsDispatch => Queued(H, p))
        /\ H.connectedPeers \in Int /\ H.bandwidthLimitedPeers \in Int
    BY HostFacts
  <1>2. Touches(H, G, p) /\ SameCounters(H, G) /\ SameBut(q, r, Emptied) /\ IsEmpty(r)
    BY <1>1, ResetQueuesEffect
  <1> HIDE DEF G, q, r
  <1>3. PeerOK(r, h, drawn, n)
    BY <1>1, <1>2, FS_EmptySet, EmptyIsSeq DEF PeerOK, SameBut, PeerFields, Emptied, IsEmpty
  <1>4. r.state = q.state /\ r.incomingBandwidth = q.incomingBandwidth /\ r.needsDispatch = FALSE
    BY <1>2 DEF SameBut, PeerFields, Emptied, IsEmpty
  <1>5. Counts(H, G, p)
    BY <1>1, <1>2, <1>4, SameCounts DEF q, r, IsConnected
  <1>6. HostOK(G, h, drawn, n)
    BY <1>2, <1>3, <1>4, <1>5, HostStep DEF r
  <1> QED BY <1>2, <1>6 DEF G, q, r

\* enet_peer_reset: the slot is free, under the address it had.
LEMMA PeerResetStep ==
  ASSUME NEW h, NEW drawn, NEW n \in Nat, NEW H, HostOK(H, h, drawn, n), NEW p \in Slots
  PROVE  LET G == PeerReset(H, p)
         IN  /\ HostOK(G, h, drawn, n) /\ Touches(H, G, p)
             /\ G.peer[p].state = "DISCONNECTED"
             /\ IsEmpty(G.peer[p])
  <1> DEFINE q == H.peer[p]
             E == PeerOnDisconnect(H, p)
             F == [E EXCEPT !.peer[p] = [@ EXCEPT !.outgoingPeerID = None, !.connectID = 0,
                                                  !.state = "DISCONNECTED",
                                                  !.incomingBandwidth = FALSE,
                                                  !.outgoingReliableSequenceNumber = 0,
                                                  !.eventData = 0, !.needsDispatch = FALSE]]
             G == ResetQueues(F, p)
             r == G.peer[p]
  <1>1. Shape(H) /\ PeerOK(q, h, drawn, n) /\ DOMAIN q = PeerFields
        /\ H.connectedPeers \in Int /\ H.bandwidthLimitedPeers \in Int
    BY HostFacts
  <1>2. Shape(E) /\ E.peer = H.peer /\ E.dispatchQueue = H.dispatchQueue
        /\ E.connectedPeers = H.connectedPeers - One(IsConnected(q))
        /\ E.bandwidthLimitedPeers = H.bandwidthLimitedPeers - One(IsLimited(q))
    BY <1>1 DEF PeerOnDisconnect, Count, State, Shape, HostFields, One, IsConnected, IsLimited
  <1> HIDE DEF E
  <1>3. Shape(F) /\ Others(H, F, p) /\ F.dispatchQueue = H.dispatchQueue /\ SameCounters(E, F)
    BY <1>2 DEF Shape, HostFields, Others, SameCounters
  <1>4. LET f == F.peer[p]
        IN  /\ DOMAIN f = PeerFields
            /\ f.state = "DISCONNECTED" /\ f.outgoingPeerID = None /\ f.connectID = 0
            /\ f.incomingBandwidth = FALSE /\ f.needsDispatch = FALSE /\ f.address = q.address
    BY <1>1, <1>2 DEF Shape, HostFields, PeerFields
  <1> HIDE DEF F
  <1>5. Touches(F, G, p) /\ SameCounters(F, G) /\ SameBut(F.peer[p], r, Emptied) /\ IsEmpty(r)
    BY <1>3, <1>4, ResetQueuesEffect
  <1> HIDE DEF G, q
  <1>6. /\ DOMAIN r = PeerFields /\ r.state = "DISCONNECTED" /\ r.outgoingPeerID = None
        /\ r.connectID = 0 /\ r.incomingBandwidth = FALSE /\ r.address = q.address
    BY <1>4, <1>5 DEF SameBut, PeerFields, Emptied
  <1> HIDE DEF r
  <1>7. PeerOK(r, h, drawn, n)
    <2>1. q.address # h
      BY <1>1 DEF PeerOK
    <2>2. r.connectID \in 0 .. n /\ r.state \in States /\ r.state # "CONNECTING"
      BY <1>6 DEF States
    <2>3. \A c \in r.outgoingCommands \union r.sentReliableCommands : CommandOK(c, drawn)
      BY <1>5 DEF IsEmpty
    <2> QED
      BY <1>5, <1>6, <2>1, <2>2, <2>3, FS_EmptySet, EmptyIsSeq DEF PeerOK, IsEmpty
  <1>8. Touches(H, F, p)
    BY <1>3 DEF Touches, Queued
  <1>9. Touches(H, G, p)
    BY <1>5, <1>8, TouchesTwice
  <1>10. ~IsConnected(r) /\ ~IsLimited(r)
    BY <1>6 DEF IsConnected, IsLimited, Established
  <1>11. Counts(H, G, p)
    <2>1. G.connectedPeers = H.connectedPeers - One(IsConnected(q))
          /\ G.bandwidthLimitedPeers = H.bandwidthLimitedPeers - One(IsLimited(q))
      BY <1>2, <1>3, <1>5 DEF SameCounters
    <2> QED BY <1>1, <1>10, <2>1 DEF Counts, One, q, r
  <1>12. HostOK(G, h, drawn, n)
    BY <1>5, <1>7, <1>9, <1>11, HostStep DEF r, IsEmpty
  <1>13. G = PeerReset(H, p)
    BY DEF G, F, E, PeerReset
  <1> QED BY <1>5, <1>6, <1>9, <1>12, <1>13 DEF r

\* enet_peer_disconnect and what it queues.
LEMMA BeginDisconnectStep ==
  ASSUME NEW h, NEW drawn, NEW n, NEW H, HostOK(H, h, drawn, n), NEW p \in Slots, NEW data
  PROVE  LET G == BeginDisconnect(H, p, data)
         IN  /\ HostOK(G, h, drawn, n) /\ Touches(H, G, p)
             /\ G.peer[p].state = IF IsConnected(H.peer[p]) THEN "DISCONNECTING" ELSE H.peer[p].state
             /\ G.peer[p].address = H.peer[p].address
             /\ G.peer[p].connectID = H.peer[p].connectID
             /\ G.peer[p].dispatchedCommands = <<>>
  <1> DEFINE reliable == State(H, p) \in Established
             c == [Command("DISCONNECT", reliable) EXCEPT !.data = data]
             E == ResetQueues(H, p)
             F == QueueOutgoing(E, p, c)
             G == IF reliable THEN ChangeState(F, p, "DISCONNECTING") ELSE F
  <1>1. HostOK(E, h, drawn, n) /\ Touches(H, E, p)
        /\ SameBut(H.peer[p], E.peer[p], Emptied) /\ IsEmpty(E.peer[p])
    BY ResetQueuesStep
  <1>2. CommandOK(c, drawn)
    BY DEF Command, CommandOK, CommandFields
  <1> HIDE DEF E, c
  <1>3. HostOK(F, h, drawn, n) /\ Touches(E, F, p)
        /\ SameBut(E.peer[p], F.peer[p], {"outgoingReliableSequenceNumber", "outgoingCommands"})
    BY <1>1, <1>2, QueueOutgoingStep
  <1> HIDE DEF F
  <1>4. /\ F.peer[p].state = H.peer[p].state /\ F.peer[p].address = H.peer[p].address
        /\ F.peer[p].connectID = H.peer[p].connectID /\ F.peer[p].dispatchedCommands = <<>>
        /\ F.peer[p].acknowledgements = {}
    BY <1>1, <1>3 DEF SameBut, PeerFields, Emptied, IsEmpty
  <1>5. Touches(H, F, p)
    BY <1>1, <1>3, TouchesTwice
  <1>6. BeginDisconnect(H, p, data) = G
    BY DEF BeginDisconnect, G, F, E, c
  <1>7. CASE reliable
    <2>1. MayBecome(F.peer[p], "DISCONNECTING")
      BY <1>4 DEF MayBecome, States, BeforeConnected
    <2>2. G = ChangeState(F, p, "DISCONNECTING")
      BY <1>7
    <2>3. HostOK(G, h, drawn, n) /\ Touches(F, G, p)
          /\ SameBut(F.peer[p], G.peer[p], {"state"}) /\ G.peer[p].state = "DISCONNECTING"
      BY <1>3, <2>1, <2>2, ChangeStateStep
    <2> HIDE DEF G
    <2>4. Touches(H, G, p)
      BY <1>5, <2>3, TouchesTwice
    <2>5. /\ G.peer[p].address = H.peer[p].address /\ G.peer[p].connectID = H.peer[p].connectID
          /\ G.peer[p].dispatchedCommands = <<>>
      BY <1>4, <2>3 DEF SameBut, PeerFields
    <2> QED BY <1>6, <1>7, <2>3, <2>4, <2>5 DEF IsConnected, State
  <1>8. CASE ~reliable
    <2>1. G = F
      BY <1>8
    <2> QED BY <1>3, <1>4, <1>5, <1>6, <1>8, <2>1 DEF IsConnected, State
  <1> QED BY <1>7, <1>8

\* The flag of the bandwidth throttle is nothing the peers know of.
LEMMA RecalculateStep ==
  ASSUME NEW h, NEW drawn, NEW n, NEW H, HostOK(H, h, drawn, n), NEW p \in Slots, NEW b
  PROVE  LET G == [H EXCEPT !.recalculateBandwidthLimits = b]
         IN  HostOK(G, h, drawn, n) /\ Touches(H, G, p) /\ G.peer = H.peer
  <1> DEFINE G == [H EXCEPT !.recalculateBandwidthLimits = b]
  <1>1. Shape(H) /\ PeerOK(H.peer[p], h, drawn, n)
    BY HostFacts
  <1>2. Rewrites(H, G, p) /\ G.peer = H.peer
    BY <1>1 DEF Rewrites, Shape, HostFields, Others, SameCounters
  <1> HIDE DEF G
  <1> QED BY <1>1, <1>2, RewriteStep DEF G

-----------------------------------------------------------------------------
(* Results: what a handler leaves and tells fits what the application knew. *)

Gone == {"DISCONNECTED", "ZOMBIE"}

\* A peer that is active was so before, in the same attempt.
Follows(q, r) ==
  r.state \notin Gone =>
    q.state \notin Gone /\ r.address = q.address /\ r.connectID = q.connectID

\* A change the application need not be told of.
Moves(q, r) == \A view \in Views : Fits(q, view) => Fits(r, view)

\* Mind the slot: events are of the peer that was worked on.
Fitting(q, r, event, p) ==
  \/ event = NoEvent /\ Moves(q, r)
  \/ /\ event # NoEvent /\ event.slot = p
     /\ \/ event.type = "CONNECT" /\ Fits(r, "connected")
        \/ event.type = "RECEIVE" /\ Moves(q, r)
        \/ event.type = "DISCONNECT" /\ Fits(r, "free")

ResultOK(H, r, p, h, drawn, n) ==
  /\ HostOK(r.host, h, drawn, n)
  /\ Touches(H, r.host, p)
  /\ Follows(H.peer[p], r.host.peer[p])
  /\ Fitting(H.peer[p], r.host.peer[p], r.event, p)

\* A host that is left quietly.
LEMMA QuietResult ==
  ASSUME NEW h, NEW drawn, NEW n, NEW H, NEW G, NEW p,
         HostOK(G, h, drawn, n), Touches(H, G, p),
         Follows(H.peer[p], G.peer[p]), Moves(H.peer[p], G.peer[p])
  PROVE  ResultOK(H, Quiet(G), p, h, drawn, n)
  BY DEF ResultOK, Fitting, Quiet

\* What a result fits that was reached by way of another host, unheard.
LEMMA ResultAfter ==
  ASSUME NEW h, NEW drawn, NEW n, NEW H, NEW G, NEW p, NEW r,
         Touches(H, G, p), Follows(H.peer[p], G.peer[p]), Moves(H.peer[p], G.peer[p]),
         ResultOK(G, r, p, h, drawn, n)
  PROVE  ResultOK(H, r, p, h, drawn, n)
  <1>1. Touches(H, r.host, p)
    BY TouchesTwice DEF ResultOK
  <1>2. Follows(H.peer[p], r.host.peer[p])
    BY DEF ResultOK, Follows
  <1>3. Fitting(H.peer[p], r.host.peer[p], r.event, p)
    BY DEF ResultOK, Fitting, Moves
  <1> QED BY <1>1, <1>2, <1>3 DEF ResultOK

\* The peer is as it was, in what an application can know.
LEMMA SameMoves ==
  ASSUME NEW q, NEW r, r.state = q.state, r.dispatchedCommands = q.dispatchedCommands,
         r.needsDispatch = q.needsDispatch
  PROVE  Moves(q, r)
  BY DEF Moves, Fits, Tells, HasEvent

\* enet_protocol_notify_connect.
LEMMA NotifyConnectStep ==
  ASSUME NEW h, NEW drawn, NEW n, NEW H, HostOK(H, h, drawn, n), NEW p \in Slots,
         H.peer[p].state \in {"CONNECTING", "ACKNOWLEDGING_CONNECT"}, NEW events
  PROVE  ResultOK(H, NotifyConnect(H, p, events), p, h, drawn, n)
  <1> DEFINE q == H.peer[p]
             G == [H EXCEPT !.recalculateBandwidthLimits = TRUE]
             untold == EstablishedUntold(State(H, p))
  <1>1. HostOK(G, h, drawn, n) /\ Touches(H, G, p) /\ G.peer = H.peer
    BY RecalculateStep
  <1>2. q.dispatchedCommands = <<>>
    BY HostFacts DEF PeerOK, BeforeConnected
  <1> HIDE DEF G
  <1>3. CASE events
    <2> DEFINE F == ChangeState(G, p, "CONNECTED")
    <2>1. MayBecome(G.peer[p], "CONNECTED")
      BY <1>1, <1>2 DEF MayBecome, States, BeforeConnected
    <2>2. HostOK(F, h, drawn, n) /\ Touches(G, F, p)
          /\ SameBut(G.peer[p], F.peer[p], {"state"}) /\ F.peer[p].state = "CONNECTED"
      BY <1>1, <2>1, ChangeStateStep
    <2> HIDE DEF F
    <2>3. Touches(H, F, p)
      BY <1>1, <2>2, TouchesTwice
    <2>4. /\ F.peer[p].address = q.address /\ F.peer[p].connectID = q.connectID
          /\ F.peer[p].dispatchedCommands = <<>>
      BY <1>1, <1>2, <2>2 DEF SameBut, PeerFields
    <2>5. Follows(q, F.peer[p])
      BY <2>4 DEF Follows, Gone
    <2>6. Fits(F.peer[p], "connected")
      BY <2>2, <2>4 DEF Fits, StatesOf, Tells, HasEvent
    <2>7. NotifyConnect(H, p, events) = Tell(F, "CONNECT", p, q.eventData)
      BY <1>3 DEF NotifyConnect, F, G
    <2> QED BY <2>2, <2>3, <2>5, <2>6, <2>7 DEF ResultOK, Fitting, Tell, NoEvent
  <1>4. CASE ~events
    <2> DEFINE F == DispatchState(G, p, untold)
    <2>1. untold \in {"CONNECTION_PENDING", "CONNECTION_SUCCEEDED"}
      BY DEF EstablishedUntold
    <2> HIDE DEF untold
    <2>2. MayBecome(G.peer[p], untold)
      BY <1>1, <1>2, <2>1 DEF MayBecome, States
    <2>3. HostOK(F, h, drawn, n) /\ Touches(G, F, p)
          /\ SameBut(G.peer[p], F.peer[p], {"state", "needsDispatch"})
          /\ F.peer[p].state = untold /\ F.peer[p].needsDispatch
      BY <1>1, <2>2, DispatchStateStep
    <2> HIDE DEF F
    <2>4. Touches(H, F, p)
      BY <1>1, <2>3, TouchesTwice
    <2>5. F.peer[p].address = q.address /\ F.peer[p].connectID = q.connectID
      BY <1>1, <2>3 DEF SameBut, PeerFields
    <2>6. Follows(q, F.peer[p])
      BY <2>5 DEF Follows, Gone
    <2>7. Moves(q, F.peer[p])
      BY <2>3 DEF Moves, Fits, Tells, StatesOf, Views, Held, EstablishedUntold, State, untold
    <2>8. NotifyConnect(H, p, events) = Quiet(F)
      BY <1>4 DEF NotifyConnect, F, G, untold
    <2> QED BY <2>3, <2>4, <2>6, <2>7, <2>8, QuietResult
  <1> QED BY <1>3, <1>4

\* What the next event will tell is nothing the host looks at.
LEMMA EventDataStep ==
  ASSUME NEW h, NEW drawn, NEW n, NEW H, HostOK(H, h, drawn, n), NEW p \in Slots, NEW data
  PROVE  LET G == [H EXCEPT !.peer[p].eventData = data]
         IN  HostOK(G, h, drawn, n) /\ Touches(H, G, p) /\ SameBut(H.peer[p], G.peer[p], {"eventData"})
  <1> DEFINE G == [H EXCEPT !.peer[p].eventData = data]
  <1>1. Shape(H) /\ PeerOK(H.peer[p], h, drawn, n) /\ DOMAIN H.peer[p] = PeerFields
    BY HostFacts
  <1>2. Rewrites(H, G, p)
    BY <1>1 DEF Rewrites, Shape, HostFields, Others, SameCounters, PeerFields
  <1>3. SameBut(H.peer[p], G.peer[p], {"eventData"})
    BY <1>1 DEF Shape, HostFields, SameBut, PeerFields
  <1> HIDE DEF G
  <1>4. PeerOK(G.peer[p], h, drawn, n)
    BY <1>1, <1>3 DEF PeerOK, SameBut, PeerFields
  <1> QED BY <1>2, <1>3, <1>4, RewriteStep DEF G

\* enet_protocol_notify_disconnect.
LEMMA NotifyDisconnectStep ==
  ASSUME NEW h, NEW drawn, NEW n \in Nat, NEW H, HostOK(H, h, drawn, n), NEW p \in Slots,
         ~(H.peer[p].state = "ACKNOWLEDGING_DISCONNECT" /\ H.peer[p].acknowledgements # {}),
         NEW events
  PROVE  ResultOK(H, NotifyDisconnect(H, p, events), p, h, drawn, n)
  <1> DEFINE q == H.peer[p]
             b == H.recalculateBandwidthLimits \/ State(H, p) \notin BeforePending
             G == [H EXCEPT !.recalculateBandwidthLimits = b]
             R == PeerReset(G, p)
  <1> HIDE DEF b
  <1>1. HostOK(G, h, drawn, n) /\ Touches(H, G, p) /\ G.peer = H.peer
    BY RecalculateStep
  <1> HIDE DEF G
  <1>2. HostOK(R, h, drawn, n) /\ Touches(G, R, p)
        /\ R.peer[p].state = "DISCONNECTED" /\ IsEmpty(R.peer[p])
    BY <1>1, PeerResetStep
  <1> HIDE DEF R
  <1>3. Touches(H, R, p)
    BY <1>1, <1>2, TouchesTwice
  <1>4. Follows(q, R.peer[p])
    BY <1>2 DEF Follows, Gone
  <1>5. CASE q.state \in Unannounced
    <2>1. Moves(q, R.peer[p])
      BY <1>2, <1>5 DEF Moves, Fits, Tells, HasEvent, StatesOf, Views, Held, Unannounced
    <2>2. NotifyDisconnect(H, p, events) = Quiet(R)
      BY <1>5 DEF NotifyDisconnect, State, R, G, b
    <2> QED BY <1>2, <1>3, <1>4, <2>1, <2>2, QuietResult
  <1>6. CASE q.state \notin Unannounced /\ events
    <2>1. Fits(R.peer[p], "free")
      BY <1>2 DEF Fits, StatesOf, Tells, HasEvent
    <2>2. NotifyDisconnect(H, p, events) = Tell(R, "DISCONNECT", p, 0)
      BY <1>6 DEF NotifyDisconnect, State, R, G, b
    <2> QED BY <1>2, <1>3, <1>4, <2>1, <2>2 DEF ResultOK, Fitting, Tell, NoEvent
  <1>7. CASE q.state \notin Unannounced /\ ~events
    <2> DEFINE E == [G EXCEPT !.peer[p].eventData = 0]
               F == DispatchState(E, p, "ZOMBIE")
    <2>1. HostOK(E, h, drawn, n) /\ Touches(G, E, p) /\ SameBut(q, E.peer[p], {"eventData"})
      BY <1>1, EventDataStep
    <2> HIDE DEF E
    <2>2. E.peer[p].state = q.state /\ E.peer[p].acknowledgements = q.acknowledgements
          /\ E.peer[p].dispatchedCommands = q.dispatchedCommands
      BY <2>1 DEF SameBut, PeerFields
    <2>3. MayBecome(E.peer[p], "ZOMBIE")
      BY <2>2 DEF MayBecome, States, BeforeConnected
    <2>4. HostOK(F, h, drawn, n) /\ Touches(E, F, p)
          /\ F.peer[p].state = "ZOMBIE" /\ F.peer[p].needsDispatch
      BY <2>1, <2>3, DispatchStateStep
    <2> HIDE DEF F
    <2>5. Touches(H, F, p)
      BY <1>1, <2>1, <2>4, TouchesTwice
    <2>6. Follows(q, F.peer[p])
      BY <2>4 DEF Follows, Gone
    <2>7. Moves(q, F.peer[p])
      BY <1>7, <2>4 DEF Moves, Fits, Tells, StatesOf, Views, Held, Unannounced
    <2>8. NotifyDisconnect(H, p, events) = Quiet(F)
      BY <1>7 DEF NotifyDisconnect, State, F, E, G, b
    <2> QED BY <2>4, <2>5, <2>6, <2>7, <2>8, QuietResult
  <1> QED BY <1>5, <1>6, <1>7

-----------------------------------------------------------------------------
(* The handlers.                                                           *)

\* enet_protocol_remove_sent_reliable_command.
LEMMA RemoveSentStep ==
  ASSUME NEW h, NEW drawn, NEW n, NEW H, HostOK(H, h, drawn, n), NEW p \in Slots,
         NEW seq, NEW channel
  PROVE  LET G == RemoveSent(H, p, seq, channel)
         IN  /\ HostOK(G, h, drawn, n) /\ Touches(H, G, p)
             /\ SameBut(H.peer[p], G.peer[p], {"sentReliableCommands", "outgoingCommands"})
  <1> DEFINE G == RemoveSent(H, p, seq, channel)
             gone == Acknowledged(H.peer[p], seq, channel)
  <1>1. Shape(H) /\ PeerOK(H.peer[p], h, drawn, n) /\ DOMAIN H.peer[p] = PeerFields
    BY HostFacts
  <1> HIDE DEF gone
  <1>2. G = [H EXCEPT !.peer[p].sentReliableCommands = @ \ gone,
                      !.peer[p].outgoingCommands = @ \ gone]
    BY DEF RemoveSent, gone
  <1> HIDE DEF G
  <1>3. Rewrites(H, G, p)
    BY <1>1, <1>2 DEF Rewrites, Shape, HostFields, Others, SameCounters, PeerFields
  <1>4. SameBut(H.peer[p], G.peer[p], {"sentReliableCommands", "outgoingCommands"})
    BY <1>1, <1>2 DEF Shape, HostFields, SameBut, PeerFields
  <1>5. /\ G.peer[p].sentReliableCommands \subseteq H.peer[p].sentReliableCommands
        /\ G.peer[p].outgoingCommands \subseteq H.peer[p].outgoingCommands
    BY <1>1, <1>2 DEF Shape, HostFields, PeerFields
  <1>6. PeerOK(G.peer[p], h, drawn, n)
    BY <1>1, <1>4, <1>5 DEF PeerOK, SameBut, PeerFields
  <1> QED BY <1>3, <1>4, <1>6, RewriteStep DEF G

\* What a result fits when a quiet step of queues came first.
LEMMA ResultAfterQueues ==
  ASSUME NEW h, NEW drawn, NEW n, NEW H, NEW G, NEW p, NEW r,
         Touches(H, G, p),
         SameBut(H.peer[p], G.peer[p], {"sentReliableCommands", "outgoingCommands", "acknowledgements"}),
         ResultOK(G, r, p, h, drawn, n)
  PROVE  ResultOK(H, r, p, h, drawn, n)
  <1>1. /\ G.peer[p].state = H.peer[p].state /\ G.peer[p].address = H.peer[p].address
        /\ G.peer[p].connectID = H.peer[p].connectID
        /\ G.peer[p].dispatchedCommands = H.peer[p].dispatchedCommands
        /\ G.peer[p].needsDispatch = H.peer[p].needsDispatch
    BY DEF SameBut, PeerFields
  <1>2. Follows(H.peer[p], G.peer[p]) /\ Moves(H.peer[p], G.peer[p])
    BY <1>1, SameMoves DEF Follows
  <1> QED BY <1>2, ResultAfter

\* enet_protocol_handle_verify_connect.
LEMMA HandleVerifyConnectStep ==
  ASSUME NEW h, NEW drawn, NEW n, NEW H, HostOK(H, h, drawn, n), NEW p \in Slots,
         NEW c, NEW others, CommandOK(c, others), NEW events
  PROVE  ResultOK(H, HandleVerifyConnect(H, p, c, events), p, h, drawn, n)
  <1> DEFINE q == H.peer[p]
  <1>1. CASE q.state # "CONNECTING"
    <2>1. HandleVerifyConnect(H, p, c, events) = Quiet(H)
      BY <1>1 DEF HandleVerifyConnect, State
    <2>2. Touches(H, H, p)
      BY HostFacts DEF Touches, Others
    <2> QED BY <2>1, <2>2, SameMoves, QuietResult DEF Follows
  <1>2. CASE q.state = "CONNECTING" /\ c.connectID # q.connectID
    <2> DEFINE E == [H EXCEPT !.peer[p].eventData = 0]
               F == DispatchState(E, p, "ZOMBIE")
    <2>1. HostOK(E, h, drawn, n) /\ Touches(H, E, p) /\ SameBut(q, E.peer[p], {"eventData"})
      BY EventDataStep
    <2> HIDE DEF E
    <2>2. E.peer[p].state = q.state
      BY <2>1 DEF SameBut, PeerFields
    <2>3. MayBecome(E.peer[p], "ZOMBIE")
      BY <1>2, <2>2 DEF MayBecome, States, BeforeConnected
    <2>4. HostOK(F, h, drawn, n) /\ Touches(E, F, p)
          /\ F.peer[p].state = "ZOMBIE" /\ F.peer[p].needsDispatch
      BY <2>1, <2>3, DispatchStateStep
    <2> HIDE DEF F
    <2>5. Touches(H, F, p)
      BY <2>1, <2>4, TouchesTwice
    <2>6. Follows(q, F.peer[p])
      BY <2>4 DEF Follows, Gone
    <2>7. Moves(q, F.peer[p])
      BY <1>2, <2>4 DEF Moves, Fits, Tells, StatesOf, Views, Held
    <2>8. HandleVerifyConnect(H, p, c, events) = Quiet(F)
      BY <1>2 DEF HandleVerifyConnect, State, F, E
    <2> QED BY <2>4, <2>5, <2>6, <2>7, <2>8, QuietResult
  <1>3. CASE q.state = "CONNECTING" /\ c.connectID = q.connectID
    <2> DEFINE G == RemoveSent(H, p, 1, "control")
               F == [G EXCEPT !.peer[p] = [@ EXCEPT !.outgoingPeerID = c.peerID,
                                                    !.incomingSessionID = c.incomingSessionID,
                                                    !.outgoingSessionID = c.outgoingSessionID,
                                                    !.incomingBandwidth = c.incomingBandwidth]]
    <2>1. HostOK(G, h, drawn, n) /\ Touches(H, G, p)
          /\ SameBut(q, G.peer[p], {"sentReliableCommands", "outgoingCommands"})
      BY RemoveSentStep
    <2>2. HandleVerifyConnect(H, p, c, events) = NotifyConnect(F, p, events)
      BY <1>3 DEF HandleVerifyConnect, State
    <2> HIDE DEF G
    <2>3. Shape(G) /\ PeerOK(G.peer[p], h, drawn, n) /\ DOMAIN G.peer[p] = PeerFields
          /\ (G.peer[p].needsDispatch => Queued(G, p))
          /\ G.connectedPeers \in Int /\ G.bandwidthLimitedPeers \in Int
      BY <2>1, HostFacts
    <2>4. Shape(F) /\ Others(G, F, p) /\ SameCounters(G, F) /\ F.dispatchQueue = G.dispatchQueue
      BY <2>3 DEF Shape, HostFields, Others, SameCounters
    <2>5. /\ SameBut(G.peer[p], F.peer[p], {"outgoingPeerID", "incomingSessionID",
                                            "outgoingSessionID", "incomingBandwidth"})
          /\ F.peer[p].outgoingPeerID = c.peerID
          /\ F.peer[p].incomingBandwidth = c.incomingBandwidth
      BY <2>3 DEF Shape, HostFields, SameBut, PeerFields
    <2> HIDE DEF F
    <2>6. /\ F.peer[p].state = "CONNECTING"
          /\ G.peer[p].state = "CONNECTING"
          /\ F.peer[p].address = q.address
          /\ F.peer[p].connectID = q.connectID
          /\ F.peer[p].dispatchedCommands = q.dispatchedCommands
          /\ F.peer[p].needsDispatch = q.needsDispatch
      BY <1>3, <2>1, <2>5 DEF SameBut, PeerFields
    <2>7. PeerOK(F.peer[p], h, drawn, n)
      BY <2>3, <2>5 DEF PeerOK, SameBut, PeerFields, CommandOK
    <2>8. Touches(G, F, p)
      BY <2>4 DEF Touches, Queued
    <2>9. Counts(G, F, p)
      <3>1. ~IsConnected(G.peer[p]) /\ ~IsConnected(F.peer[p])
        BY <2>6 DEF IsConnected, Established
      <3> QED BY <2>3, <2>4, <3>1, SameCounts
    <2>10. F.peer[p].needsDispatch => Queued(F, p)
      BY <2>3, <2>4, <2>5 DEF Queued, SameBut, PeerFields
    <2>11. HostOK(F, h, drawn, n)
      BY <2>1, <2>7, <2>8, <2>9, <2>10, HostStep
    <2>12. ResultOK(F, NotifyConnect(F, p, events), p, h, drawn, n)
      BY <2>6, <2>11, NotifyConnectStep
    <2>13. Touches(H, F, p)
      BY <2>1, <2>8, TouchesTwice
    <2>14. Follows(q, F.peer[p]) /\ Moves(q, F.peer[p])
      BY <1>3, <2>6, SameMoves DEF Follows
    <2> QED BY <2>2, <2>12, <2>13, <2>14, ResultAfter
  <1> QED BY <1>1, <1>2, <1>3

\* enet_protocol_handle_acknowledge.
LEMMA HandleAcknowledgeStep ==
  ASSUME NEW h, NEW drawn, NEW n \in Nat, NEW H, HostOK(H, h, drawn, n), NEW p \in Slots,
         NEW c, NEW events
  PROVE  ResultOK(H, HandleAcknowledge(H, p, c, events), p, h, drawn, n)
  <1> DEFINE q == H.peer[p]
             types == {d.type : d \in Acknowledged(q, c.seq, c.channel)}
             G == RemoveSent(H, p, c.seq, c.channel)
             r == HandleAcknowledge(H, p, c, events)
  <1> HIDE DEF types
  <1>1. HostOK(G, h, drawn, n) /\ Touches(H, G, p)
        /\ SameBut(q, G.peer[p], {"sentReliableCommands", "outgoingCommands"})
    BY RemoveSentStep
  <1> HIDE DEF G
  <1>2. G.peer[p].state = q.state /\ G.peer[p].acknowledgements = q.acknowledgements
    BY <1>1 DEF SameBut, PeerFields
  <1>3. SameBut(q, G.peer[p], {"sentReliableCommands", "outgoingCommands", "acknowledgements"})
    BY <1>1 DEF SameBut
  <1>4. ASSUME ResultOK(G, r, p, h, drawn, n)
        PROVE  ResultOK(H, r, p, h, drawn, n)
    BY <1>1, <1>3, <1>4, ResultAfterQueues
  <1>5. CASE q.state = "ACKNOWLEDGING_CONNECT" /\ "VERIFY_CONNECT" \in types
    <2>1. r = NotifyConnect(G, p, events)
      BY <1>5 DEF HandleAcknowledge, State, G, types
    <2> QED BY <1>1, <1>2, <1>4, <1>5, <2>1, NotifyConnectStep
  <1>6. CASE q.state = "DISCONNECTING" /\ "DISCONNECT" \in types
    <2>1. r = NotifyDisconnect(G, p, events)
      BY <1>6 DEF HandleAcknowledge, State, G, types
    <2> QED BY <1>1, <1>2, <1>4, <1>6, <2>1, NotifyDisconnectStep
  <1>7. CASE q.state = "DISCONNECT_LATER" /\ ~HasOutgoing(G, p)
    <2> DEFINE F == BeginDisconnect(G, p, G.peer[p].eventData)
    <2>1. r = Quiet(F)
      BY <1>7 DEF HandleAcknowledge, State, G, types
    <2>2. HostOK(F, h, drawn, n) /\ Touches(G, F, p) /\ F.peer[p].state = "DISCONNECTING"
          /\ F.peer[p].address = G.peer[p].address /\ F.peer[p].connectID = G.peer[p].connectID
      BY <1>1, <1>2, <1>7, BeginDisconnectStep DEF IsConnected, Established
    <2> HIDE DEF F
    <2>3. Moves(G.peer[p], F.peer[p])
      BY <1>2, <1>7, <2>2 DEF Moves, Fits, Tells, HasEvent, StatesOf, Views, Held
    <2>4. Follows(G.peer[p], F.peer[p])
      BY <1>2, <1>7, <2>2 DEF Follows, Gone
    <2> QED BY <1>4, <2>1, <2>2, <2>3, <2>4, QuietResult
  <1>8. CASE /\ ~(q.state = "ACKNOWLEDGING_CONNECT" /\ "VERIFY_CONNECT" \in types)
             /\ ~(q.state = "DISCONNECTING" /\ "DISCONNECT" \in types)
             /\ ~(q.state = "DISCONNECT_LATER" /\ ~HasOutgoing(G, p))
    <2>1. r = Quiet(G)
      BY <1>8 DEF HandleAcknowledge, State, G, types
    <2>2. Touches(G, G, p)
      BY <1>1 DEF Touches, Others
    <2>3. ResultOK(G, Quiet(G), p, h, drawn, n)
      BY <1>1, <2>2, SameMoves, QuietResult DEF Follows
    <2> QED BY <1>4, <2>1, <2>3
  <1> QED BY <1>5, <1>6, <1>7, <1>8

\* enet_protocol_handle_disconnect, of a peer that the header let through; what
\* is acknowledged afterwards is a DISCONNECT.
LEMMA HandleDisconnectStep ==
  ASSUME NEW h, NEW drawn, NEW n \in Nat, NEW H, HostOK(H, h, drawn, n), NEW p \in Slots,
         H.peer[p].state \notin Gone, NEW c
  PROVE  LET G == HandleDisconnect(H, p, c)
         IN  /\ HostOK(G, h, drawn, n) /\ Touches(H, G, p)
             /\ Follows(H.peer[p], G.peer[p]) /\ Moves(H.peer[p], G.peer[p])
             /\ G.peer[p].state \in Gone \union {"ACKNOWLEDGING_DISCONNECT"}
  <1> DEFINE q == H.peer[p]
             G == HandleDisconnect(H, p, c)
             E == ResetQueues(H, p)
             Z == DispatchState(E, p, "ZOMBIE")
             A == ChangeState(E, p, "ACKNOWLEDGING_DISCONNECT")
             b == E.recalculateBandwidthLimits \/ State(H, p) = "CONNECTION_PENDING"
             B == [E EXCEPT !.recalculateBandwidthLimits = b]
             ending == \/ q.state \in {"CONNECTION_SUCCEEDED", "DISCONNECTING", "CONNECTING"}
                       \/ q.state \in Established /\ ~c.reliable
  <1>1. HostOK(E, h, drawn, n) /\ Touches(H, E, p) /\ SameBut(q, E.peer[p], Emptied)
        /\ IsEmpty(E.peer[p])
    BY ResetQueuesStep
  <1>2. q.state \in States
    BY HostFacts DEF PeerOK
  <1> HIDE DEF E, b
  <1>3. /\ E.peer[p].state = q.state /\ E.peer[p].address = q.address
        /\ E.peer[p].connectID = q.connectID /\ E.peer[p].dispatchedCommands = <<>>
        /\ E.peer[p].acknowledgements = {}
    BY <1>1 DEF SameBut, PeerFields, Emptied, IsEmpty
  <1>4. CASE q.state = "ACKNOWLEDGING_DISCONNECT"
    <2>1. G = H
      BY <1>4 DEF HandleDisconnect, State, Established
    <2>2. Touches(H, H, p)
      BY HostFacts DEF Touches, Others
    <2> QED BY <1>4, <2>1, <2>2, SameMoves DEF Follows
  <1>5. CASE ending
    <2>1. MayBecome(E.peer[p], "ZOMBIE")
      BY <1>3 DEF MayBecome, States, BeforeConnected
    <2>2. HostOK(Z, h, drawn, n) /\ Touches(E, Z, p)
          /\ Z.peer[p].state = "ZOMBIE" /\ Z.peer[p].needsDispatch
      BY <1>1, <2>1, DispatchStateStep
    <2>3. G = [Z EXCEPT !.peer[p].eventData = c.data]
      BY <1>5 DEF HandleDisconnect, State, Established, Z, E
    <2> HIDE DEF Z
    <2>4. HostOK(G, h, drawn, n) /\ Touches(Z, G, p) /\ SameBut(Z.peer[p], G.peer[p], {"eventData"})
      BY <2>2, <2>3, EventDataStep
    <2> HIDE DEF G
    <2>5. G.peer[p].state = "ZOMBIE" /\ G.peer[p].needsDispatch
      BY <2>2, <2>4 DEF SameBut, PeerFields
    <2>6. Touches(H, G, p)
      BY <1>1, <2>2, <2>4, TouchesTwice
    <2>7. Follows(q, G.peer[p])
      BY <2>5 DEF Follows, Gone
    <2>8. Moves(q, G.peer[p])
      BY <1>5, <2>5 DEF Moves, Fits, Tells, StatesOf, Views, Held, Established
    <2> QED BY <2>4, <2>5, <2>6, <2>7, <2>8 DEF Gone, G
  <1>6. CASE q.state \in {"ACKNOWLEDGING_CONNECT", "CONNECTION_PENDING"}
    <2>1. HostOK(B, h, drawn, n) /\ Touches(E, B, p)
      BY <1>1, RecalculateStep
    <2>2. G = PeerReset(B, p)
      BY <1>6 DEF HandleDisconnect, State, Established, B, E, b
    <2> HIDE DEF B
    <2>3. HostOK(G, h, drawn, n) /\ Touches(B, G, p)
          /\ G.peer[p].state = "DISCONNECTED" /\ IsEmpty(G.peer[p])
      BY <2>1, <2>2, PeerResetStep
    <2> HIDE DEF G
    <2>4. Touches(H, G, p)
      BY <1>1, <2>1, <2>3, TouchesTwice
    <2>5. Follows(q, G.peer[p])
      BY <2>3 DEF Follows, Gone
    <2>6. Moves(q, G.peer[p])
      BY <1>6, <2>3 DEF Moves, Fits, Tells, HasEvent, StatesOf, Views, Held
    <2> QED BY <2>3, <2>4, <2>5, <2>6 DEF Gone, G
  <1>7. CASE q.state \in Established /\ c.reliable
    <2>1. MayBecome(E.peer[p], "ACKNOWLEDGING_DISCONNECT")
      BY <1>3 DEF MayBecome, States, BeforeConnected
    <2>2. HostOK(A, h, drawn, n) /\ Touches(E, A, p)
          /\ SameBut(E.peer[p], A.peer[p], {"state"})
          /\ A.peer[p].state = "ACKNOWLEDGING_DISCONNECT"
      BY <1>1, <2>1, ChangeStateStep
    <2>3. G = [A EXCEPT !.peer[p].eventData = c.data]
      BY <1>7 DEF HandleDisconnect, State, Established, A, E
    <2> HIDE DEF A
    <2>4. HostOK(G, h, drawn, n) /\ Touches(A, G, p) /\ SameBut(A.peer[p], G.peer[p], {"eventData"})
      BY <2>2, <2>3, EventDataStep
    <2> HIDE DEF G
    <2>5. G.peer[p].state = "ACKNOWLEDGING_DISCONNECT"
          /\ G.peer[p].address = q.address /\ G.peer[p].connectID = q.connectID
      BY <1>3, <2>2, <2>4 DEF SameBut, PeerFields
    <2>6. Touches(H, G, p)
      BY <1>1, <2>2, <2>4, TouchesTwice
    <2>7. Follows(q, G.peer[p])
      BY <2>5 DEF Follows
    <2>8. Moves(q, G.peer[p])
      BY <1>7, <2>5 DEF Moves, Fits, Tells, HasEvent, StatesOf, Views, Held, Established
    <2> QED BY <2>4, <2>5, <2>6, <2>7, <2>8 DEF G
  <1> QED BY <1>2, <1>4, <1>5, <1>6, <1>7 DEF States, Gone, Established

\* enet_protocol_handle_bandwidth_limit, of an established peer.
LEMMA HandleBandwidthLimitStep ==
  ASSUME NEW h, NEW drawn, NEW n, NEW H, HostOK(H, h, drawn, n), NEW p \in Slots,
         IsConnected(H.peer[p]), NEW c, NEW others, CommandOK(c, others)
  PROVE  LET G == HandleBandwidthLimit(H, p, c)
         IN  /\ HostOK(G, h, drawn, n) /\ Touches(H, G, p)
             /\ SameBut(H.peer[p], G.peer[p], {"incomingBandwidth"})
  <1> DEFINE q == H.peer[p]
             G == HandleBandwidthLimit(H, p, c)
             r == G.peer[p]
  <1>1. Shape(H) /\ PeerOK(q, h, drawn, n) /\ DOMAIN q = PeerFields
        /\ (q.needsDispatch => Queued(H, p))
        /\ H.connectedPeers \in Int /\ H.bandwidthLimitedPeers \in Int
    BY HostFacts
  <1>2. Shape(G) /\ Others(H, G, p) /\ G.dispatchQueue = H.dispatchQueue
        /\ G.connectedPeers = H.connectedPeers
    BY <1>1 DEF HandleBandwidthLimit, Shape, HostFields, Others
  <1>3. SameBut(q, r, {"incomingBandwidth"}) /\ r.incomingBandwidth = c.incomingBandwidth
    BY <1>1 DEF HandleBandwidthLimit, Shape, HostFields, SameBut, PeerFields
  <1>4. G.bandwidthLimitedPeers =
          H.bandwidthLimitedPeers + (One(c.incomingBandwidth) - One(q.incomingBandwidth))
    BY <1>1 DEF HandleBandwidthLimit, Shape, HostFields, One
  <1> HIDE DEF G
  <1>5. r.state = q.state /\ r.needsDispatch = q.needsDispatch
    BY <1>3 DEF SameBut, PeerFields
  <1>6. IsConnected(r)
    BY <1>5 DEF IsConnected
  <1>7. Counts(H, G, p)
    BY <1>1, <1>2, <1>3, <1>4, <1>6 DEF Counts, IsLimited, One
  <1>8. PeerOK(r, h, drawn, n)
    BY <1>1, <1>3 DEF PeerOK, SameBut, PeerFields, CommandOK
  <1>9. Touches(H, G, p) /\ (r.needsDispatch => Queued(G, p))
    BY <1>1, <1>2, <1>5 DEF Touches, Queued
  <1> HIDE DEF r
  <1>10. HostOK(G, h, drawn, n)
    BY <1>7, <1>8, <1>9, HostStep DEF r
  <1> QED BY <1>3, <1>9, <1>10 DEF G, r

\* A queue is a sequence of what is in it, and stays one.
LEMMA SeqOfParts ==
  ASSUME NEW s, NEW t, IsSeq(s), IsSeq(t)
  PROVE  /\ IsSeq(s \o t)
         /\ Len(t) = 0 => s \o t = s
  <1> DEFINE S == {s[i] : i \in 1 .. Len(s)} \union {t[i] : i \in 1 .. Len(t)}
  <1>1. s \in Seq(S)
    <2>1. \A i \in 1 .. Len(s) : s[i] \in S
      OBVIOUS
    <2> HIDE DEF S
    <2> QED BY <2>1 DEF IsSeq
  <1>2. t \in Seq(S)
    <2>1. \A i \in 1 .. Len(t) : t[i] \in S
      OBVIOUS
    <2> HIDE DEF S
    <2> QED BY <2>1 DEF IsSeq
  <1> HIDE DEF S
  <1>3. s \o t \in Seq(S)
    BY <1>1, <1>2
  <1>4. IsSeq(s \o t)
    <2> DEFINE u == s \o t
    <2>1. u \in Seq(S)
      BY <1>3
    <2> HIDE DEF u
    <2>2. IsSeq(u)
      BY <2>1 DEF IsSeq
    <2> QED BY <2>2 DEF u
  <1>5. Len(t) = 0 => s \o t = s
    <2>1. Len(t) = 0 => t = <<>>
      BY <1>2, EmptySeq
    <2>2. s \o <<>> = s
      BY <1>1, ConcatEmptySeq
    <2> QED BY <2>1, <2>2
  <1> QED BY <1>4, <1>5

\* The rest of a queue is one.
LEMMA SeqTail ==
  ASSUME NEW s, IsSeq(s), s # <<>>
  PROVE  IsSeq(Tail(s)) /\ (~(Len(s) > 1) => Tail(s) = <<>>)
  <1> DEFINE S == {s[i] : i \in 1 .. Len(s)}
  <1>1. s \in Seq(S)
    <2>1. \A i \in 1 .. Len(s) : s[i] \in S
      OBVIOUS
    <2> HIDE DEF S
    <2> QED BY <2>1 DEF IsSeq
  <1> HIDE DEF S
  <1>2. Tail(s) \in Seq(S) /\ Len(Tail(s)) = Len(s) - 1 /\ Len(s) \in Nat /\ Len(s) # 0
    <2>1. Len(s) \in Nat \ {0}
      BY <1>1, EmptySeq
    <2> QED BY <1>1, <2>1
  <1> DEFINE t == Tail(s)
  <1>3. t \in Seq(S) /\ Len(t) = Len(s) - 1
    BY <1>2
  <1> HIDE DEF t
  <1>4. IsSeq(t)
    BY <1>3 DEF IsSeq
  <1>5. ~(Len(s) > 1) => Len(t) = 0
    BY <1>2, <1>3
  <1>6. Len(t) = 0 => t = <<>>
    BY <1>3, EmptySeq
  <1> QED BY <1>4, <1>5, <1>6 DEF t

\* A queue that is made of k elements.
LEMMA SeqMade ==
  ASSUME NEW k \in Nat, NEW f
  PROVE  IsSeq([i \in 1 .. k |-> f[i]]) /\ Len([i \in 1 .. k |-> f[i]]) = k
  <1> DEFINE s == [i \in 1 .. k |-> f[i]]
  <1>1. Len(s) = k /\ s = [i \in 1 .. k |-> s[i]]
    OBVIOUS
  <1> HIDE DEF s
  <1>2. IsSeq(s) /\ Len(s) = k
    BY <1>1 DEF IsSeq
  <1> QED BY <1>2 DEF s

\* enet_protocol_handle_send_reliable: what is complete is queued for the
\* application, and the peer for its event.
LEMMA HandleSendReliableStep ==
  ASSUME NEW h, NEW drawn, NEW n, NEW H, HostOK(H, h, drawn, n), NEW p \in Slots,
         NEW c, NEW connectID
  PROVE  LET G == HandleSendReliable(H, p, c, connectID)
         IN  /\ HostOK(G, h, drawn, n) /\ Touches(H, G, p)
             /\ Follows(H.peer[p], G.peer[p]) /\ Moves(H.peer[p], G.peer[p])
             /\ G.peer[p].state = H.peer[p].state
  <1> DEFINE q == H.peer[p]
             new == q.state = "CONNECTED" /\ c.seq > q.received
             waiting == q.waiting \union {[seq |-> c.seq, connectID |-> connectID]}
             ready == {e \in waiting : \A i \in (q.received + 1) .. e.seq : \E d \in waiting : d.seq = i}
             last == q.received + Cardinality(ready)
             choice == [i \in 1 .. Cardinality(ready) |->
                         (CHOOSE e \in ready : e.seq = q.received + i).connectID]
             all == q.dispatchedCommands \o choice
             G == [H EXCEPT !.peer[p] = [@ EXCEPT !.waiting = waiting \ ready, !.received = last,
                                                  !.dispatchedCommands = all]]
             R == HandleSendReliable(H, p, c, connectID)
  <1>1. CASE ~new
    <2>1. R = H
      BY <1>1 DEF HandleSendReliable
    <2>2. Touches(H, H, p)
      BY HostFacts DEF Touches, Others
    <2> QED BY <2>1, <2>2, SameMoves DEF Follows
  <1>2. CASE new
    <2>2. Shape(H) /\ PeerOK(q, h, drawn, n) /\ DOMAIN q = PeerFields
      BY HostFacts
    <2>1. R = IF ready # {} THEN NeedsDispatch(G, p) ELSE G
      BY <1>2 DEF HandleSendReliable
    <2>3. q.state = "CONNECTED"
      BY <1>2
    <2>4. IsFiniteSet(waiting) /\ IsFiniteSet(q.waiting)
      BY <2>2, FS_AddElement DEF PeerOK
    <2>5. ready \in SUBSET waiting /\ (waiting \ ready) \in SUBSET waiting
      OBVIOUS
    <2> HIDE DEF ready, waiting
    <2>6. IsFiniteSet(ready) /\ IsFiniteSet(waiting \ ready)
      BY <2>4, <2>5, FS_Subset
    <2>7. Cardinality(ready) \in Nat /\ (ready = {} => Cardinality(ready) = 0)
      BY <2>6, FS_CardinalityType, FS_EmptySet
    <2>8. IsSeq(choice) /\ Len(choice) = Cardinality(ready)
      <3> DEFINE f == [i \in 1 .. Cardinality(ready) |->
                         (CHOOSE e \in ready : e.seq = q.received + i).connectID]
      <3>1. choice = [i \in 1 .. Cardinality(ready) |-> f[i]]
        OBVIOUS
      <3> HIDE DEF f, choice
      <3> QED BY <2>7, <3>1, SeqMade
    <2> HIDE DEF choice, last
    <2>9. IsSeq(all) /\ (ready = {} => all = q.dispatchedCommands)
      BY <2>2, <2>7, <2>8, SeqOfParts DEF PeerOK
    <2> HIDE DEF all
    <2>10. Rewrites(H, G, p)
      BY <2>2 DEF Rewrites, Shape, HostFields, Others, SameCounters, PeerFields
    <2>11. /\ SameBut(q, G.peer[p], {"waiting", "received", "dispatchedCommands"})
           /\ G.peer[p].waiting = waiting \ ready
           /\ G.peer[p].dispatchedCommands = all
      <3>1. SameBut(q, G.peer[p], {"waiting", "received", "dispatchedCommands"})
        BY <2>2 DEF Shape, HostFields, SameBut, PeerFields
      <3>2. G.peer[p].waiting = waiting \ ready
        BY <2>2 DEF Shape, HostFields, PeerFields
      <3>3. G.peer[p].dispatchedCommands = all
        BY <2>2 DEF Shape, HostFields, PeerFields
      <3> QED BY <3>1, <3>2, <3>3
    <2> HIDE DEF G
    <2>12. /\ G.peer[p].state = q.state /\ G.peer[p].address = q.address
           /\ G.peer[p].connectID = q.connectID /\ G.peer[p].needsDispatch = q.needsDispatch
      BY <2>11 DEF SameBut, PeerFields
    <2>13. PeerOK(G.peer[p], h, drawn, n)
      BY <2>2, <2>3, <2>6, <2>9, <2>11 DEF PeerOK, SameBut, PeerFields, BeforeConnected
    <2>14. HostOK(G, h, drawn, n) /\ Touches(H, G, p)
      BY <2>10, <2>13, RewriteStep
    <2>15. CASE ready = {}
      <3>1. R = G /\ G.peer[p].dispatchedCommands = q.dispatchedCommands
        BY <2>1, <2>9, <2>11, <2>15
      <3> QED BY <2>12, <2>14, <3>1, SameMoves DEF Follows
    <2>16. CASE ready # {}
      <3>1. R = NeedsDispatch(G, p)
        BY <2>1, <2>16
      <3> HIDE DEF R
      <3>2. HostOK(R, h, drawn, n) /\ Touches(G, R, p)
            /\ SameBut(G.peer[p], R.peer[p], {"needsDispatch"}) /\ R.peer[p].needsDispatch
        BY <2>14, <3>1, NeedsDispatchStep
      <3>3. /\ R.peer[p].state = q.state /\ R.peer[p].address = q.address
            /\ R.peer[p].connectID = q.connectID
        BY <2>12, <3>2 DEF SameBut, PeerFields
      <3>4. Touches(H, R, p)
        BY <2>14, <3>2, TouchesTwice
      <3>5. Follows(q, R.peer[p])
        BY <3>3 DEF Follows
      <3>6. Moves(q, R.peer[p])
        BY <3>2, <3>3 DEF Moves, Fits, Tells
      <3> QED BY <3>2, <3>3, <3>4, <3>5, <3>6 DEF R
    <2> QED BY <2>15, <2>16
  <1> QED BY <1>1, <1>2

\* A slot is there to be taken.
LEMMA FirstFreeIsFree ==
  ASSUME NEW H, FreeSlots(H) # {}
  PROVE  FirstFree(H) \in Slots /\ State(H, FirstFree(H)) = "DISCONNECTED"
  <1>1. FreeSlots(H) \in SUBSET Nat
    BY ConnectionAssumption DEF FreeSlots
  <1>2. \E p \in FreeSlots(H) : \A q \in FreeSlots(H) : p <= q
    BY <1>1, LeastNumber
  <1>3. FirstFree(H) \in FreeSlots(H)
    BY <1>2 DEF FirstFree
  <1> QED BY <1>3 DEF FreeSlots

\* A step within an attempt starts no other.
LEMMA OneSlotStep ==
  ASSUME NEW H, NEW G, NEW p \in Slots, OneSlot(H), Touches(H, G, p),
         Follows(H.peer[p], G.peer[p])
  PROVE  OneSlot(G)
  <1>1. ASSUME NEW r \in Active(G)
        PROVE  /\ r \in Active(H) /\ G.peer[r].address = H.peer[r].address
               /\ G.peer[r].connectID = H.peer[r].connectID
    BY <1>1 DEF Active, State, Touches, Others, Follows, Gone
  <1> QED BY <1>1 DEF OneSlot

\* What a step of peer p of a host does that the application need not hear of
\* unless it is told.
HandledOK(H, r, p, h, drawn, n) ==
  /\ HostOK(r.host, h, drawn, n)
  /\ OneSlot(r.host)
  /\ Touches(H, r.host, p)
  /\ Fitting(H.peer[p], r.host.peer[p], r.event, p)

\* Within an attempt.
LEMMA HandledResult ==
  ASSUME NEW h, NEW drawn, NEW n, NEW H, OneSlot(H), NEW p \in Slots, NEW r,
         ResultOK(H, r, p, h, drawn, n)
  PROVE  HandledOK(H, r, p, h, drawn, n)
  BY OneSlotStep DEF ResultOK, HandledOK

\* enet_protocol_handle_connect: the identifier is one another host drew, so
\* that no attempt of this host has it, and no peer that was accepted has it either.
LEMMA HandleConnectStep ==
  ASSUME NEW h, NEW drawn, NEW n \in Nat, NEW H, HostOK(H, h, drawn, n), OneSlot(H),
         NEW m, AcceptsConnect(H, m), m.from # h, m.command.type = "CONNECT",
         NEW others \in SUBSET (1 .. n), drawn \cap others = {}, CommandOK(m.command, others)
  PROVE  \E p \in Slots : HandledOK(H, Quiet(HandleConnect(H, m)), p, h, drawn, n)
  <1> DEFINE p == FirstFree(H)
             q == H.peer[p]
             c == m.command
             incoming == NextSession(c.incomingSessionID, q.outgoingSessionID)
             outgoing == NextSession(c.outgoingSessionID, q.incomingSessionID)
             F == [H EXCEPT !.peer[p] =
                    [@ EXCEPT !.state = "ACKNOWLEDGING_CONNECT", !.connectID = c.connectID,
                              !.address = m.from, !.outgoingPeerID = c.peerID,
                              !.incomingBandwidth = c.incomingBandwidth, !.eventData = c.data,
                              !.outgoingSessionID = incoming, !.incomingSessionID = outgoing]]
             verify == [Command("VERIFY_CONNECT", TRUE) EXCEPT
                          !.peerID = p, !.incomingSessionID = incoming,
                          !.outgoingSessionID = outgoing, !.connectID = c.connectID,
                          !.incomingBandwidth = H.incomingBandwidth]
             G == QueueOutgoing(F, p, verify)
  <1>1. p \in Slots /\ q.state = "DISCONNECTED"
    BY FirstFreeIsFree DEF AcceptsConnect, State
  <1> HIDE DEF p
  <1>2. Shape(H) /\ PeerOK(q, h, drawn, n) /\ DOMAIN q = PeerFields
        /\ (q.needsDispatch => Queued(H, p))
        /\ H.connectedPeers \in Int /\ H.bandwidthLimitedPeers \in Int
    BY <1>1, HostFacts
  <1>3. G = HandleConnect(H, m)
    BY DEF HandleConnect, p
  <1> HIDE DEF incoming, outgoing
  <1>4. CommandOK(verify, drawn)
    <2>1. DOMAIN verify = CommandFields /\ verify.type = "VERIFY_CONNECT"
      BY DEF Command, CommandFields
    <2>2. verify.peerID = p
      BY DEF Command
    <2>3. verify.incomingBandwidth = H.incomingBandwidth
      BY DEF Command
    <2> HIDE DEF verify
    <2>4. H.incomingBandwidth \in BOOLEAN
      BY <1>2 DEF Shape
    <2>5. verify.peerID \in Slots \union {None} /\ verify.incomingBandwidth \in BOOLEAN
      BY <1>1, <2>2, <2>3, <2>4
    <2>6. verify.type # "CONNECT"
      BY <2>1
    <2> QED BY <2>1, <2>5, <2>6 DEF CommandOK
  <1>5. c.connectID \in others /\ c.connectID \in 0 .. n /\ c.connectID \notin drawn
    <2>1. c.connectID \in others
      BY DEF CommandOK
    <2>2. \A i \in others : i \in 0 .. n /\ i \notin drawn
      OBVIOUS
    <2> HIDE DEF c
    <2> QED BY <2>1, <2>2
  <1>6. Shape(F) /\ Others(H, F, p) /\ SameCounters(H, F) /\ F.dispatchQueue = H.dispatchQueue
    BY <1>1, <1>2 DEF Shape, HostFields, Others, SameCounters
  <1>7. /\ SameBut(q, F.peer[p], {"state", "connectID", "address", "outgoingPeerID",
                                  "incomingBandwidth", "eventData", "outgoingSessionID",
                                  "incomingSessionID"})
        /\ F.peer[p].state = "ACKNOWLEDGING_CONNECT" /\ F.peer[p].connectID = c.connectID
        /\ F.peer[p].address = m.from /\ F.peer[p].outgoingPeerID = c.peerID
        /\ F.peer[p].incomingBandwidth = c.incomingBandwidth
    <2> HIDE DEF c, q
    <2>1. F.peer[p] = [q EXCEPT
                         !.state = "ACKNOWLEDGING_CONNECT", !.connectID = c.connectID,
                         !.address = m.from, !.outgoingPeerID = c.peerID,
                         !.incomingBandwidth = c.incomingBandwidth, !.eventData = c.data,
                         !.outgoingSessionID = incoming, !.incomingSessionID = outgoing]
      BY <1>1, <1>2 DEF Shape, HostFields, q
    <2> HIDE DEF F
    <2> QED BY <1>2, <2>1 DEF SameBut, PeerFields
  <1> HIDE DEF F, verify
  <1>8. PeerOK(F.peer[p], h, drawn, n)
    BY <1>1, <1>2, <1>5, <1>7 DEF PeerOK, SameBut, PeerFields, CommandOK, States, BeforeConnected
  <1>9. F.peer[p].needsDispatch = q.needsDispatch /\ F.peer[p].dispatchedCommands = <<>>
    BY <1>1, <1>2, <1>7 DEF SameBut, PeerFields, PeerOK, BeforeConnected
  <1>10. Touches(H, F, p)
    BY <1>6 DEF Touches, Queued
  <1>11. Counts(H, F, p)
    <2>1. ~IsConnected(q) /\ ~IsConnected(F.peer[p])
      BY <1>1, <1>7 DEF IsConnected, Established
    <2> QED BY <1>2, <1>6, <2>1, SameCounts
  <1>12. HostOK(F, h, drawn, n)
    <2>1. F.peer[p].needsDispatch => Queued(F, p)
      BY <1>2, <1>6, <1>9 DEF Queued
    <2> QED BY <1>1, <1>8, <1>10, <1>11, <2>1, HostStep
  <1>13. HostOK(G, h, drawn, n) /\ Touches(F, G, p)
         /\ SameBut(F.peer[p], G.peer[p], {"outgoingReliableSequenceNumber", "outgoingCommands"})
    BY <1>1, <1>4, <1>12, QueueOutgoingStep
  <1> HIDE DEF G
  <1>14. Touches(H, G, p)
    BY <1>10, <1>13, TouchesTwice
  <1>15. /\ G.peer[p].state = "ACKNOWLEDGING_CONNECT"
         /\ G.peer[p].address = m.from /\ G.peer[p].connectID = c.connectID
    BY <1>7, <1>13 DEF SameBut, PeerFields
  <1>16. Moves(q, G.peer[p])
    BY <1>1, <1>15 DEF Moves, Fits, Tells, HasEvent, StatesOf, Views, Held
  <1>17. OneSlot(G)
    <2>1. ASSUME NEW r \in Slots \ {p}, r \in Active(G)
          PROVE  /\ r \in Active(H) /\ G.peer[r] = H.peer[r]
                 /\ ~(H.peer[r].address = m.from /\ H.peer[r].connectID = c.connectID)
      <3>1. G.peer[r] = H.peer[r]
        BY <1>14 DEF Touches, Others
      <3>2. r \in Active(H) /\ H.peer[r].state \notin {"DISCONNECTED", "ZOMBIE"}
        BY <2>1, <3>1 DEF Active, State
      <3>3. H.peer[r].state = "CONNECTING" => H.peer[r].connectID # c.connectID
        BY <1>5, HostFacts DEF PeerOK
      <3>4. H.peer[r].state # "CONNECTING" =>
              ~(H.peer[r].address = m.from /\ H.peer[r].connectID = c.connectID)
        BY <3>2 DEF AcceptsConnect, KnownAttempt, State
      <3> QED BY <3>1, <3>2, <3>3, <3>4
    <2>2. Active(G) \subseteq Slots
      BY DEF Active
    <2> QED BY <1>15, <2>1, <2>2 DEF OneSlot
  <1>18. HandledOK(H, Quiet(G), p, h, drawn, n)
    BY <1>13, <1>14, <1>16, <1>17 DEF HandledOK, Quiet, Fitting
  <1> QED BY <1>1, <1>3, <1>18

\* The commands of the network reach the handlers of Handle; afterwards only a
\* DISCONNECT leaves a peer that acknowledges it.
LEMMA HandleStep ==
  ASSUME NEW h, NEW drawn, NEW n \in Nat, NEW H, HostOK(H, h, drawn, n), OneSlot(H),
         NEW m, m.peerID \in Slots, H.peer[m.peerID].state \notin Gone, NEW others, CommandOK(m.command, others), NEW events
  PROVE  LET r == Handle(H, m, events)
         IN  /\ ResultOK(H, r, m.peerID, h, drawn, n)
             /\ m.command.type = "DISCONNECT" =>
                  r.host.peer[m.peerID].state \in Gone \union {"ACKNOWLEDGING_DISCONNECT"}
  <1> DEFINE p == m.peerID
             c == m.command
             r == Handle(H, m, events)
             established == State(H, p) \in Established
  <1>0. p \in Slots /\ p # None
    BY ConnectionAssumption
  <1>1. CASE c.type = "VERIFY_CONNECT"
    <2>1. r = HandleVerifyConnect(H, p, c, events)
      BY <1>1 DEF Handle
    <2> QED BY <1>0, <1>1, <2>1, HandleVerifyConnectStep
  <1>2. CASE c.type = "ACKNOWLEDGE"
    <2>1. r = HandleAcknowledge(H, p, c, events)
      BY <1>2 DEF Handle
    <2> QED BY <1>0, <1>2, <2>1, HandleAcknowledgeStep
  <1>3. CASE c.type = "DISCONNECT"
    <2> DEFINE G == HandleDisconnect(H, p, c)
    <2>1. r = Quiet(G)
      BY <1>3 DEF Handle
    <2>2. /\ HostOK(G, h, drawn, n) /\ Touches(H, G, p)
          /\ Follows(H.peer[p], G.peer[p]) /\ Moves(H.peer[p], G.peer[p])
          /\ G.peer[p].state \in Gone \union {"ACKNOWLEDGING_DISCONNECT"}
      BY <1>0, HandleDisconnectStep
    <2> HIDE DEF G
    <2>3. ResultOK(H, Quiet(G), p, h, drawn, n)
      BY <2>2, QuietResult
    <2> QED BY <2>1, <2>2, <2>3 DEF Quiet
  <1>4. CASE c.type = "BANDWIDTH_LIMIT" /\ established
    <2> DEFINE G == HandleBandwidthLimit(H, p, c)
    <2>1. r = Quiet(G)
      BY <1>4 DEF Handle
    <2>2. HostOK(G, h, drawn, n) /\ Touches(H, G, p)
          /\ SameBut(H.peer[p], G.peer[p], {"incomingBandwidth"})
      BY <1>0, <1>4, HandleBandwidthLimitStep DEF IsConnected, State
    <2> HIDE DEF G
    <2>3. /\ G.peer[p].state = H.peer[p].state /\ G.peer[p].address = H.peer[p].address
          /\ G.peer[p].connectID = H.peer[p].connectID
          /\ G.peer[p].dispatchedCommands = H.peer[p].dispatchedCommands
          /\ G.peer[p].needsDispatch = H.peer[p].needsDispatch
      BY <2>2 DEF SameBut, PeerFields
    <2>4. ResultOK(H, Quiet(G), p, h, drawn, n)
      BY <2>2, <2>3, SameMoves, QuietResult DEF Follows
    <2> QED BY <1>4, <2>1, <2>4
  <1>5. CASE c.type = "SEND_RELIABLE" /\ established
    <2> DEFINE G == HandleSendReliable(H, p, c, m.connectID)
    <2>1. r = Quiet(G)
      BY <1>5 DEF Handle
    <2>2. /\ HostOK(G, h, drawn, n) /\ Touches(H, G, p)
          /\ Follows(H.peer[p], G.peer[p]) /\ Moves(H.peer[p], G.peer[p])
      BY <1>0, HandleSendReliableStep
    <2> HIDE DEF G
    <2>3. ResultOK(H, Quiet(G), p, h, drawn, n)
      BY <2>2, QuietResult
    <2> QED BY <1>5, <2>1, <2>3
  <1>6. CASE /\ c.type \notin {"VERIFY_CONNECT", "ACKNOWLEDGE", "DISCONNECT"}
             /\ ~(c.type = "BANDWIDTH_LIMIT" /\ established)
             /\ ~(c.type = "SEND_RELIABLE" /\ established)
    <2>1. r = Quiet(H)
      BY <1>0, <1>6 DEF Handle
    <2>2. Touches(H, H, p)
      BY <1>0, HostFacts DEF Touches, Others
    <2>3. ResultOK(H, Quiet(H), p, h, drawn, n)
      BY <2>2, SameMoves, QuietResult DEF Follows
    <2> QED BY <1>6, <2>1, <2>3
  <1> QED BY <1>1, <1>2, <1>3, <1>4, <1>5, <1>6

\* enet_peer_queue_acknowledgement: of a DISCONNECT only by a peer that waits
\* for its acknowledgement to be sent.
LEMMA QueueAcknowledgementStep ==
  ASSUME NEW h, NEW drawn, NEW n, NEW H, HostOK(H, h, drawn, n), NEW p \in Slots, NEW c,
         c.type = "DISCONNECT" => H.peer[p].state = "ACKNOWLEDGING_DISCONNECT"
  PROVE  LET G == QueueAcknowledgement(H, p, c)
         IN  /\ HostOK(G, h, drawn, n) /\ Touches(H, G, p)
             /\ SameBut(H.peer[p], G.peer[p], {"acknowledgements"})
  <1> DEFINE G == QueueAcknowledgement(H, p, c)
             a == [type |-> c.type, seq |-> c.seq, channel |-> c.channel]
  <1>1. Shape(H) /\ PeerOK(H.peer[p], h, drawn, n) /\ DOMAIN H.peer[p] = PeerFields
    BY HostFacts
  <1>2. a.type = c.type
    OBVIOUS
  <1> HIDE DEF a
  <1>3. Rewrites(H, G, p)
    BY <1>1 DEF Rewrites, Shape, HostFields, Others, SameCounters, PeerFields, QueueAcknowledgement
  <1>4. SameBut(H.peer[p], G.peer[p], {"acknowledgements"})
    BY <1>1 DEF Shape, HostFields, SameBut, PeerFields, QueueAcknowledgement
  <1>5. G.peer[p].acknowledgements = H.peer[p].acknowledgements \union {a}
    BY <1>1 DEF Shape, HostFields, PeerFields, QueueAcknowledgement, a
  <1> HIDE DEF G
  <1>6. PeerOK(G.peer[p], h, drawn, n)
    BY <1>1, <1>2, <1>4, <1>5 DEF PeerOK, SameBut, PeerFields
  <1> QED BY <1>3, <1>4, <1>6, RewriteStep DEF G

\* What the header lets through, and what is acknowledged of it.
LEMMA HandleIncomingStep ==
  ASSUME NEW h, NEW drawn, NEW n \in Nat, NEW H, HostOK(H, h, drawn, n), OneSlot(H),
         NEW m, Accepts(H, m), m.peerID \in Slots \union {None}, m.from # h,
         NEW others \in SUBSET (1 .. n), drawn \cap others = {}, CommandOK(m.command, others),
         NEW events
  PROVE  \E p \in Slots : HandledOK(H, HandleIncoming(H, m, events), p, h, drawn, n)
  <1> DEFINE p == m.peerID
             c == m.command
             r == Handle(H, m, events)
             s == HandleIncoming(H, m, events)
  <1>1. CASE p = None
    <2>1. s = r
      BY <1>1 DEF HandleIncoming
    <2>2. c.type = "CONNECT" /\ AcceptsConnect(H, m)
      BY <1>1 DEF Accepts
    <2>3. r = Quiet(HandleConnect(H, m))
      BY <1>1, <2>2 DEF Handle
    <2> QED BY <2>1, <2>2, <2>3, HandleConnectStep
  <1>2. CASE p # None
    <2>1. p \in Slots /\ H.peer[p].state \notin Gone
      BY <1>2 DEF Accepts, Gone
    <2>2. /\ ResultOK(H, r, p, h, drawn, n)
          /\ c.type = "DISCONNECT" => r.host.peer[p].state \in Gone \union {"ACKNOWLEDGING_DISCONNECT"}
      BY <2>1, HandleStep
    <2>3. CASE ~Acknowledges(H, r.host, p, c)
      <3>1. s = r
        BY <2>3 DEF HandleIncoming
      <3> QED BY <2>1, <2>2, <3>1, HandledResult
    <2>4. CASE Acknowledges(H, r.host, p, c)
      <3> DEFINE F == r.host
                 G == QueueAcknowledgement(F, p, c)
      <3>1. s.host = G /\ s.event = r.event
        BY <1>2, <2>4 DEF HandleIncoming
      <3>2. c.type = "DISCONNECT" => F.peer[p].state = "ACKNOWLEDGING_DISCONNECT"
        BY <2>2, <2>4 DEF Acknowledges, State, Gone
      <3>3. /\ HostOK(F, h, drawn, n) /\ Touches(H, F, p)
            /\ Follows(H.peer[p], F.peer[p])
            /\ Fitting(H.peer[p], F.peer[p], r.event, p)
        BY <2>2 DEF ResultOK
      <3> HIDE DEF F
      <3>4. /\ HostOK(G, h, drawn, n) /\ Touches(F, G, p)
            /\ SameBut(F.peer[p], G.peer[p], {"acknowledgements"})
        BY <2>1, <3>2, <3>3, QueueAcknowledgementStep
      <3> HIDE DEF G
      <3>5. Touches(H, G, p)
        BY <3>3, <3>4, TouchesTwice
      <3>6. /\ G.peer[p].state = F.peer[p].state /\ G.peer[p].address = F.peer[p].address
            /\ G.peer[p].connectID = F.peer[p].connectID
            /\ G.peer[p].dispatchedCommands = F.peer[p].dispatchedCommands
            /\ G.peer[p].needsDispatch = F.peer[p].needsDispatch
        BY <3>4 DEF SameBut, PeerFields
      <3>7. Follows(H.peer[p], G.peer[p])
        BY <3>3, <3>6 DEF Follows
      <3>8. \A view : Fits(F.peer[p], view) => Fits(G.peer[p], view)
        BY <3>6 DEF Fits, Tells, HasEvent
      <3>9. Fitting(H.peer[p], G.peer[p], r.event, p)
        BY <3>3, <3>8 DEF Fitting, Moves
      <3>10. ResultOK(H, s, p, h, drawn, n)
        BY <3>1, <3>4, <3>5, <3>7, <3>9 DEF ResultOK
      <3> QED BY <2>1, <3>10, HandledResult
    <2> QED BY <2>3, <2>4
  <1> QED BY <1>1, <1>2

-----------------------------------------------------------------------------
(* Sending and dispatching.                                                *)

\* A step of peer p that the application is not told of.
QuietOK(H, G, p, h, drawn, n) ==
  /\ HostOK(G, h, drawn, n)
  /\ Touches(H, G, p)
  /\ Follows(H.peer[p], G.peer[p])
  /\ Moves(H.peer[p], G.peer[p])

\* Two of them are one.
LEMMA QuietTwice ==
  ASSUME NEW h, NEW drawn, NEW n, NEW H, NEW G, NEW F, NEW p,
         QuietOK(H, G, p, h, drawn, n), QuietOK(G, F, p, h, drawn, n)
  PROVE  QuietOK(H, F, p, h, drawn, n)
  <1>1. Touches(H, F, p)
    BY TouchesTwice DEF QuietOK
  <1>2. Follows(H.peer[p], F.peer[p])
    BY DEF QuietOK, Follows
  <1>3. Moves(H.peer[p], F.peer[p])
    BY DEF QuietOK, Moves
  <1> QED BY <1>1, <1>2, <1>3 DEF QuietOK

\* A host that does nothing.
LEMMA QuietNothing ==
  ASSUME NEW h, NEW drawn, NEW n, NEW H, NEW p, HostOK(H, h, drawn, n)
  PROVE  QuietOK(H, H, p, h, drawn, n)
  BY DEF QuietOK, HostOK, Touches, Others, Follows, Moves

\* A step of the queues of commands only.
LEMMA QuietQueues ==
  ASSUME NEW h, NEW drawn, NEW n, NEW H, NEW G, NEW p, HostOK(G, h, drawn, n), Touches(H, G, p),
         SameBut(H.peer[p], G.peer[p], {"sentReliableCommands", "outgoingCommands",
                                        "acknowledgements", "outgoingReliableSequenceNumber"})
  PROVE  QuietOK(H, G, p, h, drawn, n)
  <1>1. /\ G.peer[p].state = H.peer[p].state /\ G.peer[p].address = H.peer[p].address
        /\ G.peer[p].connectID = H.peer[p].connectID
        /\ G.peer[p].dispatchedCommands = H.peer[p].dispatchedCommands
        /\ G.peer[p].needsDispatch = H.peer[p].needsDispatch
    BY DEF SameBut, PeerFields
  <1>2. Follows(H.peer[p], G.peer[p]) /\ Moves(H.peer[p], G.peer[p])
    BY <1>1, SameMoves DEF Follows
  <1> QED BY <1>2 DEF QuietOK

\* enet_protocol_send_acknowledgements: the DISCONNECT of a peer is acknowledged
\* by one that was ACKNOWLEDGING_DISCONNECT, and its end is yet to be told.
LEMMA SendAcknowledgementsStep ==
  ASSUME NEW h, NEW drawn, NEW n, NEW H, HostOK(H, h, drawn, n), NEW p \in Slots
  PROVE  LET G == SendAcknowledgements(H, p)
         IN  /\ QuietOK(H, G, p, h, drawn, n)
             /\ G.peer[p].acknowledgements = {}
             /\ G.peer[p].sentReliableCommands = H.peer[p].sentReliableCommands
  <1> DEFINE q == H.peer[p]
             types == {a.type : a \in q.acknowledgements}
             F == [H EXCEPT !.peer[p].acknowledgements = {}]
             G == SendAcknowledgements(H, p)
  <1>1. Shape(H) /\ PeerOK(q, h, drawn, n) /\ DOMAIN q = PeerFields
    BY HostFacts
  <1>2. "DISCONNECT" \in types => q.state = "ACKNOWLEDGING_DISCONNECT"
    BY <1>1 DEF PeerOK
  <1>3. G = IF "DISCONNECT" \in types THEN DispatchState(F, p, "ZOMBIE") ELSE F
    BY DEF SendAcknowledgements
  <1> HIDE DEF G, types
  <1>4. Rewrites(H, F, p)
    BY <1>1 DEF Rewrites, Shape, HostFields, Others, SameCounters, PeerFields
  <1>5. SameBut(q, F.peer[p], {"acknowledgements"}) /\ F.peer[p].acknowledgements = {}
    BY <1>1 DEF Shape, HostFields, SameBut, PeerFields
  <1> HIDE DEF F
  <1>6. PeerOK(F.peer[p], h, drawn, n)
    BY <1>1, <1>5 DEF PeerOK, SameBut, PeerFields
  <1>7. HostOK(F, h, drawn, n) /\ Touches(H, F, p)
    BY <1>4, <1>6, RewriteStep
  <1>8. QuietOK(H, F, p, h, drawn, n)
    BY <1>5, <1>7, QuietQueues DEF SameBut
  <1>9. F.peer[p].sentReliableCommands = q.sentReliableCommands /\ F.peer[p].state = q.state
    BY <1>5 DEF SameBut, PeerFields
  <1>10. CASE "DISCONNECT" \notin types
    <2>1. G = F
      BY <1>3, <1>10
    <2> QED BY <1>5, <1>8, <1>9, <2>1 DEF G
  <1>11. CASE "DISCONNECT" \in types
    <2>1. G = DispatchState(F, p, "ZOMBIE")
      BY <1>3, <1>11
    <2>2. MayBecome(F.peer[p], "ZOMBIE")
      BY <1>5 DEF MayBecome, States, BeforeConnected
    <2>3. HostOK(G, h, drawn, n) /\ Touches(F, G, p)
          /\ SameBut(F.peer[p], G.peer[p], {"state", "needsDispatch"})
          /\ G.peer[p].state = "ZOMBIE" /\ G.peer[p].needsDispatch
      BY <1>7, <2>1, <2>2, DispatchStateStep
    <2>4. Follows(F.peer[p], G.peer[p])
      BY <2>3 DEF Follows, Gone
    <2>8. F.peer[p].state = "ACKNOWLEDGING_DISCONNECT"
      BY <1>2, <1>9, <1>11
    <2> HIDE DEF q
    <2>5. Moves(F.peer[p], G.peer[p])
      BY <2>3, <2>8 DEF Moves, Fits, Tells, StatesOf, Views, Held
    <2>6. QuietOK(H, G, p, h, drawn, n)
      BY <1>8, <2>3, <2>4, <2>5, QuietTwice DEF QuietOK
    <2>7. /\ G.peer[p].acknowledgements = {}
          /\ G.peer[p].sentReliableCommands = q.sentReliableCommands
      BY <1>5, <1>9, <2>3 DEF SameBut, PeerFields
    <2> QED BY <2>6, <2>7 DEF G, q
  <1> QED BY <1>10, <1>11

\* What enet_protocol_check_timeouts puts back into the queue.
LEMMA TimeOutStep ==
  ASSUME NEW h, NEW drawn, NEW n, NEW H, HostOK(H, h, drawn, n), NEW p \in Slots,
         NEW late \in SUBSET H.peer[p].sentReliableCommands
  PROVE  QuietOK(H, TimeOut(H, p, late), p, h, drawn, n)
  <1> DEFINE G == TimeOut(H, p, late)
  <1>1. Shape(H) /\ PeerOK(H.peer[p], h, drawn, n) /\ DOMAIN H.peer[p] = PeerFields
    BY HostFacts
  <1>2. Rewrites(H, G, p)
    BY <1>1 DEF Rewrites, Shape, HostFields, Others, SameCounters, PeerFields, TimeOut
  <1>3. SameBut(H.peer[p], G.peer[p], {"sentReliableCommands", "outgoingCommands"})
    BY <1>1 DEF Shape, HostFields, SameBut, PeerFields, TimeOut
  <1>4. /\ G.peer[p].sentReliableCommands = H.peer[p].sentReliableCommands \ late
        /\ G.peer[p].outgoingCommands = H.peer[p].outgoingCommands \union late
    BY <1>1 DEF Shape, HostFields, PeerFields, TimeOut
  <1> HIDE DEF G
  <1>5. PeerOK(G.peer[p], h, drawn, n)
    BY <1>1, <1>3, <1>4 DEF PeerOK, SameBut, PeerFields
  <1>6. HostOK(G, h, drawn, n) /\ Touches(H, G, p)
    BY <1>2, <1>5, RewriteStep
  <1>7. QuietOK(H, G, p, h, drawn, n)
    BY <1>3, <1>6, QuietQueues DEF SameBut
  <1> QED BY <1>7 DEF G

\* enet_protocol_check_outgoing_commands: a peer that has nothing left to send
\* goes on to its disconnection.
LEMMA CheckOutgoingStep ==
  ASSUME NEW h, NEW drawn, NEW n, NEW H, HostOK(H, h, drawn, n), NEW p \in Slots
  PROVE  QuietOK(H, CheckOutgoing(H, p), p, h, drawn, n)
  <1> DEFINE q == H.peer[p]
             sent == {[c EXCEPT !.attempts = @ + 1] : c \in {d \in q.outgoingCommands : d.reliable}}
             F == [H EXCEPT !.peer[p].outgoingCommands = {},
                            !.peer[p].sentReliableCommands = @ \union sent]
             G == CheckOutgoing(H, p)
  <1>1. Shape(H) /\ PeerOK(q, h, drawn, n) /\ DOMAIN q = PeerFields
    BY HostFacts
  <1>2. \A c \in sent : CommandOK(c, drawn)
    <2>1. ASSUME NEW c \in q.outgoingCommands
          PROVE  CommandOK([c EXCEPT !.attempts = @ + 1], drawn)
      <3>1. CommandOK(c, drawn)
        BY <1>1 DEF PeerOK
      <3> QED BY <3>1 DEF CommandOK, CommandFields
    <2> QED BY <2>1
  <1>3. G = IF State(H, p) = "DISCONNECT_LATER" /\ ~HasOutgoing(F, p)
            THEN BeginDisconnect(F, p, F.peer[p].eventData) ELSE F
    BY DEF CheckOutgoing
  <1> HIDE DEF G, sent
  <1>4. Rewrites(H, F, p)
    BY <1>1 DEF Rewrites, Shape, HostFields, Others, SameCounters, PeerFields
  <1>5. SameBut(q, F.peer[p], {"sentReliableCommands", "outgoingCommands"})
    BY <1>1 DEF Shape, HostFields, SameBut, PeerFields
  <1>6. F.peer[p].outgoingCommands = {}
        /\ F.peer[p].sentReliableCommands = q.sentReliableCommands \union sent
    BY <1>1 DEF Shape, HostFields, PeerFields
  <1> HIDE DEF F
  <1>7. PeerOK(F.peer[p], h, drawn, n)
    BY <1>1, <1>2, <1>5, <1>6 DEF PeerOK, SameBut, PeerFields
  <1>8. HostOK(F, h, drawn, n) /\ Touches(H, F, p)
    BY <1>4, <1>7, RewriteStep
  <1>9. QuietOK(H, F, p, h, drawn, n)
    BY <1>5, <1>8, QuietQueues DEF SameBut
  <1>10. CASE State(H, p) = "DISCONNECT_LATER" /\ ~HasOutgoing(F, p)
    <2>1. G = BeginDisconnect(F, p, F.peer[p].eventData)
      BY <1>3, <1>10
    <2>2. F.peer[p].state = "DISCONNECT_LATER"
      BY <1>4, <1>10 DEF Rewrites, State
    <2>3. HostOK(G, h, drawn, n) /\ Touches(F, G, p) /\ G.peer[p].state = "DISCONNECTING"
          /\ G.peer[p].address = F.peer[p].address /\ G.peer[p].connectID = F.peer[p].connectID
      BY <1>8, <2>1, <2>2, BeginDisconnectStep DEF IsConnected, Established
    <2>4. Moves(F.peer[p], G.peer[p])
      BY <2>2, <2>3 DEF Moves, Fits, Tells, HasEvent, StatesOf, Views, Held
    <2>5. Follows(F.peer[p], G.peer[p])
      BY <2>2, <2>3 DEF Follows, Gone
    <2>6. QuietOK(F, G, p, h, drawn, n)
      BY <2>3, <2>4, <2>5 DEF QuietOK
    <2> QED BY <1>9, <2>6, QuietTwice DEF G
  <1>11. CASE ~(State(H, p) = "DISCONNECT_LATER" /\ ~HasOutgoing(F, p))
    <2>1. G = F
      BY <1>3, <1>11
    <2> QED BY <1>9, <2>1 DEF G
  <1> QED BY <1>10, <1>11

\* enet_peer_ping.
LEMMA PeerPingStep ==
  ASSUME NEW h, NEW drawn, NEW n, NEW H, HostOK(H, h, drawn, n), NEW p \in Slots
  PROVE  QuietOK(H, PeerPing(H, p), p, h, drawn, n)
  <1> DEFINE c == Command("PING", TRUE)
             G == QueueOutgoing(H, p, c)
  <1>1. CommandOK(c, drawn)
    BY DEF Command, CommandOK, CommandFields
  <1> HIDE DEF c
  <1>2. HostOK(G, h, drawn, n) /\ Touches(H, G, p)
        /\ SameBut(H.peer[p], G.peer[p], {"outgoingReliableSequenceNumber", "outgoingCommands"})
    BY <1>1, QueueOutgoingStep
  <1> HIDE DEF G
  <1>3. QuietOK(H, G, p, h, drawn, n)
    BY <1>2, QuietQueues DEF SameBut
  <1>4. QuietOK(H, H, p, h, drawn, n)
    BY QuietNothing
  <1>5. PeerPing(H, p) = G \/ PeerPing(H, p) = H
    BY DEF PeerPing, G, c
  <1> QED BY <1>3, <1>4, <1>5

\* What a peer sends is what is in its queues, and acknowledgements.
LEMMA SendOutgoingStep ==
  ASSUME NEW h, NEW drawn, NEW n, NEW H, HostOK(H, h, drawn, n), NEW p \in Slots,
         NEW late \in SUBSET H.peer[p].sentReliableCommands, NEW ping
  PROVE  LET r == SendOutgoing(H, p, late, ping)
         IN  /\ QuietOK(H, r.host, p, h, drawn, n)
             /\ \A c \in r.sent : CommandOK(c, drawn)
  <1> DEFINE S == SendAcknowledgements(H, p)
             A == TimeOut(S, p, late)
             B == IF A.peer[p].outgoingCommands = {} THEN A ELSE CheckOutgoing(A, p)
             idle == B.peer[p].sentReliableCommands = {}
             C == IF ping /\ idle THEN PeerPing(B, p) ELSE B
             D == IF ping /\ idle THEN CheckOutgoing(C, p) ELSE C
             sent == Answers(H.peer[p]) \union A.peer[p].outgoingCommands
                       \union (IF ping /\ idle THEN C.peer[p].outgoingCommands ELSE {})
             r == SendOutgoing(H, p, late, ping)
  <1>1. QuietOK(H, S, p, h, drawn, n)
        /\ S.peer[p].sentReliableCommands = H.peer[p].sentReliableCommands
    BY SendAcknowledgementsStep
  <1>2. r.host = D /\ r.sent = sent
    BY DEF SendOutgoing
  <1> HIDE DEF S, r
  <1>3. QuietOK(S, A, p, h, drawn, n)
    BY <1>1, TimeOutStep DEF QuietOK
  <1>4. QuietOK(H, A, p, h, drawn, n)
    BY <1>1, <1>3, QuietTwice
  <1> HIDE DEF A
  <1>5. QuietOK(H, B, p, h, drawn, n)
    <2>1. QuietOK(A, CheckOutgoing(A, p), p, h, drawn, n)
      BY <1>4, CheckOutgoingStep DEF QuietOK
    <2>2. QuietOK(H, CheckOutgoing(A, p), p, h, drawn, n)
      BY <1>4, <2>1, QuietTwice
    <2>3. B = A \/ B = CheckOutgoing(A, p)
      OBVIOUS
    <2> QED BY <1>4, <2>2, <2>3
  <1> HIDE DEF B
  <1>6. QuietOK(H, C, p, h, drawn, n)
    <2>1. QuietOK(B, PeerPing(B, p), p, h, drawn, n)
      BY <1>5, PeerPingStep DEF QuietOK
    <2>2. QuietOK(H, PeerPing(B, p), p, h, drawn, n)
      BY <1>5, <2>1, QuietTwice
    <2>3. C = B \/ C = PeerPing(B, p)
      OBVIOUS
    <2> QED BY <1>5, <2>2, <2>3
  <1> HIDE DEF C
  <1>7. QuietOK(H, D, p, h, drawn, n)
    <2>1. QuietOK(C, CheckOutgoing(C, p), p, h, drawn, n)
      BY <1>6, CheckOutgoingStep DEF QuietOK
    <2>2. QuietOK(H, CheckOutgoing(C, p), p, h, drawn, n)
      BY <1>6, <2>1, QuietTwice
    <2>3. D = C \/ D = CheckOutgoing(C, p)
      OBVIOUS
    <2> QED BY <1>6, <2>2, <2>3
  <1>8. \A c \in Answers(H.peer[p]) : CommandOK(c, drawn)
    <2> DEFINE Answer(a) == [Command("ACKNOWLEDGE", FALSE) EXCEPT !.seq = a.seq, !.channel = a.channel]
    <2>1. Answers(H.peer[p]) = {Answer(a) : a \in H.peer[p].acknowledgements}
      BY DEF Answers
    <2>2. ASSUME NEW a PROVE CommandOK(Answer(a), drawn)
      BY DEF Command, CommandOK, CommandFields
    <2> HIDE DEF Answer
    <2> QED BY <2>1, <2>2
  <1>9. \A c \in A.peer[p].outgoingCommands \union C.peer[p].outgoingCommands : CommandOK(c, drawn)
    BY <1>4, <1>6, HostFacts DEF QuietOK, PeerOK
  <1>10. \A c \in sent : CommandOK(c, drawn)
    BY <1>8, <1>9
  <1> QED BY <1>2, <1>7, <1>10 DEF r

\* enet_host_bandwidth_throttle tells peers of their limits, and changes nothing
\* else of them.
LEMMA BandwidthThrottleStep ==
  ASSUME NEW h, NEW drawn, NEW n, NEW H, HostOK(H, h, drawn, n), OneSlot(H), NEW limited
  PROVE  LET G == BandwidthThrottle(H, limited)
         IN  /\ HostOK(G, h, drawn, n)
             /\ OneSlot(G)
             /\ \A p \in Slots : Moves(H.peer[p], G.peer[p])
  <1> DEFINE G == BandwidthThrottle(H, limited)
             Limit(p) == [Command("BANDWIDTH_LIMIT", TRUE) EXCEPT !.incomingBandwidth = p \in limited]
             Told(p) == QueueOutgoing(H, p, Limit(p)).peer[p]
  <1>1. CASE H.connectedPeers = 0 \/ ~H.recalculateBandwidthLimits
    <2>1. G = H
      BY <1>1 DEF BandwidthThrottle
    <2> QED BY <2>1 DEF Moves
  <1>2. CASE ~(H.connectedPeers = 0 \/ ~H.recalculateBandwidthLimits)
    <2>1. G = [H EXCEPT !.recalculateBandwidthLimits = FALSE,
                        !.peer = [p \in Slots |->
                          IF State(H, p) \in Established THEN Told(p) ELSE H.peer[p]]]
      BY <1>2 DEF BandwidthThrottle
    <2>2. ASSUME NEW p \in Slots
          PROVE  /\ PeerOK(Told(p), h, drawn, n)
                 /\ SameBut(H.peer[p], Told(p), {"outgoingReliableSequenceNumber", "outgoingCommands"})
      <3>1. CommandOK(Limit(p), drawn)
        BY DEF Command, CommandOK, CommandFields
      <3> HIDE DEF Limit
      <3>2. HostOK(QueueOutgoing(H, p, Limit(p)), h, drawn, n)
            /\ SameBut(H.peer[p], Told(p), {"outgoingReliableSequenceNumber", "outgoingCommands"})
        BY <3>1, QueueOutgoingStep
      <3> QED BY <3>2, HostFacts
    <2> HIDE DEF Told, G
    <2>3. Shape(H)
      BY DEF HostOK
    <2>4. Shape(G) /\ SameCounters(H, G) /\ G.dispatchQueue = H.dispatchQueue
      BY <2>1, <2>3 DEF Shape, HostFields, SameCounters
    <2>5. \A p \in Slots : G.peer[p] = Told(p) \/ G.peer[p] = H.peer[p]
      BY <2>1, <2>3 DEF Shape, HostFields
    <2>6. ASSUME NEW p \in Slots
          PROVE  /\ PeerOK(G.peer[p], h, drawn, n)
                 /\ G.peer[p].state = H.peer[p].state
                 /\ G.peer[p].address = H.peer[p].address
                 /\ G.peer[p].connectID = H.peer[p].connectID
                 /\ G.peer[p].incomingBandwidth = H.peer[p].incomingBandwidth
                 /\ G.peer[p].dispatchedCommands = H.peer[p].dispatchedCommands
                 /\ G.peer[p].needsDispatch = H.peer[p].needsDispatch
      BY <2>2, <2>5, HostFacts DEF SameBut, PeerFields
    <2>7. Connected(G) = Connected(H) /\ Limited(G) = Limited(H)
      BY <2>6 DEF Connected, Limited, State
    <2>8. HostOK(G, h, drawn, n)
      <3>1. Counted(G)
        BY <2>4, <2>7 DEF HostOK, Counted, SameCounters
      <3>2. \A p \in Slots : G.peer[p].needsDispatch => Queued(G, p)
        BY <2>4, <2>6 DEF HostOK, Queued
      <3> QED BY <2>4, <2>6, <3>1, <3>2 DEF HostOK
    <2>9. OneSlot(G)
      BY <2>6 DEF OneSlot, Active, State
    <2>10. \A p \in Slots : Moves(H.peer[p], G.peer[p])
      BY <2>6, SameMoves
    <2> QED BY <2>8, <2>9, <2>10 DEF G
  <1> QED BY <1>1, <1>2

\* enet_protocol_dispatch_incoming_commands: the peer leaves the queue, and its
\* event is told, if it has one.
LEMMA DispatchHeadStep ==
  ASSUME NEW h, NEW drawn, NEW n \in Nat, NEW H, HostOK(H, h, drawn, n), H.dispatchQueue # <<>>
  PROVE  Head(H.dispatchQueue) \in Slots
         /\ ResultOK(H, DispatchHead(H), Head(H.dispatchQueue), h, drawn, n)
  <1> DEFINE p == Head(H.dispatchQueue)
             q == H.peer[p]
             G == [H EXCEPT !.dispatchQueue = Tail(@), !.peer[p].needsDispatch = FALSE]
             r == DispatchHead(H)
  <1>1. H.dispatchQueue \in Seq(Slots)
    BY DEF HostOK, Shape
  <1>2. p \in Slots /\ Tail(H.dispatchQueue) \in Seq(Slots)
        /\ \A s : s # p /\ Queued(H, s) => Listed(Tail(H.dispatchQueue), s)
    BY <1>1, TailQueued DEF Queued
  <1> HIDE DEF p
  <1>3. Shape(H) /\ PeerOK(q, h, drawn, n) /\ DOMAIN q = PeerFields
        /\ H.connectedPeers \in Int /\ H.bandwidthLimitedPeers \in Int
    BY <1>2, HostFacts
  <1>4. G.dispatchQueue = Tail(H.dispatchQueue)
    BY <1>3 DEF Shape, HostFields
  <1>5. Shape(G)
    <2>1. DOMAIN G = HostFields /\ DOMAIN G.peer = Slots /\ G.incomingBandwidth \in BOOLEAN
      BY <1>3 DEF Shape, HostFields
    <2> HIDE DEF G
    <2> QED BY <1>2, <1>4, <2>1 DEF Shape
  <1>6. Others(H, G, p) /\ SameCounters(H, G)
    BY <1>3 DEF Shape, HostFields, Others, SameCounters
  <1>7. SameBut(q, G.peer[p], {"needsDispatch"}) /\ G.peer[p].needsDispatch = FALSE
    BY <1>2, <1>3 DEF Shape, HostFields, SameBut, PeerFields
  <1> HIDE DEF G
  <1>8. Touches(H, G, p)
    BY <1>2, <1>4, <1>5, <1>6 DEF Touches, Queued
  <1>9. /\ G.peer[p].state = q.state /\ G.peer[p].incomingBandwidth = q.incomingBandwidth
        /\ G.peer[p].address = q.address /\ G.peer[p].connectID = q.connectID
        /\ G.peer[p].dispatchedCommands = q.dispatchedCommands
        /\ G.peer[p].acknowledgements = q.acknowledgements
    BY <1>7 DEF SameBut, PeerFields
  <1>10. HostOK(G, h, drawn, n)
    <2>1. PeerOK(G.peer[p], h, drawn, n)
      BY <1>3, <1>7 DEF PeerOK, SameBut, PeerFields
    <2>2. Counts(H, G, p)
      BY <1>3, <1>6, <1>9, SameCounts DEF IsConnected
    <2> QED BY <1>2, <1>7, <1>8, <2>1, <2>2, HostStep
  <1>11. Follows(q, G.peer[p])
    BY <1>9 DEF Follows
  <1>12. CASE q.state \in {"CONNECTION_PENDING", "CONNECTION_SUCCEEDED"}
    <2> DEFINE F == ChangeState(G, p, "CONNECTED")
    <2>1. r = Tell(F, "CONNECT", p, q.eventData)
      BY <1>12 DEF DispatchHead, G, p
    <2>2. q.dispatchedCommands = <<>>
      BY <1>3, <1>12 DEF PeerOK, BeforeConnected
    <2>3. MayBecome(G.peer[p], "CONNECTED")
      BY <1>9, <1>12 DEF MayBecome, States, BeforeConnected
    <2>4. HostOK(F, h, drawn, n) /\ Touches(G, F, p)
          /\ SameBut(G.peer[p], F.peer[p], {"state"}) /\ F.peer[p].state = "CONNECTED"
      BY <1>2, <1>10, <2>3, ChangeStateStep
    <2> HIDE DEF F
    <2>5. /\ F.peer[p].address = q.address /\ F.peer[p].connectID = q.connectID
          /\ F.peer[p].dispatchedCommands = <<>>
      BY <1>9, <2>2, <2>4 DEF SameBut, PeerFields
    <2>6. Follows(q, F.peer[p])
      BY <1>12, <2>5 DEF Follows, Gone
    <2>7. Fits(F.peer[p], "connected")
      BY <2>4, <2>5 DEF Fits, StatesOf, Tells, HasEvent
    <2>8. Touches(H, F, p)
      BY <1>8, <2>4, TouchesTwice
    <2>9. ResultOK(H, r, p, h, drawn, n)
      BY <2>1, <2>4, <2>6, <2>7, <2>8 DEF ResultOK, Fitting, Tell, NoEvent
    <2> QED BY <1>2, <2>9 DEF p
  <1>13. CASE q.state = "ZOMBIE"
    <2> DEFINE E == [G EXCEPT !.recalculateBandwidthLimits = TRUE]
               F == PeerReset(E, p)
    <2>1. r = Tell(F, "DISCONNECT", p, q.eventData)
      BY <1>13 DEF DispatchHead, G, p
    <2>2. HostOK(E, h, drawn, n) /\ Touches(G, E, p)
      BY <1>2, <1>10, RecalculateStep
    <2> HIDE DEF E
    <2>3. HostOK(F, h, drawn, n) /\ Touches(E, F, p)
          /\ F.peer[p].state = "DISCONNECTED" /\ IsEmpty(F.peer[p])
      BY <1>2, <2>2, PeerResetStep
    <2> HIDE DEF F
    <2>4. Touches(H, F, p)
      BY <1>8, <2>2, <2>3, TouchesTwice
    <2>5. Follows(q, F.peer[p])
      BY <2>3 DEF Follows, Gone
    <2>6. Fits(F.peer[p], "free")
      BY <2>3 DEF Fits, StatesOf, Tells, HasEvent
    <2>7. ResultOK(H, r, p, h, drawn, n)
      BY <2>1, <2>3, <2>4, <2>5, <2>6 DEF ResultOK, Fitting, Tell, NoEvent
    <2> QED BY <1>2, <2>7 DEF p
  <1>14. CASE q.state = "CONNECTED" /\ q.dispatchedCommands # <<>>
    <2> DEFINE s == q.dispatchedCommands
               F == [G EXCEPT !.peer[p].dispatchedCommands = Tail(@)]
               E == IF Len(s) > 1 THEN NeedsDispatch(F, p) ELSE F
    <2>1. r = Tell(E, "RECEIVE", p, 0)
      BY <1>14 DEF DispatchHead, G, p
    <2>2. IsSeq(s)
      BY <1>3 DEF PeerOK
    <2>3. IsSeq(Tail(s)) /\ (~(Len(s) > 1) => Tail(s) = <<>>)
      BY <1>14, <2>2, SeqTail
    <2>4. Shape(F) /\ Others(G, F, p) /\ SameCounters(G, F) /\ F.dispatchQueue = G.dispatchQueue
      BY <1>2, <1>5 DEF Shape, HostFields, Others, SameCounters
    <2>5. SameBut(G.peer[p], F.peer[p], {"dispatchedCommands"})
          /\ F.peer[p].dispatchedCommands = Tail(s)
      BY <1>2, <1>5, <1>7, <1>9 DEF Shape, HostFields, SameBut, PeerFields
    <2> HIDE DEF F
    <2>6. Rewrites(G, F, p)
      BY <2>4, <2>5 DEF Rewrites, SameBut, PeerFields
    <2>7. PeerOK(F.peer[p], h, drawn, n)
      <3>1. PeerOK(G.peer[p], h, drawn, n)
        BY <1>2, <1>10, HostFacts
      <3>2. G.peer[p].state = "CONNECTED"
        BY <1>9, <1>14
      <3> HIDE DEF s
      <3> QED BY <2>3, <2>5, <3>1, <3>2 DEF PeerOK, SameBut, PeerFields, BeforeConnected
    <2>8. HostOK(F, h, drawn, n) /\ Touches(G, F, p)
      BY <1>2, <1>10, <2>6, <2>7, RewriteStep
    <2>9. /\ F.peer[p].state = "CONNECTED" /\ F.peer[p].address = q.address
          /\ F.peer[p].connectID = q.connectID
      BY <1>9, <1>14, <2>5 DEF SameBut, PeerFields
    <2>10. HostOK(E, h, drawn, n) /\ Touches(G, E, p) /\ E.peer[p].state = "CONNECTED"
           /\ E.peer[p].address = q.address /\ E.peer[p].connectID = q.connectID
           /\ (E.peer[p].dispatchedCommands # <<>> => E.peer[p].needsDispatch)
      <3>1. CASE Len(s) > 1
        <4>1. E = NeedsDispatch(F, p)
          BY <3>1
        <4>2. HostOK(E, h, drawn, n) /\ Touches(F, E, p)
              /\ SameBut(F.peer[p], E.peer[p], {"needsDispatch"}) /\ E.peer[p].needsDispatch
          BY <1>2, <2>8, <4>1, NeedsDispatchStep
        <4>3. Touches(G, E, p)
          BY <2>8, <4>2, TouchesTwice
        <4> QED BY <2>9, <4>2, <4>3 DEF SameBut, PeerFields
      <3>2. CASE ~(Len(s) > 1)
        BY <2>3, <2>5, <2>8, <2>9, <3>2
      <3> QED BY <3>1, <3>2
    <2> HIDE DEF E
    <2>11. Touches(H, E, p)
      BY <1>8, <2>10, TouchesTwice
    <2>12. Follows(q, E.peer[p])
      BY <1>14, <2>10 DEF Follows, Gone
    <2>13. Moves(q, E.peer[p])
      BY <1>14, <2>10 DEF Moves, Fits, Tells, HasEvent
    <2>14. ResultOK(H, r, p, h, drawn, n)
      BY <2>1, <2>10, <2>11, <2>12, <2>13 DEF ResultOK, Fitting, Tell, NoEvent
    <2> QED BY <1>2, <2>14 DEF p
  <1>15. CASE ~HasEvent(q)
    <2>1. r = Quiet(G)
      BY <1>15 DEF HasEvent, DispatchHead, G, p
    <2>2. Moves(q, G.peer[p])
      BY <1>9, <1>15 DEF Moves, Fits, Tells, HasEvent
    <2>3. ResultOK(H, r, p, h, drawn, n)
      BY <1>8, <1>10, <1>11, <2>1, <2>2, QuietResult
    <2> QED BY <1>2, <2>3 DEF p
  <1> QED BY <1>12, <1>13, <1>14, <1>15 DEF HasEvent

-----------------------------------------------------------------------------
(* Hosts, applications and calls.                                          *)

\* Host h becomes G, and the others stay what they are.
Becomes(h, G) ==
  /\ DOMAIN host' = Hosts
  /\ host'[h] = G
  /\ \A g \in Hosts \ {h} : host'[g] = host[g]

\* What its application knows of slot p becomes a.
Learns(h, p, a) ==
  /\ DOMAIN app' = Hosts
  /\ \A g \in Hosts : DOMAIN app'[g] = Slots
  /\ app'[h][p] = a
  /\ \A g \in Hosts, r \in Slots : g # h \/ r # p => app'[g][r] = app[g][r]

KnowledgeOK(a) == DOMAIN a = {"view", "received", "missed"} /\ a.view \in Views

\* A host that becomes another.
LEMMA BecomesStep ==
  ASSUME DOMAIN host = Hosts, NEW h \in Hosts, NEW G, host' = [host EXCEPT ![h] = G]
  PROVE  Becomes(h, G)
  BY DEF Becomes

\* A host that stays.
LEMMA BecomesSame ==
  ASSUME DOMAIN host = Hosts, NEW h \in Hosts, host' = host
  PROVE  Becomes(h, host[h])
  BY DEF Becomes

\* Knowledge that changes.
LEMMA LearnsStep ==
  ASSUME AppOK, NEW h \in Hosts, NEW p \in Slots, NEW a, app' = [app EXCEPT ![h][p] = a]
  PROVE  Learns(h, p, a)
  BY DEF AppOK, Learns

\* Knowledge that stays.
LEMMA LearnsSame ==
  ASSUME AppOK, NEW h \in Hosts, NEW p \in Slots, app' = app
  PROVE  Learns(h, p, app[h][p]) /\ KnowledgeOK(app[h][p])
  BY DEF AppOK, Learns, KnowledgeOK

\* What the application of h makes of a call.
LEMMA ViewStep ==
  ASSUME AppOK, NEW h \in Hosts, NEW p \in Slots, NEW view \in Views, View(h, p, view)
  PROVE  \E a : Learns(h, p, a) /\ KnowledgeOK(a) /\ a.view = view
  <1> DEFINE a == [app[h][p] EXCEPT !.view = view]
  <1>1. KnowledgeOK(a) /\ a.view = view
    BY DEF AppOK, KnowledgeOK
  <1>2. app' = [app EXCEPT ![h][p] = a]
    BY DEF AppOK, View
  <1> HIDE DEF a
  <1>3. Learns(h, p, a)
    BY <1>2, LearnsStep
  <1> QED BY <1>1, <1>3

\* One host of many.
LEMMA HostsStep ==
  ASSUME NEW drawn, HostsOK(drawn), NEW h \in Hosts, NEW G,
         HostOK(G, h, drawn[h], connectIDs), OneSlot(G), Becomes(h, G), connectIDs' = connectIDs
  PROVE  HostsOK(drawn)'
  <1>1. \A g \in Hosts : HostOK(host'[g], g, drawn[g], connectIDs)
    BY DEF HostsOK, Becomes
  <1>2. \A g \in Hosts : OneSlot(host'[g])
    BY DEF HostsOK, Becomes
  <1> QED BY <1>1, <1>2 DEF HostsOK, Becomes

\* One peer of many: it is told of, or about to be reset.
LEMMA KnowsStep ==
  ASSUME AppOK, TellsAll, NEW h \in Hosts, NEW p \in Slots, NEW G, NEW a,
         Becomes(h, G), Others(host[h], G, p), Learns(h, p, a), KnowledgeOK(a),
         \A r \in Slots \ {p} : Resetting(h, r) => Resetting(h, r)',
         \A g \in Hosts \ {h}, r \in Slots : ~Resetting(g, r),
         Resetting(h, p)' \/ Fits(G.peer[p], a.view)
  PROVE  AppOK' /\ TellsAll'
  <1>1. AppOK'
    <2>1. \A g \in Hosts, r \in Slots : KnowledgeOK(app'[g][r])
      BY DEF AppOK, Learns, KnowledgeOK
    <2> QED BY <2>1 DEF AppOK, Learns, KnowledgeOK
  <1>2. ASSUME NEW g \in Hosts, NEW r \in Slots
        PROVE  (Resetting(g, r) \/ Fits(host[g].peer[r], app[g][r].view))'
    <2>1. CASE g = h /\ r = p
      BY <2>1 DEF Becomes, Learns
    <2>2. CASE g = h /\ r # p
      <3>1. Resetting(h, r) \/ Fits(host[h].peer[r], app[h][r].view)
        BY DEF TellsAll
      <3>2. host'[h].peer[r] = host[h].peer[r] /\ app'[h][r] = app[h][r]
        BY <2>2 DEF Becomes, Others, Learns
      <3> QED BY <2>2, <3>1, <3>2
    <2>3. CASE g # h
      <3>1. Fits(host[g].peer[r], app[g][r].view)
        BY <2>3 DEF TellsAll
      <3>2. host'[g] = host[g] /\ app'[g][r] = app[g][r]
        BY <2>3 DEF Becomes, Learns
      <3> QED BY <3>1, <3>2
    <2> QED BY <2>1, <2>2, <2>3
  <1> QED BY <1>1, <1>2 DEF TellsAll

\* Between calls no peer is about to be reset.
LEMMA IdleResets ==
  ASSUME service = Idle, NEW h, NEW p \in Slots
  PROVE  ~Resetting(h, p)
  BY ConnectionAssumption DEF Idle, Resetting

\* A call that has ended.
LEMMA IdleService ==
  ASSUME service' = Idle
  PROVE  ServiceOK'
  BY DEF ServiceOK, Idle, ServiceFields, Dispatching

\* A call that flushes before it resets a peer.
LEMMA FlushingService ==
  ASSUME NEW h \in Hosts, NEW p \in Slots, service' = Flushing(h, p), app'[h][p].view = "free"
  PROVE  ServiceOK' /\ Resetting(h, p)'
  <1>1. Busy(host'[h]) \subseteq Slots
    BY DEF Busy, Active
  <1> DEFINE todo == Busy(host'[h])
  <1>2. service' = [host |-> h, phase |-> "flush", events |-> FALSE, todo |-> todo, after |-> p]
    BY DEF Flushing, Idle
  <1> HIDE DEF todo
  <1>3. todo \subseteq Slots
    BY <1>1 DEF todo
  <1> QED BY <1>2, <1>3, ConnectionAssumption
       DEF ServiceOK, ServiceFields, Phases, Dispatching, Resetting, Idle

-----------------------------------------------------------------------------
(* What the applications call.                                             *)

\* A call on a peer: it is told of what becomes of the peer, or the call flushes
\* before it resets the peer.
LEMMA CallStep ==
  ASSUME NEW drawn, InvWith(drawn), NEW h \in Hosts, NEW p \in Slots, NEW G, NEW a,
         service = Idle, Becomes(h, G), HostOK(G, h, drawn[h], connectIDs), OneSlot(G),
         Others(host[h], G, p), Learns(h, p, a), KnowledgeOK(a),
         \/ service' = Idle /\ Fits(G.peer[p], a.view)
         \/ service' = Flushing(h, p) /\ a.view = "free",
         net' = net, connectIDs' = connectIDs
  PROVE  InvWith(drawn)'
  <1>1. HostsOK(drawn)'
    BY HostsStep DEF InvWith
  <1>2. ServiceOK' /\ (Resetting(h, p)' \/ Fits(G.peer[p], a.view))
    <2>1. app'[h][p].view = a.view
      BY DEF Learns
    <2> QED BY <2>1, IdleService, FlushingService
  <1>3. AppOK' /\ TellsAll'
    <2>1. \A g, r : r \in Slots => ~Resetting(g, r)
      BY IdleResets
    <2> QED BY <1>2, <2>1, KnowsStep DEF InvWith
  <1>4. Draws(drawn)' /\ NetOK(drawn)'
    BY DEF InvWith, Draws, NetOK
  <1> QED BY <1>1, <1>2, <1>3, <1>4 DEF InvWith

\* What an application holds of a peer when it calls.
LEMMA CallingFacts ==
  ASSUME NEW drawn, InvWith(drawn), NEW h \in Hosts, NEW p \in Slots, service = Idle
  PROVE  /\ HostOK(host[h], h, drawn[h], connectIDs) /\ OneSlot(host[h])
         /\ DOMAIN host = Hosts /\ AppOK /\ connectIDs \in Nat
         /\ Fits(host[h].peer[p], app[h][p].view)
  <1>1. ~Resetting(h, p)
    BY IdleResets
  <1> QED BY <1>1 DEF InvWith, HostsOK, Draws, TellsAll

\* More identifiers are drawn.
LEMMA MoreDrawn ==
  ASSUME NEW h, NEW drawn, NEW n \in Nat, NEW more, NEW k \in Nat, NEW H,
         drawn \subseteq more, n <= k, HostOK(H, h, drawn, n)
  PROVE  HostOK(H, h, more, k)
  <1>1. ASSUME NEW c, CommandOK(c, drawn) PROVE CommandOK(c, more)
    BY <1>1 DEF CommandOK
  <1>2. 0 .. n \subseteq 0 .. k
    OBVIOUS
  <1>3. ASSUME NEW q, PeerOK(q, h, drawn, n) PROVE PeerOK(q, h, more, k)
    BY <1>1, <1>2, <1>3 DEF PeerOK
  <1> QED BY <1>3 DEF HostOK

\* enet_host_connect draws an identifier no host has.
LEMMA EnetHostConnectStep ==
  ASSUME NEW drawn \in [Hosts -> SUBSET Nat], InvWith(drawn),
         NEW h \in Hosts, NEW a \in Hosts, h # a, EnetHostConnect(h, a)
  PROVE  \E more \in [Hosts -> SUBSET Nat] : InvWith(more)'
  <1> DEFINE k == connectIDs + 1
  <1>0. PICK more : more = [drawn EXCEPT ![h] = @ \union {k}]
    OBVIOUS
  <1> DEFINE n == connectIDs
             H == host[h]
             p == FirstFree(H)
             q == H.peer[p]
             F == [H EXCEPT !.peer[p] = [@ EXCEPT !.state = "CONNECTING", !.address = a,
                                                  !.connectID = k]]
             c == [Command("CONNECT", TRUE) EXCEPT
                     !.peerID = p, !.connectID = k,
                     !.incomingSessionID = q.incomingSessionID,
                     !.outgoingSessionID = q.outgoingSessionID,
                     !.incomingBandwidth = H.incomingBandwidth]
             G == QueueOutgoing(F, p, c)
             b == [Unknown EXCEPT !.view = "connecting"]
  <1>1. /\ service = Idle /\ FreeSlots(H) # {}
        /\ connectIDs' = k /\ host' = [host EXCEPT ![h] = G] /\ app' = [app EXCEPT ![h][p] = b]
        /\ net' = net /\ service' = service
    BY DEF EnetHostConnect
  <1>2. p \in Slots /\ q.state = "DISCONNECTED"
    BY <1>1, FirstFreeIsFree DEF State
  <1> HIDE DEF p
  <1>3. /\ n \in Nat /\ k \in Nat /\ k \in 1 .. k /\ k \notin 1 .. n /\ n <= k /\ 1 .. n \subseteq 1 .. k
    BY DEF InvWith, Draws
  <1>4. /\ more \in [Hosts -> SUBSET Nat] /\ more \in [Hosts -> SUBSET (1 .. k)]
        /\ \A g \in Hosts : drawn[g] \subseteq more[g] /\ k \in more[h]
        /\ \A g \in Hosts \ {h} : more[g] = drawn[g]
        /\ more[h] = drawn[h] \union {k}
    BY <1>0, <1>3 DEF InvWith, Draws
  <1>5. \A f, g \in Hosts : f # g => more[f] \cap more[g] = {}
    <2>1. \A g \in Hosts : k \notin drawn[g]
      BY <1>3 DEF InvWith, Draws
    <2>2. \A f, g \in Hosts : f # g => drawn[f] \cap drawn[g] = {}
      BY DEF InvWith, Draws
    <2> HIDE DEF k
    <2> QED BY <1>4, <2>1, <2>2
  <1> HIDE DEF k
  <1>6. HostOK(H, h, drawn[h], n) /\ OneSlot(H) /\ DOMAIN host = Hosts /\ AppOK
    BY DEF InvWith, HostsOK
  <1>7. HostOK(H, h, more[h], k)
    BY <1>3, <1>4, <1>6, MoreDrawn
  <1>8. Shape(H) /\ PeerOK(q, h, more[h], k) /\ DOMAIN q = PeerFields
        /\ (q.needsDispatch => Queued(H, p))
        /\ H.connectedPeers \in Int /\ H.bandwidthLimitedPeers \in Int
    BY <1>2, <1>7, HostFacts
  <1>9. CommandOK(c, more[h])
    <2>1. DOMAIN c = CommandFields /\ c.peerID = p /\ c.connectID = k
          /\ c.incomingBandwidth = H.incomingBandwidth
      BY DEF Command, CommandFields
    <2>2. c.incomingBandwidth \in BOOLEAN
      BY <1>8, <2>1 DEF Shape
    <2> HIDE DEF c
    <2> QED BY <1>2, <1>4, <2>1, <2>2 DEF CommandOK
  <1>10. Shape(F) /\ Others(H, F, p) /\ SameCounters(H, F) /\ F.dispatchQueue = H.dispatchQueue
    BY <1>2, <1>8 DEF Shape, HostFields, Others, SameCounters
  <1>11. F.peer[p] = [q EXCEPT !.state = "CONNECTING", !.address = a, !.connectID = k]
    BY <1>2, <1>8 DEF Shape, HostFields
  <1> HIDE DEF F, c
  <1>12. /\ SameBut(q, F.peer[p], {"state", "connectID", "address"})
         /\ F.peer[p].state = "CONNECTING" /\ F.peer[p].connectID = k /\ F.peer[p].address = a
    BY <1>8, <1>11 DEF SameBut, PeerFields
  <1> HIDE DEF q
  <1>13. PeerOK(F.peer[p], h, more[h], k)
    <2>1. k \in 0 .. k /\ k \in more[h] /\ a # h
      BY <1>3, <1>4
    <2> DEFINE r == F.peer[p]
    <2> HIDE DEF r
    <2> QED BY <1>2, <1>8, <1>12, <2>1 DEF PeerOK, SameBut, PeerFields, States, BeforeConnected, r
  <1>14. F.peer[p].needsDispatch = q.needsDispatch
    BY <1>12 DEF SameBut, PeerFields
  <1>15. Touches(H, F, p)
    BY <1>10 DEF Touches, Queued
  <1>16. HostOK(F, h, more[h], k)
    <2>1. ~IsConnected(q) /\ ~IsConnected(F.peer[p])
      BY <1>2, <1>12 DEF IsConnected, Established
    <2>2. Counts(H, F, p)
      BY <1>8, <1>10, <2>1, SameCounts DEF q
    <2>3. F.peer[p].needsDispatch => Queued(F, p)
      BY <1>8, <1>10, <1>14 DEF Queued
    <2> QED BY <1>2, <1>7, <1>13, <1>15, <2>2, <2>3, HostStep
  <1>17. HostOK(G, h, more[h], k) /\ Touches(F, G, p)
         /\ SameBut(F.peer[p], G.peer[p], {"outgoingReliableSequenceNumber", "outgoingCommands"})
    BY <1>2, <1>9, <1>16, QueueOutgoingStep
  <1> HIDE DEF G
  <1>18. Touches(H, G, p)
    BY <1>15, <1>17, TouchesTwice
  <1>19. G.peer[p].state = "CONNECTING" /\ G.peer[p].connectID = k
    BY <1>12, <1>17 DEF SameBut, PeerFields
  <1>20. OneSlot(G)
    <2>1. ASSUME NEW r \in Slots \ {p}
          PROVE  G.peer[r] = H.peer[r] /\ G.peer[r].connectID # k
      <3>1. G.peer[r] = H.peer[r]
        BY <1>18 DEF Touches, Others
      <3>2. H.peer[r].connectID \in 0 .. n
        BY <1>6, HostFacts DEF PeerOK
      <3> QED BY <1>3, <3>1, <3>2 DEF k
    <2>2. \A r \in Slots \ {p} : r \in Active(G) => r \in Active(H)
      BY <2>1 DEF Active, State
    <2>3. Active(G) \subseteq Slots
      BY DEF Active
    <2> QED BY <1>6, <1>19, <2>1, <2>2, <2>3 DEF OneSlot
  <1>21. Becomes(h, G)
    BY <1>1, <1>6, BecomesStep
  <1>22. HostsOK(more)'
    <2>1. ASSUME NEW g \in Hosts \ {h}
          PROVE  HostOK(host'[g], g, more[g], k) /\ OneSlot(host'[g])
      <3>1. host'[g] = host[g]
        BY <1>21 DEF Becomes
      <3>2. HostOK(host[g], g, drawn[g], n) /\ OneSlot(host[g])
        BY DEF InvWith, HostsOK
      <3> QED BY <1>3, <1>4, <3>1, <3>2, MoreDrawn
    <2> QED BY <1>1, <1>17, <1>20, <1>21, <2>1 DEF HostsOK, Becomes
  <1>23. KnowledgeOK(b) /\ b.view = "connecting"
    BY DEF KnowledgeOK, Unknown, Views, Held
  <1> HIDE DEF b
  <1>24. Learns(h, p, b)
    BY <1>1, <1>2, <1>6, LearnsStep
  <1>25. Fits(G.peer[p], b.view)
    BY <1>19, <1>23 DEF Fits, StatesOf, Tells, HasEvent
  <1>26. AppOK' /\ TellsAll'
    <2>1. \A g, r : r \in Slots => ~Resetting(g, r)
      BY <1>1, IdleResets
    <2> QED BY <1>2, <1>18, <1>21, <1>23, <1>24, <1>25, <2>1, KnowsStep DEF InvWith, Touches
  <1>27. NetOK(more)'
    <2>1. ASSUME NEW m \in net PROVE CommandOK(m.command, more[m.from])
      <3>1. m.from \in Hosts /\ CommandOK(m.command, drawn[m.from])
        BY DEF InvWith, NetOK
      <3>2. drawn[m.from] \subseteq more[m.from]
        BY <1>4, <3>1
      <3> QED BY <3>1, <3>2 DEF CommandOK
    <2> QED BY <1>1, <2>1 DEF InvWith, NetOK
  <1>28. Draws(more)'
    BY <1>1, <1>3, <1>4, <1>5 DEF Draws
  <1>29. ServiceOK'
    BY <1>1, IdleService
  <1> QED BY <1>4, <1>22, <1>26, <1>27, <1>28, <1>29 DEF InvWith

\* A step of one peer that goes on with its attempt.
LEMMA FollowingStep ==
  ASSUME NEW H, NEW G, NEW p \in Slots, OneSlot(H), Touches(H, G, p),
         G.peer[p].state = H.peer[p].state \/ H.peer[p].state \notin Gone,
         G.peer[p].address = H.peer[p].address, G.peer[p].connectID = H.peer[p].connectID
  PROVE  OneSlot(G)
  <1>1. Follows(H.peer[p], G.peer[p])
    BY DEF Follows
  <1> QED BY <1>1, OneSlotStep

\* enet_peer_send.
LEMMA EnetPeerSendStep ==
  ASSUME NEW drawn, InvWith(drawn), NEW h \in Hosts, NEW p \in Slots, EnetPeerSend(h, p)
  PROVE  InvWith(drawn)'
  <1> DEFINE H == host[h]
             q == H.peer[p]
             c == [Command("SEND_RELIABLE", TRUE) EXCEPT !.channel = "data", !.seq = q.sent + 1]
             G == [H EXCEPT !.peer[p] = [@ EXCEPT !.sent = q.sent + 1,
                                                  !.outgoingCommands = q.outgoingCommands \union {c}]]
  <1>1. /\ service = Idle /\ service' = service /\ app' = app /\ net' = net /\ connectIDs' = connectIDs
        /\ host' = [host EXCEPT ![h] = G]
    BY DEF EnetPeerSend, Calling, InvWith, HostsOK
  <1>2. /\ HostOK(H, h, drawn[h], connectIDs) /\ OneSlot(H) /\ DOMAIN host = Hosts /\ AppOK
        /\ Fits(q, app[h][p].view)
    BY <1>1, CallingFacts
  <1>3. Shape(H) /\ PeerOK(q, h, drawn[h], connectIDs) /\ DOMAIN q = PeerFields
    BY <1>2, HostFacts
  <1>4. CommandOK(c, drawn[h])
    BY DEF Command, CommandOK, CommandFields
  <1> HIDE DEF c
  <1>5. Rewrites(H, G, p)
    BY <1>3 DEF Rewrites, Shape, HostFields, Others, SameCounters, PeerFields
  <1>6. SameBut(q, G.peer[p], {"sent", "outgoingCommands"})
        /\ G.peer[p].outgoingCommands = q.outgoingCommands \union {c}
    BY <1>3 DEF Shape, HostFields, SameBut, PeerFields
  <1> HIDE DEF G
  <1>7. PeerOK(G.peer[p], h, drawn[h], connectIDs)
    BY <1>3, <1>4, <1>6 DEF PeerOK, SameBut, PeerFields
  <1>8. HostOK(G, h, drawn[h], connectIDs) /\ Touches(H, G, p)
    BY <1>2, <1>5, <1>7, RewriteStep
  <1>9. /\ G.peer[p].state = q.state /\ G.peer[p].address = q.address
        /\ G.peer[p].connectID = q.connectID /\ G.peer[p].needsDispatch = q.needsDispatch
        /\ G.peer[p].dispatchedCommands = q.dispatchedCommands
    BY <1>6 DEF SameBut, PeerFields
  <1>10. OneSlot(G)
    BY <1>2, <1>8, <1>9, FollowingStep
  <1>11. Fits(G.peer[p], app[h][p].view)
    BY <1>2, <1>9 DEF Fits, Tells, HasEvent
  <1>12. Becomes(h, G) /\ Learns(h, p, app[h][p]) /\ KnowledgeOK(app[h][p])
    BY <1>1, <1>2, BecomesStep, LearnsSame
  <1> QED BY <1>1, <1>8, <1>10, <1>11, <1>12, CallStep DEF Touches

\* enet_peer_disconnect of a peer the application was told is connected.
LEMMA EnetPeerDisconnectStep ==
  ASSUME NEW drawn, InvWith(drawn), NEW h \in Hosts, NEW p \in Slots, EnetPeerDisconnect(h, p)
  PROVE  InvWith(drawn)'
  <1> DEFINE H == host[h]
             q == H.peer[p]
             G == BeginDisconnect(H, p, 0)
  <1>1. /\ service = Idle /\ service' = service /\ net' = net /\ connectIDs' = connectIDs
        /\ app[h][p].view = "connected" /\ View(h, p, "disconnecting")
        /\ host' = IF State(H, p) \in Established THEN [host EXCEPT ![h] = G] ELSE host
    BY DEF EnetPeerDisconnect, Calling, InvWith, HostsOK
  <1>2. /\ HostOK(H, h, drawn[h], connectIDs) /\ OneSlot(H) /\ DOMAIN host = Hosts /\ AppOK
        /\ Fits(q, "connected")
    BY <1>1, CallingFacts
  <1>3. PICK a : Learns(h, p, a) /\ KnowledgeOK(a) /\ a.view = "disconnecting"
    <2>1. "disconnecting" \in Views
      BY DEF Views, Held
    <2> QED BY <1>1, <1>2, <2>1, ViewStep
  <1>4. CASE State(H, p) \in Established
    <2>1. HostOK(G, h, drawn[h], connectIDs) /\ Touches(H, G, p) /\ G.peer[p].state = "DISCONNECTING"
          /\ G.peer[p].address = q.address /\ G.peer[p].connectID = q.connectID
      BY <1>2, <1>4, BeginDisconnectStep DEF IsConnected, State
    <2> HIDE DEF G
    <2>2. OneSlot(G)
      BY <1>2, <1>4, <2>1, FollowingStep DEF State, Gone, Established
    <2>3. Fits(G.peer[p], "disconnecting")
      BY <2>1 DEF Fits, StatesOf, Tells, HasEvent
    <2>4. Becomes(h, G)
      BY <1>1, <1>2, <1>4, BecomesStep
    <2> QED BY <1>1, <1>3, <2>1, <2>2, <2>3, <2>4, CallStep DEF Touches
  <1>5. CASE State(H, p) \notin Established
    <2>1. Fits(q, "disconnecting")
      BY <1>2, <1>5 DEF Fits, StatesOf, State, Established
    <2>2. Becomes(h, H)
      BY <1>1, <1>2, <1>5, BecomesSame
    <2>3. Others(H, H, p)
      BY DEF Others
    <2> QED BY <1>1, <1>2, <1>3, <2>1, <2>2, <2>3, CallStep
  <1> QED BY <1>4, <1>5

\* enet_peer_disconnect of a peer that is still connecting: what it flushes is of a
\* slot the application thinks of as free.
LEMMA EnetPeerDisconnectAttemptStep ==
  ASSUME NEW drawn, InvWith(drawn), NEW h \in Hosts, NEW p \in Slots,
         EnetPeerDisconnectAttempt(h, p)
  PROVE  InvWith(drawn)'
  <1> DEFINE H == host[h]
             q == H.peer[p]
             G == BeginDisconnect(H, p, 0)
  <1>1. /\ service = Idle /\ net' = net /\ connectIDs' = connectIDs
        /\ app[h][p].view = "connecting"
    BY DEF EnetPeerDisconnectAttempt, Calling
  <1>2. /\ HostOK(H, h, drawn[h], connectIDs) /\ OneSlot(H) /\ DOMAIN host = Hosts /\ AppOK
        /\ Fits(q, "connecting")
    BY <1>1, CallingFacts
  <1>3. CASE State(H, p) = "ZOMBIE"
    <2>1. host' = host /\ service' = Idle /\ View(h, p, "disconnecting")
      BY <1>3 DEF EnetPeerDisconnectAttempt
    <2>2. PICK a : Learns(h, p, a) /\ KnowledgeOK(a) /\ a.view = "disconnecting"
      <3>1. "disconnecting" \in Views
        BY DEF Views, Held
      <3> QED BY <1>2, <2>1, <3>1, ViewStep
    <2>3. Fits(q, "disconnecting")
      BY <1>2, <1>3 DEF Fits, StatesOf, State
    <2>4. Becomes(h, H)
      BY <1>2, <2>1, BecomesSame
    <2>5. Others(H, H, p)
      BY DEF Others
    <2> QED BY <1>1, <1>2, <2>1, <2>2, <2>3, <2>4, <2>5, CallStep
  <1>4. CASE State(H, p) # "ZOMBIE"
    <2>1. /\ host' = [host EXCEPT ![h] = G] /\ service' = Flushing(h, p) /\ View(h, p, "free")
      BY <1>2, <1>4 DEF EnetPeerDisconnectAttempt
    <2>2. PICK a : Learns(h, p, a) /\ KnowledgeOK(a) /\ a.view = "free"
      <3>1. "free" \in Views
        BY DEF Views
      <3> QED BY <1>2, <2>1, <3>1, ViewStep
    <2>3. HostOK(G, h, drawn[h], connectIDs) /\ Touches(H, G, p)
          /\ G.peer[p].address = q.address /\ G.peer[p].connectID = q.connectID
      BY <1>2, BeginDisconnectStep
    <2> HIDE DEF G
    <2>4. q.state \notin Gone
      BY <1>2, <1>4 DEF Fits, StatesOf, State, Gone
    <2>5. OneSlot(G)
      BY <1>2, <2>3, <2>4, FollowingStep
    <2>6. Becomes(h, G)
      BY <1>2, <2>1, BecomesStep
    <2> QED BY <1>1, <2>1, <2>2, <2>3, <2>5, <2>6, CallStep DEF Touches
  <1> QED BY <1>3, <1>4

\* enet_peer_disconnect_later.
LEMMA EnetPeerDisconnectLaterStep ==
  ASSUME NEW drawn, InvWith(drawn), NEW h \in Hosts, NEW p \in Slots,
         EnetPeerDisconnectLater(h, p)
  PROVE  InvWith(drawn)'
  <1> DEFINE H == host[h]
             q == H.peer[p]
             E == [H EXCEPT !.peer[p] = [@ EXCEPT !.state = "DISCONNECT_LATER", !.eventData = q.sent]]
             G == BeginDisconnect(H, p, q.sent)
  <1>1. /\ service = Idle /\ service' = service /\ net' = net /\ connectIDs' = connectIDs
        /\ app[h][p].view = "connected" /\ View(h, p, "leaving")
    BY DEF EnetPeerDisconnectLater, Calling
  <1>2. /\ HostOK(H, h, drawn[h], connectIDs) /\ OneSlot(H) /\ DOMAIN host = Hosts /\ AppOK
        /\ Fits(q, "connected")
    BY <1>1, CallingFacts
  <1>3. PICK a : Learns(h, p, a) /\ KnowledgeOK(a) /\ a.view = "leaving"
    <2>1. "leaving" \in Views
      BY DEF Views, Held
    <2> QED BY <1>1, <1>2, <2>1, ViewStep
  <1>4. CASE q.state \in Established /\ HasOutgoing(H, p)
    <2>1. host' = [host EXCEPT ![h] = E]
      BY <1>2, <1>4 DEF EnetPeerDisconnectLater
    <2>2. Shape(H) /\ PeerOK(q, h, drawn[h], connectIDs) /\ DOMAIN q = PeerFields
          /\ (q.needsDispatch => Queued(H, p))
          /\ H.connectedPeers \in Int /\ H.bandwidthLimitedPeers \in Int
      BY <1>2, HostFacts
    <2>3. Shape(E) /\ Others(H, E, p) /\ SameCounters(H, E) /\ E.dispatchQueue = H.dispatchQueue
      BY <2>2 DEF Shape, HostFields, Others, SameCounters
    <2>4. SameBut(q, E.peer[p], {"state", "eventData"}) /\ E.peer[p].state = "DISCONNECT_LATER"
      BY <2>2 DEF Shape, HostFields, SameBut, PeerFields
    <2> HIDE DEF E
    <2>5. /\ E.peer[p].address = q.address /\ E.peer[p].connectID = q.connectID
          /\ E.peer[p].needsDispatch = q.needsDispatch
          /\ E.peer[p].incomingBandwidth = q.incomingBandwidth
      BY <2>4 DEF SameBut, PeerFields
    <2>6. PeerOK(E.peer[p], h, drawn[h], connectIDs)
      BY <1>4, <2>2, <2>4 DEF PeerOK, SameBut, PeerFields, States, Established, BeforeConnected
    <2>7. Touches(H, E, p)
      BY <2>3 DEF Touches, Queued
    <2>8. Counts(H, E, p)
      BY <1>4, <2>2, <2>3, <2>4, <2>5, SameCounts DEF IsConnected, Established
    <2>9. HostOK(E, h, drawn[h], connectIDs)
      <3>1. E.peer[p].needsDispatch => Queued(E, p)
        BY <2>2, <2>3, <2>5 DEF Queued
      <3> QED BY <1>2, <2>6, <2>7, <2>8, <3>1, HostStep
    <2>10. OneSlot(E)
      BY <1>2, <1>4, <2>5, <2>7, FollowingStep DEF Gone, Established
    <2>11. Fits(E.peer[p], "leaving")
      BY <2>4 DEF Fits, StatesOf, Tells, HasEvent
    <2>12. Becomes(h, E)
      BY <1>2, <2>1, BecomesStep
    <2> QED BY <1>1, <1>3, <2>7, <2>9, <2>10, <2>11, <2>12, CallStep DEF Touches
  <1>5. CASE q.state \in Established /\ ~HasOutgoing(H, p)
    <2>1. host' = [host EXCEPT ![h] = G]
      BY <1>2, <1>5 DEF EnetPeerDisconnectLater
    <2>2. HostOK(G, h, drawn[h], connectIDs) /\ Touches(H, G, p) /\ G.peer[p].state = "DISCONNECTING"
          /\ G.peer[p].address = q.address /\ G.peer[p].connectID = q.connectID
      BY <1>2, <1>5, BeginDisconnectStep DEF IsConnected, State
    <2> HIDE DEF G
    <2>3. OneSlot(G)
      BY <1>2, <1>5, <2>2, FollowingStep DEF Gone, Established
    <2>4. Fits(G.peer[p], "leaving")
      BY <2>2 DEF Fits, StatesOf, Tells, HasEvent
    <2>5. Becomes(h, G)
      BY <1>2, <2>1, BecomesStep
    <2> QED BY <1>1, <1>3, <2>2, <2>3, <2>4, <2>5, CallStep DEF Touches
  <1>6. CASE q.state \notin Established
    <2>1. host' = host
      BY <1>6 DEF EnetPeerDisconnectLater
    <2>2. Fits(q, "leaving")
      BY <1>2, <1>6 DEF Fits, StatesOf, Established
    <2>3. Becomes(h, H)
      BY <1>2, <2>1, BecomesSame
    <2>4. Others(H, H, p)
      BY DEF Others
    <2> QED BY <1>1, <1>2, <1>3, <2>2, <2>3, <2>4, CallStep
  <1> QED BY <1>4, <1>5, <1>6

\* A slot that is free is what an application that gave it up thinks of it.
LEMMA ResetCallStep ==
  ASSUME NEW drawn, InvWith(drawn), NEW h \in Hosts, NEW p \in Slots, service = Idle,
         host' = [host EXCEPT ![h] = PeerReset(@, p)], app' = [app EXCEPT ![h][p] = Unknown],
         service' = Idle, net' = net, connectIDs' = connectIDs
  PROVE  InvWith(drawn)'
  <1> DEFINE H == host[h]
             G == PeerReset(H, p)
  <1>1. /\ HostOK(H, h, drawn[h], connectIDs) /\ OneSlot(H) /\ DOMAIN host = Hosts /\ AppOK
        /\ connectIDs \in Nat
    BY CallingFacts
  <1>2. HostOK(G, h, drawn[h], connectIDs) /\ Touches(H, G, p) /\ G.peer[p].state = "DISCONNECTED"
    BY <1>1, PeerResetStep
  <1>3. Becomes(h, G)
    BY <1>1, BecomesStep
  <1> HIDE DEF G
  <1>4. OneSlot(G)
    BY <1>1, <1>2, OneSlotStep DEF Follows, Gone
  <1>5. Fits(G.peer[p], Unknown.view)
    BY <1>2 DEF Fits, StatesOf, Tells, HasEvent, Unknown
  <1>6. Learns(h, p, Unknown) /\ KnowledgeOK(Unknown)
    BY <1>1, LearnsStep DEF KnowledgeOK, Unknown, Views
  <1> QED BY <1>2, <1>3, <1>4, <1>5, <1>6, CallStep DEF Touches

\* enet_peer_reset.
LEMMA EnetPeerResetStep ==
  ASSUME NEW drawn, InvWith(drawn), NEW h \in Hosts, NEW p \in Slots, EnetPeerReset(h, p)
  PROVE  InvWith(drawn)'
  BY ResetCallStep DEF EnetPeerReset, Calling

\* enet_peer_disconnect_now.
LEMMA EnetPeerDisconnectNowStep ==
  ASSUME NEW drawn, InvWith(drawn), NEW h \in Hosts, NEW p \in Slots,
         EnetPeerDisconnectNow(h, p)
  PROVE  InvWith(drawn)'
  <1> DEFINE H == host[h]
             q == H.peer[p]
             c == Command("DISCONNECT", FALSE)
             E == ResetQueues(H, p)
             G == QueueOutgoing(E, p, c)
  <1>1. /\ service = Idle /\ net' = net /\ connectIDs' = connectIDs
        /\ app' = [app EXCEPT ![h][p] = Unknown] /\ app[h][p].view \in Held
    BY DEF EnetPeerDisconnectNow, Calling
  <1>2. CASE State(H, p) \in {"ZOMBIE", "DISCONNECTING"}
    <2>1. host' = [host EXCEPT ![h] = PeerReset(@, p)] /\ service' = Idle
      BY <1>2 DEF EnetPeerDisconnectNow
    <2> QED BY <1>1, <2>1, ResetCallStep
  <1>3. CASE State(H, p) \notin {"ZOMBIE", "DISCONNECTING"}
    <2>1. host' = [host EXCEPT ![h] = G] /\ service' = Flushing(h, p)
      BY <1>3 DEF EnetPeerDisconnectNow
    <2>2. /\ HostOK(H, h, drawn[h], connectIDs) /\ OneSlot(H) /\ DOMAIN host = Hosts /\ AppOK
      BY <1>1, CallingFacts
    <2>3. HostOK(E, h, drawn[h], connectIDs) /\ Touches(H, E, p) /\ SameBut(q, E.peer[p], Emptied)
      BY <2>2, ResetQueuesStep
    <2>4. CommandOK(c, drawn[h])
      BY DEF Command, CommandOK, CommandFields
    <2> HIDE DEF E, c
    <2>5. HostOK(G, h, drawn[h], connectIDs) /\ Touches(E, G, p)
          /\ SameBut(E.peer[p], G.peer[p], {"outgoingReliableSequenceNumber", "outgoingCommands"})
      BY <2>3, <2>4, QueueOutgoingStep
    <2> HIDE DEF G
    <2>6. Touches(H, G, p)
      BY <2>3, <2>5, TouchesTwice
    <2>7. /\ G.peer[p].state = q.state /\ G.peer[p].address = q.address
          /\ G.peer[p].connectID = q.connectID
      BY <2>3, <2>5 DEF SameBut, PeerFields, Emptied
    <2>8. OneSlot(G)
      BY <2>2, <2>6, <2>7, FollowingStep
    <2>9. Becomes(h, G)
      BY <2>1, <2>2, BecomesStep
    <2>10. Learns(h, p, Unknown) /\ KnowledgeOK(Unknown) /\ Unknown.view = "free"
      BY <1>1, <2>2, LearnsStep DEF KnowledgeOK, Unknown, Views
    <2> QED BY <1>1, <2>1, <2>5, <2>6, <2>8, <2>9, <2>10, CallStep DEF Touches
  <1> QED BY <1>2, <1>3

\* A step in which no peer of a host changes in what the application knows of it.
LEMMA QuietHostStep ==
  ASSUME NEW drawn, InvWith(drawn), NEW h \in Hosts, NEW G,
         Becomes(h, G), HostOK(G, h, drawn[h], connectIDs), OneSlot(G),
         \A p \in Slots : Moves(host[h].peer[p], G.peer[p]),
         \A g \in Hosts, p \in Slots : Resetting(g, p) => Resetting(g, p)',
         app' = app, connectIDs' = connectIDs
  PROVE  (HostsOK(drawn) /\ Draws(drawn) /\ AppOK /\ TellsAll)'
  <1>1. HostsOK(drawn)'
    BY HostsStep DEF InvWith
  <1>2. AppOK'
    BY DEF InvWith, AppOK
  <1>3. ASSUME NEW g \in Hosts, NEW p \in Slots, ~Resetting(g, p)'
        PROVE  Fits(host'[g].peer[p], app[g][p].view)
    <2>1. Fits(host[g].peer[p], app[g][p].view) /\ app[g][p].view \in Views
      BY <1>3 DEF InvWith, TellsAll, AppOK
    <2>2. CASE g = h
      BY <2>1, <2>2 DEF Becomes, Moves
    <2>3. CASE g # h
      BY <2>1, <2>3 DEF Becomes
    <2> QED BY <2>2, <2>3
  <1>4. TellsAll'
    BY <1>3 DEF TellsAll
  <1>5. Draws(drawn)'
    BY DEF InvWith, Draws
  <1> QED BY <1>1, <1>2, <1>4, <1>5

\* enet_host_bandwidth_limit.
LEMMA EnetHostBandwidthLimitStep ==
  ASSUME NEW drawn, InvWith(drawn), NEW h \in Hosts, EnetHostBandwidthLimit(h)
  PROVE  InvWith(drawn)'
  <1> DEFINE H == host[h]
             G == [H EXCEPT !.incomingBandwidth = ~@, !.recalculateBandwidthLimits = TRUE]
  <1>1. service = Idle /\ service' = service /\ app' = app /\ net' = net /\ connectIDs' = connectIDs
    BY DEF EnetHostBandwidthLimit
  <1>2. host' = [host EXCEPT ![h] = G]
    BY DEF EnetHostBandwidthLimit, InvWith, HostsOK
  <1>3. HostOK(H, h, drawn[h], connectIDs) /\ OneSlot(H) /\ DOMAIN host = Hosts /\ Shape(H)
    BY DEF InvWith, HostsOK, HostOK
  <1>4. Shape(G) /\ G.peer = H.peer /\ G.dispatchQueue = H.dispatchQueue /\ SameCounters(H, G)
    BY <1>3 DEF Shape, HostFields, SameCounters
  <1> HIDE DEF G
  <1>5. HostOK(G, h, drawn[h], connectIDs)
    BY <1>3, <1>4 DEF HostOK, Queued, Counted, Connected, Limited, State, SameCounters
  <1>6. OneSlot(G)
    BY <1>3, <1>4 DEF OneSlot, Active, State
  <1>7. \A p \in Slots : Moves(H.peer[p], G.peer[p])
    BY <1>4 DEF Moves
  <1>8. Becomes(h, G)
    BY <1>2, <1>3, BecomesStep
  <1>9. \A g \in Hosts, p \in Slots : Resetting(g, p) => Resetting(g, p)'
    BY <1>1 DEF Resetting
  <1>10. ServiceOK' /\ NetOK(drawn)'
    BY <1>1, IdleService DEF InvWith, NetOK
  <1> QED BY <1>1, <1>5, <1>6, <1>7, <1>8, <1>9, <1>10, QuietHostStep DEF InvWith

\* A host that is new.
LEMMA NewHostOK ==
  ASSUME NEW h \in Hosts, NEW drawn, NEW n \in Nat, NEW b \in BOOLEAN
  PROVE  HostOK(NewHost(b), h, drawn, n) /\ OneSlot(NewHost(b))
  <1> DEFINE G == NewHost(b)
  <1>1. /\ Shape(G) /\ G.peer = [p \in Slots |-> NewPeer]
        /\ G.connectedPeers = 0 /\ G.bandwidthLimitedPeers = 0
    BY DEF NewHost, Shape, HostFields
  <1>2. PeerOK(NewPeer, h, drawn, n)
    <2>1. DOMAIN NewPeer = PeerFields
      BY DEF NewPeer, PeerFields
    <2>2. /\ NewPeer.state = "DISCONNECTED" /\ NewPeer.outgoingPeerID = None
          /\ NewPeer.incomingBandwidth = FALSE /\ NewPeer.needsDispatch = FALSE
          /\ NewPeer.address = None /\ NewPeer.connectID = 0
          /\ NewPeer.outgoingCommands = {} /\ NewPeer.sentReliableCommands = {}
          /\ NewPeer.acknowledgements = {} /\ NewPeer.waiting = {}
          /\ NewPeer.dispatchedCommands = <<>>
      BY DEF NewPeer
    <2>3. None # h
      BY ConnectionAssumption
    <2>4. 0 \in 0 .. n
      OBVIOUS
    <2> QED BY <2>1, <2>2, <2>3, <2>4, FS_EmptySet, EmptyIsSeq DEF PeerOK, States
  <1>3. NewPeer.state = "DISCONNECTED" /\ NewPeer.needsDispatch = FALSE
    BY DEF NewPeer
  <1> HIDE DEF G
  <1>4. Connected(G) = {} /\ Limited(G) = {} /\ Active(G) = {}
    BY <1>1, <1>3 DEF Connected, Limited, Active, State, Established
  <1>5. Counted(G)
    BY <1>1, <1>4, FS_EmptySet DEF Counted
  <1>6. HostOK(G, h, drawn, n)
    BY <1>1, <1>2, <1>3, <1>5 DEF HostOK
  <1>7. OneSlot(G)
    BY <1>4 DEF OneSlot
  <1> QED BY <1>6, <1>7 DEF G

\* A peer that is new.
LEMMA NewPeerFits == Fits(NewPeer, Unknown.view) /\ KnowledgeOK(Unknown)
  <1>1. NewPeer.state = "DISCONNECTED"
    BY DEF NewPeer
  <1>2. Unknown.view = "free" /\ KnowledgeOK(Unknown)
    BY DEF Unknown, KnowledgeOK, Views
  <1> QED BY <1>1, <1>2 DEF Fits, StatesOf, Tells, HasEvent

\* A host that goes and comes back: its identifiers are in the network still.
LEMMA EnetHostCreateStep ==
  ASSUME NEW drawn, InvWith(drawn), NEW h \in Hosts, EnetHostCreate(h)
  PROVE  InvWith(drawn)'
  <1> DEFINE G == NewHost(h \in LimitedHosts)
  <1>1. /\ service = Idle /\ service' = service /\ net' = net /\ connectIDs' = connectIDs
        /\ host' = [host EXCEPT ![h] = G]
        /\ app' = [app EXCEPT ![h] = [p \in Slots |-> Unknown]]
    BY DEF EnetHostCreate
  <1>2. HostOK(G, h, drawn[h], connectIDs) /\ OneSlot(G)
    <2>1. (h \in LimitedHosts) \in BOOLEAN
      OBVIOUS
    <2>2. connectIDs \in Nat
      BY DEF InvWith, Draws
    <2> QED BY <2>1, <2>2, NewHostOK
  <1>3. \A p \in Slots : G.peer[p] = NewPeer
    BY DEF NewHost
  <1> HIDE DEF G
  <1>4. Becomes(h, G)
    BY <1>1, BecomesStep DEF InvWith, HostsOK
  <1>5. HostsOK(drawn)'
    BY <1>1, <1>2, <1>4, HostsStep DEF InvWith
  <1>6. /\ DOMAIN app' = Hosts /\ \A g \in Hosts : DOMAIN app'[g] = Slots
        /\ \A p \in Slots : app'[h][p] = Unknown
        /\ \A g \in Hosts \ {h} : app'[g] = app[g]
    BY <1>1 DEF InvWith, AppOK
  <1>7. AppOK'
    BY <1>6, NewPeerFits DEF InvWith, AppOK, KnowledgeOK
  <1>8. ASSUME NEW g \in Hosts, NEW p \in Slots
        PROVE  Fits(host'[g].peer[p], app'[g][p].view)
    <2>1. CASE g = h
      BY <1>3, <1>4, <1>6, <2>1, NewPeerFits DEF Becomes
    <2>2. CASE g # h
      <3>1. Fits(host[g].peer[p], app[g][p].view)
        BY <1>1, IdleResets DEF InvWith, TellsAll
      <3> QED BY <1>4, <1>6, <2>2, <3>1 DEF Becomes
    <2> QED BY <2>1, <2>2
  <1>9. TellsAll'
    BY <1>8 DEF TellsAll
  <1>10. ServiceOK' /\ Draws(drawn)' /\ NetOK(drawn)'
    BY <1>1, IdleService DEF InvWith, Draws, NetOK
  <1> QED BY <1>5, <1>7, <1>9, <1>10 DEF InvWith

-----------------------------------------------------------------------------
(* The phases of a call.                                                   *)

\* A call that host h is inside of.
CallOK(s, h) ==
  /\ DOMAIN s = ServiceFields
  /\ s.host = h
  /\ s.phase \in Phases \ {"app"}
  /\ s.todo \subseteq Slots
  /\ s.after \in Slots \union {None}
  /\ s.phase = "flush" <=> s.after # None

\* Where the call stands next: a phase with nothing to do is passed by.
LEMMA ProceedStep ==
  ASSUME NEW H, NEW h, NEW s, CallOK(s, h)
  PROVE  LET t == Proceed(H, s)
         IN  \/ t = Idle /\ s.after = None
             \/ /\ CallOK(t, h) /\ t.after = s.after
                /\ t.phase \in Dispatching => H.dispatchQueue # <<>>
  <1> DEFINE a == PassDispatch(H, s)
             b == PassThrottle(H, a)
             c == PassSend(b)
             d == PassLastDispatch(H, c)
  <1>1. CallOK(a, h) /\ a.after = s.after /\ (a.phase = "dispatch" => H.dispatchQueue # <<>>)
    BY DEF PassDispatch, CallOK, ServiceFields, Phases
  <1> HIDE DEF a
  <1>2. CallOK(b, h) /\ b.after = s.after /\ (b.phase = "dispatch" => H.dispatchQueue # <<>>)
    <2>1. CASE a.phase = "throttle" /\ ~SomethingToThrottle(H)
      <3> DEFINE todo == Busy(H)
      <3>1. todo \subseteq Slots
        BY DEF Busy, Active
      <3>2. b = [a EXCEPT !.phase = "send", !.todo = todo]
        BY <2>1 DEF PassThrottle
      <3> HIDE DEF todo, b
      <3>3. b.phase = "send" /\ b.todo = todo /\ b.after = a.after /\ b.host = a.host
            /\ DOMAIN b = ServiceFields
        BY <1>1, <3>2 DEF CallOK, ServiceFields
      <3> QED BY <1>1, <2>1, <3>1, <3>3 DEF CallOK, Phases
    <2>2. CASE ~(a.phase = "throttle" /\ ~SomethingToThrottle(H))
      BY <1>1, <2>2 DEF PassThrottle
    <2> QED BY <2>1, <2>2
  <1> HIDE DEF b
  <1>3. \/ c = Idle /\ s.after = None
        \/ CallOK(c, h) /\ c.after = s.after /\ (c.phase = "dispatch" => H.dispatchQueue # <<>>)
    <2>1. CASE b.phase = "send" /\ b.todo = {}
      <3>1. c = [b EXCEPT !.phase = "receive"]
        BY <2>1 DEF PassSend
      <3> QED BY <1>2, <2>1, <3>1 DEF CallOK, ServiceFields, Phases
    <2>2. CASE b.phase = "send_again" /\ b.todo = {} /\ b.events
      <3>1. c = [b EXCEPT !.phase = "dispatch_again"]
        BY <2>2 DEF PassSend
      <3> QED BY <1>2, <2>2, <3>1 DEF CallOK, ServiceFields, Phases
    <2>3. CASE b.phase = "send_again" /\ b.todo = {} /\ ~b.events
      <3>1. c = Idle
        BY <2>3 DEF PassSend
      <3> QED BY <1>2, <2>3, <3>1 DEF CallOK
    <2>4. CASE ~(b.phase = "send" /\ b.todo = {}) /\ ~(b.phase = "send_again" /\ b.todo = {})
      <3>1. c = b
        BY <2>4 DEF PassSend
      <3> QED BY <1>2, <3>1
    <2> QED BY <2>1, <2>2, <2>3, <2>4
  <1> HIDE DEF c
  <1>4. Proceed(H, s) = d
    BY DEF Proceed, a, b, c
  <1>5. CASE c = Idle /\ s.after = None
    BY <1>4, <1>5 DEF PassLastDispatch, Idle
  <1>6. CASE CallOK(c, h) /\ c.after = s.after /\ (c.phase = "dispatch" => H.dispatchQueue # <<>>)
    <2>1. CASE c.phase \in {"dispatch_again", "check"} /\ H.dispatchQueue = <<>>
      <3>1. d = Idle /\ s.after = None
        BY <1>6, <2>1 DEF PassLastDispatch, CallOK
      <3> QED BY <1>4, <3>1
    <2>2. CASE ~(c.phase \in {"dispatch_again", "check"} /\ H.dispatchQueue = <<>>)
      <3>1. d = c
        BY <2>2 DEF PassLastDispatch
      <3> QED BY <1>4, <1>6, <2>2, <3>1 DEF Dispatching
    <2> QED BY <2>1, <2>2
  <1> QED BY <1>3, <1>5, <1>6

\* The call that a service which is not idle stands for.
LEMMA InsideFacts ==
  ASSUME NEW drawn, InvWith(drawn), service # Idle
  PROVE  /\ CallOK(service, service.host) /\ service.host \in Hosts
         /\ \A p : Resetting(service.host, p) <=> service.after = p
         /\ \A g \in Hosts, p \in Slots : Resetting(g, p) => g = service.host /\ service.phase = "flush"
         /\ service.phase \in Dispatching => host[service.host].dispatchQueue # <<>>
  <1>1. ServiceOK
    BY DEF InvWith
  <1> QED BY <1>1, ConnectionAssumption DEF ServiceOK, CallOK, Resetting

\* Where a call stands is a service.
LEMMA CallService ==
  ASSUME NEW h \in Hosts, NEW s, CallOK(s, h), service' = s,
         s.phase \in Dispatching => host'[h].dispatchQueue # <<>>,
         s.after # None => app'[h][s.after].view = "free"
  PROVE  ServiceOK'
  BY DEF ServiceOK, CallOK

\* What an application learns by an event.
LEMMA HearStep ==
  ASSUME NEW a, KnowledgeOK(a), NEW event, NEW q, NEW r, NEW p,
         event # NoEvent, Fitting(q, r, event, p), Fits(q, a.view)
  PROVE  event.slot = p /\ KnowledgeOK(Hear(a, event)) /\ Fits(r, Hear(a, event).view)
  <1> DEFINE b == Hear(a, event)
             k == IF a.view = "connected"
                  THEN (IF event.data > a.received THEN event.data - a.received ELSE 0) ELSE 0
  <1>1. event.slot = p /\ event.type \in {"CONNECT", "RECEIVE", "DISCONNECT"}
    BY DEF Fitting
  <1>2. CASE event.type = "CONNECT"
    <2>1. b = [Unknown EXCEPT !.view = "connected"]
      BY <1>2 DEF Hear
    <2>2. KnowledgeOK(b) /\ b.view = "connected"
      BY <2>1 DEF KnowledgeOK, Unknown, Views, Held
    <2> HIDE DEF b
    <2>3. Fits(r, "connected")
      BY <1>2 DEF Fitting
    <2> QED BY <1>1, <2>2, <2>3 DEF b
  <1>3. CASE event.type = "RECEIVE"
    <2>1. b = [a EXCEPT !.received = @ + 1]
      BY <1>3 DEF Hear
    <2>2. KnowledgeOK(b) /\ b.view = a.view
      BY <2>1 DEF KnowledgeOK
    <2> HIDE DEF b
    <2>3. Fits(r, a.view)
      BY <1>3 DEF Fitting, Moves, KnowledgeOK
    <2> QED BY <1>1, <2>2, <2>3 DEF b
  <1>4. CASE event.type = "DISCONNECT"
    <2>1. b = [Unknown EXCEPT !.missed = k]
      BY <1>4 DEF Hear
    <2> HIDE DEF k
    <2>2. KnowledgeOK(b) /\ b.view = "free"
      BY <2>1 DEF KnowledgeOK, Unknown, Views
    <2> HIDE DEF b
    <2>3. Fits(r, "free")
      BY <1>4 DEF Fitting
    <2> QED BY <1>1, <2>2, <2>3 DEF b
  <1> QED BY <1>1, <1>2, <1>3, <1>4

\* A step of a call: it goes on, or its event makes it return.
LEMMA ReturnStep ==
  ASSUME NEW drawn, InvWith(drawn), service # Idle, NEW h, h = service.host, NEW p, NEW r, NEW next,
         HandledOK(host[h], r, p, h, drawn[h], connectIDs),
         r.event = NoEvent \/ (p \in Slots /\ service.phase # "flush"),
         CallOK(next, h), next.after = service.after,
         Return(r, next), connectIDs' = connectIDs
  PROVE  (HostsOK(drawn) /\ Draws(drawn) /\ ServiceOK /\ AppOK /\ TellsAll)'
  <1> DEFINE H == host[h]
             G == r.host
  <1>1. /\ HostOK(G, h, drawn[h], connectIDs) /\ OneSlot(G) /\ Touches(H, G, p)
        /\ Fitting(H.peer[p], G.peer[p], r.event, p)
    BY DEF HandledOK
  <1>2. h \in Hosts /\ DOMAIN host = Hosts /\ AppOK
    BY InsideFacts DEF InvWith, HostsOK
  <1>3. host' = [host EXCEPT ![h] = G]
    BY DEF Return
  <1> HIDE DEF G
  <1>4. Becomes(h, G)
    BY <1>2, <1>3, BecomesStep
  <1>5. CASE r.event = NoEvent
    <2>1. app' = app /\ service' = Proceed(G, next)
      BY <1>5 DEF Return, G
    <2>2. \/ service' = Idle /\ next.after = None
          \/ /\ CallOK(service', h) /\ service'.after = next.after
             /\ service'.phase \in Dispatching => G.dispatchQueue # <<>>
      BY <2>1, ProceedStep
    <2>3. \A g \in Hosts, s \in Slots : Resetting(g, s) => Resetting(g, s)'
      <3>1. \A g \in Hosts, s \in Slots : Resetting(g, s) => g = h /\ service.after = s
        BY InsideFacts DEF Resetting
      <3>2. CASE next.after = None
        BY <3>1, <3>2, ConnectionAssumption
      <3>3. CASE next.after # None
        BY <2>2, <3>1, <3>3 DEF Resetting, CallOK
      <3> QED BY <3>2, <3>3
    <2>4. ServiceOK'
      <3>1. service.after # None => app[h][service.after].view = "free"
        BY DEF InvWith, ServiceOK
      <3>2. CASE service' = Idle
        BY <3>2, IdleService
      <3>3. CASE service' # Idle
        <4>1. PICK s : s = service'
          OBVIOUS
        <4>2. /\ CallOK(s, h) /\ s.after = service.after
              /\ s.phase \in Dispatching => host'[h].dispatchQueue # <<>>
          BY <1>4, <2>2, <3>3, <4>1 DEF Becomes
        <4> QED BY <1>2, <2>1, <3>1, <4>1, <4>2, CallService
      <3> QED BY <3>2, <3>3
    <2>5. \A s \in Slots : Moves(H.peer[s], G.peer[s])
      BY <1>1, <1>5 DEF Fitting, Touches, Others, Moves
    <2> QED BY <1>1, <1>2, <1>4, <2>1, <2>3, <2>4, <2>5, QuietHostStep
  <1>6. CASE r.event # NoEvent
    <2> DEFINE a == Hear(app[h][p], r.event)
    <2>1. p \in Slots /\ \A g \in Hosts, s \in Slots : ~Resetting(g, s)
      BY <1>6, InsideFacts
    <2>2. Fits(H.peer[p], app[h][p].view) /\ KnowledgeOK(app[h][p])
      BY <1>2, <2>1 DEF InvWith, TellsAll, AppOK, KnowledgeOK
    <2>3. r.event.slot = p /\ KnowledgeOK(a) /\ Fits(G.peer[p], a.view)
      BY <1>1, <1>6, <2>2, HearStep
    <2>4. app' = [app EXCEPT ![h][p] = a] /\ service' = Idle
      BY <1>2, <1>6, <2>1, <2>3 DEF Return, AppOK
    <2> HIDE DEF a
    <2>5. Learns(h, p, a)
      BY <1>2, <2>1, <2>4, LearnsStep
    <2>6. AppOK' /\ TellsAll'
      BY <1>1, <1>2, <1>4, <2>1, <2>3, <2>5, KnowsStep DEF InvWith, Touches
    <2>7. HostsOK(drawn)' /\ Draws(drawn)'
      BY <1>1, <1>2, <1>4, HostsStep DEF InvWith, Draws
    <2>8. ServiceOK'
      BY <2>4, IdleService
    <2> QED BY <2>6, <2>7, <2>8
  <1> QED BY <1>5, <1>6

\* enet_host_service and enet_host_check_events begin.
LEMMA EnetHostServiceStep ==
  ASSUME NEW drawn, InvWith(drawn), NEW h \in Hosts, NEW events, EnetHostService(h, events)
  PROVE  InvWith(drawn)'
  <1> DEFINE next == [Idle EXCEPT !.host = h, !.events = events,
                                  !.phase = IF events THEN "dispatch" ELSE "throttle"]
  <1>1. /\ service = Idle /\ service' = Proceed(host[h], next)
        /\ host' = host /\ net' = net /\ app' = app /\ connectIDs' = connectIDs
    BY DEF EnetHostService
  <1>2. CallOK(next, h) /\ next.after = None
    BY DEF CallOK, Idle, ServiceFields, Phases
  <1> HIDE DEF next
  <1>3. \/ service' = Idle
        \/ /\ CallOK(service', h) /\ service'.after = None
           /\ service'.phase \in Dispatching => host[h].dispatchQueue # <<>>
    BY <1>1, <1>2, ProceedStep
  <1>4. ServiceOK'
    <2>1. CASE service' = Idle
      BY <2>1, IdleService
    <2>2. CASE service' # Idle
      <3>1. PICK s : s = service'
        OBVIOUS
      <3> QED BY <1>1, <1>3, <2>2, <3>1, CallService
    <2> QED BY <2>1, <2>2
  <1>5. TellsAll'
    BY <1>1, IdleResets DEF InvWith, TellsAll
  <1>6. HostsOK(drawn)' /\ Draws(drawn)' /\ NetOK(drawn)' /\ AppOK'
    BY <1>1 DEF InvWith, HostsOK, Draws, NetOK, AppOK
  <1> QED BY <1>4, <1>5, <1>6 DEF InvWith

\* enet_host_check_events begins.
LEMMA EnetHostCheckEventsStep ==
  ASSUME NEW drawn, InvWith(drawn), NEW h \in Hosts, EnetHostCheckEvents(h)
  PROVE  InvWith(drawn)'
  <1> DEFINE next == [Idle EXCEPT !.host = h, !.events = TRUE, !.phase = "check"]
  <1>1. /\ service = Idle /\ host[h].dispatchQueue # <<>> /\ service' = next
        /\ host' = host /\ net' = net /\ app' = app /\ connectIDs' = connectIDs
    BY DEF EnetHostCheckEvents
  <1>2. CallOK(next, h) /\ next.after = None
    BY DEF CallOK, Idle, ServiceFields, Phases
  <1> HIDE DEF next
  <1>3. ServiceOK'
    BY <1>1, <1>2, CallService
  <1>4. TellsAll'
    BY <1>1, IdleResets DEF InvWith, TellsAll
  <1>5. HostsOK(drawn)' /\ Draws(drawn)' /\ NetOK(drawn)' /\ AppOK'
    BY <1>1 DEF InvWith, HostsOK, Draws, NetOK, AppOK
  <1> QED BY <1>3, <1>4, <1>5 DEF InvWith

\* enet_protocol_dispatch_incoming_commands.
LEMMA DispatchStep ==
  ASSUME NEW drawn, InvWith(drawn), Dispatch
  PROVE  InvWith(drawn)'
  <1> DEFINE h == service.host
             H == host[h]
             p == Head(H.dispatchQueue)
             r == DispatchHead(H)
  <1>1. /\ service.phase \in Dispatching /\ Return(r, service)
        /\ net' = net /\ connectIDs' = connectIDs
    BY DEF Dispatch, Dispatching
  <1>2. service # Idle /\ service.phase # "flush"
    BY <1>1 DEF Idle, Dispatching
  <1>3. CallOK(service, h) /\ h \in Hosts /\ H.dispatchQueue # <<>>
    BY <1>1, <1>2, InsideFacts
  <1>4. HostOK(H, h, drawn[h], connectIDs) /\ OneSlot(H) /\ connectIDs \in Nat
    BY <1>3 DEF InvWith, HostsOK, Draws
  <1> HIDE DEF h, r
  <1>5. p \in Slots /\ ResultOK(H, r, p, h, drawn[h], connectIDs)
    BY <1>3, <1>4, DispatchHeadStep DEF r
  <1>6. HandledOK(H, r, p, h, drawn[h], connectIDs)
    BY <1>4, <1>5, HandledResult
  <1>7. (HostsOK(drawn) /\ Draws(drawn) /\ ServiceOK /\ AppOK /\ TellsAll)'
    BY <1>1, <1>2, <1>3, <1>5, <1>6, ReturnStep DEF h
  <1>8. NetOK(drawn)'
    BY <1>1 DEF InvWith, NetOK
  <1> QED BY <1>7, <1>8 DEF InvWith

\* enet_host_bandwidth_throttle, in the middle of a call.
LEMMA ThrottleStep ==
  ASSUME NEW drawn, InvWith(drawn), Throttle
  PROVE  InvWith(drawn)'
  <1> DEFINE h == service.host
             H == host[h]
             next == [service EXCEPT !.phase = "send", !.todo = Busy(host'[h])]
  <1>1. /\ service.phase = "throttle" /\ service' = PassSend(next)
        /\ net' = net /\ app' = app /\ connectIDs' = connectIDs
    BY DEF Throttle
  <1>2. PICK limited :
          host' = host \/ host' = [host EXCEPT ![h] = BandwidthThrottle(@, limited)]
    BY DEF Throttle
  <1>3. service # Idle /\ service.phase # "flush"
    BY <1>1 DEF Idle
  <1>4. CallOK(service, h) /\ h \in Hosts /\ service.after = None
    BY <1>3, InsideFacts DEF CallOK
  <1>5. HostOK(H, h, drawn[h], connectIDs) /\ OneSlot(H) /\ DOMAIN host = Hosts
    BY <1>4 DEF InvWith, HostsOK
  <1> DEFINE B == BandwidthThrottle(H, limited)
  <1>6. /\ HostOK(B, h, drawn[h], connectIDs) /\ OneSlot(B)
        /\ \A p \in Slots : Moves(H.peer[p], B.peer[p])
    BY <1>5, BandwidthThrottleStep
  <1> HIDE DEF B
  <1>7. \E G : /\ HostOK(G, h, drawn[h], connectIDs) /\ OneSlot(G) /\ Becomes(h, G)
               /\ \A p \in Slots : Moves(H.peer[p], G.peer[p])
    <2>1. CASE host' = host
      <3>1. Becomes(h, H)
        BY <1>4, <1>5, <2>1, BecomesSame
      <3>2. \A p \in Slots : Moves(H.peer[p], H.peer[p])
        BY DEF Moves
      <3> QED BY <1>5, <3>1, <3>2
    <2>2. CASE host' = [host EXCEPT ![h] = BandwidthThrottle(@, limited)]
      <3>1. host' = [host EXCEPT ![h] = B]
        BY <1>4, <1>5, <2>2 DEF B
      <3>2. Becomes(h, B)
        BY <1>4, <1>5, <3>1, BecomesStep
      <3> QED BY <1>6, <3>2
    <2> QED BY <1>2, <2>1, <2>2
  <1>8. \A g \in Hosts, p \in Slots : ~Resetting(g, p)
    BY <1>3, InsideFacts
  <1>9. (HostsOK(drawn) /\ Draws(drawn) /\ AppOK /\ TellsAll)'
    BY <1>1, <1>4, <1>7, <1>8, QuietHostStep DEF h
  <1>10. ServiceOK'
    <2> DEFINE todo == Busy(host'[h])
    <2>1. todo \subseteq Slots
      BY DEF Busy, Active
    <2>2. PICK s : s = service'
      OBVIOUS
    <2>3. CallOK(next, h) /\ next.phase = "send" /\ next.after = None
      <3>1. next = [service EXCEPT !.phase = "send", !.todo = todo]
        OBVIOUS
      <3> HIDE DEF todo, next
      <3> QED BY <1>4, <2>1, <3>1 DEF CallOK, ServiceFields, Phases
    <2> HIDE DEF next
    <2>4. s = next \/ s = [next EXCEPT !.phase = "receive"]
      BY <1>1, <2>2, <2>3 DEF PassSend
    <2>5. CallOK(s, h) /\ s.phase \notin Dispatching /\ s.after = None
      BY <2>3, <2>4 DEF CallOK, ServiceFields, Phases, Dispatching
    <2> HIDE DEF h
    <2> QED BY <1>4, <2>2, <2>5, CallService
  <1>11. NetOK(drawn)'
    BY <1>1 DEF InvWith, NetOK
  <1> QED BY <1>9, <1>10, <1>11 DEF InvWith

\* The peer whose turn it is.
LEMMA TurnFacts ==
  ASSUME NEW drawn, InvWith(drawn), service # Idle, service.todo # {}
  PROVE  /\ Turn \in Slots
         /\ CallOK(TurnDone, service.host) /\ TurnDone.after = service.after
  <1>1. CallOK(service, service.host)
    BY InsideFacts
  <1>2. service.todo \in SUBSET Nat
    BY <1>1, ConnectionAssumption DEF CallOK
  <1>3. \E p \in service.todo : \A q \in service.todo : p <= q
    BY <1>2, LeastNumber
  <1>4. Turn \in service.todo
    BY <1>3 DEF Turn
  <1>5. CallOK(TurnDone, service.host) /\ TurnDone.after = service.after
    BY <1>1 DEF TurnDone, CallOK, ServiceFields
  <1> QED BY <1>1, <1>4, <1>5 DEF CallOK

\* What a peer sends is for another host, of what its host drew.
LEMMA DatagramStep ==
  ASSUME NEW h \in Hosts, NEW drawn, NEW n, NEW H, HostOK(H, h, drawn, n), NEW p \in Slots,
         NEW c, CommandOK(c, drawn)
  PROVE  LET m == Datagram(H, h, p, c)
         IN  /\ DOMAIN m = DatagramFields
             /\ m.from = h /\ m.from # m.to
             /\ m.peerID \in Slots \union {None}
             /\ CommandOK(m.command, drawn)
  <1> DEFINE m == Datagram(H, h, p, c)
             d == [c EXCEPT !.attempts = 0]
  <1>1. PeerOK(H.peer[p], h, drawn, n)
    BY HostFacts
  <1>2. /\ DOMAIN m = DatagramFields /\ m.from = h /\ m.to = H.peer[p].address
        /\ m.peerID = H.peer[p].outgoingPeerID /\ m.command = d
    BY DEF Datagram, DatagramFields
  <1> HIDE DEF m
  <1>3. CommandOK(d, drawn)
    BY DEF CommandOK, CommandFields
  <1> QED BY <1>1, <1>2, <1>3 DEF PeerOK, m

\* The turn of a peer in enet_protocol_send_outgoing_commands.
LEMMA SendTurnStep ==
  ASSUME NEW drawn, InvWith(drawn), NEW late, NEW ping, SendTurn(late, ping)
  PROVE  InvWith(drawn)'
  <1> DEFINE h == service.host
             H == host[h]
             p == Turn
             r == SendOutgoing(H, p, late, ping)
             G == r.host
             messages == {Datagram(G, h, p, c) : c \in r.sent}
  <1>1. /\ Sending /\ service.todo # {} /\ MaySend(p, late, ping)
        /\ Return(Quiet(G), TurnDone) /\ Transmit(messages) /\ connectIDs' = connectIDs
    BY DEF SendTurn
  <1>2. service # Idle
    BY <1>1 DEF Sending, Idle
  <1>3. p \in Slots /\ CallOK(TurnDone, h) /\ TurnDone.after = service.after /\ h \in Hosts
    BY <1>1, <1>2, TurnFacts, InsideFacts
  <1>4. HostOK(H, h, drawn[h], connectIDs) /\ OneSlot(H)
    BY <1>3 DEF InvWith, HostsOK
  <1>5. late \in SUBSET H.peer[p].sentReliableCommands
    BY <1>1 DEF MaySend
  <1> HIDE DEF p
  <1>6. QuietOK(H, G, p, h, drawn[h], connectIDs) /\ \A c \in r.sent : CommandOK(c, drawn[h])
    BY <1>3, <1>4, <1>5, SendOutgoingStep
  <1> HIDE DEF r
  <1>7. ResultOK(H, Quiet(G), p, h, drawn[h], connectIDs)
    BY <1>6, QuietResult DEF QuietOK
  <1>8. HandledOK(H, Quiet(G), p, h, drawn[h], connectIDs)
    BY <1>3, <1>4, <1>7, HandledResult
  <1>9. (HostsOK(drawn) /\ Draws(drawn) /\ ServiceOK /\ AppOK /\ TellsAll)'
    <2>1. Quiet(G).event = NoEvent
      BY DEF Quiet
    <2> HIDE DEF h
    <2>2. h = service.host
      BY DEF h
    <2> QED BY <1>1, <1>2, <1>3, <1>8, <2>1, <2>2, ReturnStep
  <1>10. NetOK(drawn)'
    <2>1. ASSUME NEW m \in messages
          PROVE  /\ DOMAIN m = DatagramFields
                 /\ m.from \in Hosts /\ m.from # m.to
                 /\ m.peerID \in Slots \union {None}
                 /\ CommandOK(m.command, drawn[m.from])
      <3>1. PICK c \in r.sent : m = Datagram(G, h, p, c)
        OBVIOUS
      <3>2. CommandOK(c, drawn[h]) /\ HostOK(G, h, drawn[h], connectIDs)
        BY <1>6 DEF QuietOK
      <3> HIDE DEF h, G
      <3> DEFINE d == Datagram(G, h, p, c)
      <3>3. /\ DOMAIN d = DatagramFields
            /\ d.from = h /\ d.from # d.to
            /\ d.peerID \in Slots \union {None}
            /\ CommandOK(d.command, drawn[h])
        BY <1>3, <3>2, DatagramStep
      <3> HIDE DEF d
      <3>4. m = d
        BY <3>1 DEF d
      <3> QED BY <1>3, <3>3, <3>4
    <2>2. net' \subseteq net \union messages
      BY <1>1 DEF Transmit
    <2> HIDE DEF messages
    <2> QED BY <2>1, <2>2 DEF InvWith, NetOK
  <1> QED BY <1>9, <1>10 DEF InvWith

\* enet_protocol_check_timeouts gives a peer up.
LEMMA GiveUpStep ==
  ASSUME NEW drawn, InvWith(drawn), GiveUp
  PROVE  InvWith(drawn)'
  <1> DEFINE h == service.host
             H == host[h]
             p == Turn
             A == SendAcknowledgements(H, p)
             r == NotifyDisconnect(A, p, service.events)
  <1>1. /\ service.phase \in {"send", "send_again"} /\ service.todo # {}
        /\ Return(r, TurnDone) /\ net' = net /\ connectIDs' = connectIDs
    BY DEF GiveUp
  <1>2. service # Idle /\ service.phase # "flush"
    BY <1>1 DEF Idle
  <1>3. p \in Slots /\ CallOK(TurnDone, h) /\ TurnDone.after = service.after /\ h \in Hosts
    BY <1>1, <1>2, TurnFacts, InsideFacts
  <1>4. HostOK(H, h, drawn[h], connectIDs) /\ OneSlot(H) /\ connectIDs \in Nat
    BY <1>3 DEF InvWith, HostsOK, Draws
  <1> HIDE DEF p
  <1>5. QuietOK(H, A, p, h, drawn[h], connectIDs) /\ A.peer[p].acknowledgements = {}
    BY <1>3, <1>4, SendAcknowledgementsStep
  <1> HIDE DEF A
  <1>6. ResultOK(A, r, p, h, drawn[h], connectIDs)
    BY <1>3, <1>4, <1>5, NotifyDisconnectStep DEF QuietOK
  <1> HIDE DEF r
  <1>7. ResultOK(H, r, p, h, drawn[h], connectIDs)
    BY <1>5, <1>6, ResultAfter DEF QuietOK
  <1>8. HandledOK(H, r, p, h, drawn[h], connectIDs)
    BY <1>3, <1>4, <1>7, HandledResult
  <1> HIDE DEF h
  <1>9. h = service.host
    BY DEF h
  <1>10. (HostsOK(drawn) /\ Draws(drawn) /\ ServiceOK /\ AppOK /\ TellsAll)'
    BY <1>1, <1>2, <1>3, <1>8, <1>9, ReturnStep
  <1>11. NetOK(drawn)'
    BY <1>1 DEF InvWith, NetOK
  <1> QED BY <1>10, <1>11 DEF InvWith

\* The flush is over, and the slot that the application thinks of as free is.
LEMMA FlushDoneStep ==
  ASSUME NEW drawn, InvWith(drawn), FlushDone
  PROVE  InvWith(drawn)'
  <1> DEFINE h == service.host
             p == service.after
             H == host[h]
             G == PeerReset(H, p)
  <1>1. /\ service.phase = "flush" /\ service' = Idle
        /\ host' = [host EXCEPT ![h] = PeerReset(@, p)]
        /\ net' = net /\ app' = app /\ connectIDs' = connectIDs
    BY DEF FlushDone
  <1>2. service # Idle
    BY <1>1 DEF Idle
  <1>3. /\ h \in Hosts /\ p \in Slots
        /\ \A g \in Hosts, r \in Slots : Resetting(g, r) => g = h /\ r = p
    BY <1>1, <1>2, InsideFacts DEF CallOK, Resetting
  <1>4. /\ HostOK(H, h, drawn[h], connectIDs) /\ OneSlot(H) /\ DOMAIN host = Hosts /\ AppOK
        /\ connectIDs \in Nat /\ app[h][p].view = "free"
    BY <1>3, ConnectionAssumption DEF InvWith, HostsOK, Draws, ServiceOK
  <1> HIDE DEF h, p
  <1>5. HostOK(G, h, drawn[h], connectIDs) /\ Touches(H, G, p) /\ G.peer[p].state = "DISCONNECTED"
    BY <1>3, <1>4, PeerResetStep
  <1>6. Becomes(h, G)
    BY <1>1, <1>3, <1>4, BecomesStep
  <1> HIDE DEF G
  <1>7. OneSlot(G)
    BY <1>3, <1>4, <1>5, OneSlotStep DEF Follows, Gone
  <1>8. HostsOK(drawn)' /\ Draws(drawn)' /\ NetOK(drawn)' /\ ServiceOK'
    BY <1>1, <1>3, <1>5, <1>6, <1>7, HostsStep, IdleService DEF InvWith, Draws, NetOK
  <1>9. Fits(G.peer[p], app[h][p].view)
    BY <1>4, <1>5 DEF Fits, StatesOf, Tells, HasEvent
  <1>10. Learns(h, p, app[h][p]) /\ KnowledgeOK(app[h][p])
    BY <1>1, <1>3, <1>4, LearnsSame
  <1>11. AppOK' /\ TellsAll'
    <2>1. PICK g, r : g = h /\ r = p
      OBVIOUS
    <2>2. Becomes(g, G) /\ Others(host[g], G, r) /\ Learns(g, r, app[g][r])
          /\ KnowledgeOK(app[g][r]) /\ Fits(G.peer[r], app[g][r].view)
          /\ g \in Hosts /\ r \in Slots
      BY <1>3, <1>5, <1>6, <1>9, <1>10, <2>1 DEF Touches
    <2>3. /\ \A s \in Slots \ {r} : ~Resetting(g, s)
          /\ \A f \in Hosts \ {g}, s \in Slots : ~Resetting(f, s)
      BY <1>3, <2>1
    <2> QED BY <2>2, <2>3, KnowsStep DEF InvWith
  <1> QED BY <1>8, <1>11 DEF InvWith

\* enet_protocol_receive_incoming_commands takes a datagram from the network.
LEMMA ReceiveStep ==
  ASSUME NEW drawn, InvWith(drawn), NEW m \in net, Receive(m)
  PROVE  InvWith(drawn)'
  <1> DEFINE h == service.host
             H == host[h]
             r == HandleIncoming(H, m, service.events)
             copy == [m EXCEPT !.copies = @ + 1]
  <1>1. /\ service.phase = "receive" /\ m.to = h /\ Accepts(H, m)
        /\ net' = (IF m.copies < MaxCopies THEN (net \ {m}) \union {copy} ELSE net \ {m})
        /\ Return(r, service) /\ connectIDs' = connectIDs
    BY DEF Receive
  <1>2. service # Idle /\ service.phase # "flush"
    BY <1>1 DEF Idle
  <1>3. CallOK(service, h) /\ h \in Hosts
    BY <1>2, InsideFacts
  <1>4. HostOK(H, h, drawn[h], connectIDs) /\ OneSlot(H) /\ connectIDs \in Nat
    BY <1>3 DEF InvWith, HostsOK, Draws
  <1>5. /\ DOMAIN m = DatagramFields
        /\ m.from \in Hosts /\ m.from # h /\ m.peerID \in Slots \union {None}
        /\ CommandOK(m.command, drawn[m.from])
    BY <1>1 DEF InvWith, NetOK
  <1>6. drawn[m.from] \in SUBSET (1 .. connectIDs) /\ drawn[h] \cap drawn[m.from] = {}
    BY <1>3, <1>5 DEF InvWith, Draws
  <1>7. PICK p \in Slots : HandledOK(H, r, p, h, drawn[h], connectIDs)
    BY <1>1, <1>4, <1>5, <1>6, HandleIncomingStep
  <1> HIDE DEF h, r
  <1>8. h = service.host
    BY DEF h
  <1>9. (HostsOK(drawn) /\ Draws(drawn) /\ ServiceOK /\ AppOK /\ TellsAll)'
    BY <1>1, <1>2, <1>3, <1>7, <1>8, ReturnStep
  <1>10. NetOK(drawn)'
    <2>1. /\ DOMAIN copy = DatagramFields /\ copy.from = m.from /\ copy.to = m.to
          /\ copy.peerID = m.peerID /\ copy.command = m.command
      BY <1>5 DEF DatagramFields
    <2>2. net' \subseteq net \union {copy}
      BY <1>1
    <2> HIDE DEF copy
    <2> QED BY <1>1, <1>5, <2>1, <2>2 DEF InvWith, NetOK
  <1> QED BY <1>9, <1>10 DEF InvWith

\* Nothing more is received in this call.
LEMMA ReceiveDoneStep ==
  ASSUME NEW drawn, InvWith(drawn), ReceiveDone
  PROVE  InvWith(drawn)'
  <1> DEFINE h == service.host
             H == host[h]
             todo == Busy(H)
             next == [service EXCEPT !.phase = "send_again", !.todo = todo]
  <1>1. /\ service.phase = "receive" /\ Return(Quiet(H), next)
        /\ net' = net /\ connectIDs' = connectIDs
    BY DEF ReceiveDone
  <1>2. service # Idle /\ service.phase # "flush"
    BY <1>1 DEF Idle
  <1>3. CallOK(service, h) /\ h \in Hosts
    BY <1>2, InsideFacts
  <1>4. todo \subseteq Slots
    BY DEF Busy, Active
  <1> HIDE DEF todo
  <1>5. CallOK(next, h) /\ next.after = service.after
    BY <1>1, <1>3, <1>4 DEF CallOK, ServiceFields, Phases
  <1> HIDE DEF next
  <1>6. HandledOK(H, Quiet(H), None, h, drawn[h], connectIDs) /\ Quiet(H).event = NoEvent
    <2>1. HostOK(H, h, drawn[h], connectIDs) /\ OneSlot(H)
      BY <1>3 DEF InvWith, HostsOK
    <2>2. Touches(H, H, None) /\ Moves(H.peer[None], H.peer[None])
      BY <2>1 DEF HostOK, Touches, Others, Moves
    <2> QED BY <2>1, <2>2 DEF HandledOK, Fitting, Quiet
  <1> HIDE DEF h
  <1>7. h = service.host
    BY DEF h
  <1>8. (HostsOK(drawn) /\ Draws(drawn) /\ ServiceOK /\ AppOK /\ TellsAll)'
    BY <1>1, <1>2, <1>5, <1>6, <1>7, ReturnStep
  <1>9. NetOK(drawn)'
    BY <1>1 DEF InvWith, NetOK
  <1> QED BY <1>8, <1>9 DEF InvWith

-----------------------------------------------------------------------------
(* The specification.                                                      *)

\* New hosts, of which none has drawn an identifier.
LEMMA InitStep ==
  ASSUME Init
  PROVE  ConnectionInv
  <1>0. PICK drawn : drawn = [h \in Hosts |-> {}]
    OBVIOUS
  <1>1. drawn \in [Hosts -> SUBSET Nat] /\ \A h \in Hosts : drawn[h] = {}
    BY <1>0
  <1>2. ASSUME NEW h \in Hosts
        PROVE  /\ HostOK(host[h], h, drawn[h], connectIDs) /\ OneSlot(host[h])
               /\ \A p \in Slots : host[h].peer[p] = NewPeer
    <2> DEFINE b == h \in LimitedHosts
    <2>1. b \in BOOLEAN /\ connectIDs = 0 /\ host[h] = NewHost(b)
      BY DEF Init
    <2> HIDE DEF b
    <2>2. HostOK(host[h], h, drawn[h], connectIDs) /\ OneSlot(host[h])
      BY <2>1, NewHostOK
    <2>3. \A p \in Slots : host[h].peer[p] = NewPeer
      BY <2>1 DEF NewHost
    <2> QED BY <2>2, <2>3
  <1>3. HostsOK(drawn)
    BY <1>2 DEF Init, HostsOK
  <1>4. Draws(drawn)
    BY <1>1, <1>0 DEF Init, Draws
  <1>5. NetOK(drawn)
    BY DEF Init, NetOK
  <1>6. ServiceOK
    BY DEF Init, ServiceOK, Idle, ServiceFields, Dispatching
  <1>7. DOMAIN app = Hosts /\ \A h \in Hosts : DOMAIN app[h] = Slots
        /\ \A p \in Slots : app[h][p] = Unknown
    BY DEF Init
  <1>8. AppOK
    BY <1>7, NewPeerFits DEF AppOK, KnowledgeOK
  <1>9. TellsAll
    BY <1>2, <1>7, NewPeerFits DEF TellsAll
  <1>10. InvWith(drawn)
    BY <1>3, <1>4, <1>5, <1>6, <1>8, <1>9 DEF InvWith
  <1> QED BY <1>1, <1>10 DEF ConnectionInv

\* A step of nobody.
LEMMA StutterStep ==
  ASSUME NEW drawn, InvWith(drawn), UNCHANGED vars
  PROVE  InvWith(drawn)'
  <1>1. /\ host' = host /\ net' = net /\ service' = service /\ app' = app
        /\ connectIDs' = connectIDs
    BY DEF vars
  <1>2. HostsOK(drawn)' /\ Draws(drawn)' /\ NetOK(drawn)'
    BY <1>1 DEF InvWith, HostsOK, Draws, NetOK
  <1>3. ServiceOK' /\ AppOK' /\ TellsAll'
    BY <1>1 DEF InvWith, ServiceOK, AppOK, TellsAll, Resetting
  <1> QED BY <1>2, <1>3 DEF InvWith

\* A call that an application makes.
CallStarts ==
  \/ \E h \in Hosts, p \in Slots :
       \/ EnetPeerSend(h, p)
       \/ EnetPeerDisconnect(h, p)
       \/ EnetPeerDisconnectAttempt(h, p)
       \/ EnetPeerDisconnectLater(h, p)
       \/ EnetPeerDisconnectNow(h, p)
       \/ EnetPeerReset(h, p)
  \/ \E h \in Hosts :
       \/ EnetHostBandwidthLimit(h)
       \/ EnetHostCreate(h)
       \/ EnetHostCheckEvents(h)
       \/ \E events \in BOOLEAN : EnetHostService(h, events)

\* A call that goes on.
CallGoesOn ==
  \/ Dispatch \/ Throttle
  \/ \E ping, late : SendTurn(late, ping)
  \/ GiveUp \/ FlushDone
  \/ \E m \in net : Receive(m)
  \/ ReceiveDone

\* The actions, in groups.
LEMMA NextCases ==
  ASSUME Next
  PROVE  \/ \E h, a \in Hosts : h # a /\ EnetHostConnect(h, a)
         \/ CallStarts
         \/ CallGoesOn
  <1>1. Initiators \subseteq Hosts
    BY ConnectionAssumption
  <1>2. CASE \E h \in Initiators, a \in Hosts : h # a /\ EnetHostConnect(h, a)
    BY <1>1, <1>2
  <1>3. CASE CallStarts
    BY <1>3
  <1>4. CASE CallGoesOn
    BY <1>4
  <1> QED BY <1>2, <1>3, <1>4 DEF Next, CallStarts, CallGoesOn

\* Every step keeps the invariant.
LEMMA NextStep ==
  ASSUME ConnectionInv, [Next]_vars
  PROVE  ConnectionInv'
  <1>1. PICK drawn \in [Hosts -> SUBSET Nat] : InvWith(drawn)
    BY DEF ConnectionInv
  <1>2. ASSUME NEW h \in Hosts, NEW a \in Hosts, h # a, EnetHostConnect(h, a)
        PROVE  ConnectionInv'
    BY <1>1, <1>2, EnetHostConnectStep DEF ConnectionInv
  <1>3. ASSUME CallStarts PROVE InvWith(drawn)'
    <2>1. ASSUME NEW h \in Hosts, NEW p \in Slots, EnetPeerSend(h, p) PROVE InvWith(drawn)'
      BY <1>1, <2>1, EnetPeerSendStep
    <2>2. ASSUME NEW h \in Hosts, NEW p \in Slots, EnetPeerDisconnect(h, p) PROVE InvWith(drawn)'
      BY <1>1, <2>2, EnetPeerDisconnectStep
    <2>3. ASSUME NEW h \in Hosts, NEW p \in Slots, EnetPeerDisconnectAttempt(h, p)
          PROVE  InvWith(drawn)'
      BY <1>1, <2>3, EnetPeerDisconnectAttemptStep
    <2>4. ASSUME NEW h \in Hosts, NEW p \in Slots, EnetPeerDisconnectLater(h, p)
          PROVE  InvWith(drawn)'
      BY <1>1, <2>4, EnetPeerDisconnectLaterStep
    <2>5. ASSUME NEW h \in Hosts, NEW p \in Slots, EnetPeerDisconnectNow(h, p)
          PROVE  InvWith(drawn)'
      BY <1>1, <2>5, EnetPeerDisconnectNowStep
    <2>6. ASSUME NEW h \in Hosts, NEW p \in Slots, EnetPeerReset(h, p) PROVE InvWith(drawn)'
      BY <1>1, <2>6, EnetPeerResetStep
    <2>7. ASSUME NEW h \in Hosts, EnetHostBandwidthLimit(h) PROVE InvWith(drawn)'
      BY <1>1, <2>7, EnetHostBandwidthLimitStep
    <2>8. ASSUME NEW h \in Hosts, EnetHostCreate(h) PROVE InvWith(drawn)'
      BY <1>1, <2>8, EnetHostCreateStep
    <2>9. ASSUME NEW h \in Hosts, EnetHostCheckEvents(h) PROVE InvWith(drawn)'
      BY <1>1, <2>9, EnetHostCheckEventsStep
    <2>10. ASSUME NEW h \in Hosts, NEW events, EnetHostService(h, events) PROVE InvWith(drawn)'
      BY <1>1, <2>10, EnetHostServiceStep
    <2> QED
      BY <1>3, <2>1, <2>2, <2>3, <2>4, <2>5, <2>6, <2>7, <2>8, <2>9, <2>10 DEF CallStarts
  <1>4. ASSUME CallGoesOn PROVE InvWith(drawn)'
    <2>1. CASE Dispatch
      BY <1>1, <2>1, DispatchStep
    <2>2. CASE Throttle
      BY <1>1, <2>2, ThrottleStep
    <2>3. ASSUME NEW ping, NEW late, SendTurn(late, ping) PROVE InvWith(drawn)'
      BY <1>1, <2>3, SendTurnStep
    <2>4. CASE GiveUp
      BY <1>1, <2>4, GiveUpStep
    <2>5. CASE FlushDone
      BY <1>1, <2>5, FlushDoneStep
    <2>6. ASSUME NEW m \in net, Receive(m) PROVE InvWith(drawn)'
      BY <1>1, <2>6, ReceiveStep
    <2>7. CASE ReceiveDone
      BY <1>1, <2>7, ReceiveDoneStep
    <2> QED BY <1>4, <2>1, <2>2, <2>3, <2>4, <2>5, <2>6, <2>7 DEF CallGoesOn
  <1>5. CASE UNCHANGED vars
    BY <1>1, <1>5, StutterStep DEF ConnectionInv
  <1>6. CASE Next
    BY <1>1, <1>2, <1>3, <1>4, <1>6, NextCases DEF ConnectionInv
  <1> QED BY <1>5, <1>6

\* The invariant: whatever the applications call and whatever the network loses,
\* repeats and reorders, hosts, datagrams, the call in progress and what the
\* applications know of their peers fit together.
THEOREM ConnectionInvariant == Spec => []ConnectionInv
  <1>1. Init => ConnectionInv
    BY InitStep
  <1>2. ConnectionInv /\ [Next]_vars => ConnectionInv'
    BY NextStep
  <1> QED BY <1>1, <1>2, PTL DEF Spec

\* connectedPeers and bandwidthLimitedPeers count what they are to count, in the
\* five places of the code that change a state or a bandwidth.
THEOREM CountersAreRight == Spec => []ConnectedCounted
  <1>1. ConnectionInv => ConnectedCounted
    <2> SUFFICES ASSUME NEW drawn, InvWith(drawn)
                 PROVE  ConnectedCounted
      BY DEF ConnectionInv
    <2>1. \A h \in Hosts : Counted(host[h])
      BY DEF InvWith, HostsOK, HostOK
    <2> QED BY <2>1 DEF ConnectedCounted, Counted, Connected, Limited
  <1> QED BY <1>1, ConnectionInvariant, PTL

\* What an application was told of a slot is what the state of the peer says: no
\* slot is used anew before its end was told, and no connection ends twice.
THEOREM ApplicationsKnow == Spec => []ApplicationKnows
  <1>1. ConnectionInv => ApplicationKnows
    <2> SUFFICES ASSUME NEW drawn, InvWith(drawn)
                 PROVE  ApplicationKnows
      BY DEF ConnectionInv
    <2> QED BY DEF InvWith, TellsAll, Resetting, Fits, ApplicationKnows, State
  <1> QED BY <1>1, ConnectionInvariant, PTL

\* A peer with an event to tell is flagged and in the dispatch queue: no event is
\* forgotten.
THEOREM EventsAreTold == Spec => []TellsItsEvents
  <1>1. ConnectionInv => TellsItsEvents
    <2> SUFFICES ASSUME NEW drawn, InvWith(drawn)
                 PROVE  TellsItsEvents
      BY DEF ConnectionInv
    <2>1. ASSUME NEW h \in Hosts, NEW p \in Slots \ {service.after}, HasEvent(host[h].peer[p])
          PROVE  host[h].peer[p].needsDispatch /\ Queued(host[h], p)
      <3>1. host[h].peer[p].needsDispatch
        BY <2>1 DEF InvWith, TellsAll, Resetting, Fits, Tells
      <3> QED BY <3>1 DEF InvWith, HostsOK, HostOK
    <2> QED BY <2>1 DEF TellsItsEvents, HasEvent, Queued, Listed
  <1> QED BY <1>1, ConnectionInvariant, PTL

\* A CONNECT that is sent again or repeated by the network takes one slot.
THEOREM AttemptsTakeOneSlot == Spec => []OneSlotPerAttempt
  <1>1. ConnectionInv => OneSlotPerAttempt
    BY DEF ConnectionInv, InvWith, HostsOK, OneSlot, OneSlotPerAttempt
  <1> QED BY <1>1, ConnectionInvariant, PTL

-----------------------------------------------------------------------------
(* The dispatch queue, when every call takes an event.                     *)

Distinct(s) == \A i, j \in DOMAIN s : s[i] = s[j] => i = j

\* The states in which a flagged peer waits in the queue.
Waiting == {"CONNECTED", "DISCONNECT_LATER", "ZOMBIE"}

\* A flagged peer is queued; a peer that will be queued when its acknowledgement
\* goes out is not.
PeerWaits(q, queued) ==
  /\ DOMAIN q = PeerFields
  /\ q.needsDispatch \in BOOLEAN
  /\ q.needsDispatch => queued /\ q.state \in Waiting
  /\ q.state = "ACKNOWLEDGING_DISCONNECT" => ~queued

QueueOK(H) ==
  /\ Shape(H)
  /\ Distinct(H.dispatchQueue)
  /\ \A p \in Slots : PeerWaits(H.peer[p], Queued(H, p))

\* No peer is left in the queue without its flag.
AllFlagged(H) == \A p \in Slots : Queued(H, p) => H.peer[p].needsDispatch

\* A peer that can be given its flag.
Free(H, p) == H.peer[p].needsDispatch \/ ~Queued(H, p)

Keeps(H, G) == QueueOK(G) /\ (AllFlagged(H) => AllFlagged(G))

\* A peer that is not in the queue may be put there.
LEMMA AppendDistinct ==
  ASSUME NEW s \in Seq(Slots), NEW p \in Slots, Distinct(s), ~Listed(s, p)
  PROVE  /\ Append(s, p) \in Seq(Slots) /\ Distinct(Append(s, p)) /\ Listed(Append(s, p), p)
         /\ \A r \in Slots \ {p} : Listed(Append(s, p), r) <=> Listed(s, r)
  <1> DEFINE t == Append(s, p)
  <1>1. t \in Seq(Slots) /\ Len(t) = Len(s) + 1 /\ t[Len(s) + 1] = p
        /\ \A i \in 1 .. Len(s) : t[i] = s[i]
    OBVIOUS
  <1>2. DOMAIN t = 1 .. Len(s) + 1 /\ DOMAIN s = 1 .. Len(s) /\ Len(s) \in Nat
    BY <1>1
  <1> HIDE DEF t
  <1>3. ASSUME NEW i \in DOMAIN t, NEW j \in DOMAIN t, t[i] = t[j] PROVE i = j
    <2>1. CASE i \in DOMAIN s /\ j \in DOMAIN s
      BY <1>1, <1>2, <1>3, <2>1 DEF Distinct
    <2>2. CASE i = Len(s) + 1 /\ j \in DOMAIN s
      BY <1>1, <1>2, <1>3, <2>2 DEF Listed
    <2>3. CASE i \in DOMAIN s /\ j = Len(s) + 1
      BY <1>1, <1>2, <1>3, <2>3 DEF Listed
    <2> QED BY <1>2, <2>1, <2>2, <2>3
  <1>4. ASSUME NEW r \in Slots \ {p} PROVE Listed(t, r) <=> Listed(s, r)
    <2>1. ASSUME NEW i \in DOMAIN t, t[i] = r PROVE Listed(s, r)
      <3>1. i \in DOMAIN s
        BY <1>1, <1>2, <1>4, <2>1
      <3> QED BY <1>1, <1>2, <2>1, <3>1 DEF Listed
    <2>2. ASSUME NEW i \in DOMAIN s, s[i] = r PROVE Listed(t, r)
      <3>1. i \in DOMAIN t /\ t[i] = r
        BY <1>1, <1>2, <2>2
      <3> QED BY <3>1 DEF Listed
    <2> QED BY <2>1, <2>2 DEF Listed
  <1>5. Listed(t, p)
    <2>1. Len(s) + 1 \in DOMAIN t
      BY <1>2
    <2> QED BY <1>1, <2>1 DEF Listed
  <1>6. Distinct(t)
    BY <1>3 DEF Distinct
  <1> QED BY <1>1, <1>4, <1>5, <1>6 DEF t

\* The first one leaves the queue.
LEMMA TailDistinct ==
  ASSUME NEW s \in Seq(Slots), s # <<>>, Distinct(s)
  PROVE  /\ Tail(s) \in Seq(Slots) /\ Head(s) \in Slots
         /\ Distinct(Tail(s)) /\ ~Listed(Tail(s), Head(s))
         /\ \A r \in Slots \ {Head(s)} : Listed(Tail(s), r) <=> Listed(s, r)
  <1> DEFINE t == Tail(s)
  <1>1. t \in Seq(Slots) /\ Len(t) = Len(s) - 1 /\ Head(s) = s[1] /\ Head(s) \in Slots
        /\ \A i \in 1 .. Len(s) - 1 : t[i] = s[i + 1]
    OBVIOUS
  <1>2. DOMAIN t = 1 .. Len(s) - 1 /\ DOMAIN s = 1 .. Len(s) /\ Len(s) \in Nat /\ 1 \in DOMAIN s
    BY <1>1
  <1> HIDE DEF t
  <1>3. \A i \in DOMAIN t : i + 1 \in DOMAIN s /\ t[i] = s[i + 1] /\ i + 1 # 1 /\ i \in Int
    BY <1>1, <1>2
  <1>4. ASSUME NEW i \in DOMAIN t, NEW j \in DOMAIN t, t[i] = t[j] PROVE i = j
    <2>1. i + 1 = j + 1
      BY <1>3, <1>4 DEF Distinct
    <2> QED BY <1>3, <2>1
  <1>5. ~Listed(t, Head(s))
    BY <1>1, <1>2, <1>3 DEF Listed, Distinct
  <1>6. ASSUME NEW r \in Slots \ {Head(s)} PROVE Listed(t, r) <=> Listed(s, r)
    <2>1. ASSUME NEW i \in DOMAIN s, s[i] = r PROVE Listed(t, r)
      <3>1. i # 1
        BY <1>1, <1>6, <2>1
      <3>2. i - 1 \in DOMAIN t /\ (i - 1) + 1 = i
        BY <1>2, <3>1
      <3> QED BY <1>3, <2>1, <3>2 DEF Listed
    <2>2. Listed(t, r) => Listed(s, r)
      BY <1>3 DEF Listed
    <2> QED BY <2>1, <2>2 DEF Listed
  <1>7. Distinct(t)
    BY <1>4 DEF Distinct
  <1> QED BY <1>1, <1>5, <1>6, <1>7 DEF t

\* A peer is taken out of the queue.
LEMMA UnlinkDistinct ==
  ASSUME NEW s \in Seq(Slots), NEW p \in Slots, Listed(s, p), Distinct(s)
  PROVE  /\ Unlink(s, p) \in Seq(Slots)
         /\ Distinct(Unlink(s, p)) /\ ~Listed(Unlink(s, p), p)
         /\ \A r \in Slots \ {p} : Listed(Unlink(s, p), r) <=> Listed(s, r)
  <1> DEFINE k == CHOOSE j \in DOMAIN s : s[j] = p
             n == Len(s)
             a == SubSeq(s, 1, k - 1)
             b == SubSeq(s, k + 1, n)
             t == a \o b
             At(i) == IF i < k THEN i ELSE i + 1
  <1>1. k \in 1 .. n /\ s[k] = p /\ n \in Nat /\ DOMAIN s = 1 .. n
    BY DEF Listed
  <1> HIDE DEF k
  <1>2. a \in Seq(Slots) /\ Len(a) = k - 1 /\ \A i \in 1 .. k - 1 : a[i] = s[i]
    BY <1>1
  <1>3. b \in Seq(Slots) /\ Len(b) = n - k /\ \A i \in 1 .. n - k : b[i] = s[k + i]
    <2>1. k + 1 \in Int /\ n \in Int /\ \A i \in k + 1 .. n : s[i] \in Slots
      BY <1>1
    <2>2. /\ b \in Seq(Slots)
          /\ Len(b) = IF k + 1 <= n THEN n - (k + 1) + 1 ELSE 0
          /\ \A i \in 1 .. n - (k + 1) + 1 : b[i] = s[k + 1 + i - 1]
      BY <2>1, SubSeqProperties
    <2> HIDE DEF b, n
    <2>3. Len(b) = n - k
      BY <1>1, <2>2
    <2>4. ASSUME NEW i \in 1 .. n - k PROVE b[i] = s[k + i]
      <3>1. i \in 1 .. n - (k + 1) + 1 /\ k + 1 + i - 1 = k + i
        BY <1>1
      <3> QED BY <2>2, <3>1
    <2> QED BY <2>2, <2>3, <2>4
  <1> HIDE DEF a, b
  <1>4. t \in Seq(Slots) /\ DOMAIN t = 1 .. n - 1
        /\ \A i \in 1 .. n - 1 : t[i] = IF i <= k - 1 THEN a[i] ELSE b[i - (k - 1)]
    <2>1. /\ t \in Seq(Slots) /\ Len(t) = Len(a) + Len(b)
          /\ \A i \in 1 .. Len(a) + Len(b) : t[i] = IF i <= Len(a) THEN a[i] ELSE b[i - Len(a)]
      BY <1>2, <1>3, ConcatProperties
    <2>2. DOMAIN t = 1 .. Len(t)
      BY <2>1
    <2> HIDE DEF n, t
    <2>3. (k - 1) + (n - k) = n - 1
      BY <1>1
    <2> QED BY <1>2, <1>3, <2>1, <2>2, <2>3
  <1> HIDE DEF t, n
  <1>5. ASSUME NEW i \in DOMAIN t PROVE t[i] = s[At(i)] /\ At(i) \in DOMAIN s /\ At(i) # k
    <2>1. CASE i < k
      BY <1>1, <1>2, <1>4, <2>1
    <2>2. CASE i >= k
      <3>1. i - (k - 1) \in 1 .. n - k /\ k + (i - (k - 1)) = i + 1 /\ ~(i <= k - 1)
        BY <1>1, <1>4, <2>2
      <3>2. t[i] = b[i - (k - 1)]
        BY <1>4, <3>1
      <3>3. b[i - (k - 1)] = s[i + 1]
        BY <1>3, <3>1
      <3> QED BY <1>1, <1>4, <2>2, <3>2, <3>3
    <2> QED BY <1>1, <1>4, <2>1, <2>2
  <1>6. \A i, j \in DOMAIN t : At(i) = At(j) => i = j
    BY <1>1, <1>4
  <1>7. \A j \in DOMAIN s : j # k => \E i \in DOMAIN t : At(i) = j
    <2>1. ASSUME NEW j \in DOMAIN s, j < k PROVE j \in DOMAIN t /\ At(j) = j
      BY <1>1, <1>4, <2>1
    <2>2. ASSUME NEW j \in DOMAIN s, j > k PROVE j - 1 \in DOMAIN t /\ At(j - 1) = j
      BY <1>1, <1>4, <2>2
    <2>3. \A j \in DOMAIN s : j # k => j < k \/ j > k
      BY <1>1
    <2> HIDE DEF At
    <2> QED BY <2>1, <2>2, <2>3
  <1> HIDE DEF At
  <1>8. Distinct(t)
    BY <1>5, <1>6 DEF Distinct
  <1>9. ~Listed(t, p)
    BY <1>1, <1>5 DEF Listed, Distinct
  <1>10. ASSUME NEW r \in Slots \ {p} PROVE Listed(t, r) <=> Listed(s, r)
    <2>1. ASSUME NEW j \in DOMAIN s, s[j] = r PROVE Listed(t, r)
      <3>1. j # k
        BY <1>1, <1>10, <2>1
      <3>2. PICK i \in DOMAIN t : At(i) = j
        BY <1>7, <3>1
      <3> QED BY <1>5, <2>1, <3>2 DEF Listed
    <2>2. Listed(t, r) => Listed(s, r)
      BY <1>5 DEF Listed
    <2> QED BY <2>1, <2>2 DEF Listed
  <1>11. Unlink(s, p) = t
    BY DEF Unlink, k, a, b, t, n
  <1> QED BY <1>4, <1>8, <1>9, <1>10, <1>11

\* A step of one peer.
LEMMA QueueStep ==
  ASSUME NEW H, QueueOK(H), NEW p \in Slots, NEW G, Shape(G), Others(H, G, p),
         Distinct(G.dispatchQueue), \A r \in Slots \ {p} : Queued(G, r) <=> Queued(H, r),
         PeerWaits(G.peer[p], Queued(G, p))
  PROVE  /\ QueueOK(G)
         /\ AllFlagged(H) /\ Free(G, p) => AllFlagged(G)
  <1>1. \A r \in Slots : PeerWaits(G.peer[r], Queued(G, r))
    BY DEF QueueOK, Others, PeerWaits
  <1>2. AllFlagged(H) /\ Free(G, p) => AllFlagged(G)
    BY DEF AllFlagged, Free, Others
  <1> QED BY <1>1, <1>2 DEF QueueOK

\* Steps one after the other.
LEMMA KeepsTwice ==
  ASSUME NEW H, NEW G, NEW F, Keeps(H, G), Keeps(G, F)
  PROVE  Keeps(H, F)
  BY DEF Keeps

\* A step that writes fields of a peer, and not what its place in the queue depends on.
Writes(H, G, p) ==
  /\ Shape(G) /\ Others(H, G, p)
  /\ G.dispatchQueue = H.dispatchQueue
  /\ DOMAIN G.peer[p] = PeerFields
  /\ G.peer[p].needsDispatch = H.peer[p].needsDispatch
  /\ \/ G.peer[p].state = H.peer[p].state
     \/ /\ H.peer[p].needsDispatch => G.peer[p].state \in Waiting
        /\ G.peer[p].state = "ACKNOWLEDGING_DISCONNECT" => ~Queued(H, p)

\* Such a step keeps the queue.
LEMMA WritesStep ==
  ASSUME NEW H, QueueOK(H), NEW p \in Slots, NEW G, Writes(H, G, p)
  PROVE  Keeps(H, G) /\ \A r \in Slots : Queued(G, r) <=> Queued(H, r)
  <1>1. \A r \in Slots : Queued(G, r) <=> Queued(H, r)
    BY DEF Writes, Queued
  <1>2. PeerWaits(H.peer[p], Queued(H, p))
    BY DEF QueueOK
  <1>3. PeerWaits(G.peer[p], Queued(G, p))
    BY <1>1, <1>2 DEF PeerWaits, Writes
  <1>4. AllFlagged(H) => Free(G, p)
    BY <1>1 DEF AllFlagged, Free, Writes
  <1>5. QueueOK(G) /\ (AllFlagged(H) /\ Free(G, p) => AllFlagged(G))
    BY <1>1, <1>3, QueueStep DEF Writes, QueueOK
  <1> QED BY <1>1, <1>4, <1>5 DEF Keeps

\* What the queue says of a peer.
LEMMA QueueFacts ==
  ASSUME NEW H, QueueOK(H), NEW p \in Slots
  PROVE  /\ Shape(H) /\ DOMAIN H.peer[p] = PeerFields /\ H.peer[p].needsDispatch \in BOOLEAN
         /\ H.peer[p].needsDispatch => Queued(H, p) /\ H.peer[p].state \in Waiting
         /\ H.peer[p].state = "ACKNOWLEDGING_DISCONNECT" => ~Queued(H, p)
         /\ AllFlagged(H) => Free(H, p)
  <1>1. Shape(H) /\ PeerWaits(H.peer[p], Queued(H, p))
    BY DEF QueueOK
  <1> QED BY <1>1 DEF PeerWaits, AllFlagged, Free

\* A change of state.
LEMMA ChangeStateQueue ==
  ASSUME NEW H, QueueOK(H), NEW p \in Slots, NEW s,
         H.peer[p].needsDispatch => s \in Waiting,
         s = "ACKNOWLEDGING_DISCONNECT" => ~Queued(H, p)
  PROVE  LET G == ChangeState(H, p, s)
         IN  /\ Keeps(H, G) /\ (Queued(G, p) <=> Queued(H, p))
             /\ SameBut(H.peer[p], G.peer[p], {"state"}) /\ G.peer[p].state = s
  <1> DEFINE G == ChangeState(H, p, s)
  <1>1. Shape(H) /\ DOMAIN H.peer[p] = PeerFields
    BY QueueFacts
  <1>2. Shape(G) /\ Others(H, G, p) /\ G.dispatchQueue = H.dispatchQueue
    BY <1>1 DEF Others, ChangeState, PeerOnConnect, PeerOnDisconnect, Count, State, Shape, HostFields
  <1>3. SameBut(H.peer[p], G.peer[p], {"state"}) /\ G.peer[p].state = s
    BY <1>1 DEF SameBut, PeerFields, ChangeState, PeerOnConnect, PeerOnDisconnect, Count, State,
                Shape, HostFields
  <1> HIDE DEF G
  <1>4. Writes(H, G, p)
    BY <1>2, <1>3 DEF Writes, SameBut, PeerFields
  <1> QED BY <1>3, <1>4, WritesStep DEF G

\* A peer is queued, unless it is.
LEMMA NeedsDispatchQueue ==
  ASSUME NEW H, QueueOK(H), NEW p \in Slots, H.peer[p].state \in Waiting, Free(H, p)
  PROVE  Keeps(H, NeedsDispatch(H, p))
  <1> DEFINE G == NeedsDispatch(H, p)
  <1>1. Shape(H) /\ DOMAIN H.peer[p] = PeerFields /\ H.peer[p].needsDispatch \in BOOLEAN
        /\ (H.peer[p].needsDispatch => Queued(H, p))
    BY QueueFacts
  <1>2. CASE H.peer[p].needsDispatch
    BY <1>2 DEF NeedsDispatch, Keeps
  <1>3. CASE ~H.peer[p].needsDispatch
    <2>1. G.dispatchQueue = Append(H.dispatchQueue, p)
      BY <1>1, <1>3 DEF NeedsDispatch, Shape, HostFields
    <2>2. /\ Touches(H, G, p) /\ Queued(G, p)
          /\ SameBut(H.peer[p], G.peer[p], {"needsDispatch"}) /\ G.peer[p].needsDispatch
      BY <1>1, NeedsDispatchEffect
    <2> HIDE DEF G
    <2>3. /\ Distinct(G.dispatchQueue)
          /\ \A r \in Slots \ {p} : Queued(G, r) <=> Queued(H, r)
      BY <1>3, <2>1, AppendDistinct DEF QueueOK, Shape, Queued, Free
    <2>4. G.peer[p].state = H.peer[p].state /\ DOMAIN G.peer[p] = PeerFields
          /\ G.peer[p].needsDispatch \in BOOLEAN
      <3>1. G.peer[p] = H.peer[p] \/ G.peer[p].needsDispatch = TRUE
        BY <1>1, <1>3 DEF G, NeedsDispatch, Shape, HostFields, PeerFields
      <3> QED BY <1>1, <2>2, <3>1 DEF SameBut, PeerFields
    <2>5. PeerWaits(G.peer[p], Queued(G, p)) /\ Free(G, p)
      BY <2>2, <2>4 DEF PeerWaits, Waiting, Free
    <2>6. QueueOK(G) /\ (AllFlagged(H) /\ Free(G, p) => AllFlagged(G))
      BY <2>2, <2>3, <2>5, QueueStep DEF Touches
    <2> QED BY <2>5, <2>6 DEF Keeps, G
  <1> QED BY <1>1, <1>2, <1>3

\* enet_protocol_dispatch_state.
LEMMA DispatchStateQueue ==
  ASSUME NEW H, QueueOK(H), NEW p \in Slots, NEW s \in Waiting, Free(H, p)
  PROVE  Keeps(H, DispatchState(H, p, s))
  <1> DEFINE F == ChangeState(H, p, s)
  <1>1. /\ Keeps(H, F) /\ (Queued(F, p) <=> Queued(H, p))
        /\ SameBut(H.peer[p], F.peer[p], {"state"}) /\ F.peer[p].state = s
    BY ChangeStateQueue DEF Waiting
  <1> HIDE DEF F
  <1>2. Free(F, p) /\ QueueOK(F)
    BY <1>1 DEF Free, SameBut, PeerFields, Keeps
  <1>3. Keeps(F, NeedsDispatch(F, p))
    BY <1>1, <1>2, NeedsDispatchQueue
  <1>4. Keeps(H, NeedsDispatch(F, p))
    BY <1>1, <1>3, KeepsTwice
  <1> QED BY <1>4 DEF DispatchState, F

\* enet_peer_queue_outgoing_command.
LEMMA QueueOutgoingQueue ==
  ASSUME NEW H, QueueOK(H), NEW p \in Slots, NEW c
  PROVE  LET G == QueueOutgoing(H, p, c)
         IN  /\ Keeps(H, G) /\ Writes(H, G, p) /\ (Queued(G, p) <=> Queued(H, p))
             /\ SameBut(H.peer[p], G.peer[p], {"outgoingReliableSequenceNumber", "outgoingCommands"})
  <1> DEFINE G == QueueOutgoing(H, p, c)
  <1>1. Shape(H) /\ DOMAIN H.peer[p] = PeerFields
    BY QueueFacts
  <1>2. Writes(H, G, p)
    BY <1>1 DEF Writes, Shape, HostFields, Others, PeerFields, QueueOutgoing
  <1>3. SameBut(H.peer[p], G.peer[p], {"outgoingReliableSequenceNumber", "outgoingCommands"})
    BY <1>1 DEF Shape, HostFields, SameBut, PeerFields, QueueOutgoing
  <1> HIDE DEF G
  <1> QED BY <1>2, <1>3, WritesStep DEF G

\* enet_peer_reset_queues takes a flagged peer out of the queue.
LEMMA ResetQueuesQueue ==
  ASSUME NEW H, QueueOK(H), NEW p \in Slots
  PROVE  LET G == ResetQueues(H, p)
         IN  /\ Keeps(H, G)
             /\ SameBut(H.peer[p], G.peer[p], Emptied) /\ IsEmpty(G.peer[p])
             /\ Free(H, p) => ~Queued(G, p)
             /\ ~H.peer[p].needsDispatch => (Queued(G, p) <=> Queued(H, p))
  <1> DEFINE G == ResetQueues(H, p)
             d == IF H.peer[p].needsDispatch THEN Unlink(H.dispatchQueue, p) ELSE H.dispatchQueue
  <1>1. Shape(H) /\ DOMAIN H.peer[p] = PeerFields /\ H.peer[p].needsDispatch \in BOOLEAN
        /\ (H.peer[p].needsDispatch => Queued(H, p))
        /\ (H.peer[p].state = "ACKNOWLEDGING_DISCONNECT" => ~Queued(H, p))
    BY QueueFacts
  <1>2. Touches(H, G, p) /\ SameBut(H.peer[p], G.peer[p], Emptied) /\ IsEmpty(G.peer[p])
    BY <1>1, ResetQueuesEffect
  <1>3. G.dispatchQueue = d
    BY <1>1 DEF ResetQueues, Shape, HostFields
  <1>4. /\ Distinct(d)
        /\ \A r \in Slots \ {p} : Listed(d, r) <=> Queued(H, r)
        /\ H.peer[p].needsDispatch => ~Listed(d, p)
        /\ ~H.peer[p].needsDispatch => (Listed(d, p) <=> Queued(H, p))
    BY <1>1, UnlinkDistinct DEF QueueOK, Shape, Queued
  <1> HIDE DEF G, d
  <1>5. /\ Distinct(G.dispatchQueue)
        /\ \A r \in Slots \ {p} : Queued(G, r) <=> Queued(H, r)
        /\ Queued(G, p) => Queued(H, p) /\ ~H.peer[p].needsDispatch
        /\ ~H.peer[p].needsDispatch => (Queued(G, p) <=> Queued(H, p))
    BY <1>3, <1>4 DEF Queued
  <1>6. G.peer[p].state = H.peer[p].state /\ DOMAIN G.peer[p] = PeerFields
        /\ G.peer[p].needsDispatch = FALSE
    BY <1>2 DEF SameBut, PeerFields, Emptied, IsEmpty
  <1>7. PeerWaits(G.peer[p], Queued(G, p))
    BY <1>1, <1>5, <1>6 DEF PeerWaits
  <1>8. QueueOK(G) /\ (AllFlagged(H) /\ Free(G, p) => AllFlagged(G))
    BY <1>2, <1>5, <1>7, QueueStep DEF Touches
  <1>9. AllFlagged(H) => Free(G, p)
    BY <1>5 DEF AllFlagged, Free
  <1> QED BY <1>2, <1>5, <1>8, <1>9 DEF Keeps, Free, G

\* enet_peer_reset leaves a peer where it is in the queue.
LEMMA PeerResetQueue ==
  ASSUME NEW H, QueueOK(H), NEW p \in Slots
  PROVE  LET G == PeerReset(H, p)
         IN  QueueOK(G) /\ (AllFlagged(H) /\ ~H.peer[p].needsDispatch => AllFlagged(G))
  <1> DEFINE E == PeerOnDisconnect(H, p)
             F == [E EXCEPT !.peer[p] = [@ EXCEPT !.outgoingPeerID = None, !.connectID = 0,
                                                  !.state = "DISCONNECTED",
                                                  !.incomingBandwidth = FALSE,
                                                  !.outgoingReliableSequenceNumber = 0,
                                                  !.eventData = 0, !.needsDispatch = FALSE]]
             G == ResetQueues(F, p)
  <1>1. Shape(H) /\ DOMAIN H.peer[p] = PeerFields
    BY QueueFacts
  <1>2. Shape(E) /\ E.peer = H.peer /\ E.dispatchQueue = H.dispatchQueue
    BY <1>1 DEF PeerOnDisconnect, Count, Shape, HostFields
  <1> HIDE DEF E
  <1>3. Shape(F) /\ Others(H, F, p) /\ F.dispatchQueue = H.dispatchQueue
        /\ DOMAIN F.peer[p] = PeerFields /\ F.peer[p].needsDispatch = FALSE
        /\ F.peer[p].state = "DISCONNECTED"
    BY <1>1, <1>2 DEF Shape, HostFields, Others, PeerFields
  <1>4. G = PeerReset(H, p)
    BY DEF PeerReset, E, F, G
  <1> HIDE DEF F
  <1>5. \A r \in Slots : Queued(F, r) <=> Queued(H, r)
    BY <1>3 DEF Queued
  <1>6. PeerWaits(F.peer[p], Queued(F, p))
    BY <1>3 DEF PeerWaits
  <1>7. QueueOK(F) /\ (AllFlagged(H) /\ Free(F, p) => AllFlagged(F))
    BY <1>3, <1>5, <1>6, QueueStep DEF QueueOK
  <1>8. AllFlagged(H) /\ ~H.peer[p].needsDispatch => Free(F, p)
    BY <1>5 DEF AllFlagged, Free
  <1>9. Keeps(F, G)
    BY <1>7, ResetQueuesQueue
  <1> QED BY <1>4, <1>7, <1>8, <1>9 DEF Keeps

\* enet_peer_disconnect, before it flushes.
LEMMA BeginDisconnectQueue ==
  ASSUME NEW H, QueueOK(H), NEW p \in Slots, NEW data
  PROVE  Keeps(H, BeginDisconnect(H, p, data))
  <1> DEFINE reliable == State(H, p) \in Established
             command == [Command("DISCONNECT", reliable) EXCEPT !.data = data]
             F == ResetQueues(H, p)
             G == QueueOutgoing(F, p, command)
             E == ChangeState(G, p, "DISCONNECTING")
  <1> HIDE DEF command
  <1>1. Keeps(H, F) /\ IsEmpty(F.peer[p])
    BY ResetQueuesQueue
  <1> HIDE DEF F
  <1>2. Keeps(F, G) /\ Writes(F, G, p)
    BY <1>1, QueueOutgoingQueue DEF Keeps
  <1>3. ~G.peer[p].needsDispatch
    BY <1>1, <1>2 DEF IsEmpty, Writes
  <1> HIDE DEF G
  <1>4. Keeps(G, E)
    BY <1>2, <1>3, ChangeStateQueue DEF Keeps
  <1> HIDE DEF E
  <1>5. Keeps(H, G)
    BY <1>1, <1>2, KeepsTwice
  <1>6. Keeps(H, E)
    BY <1>4, <1>5, KeepsTwice
  <1>7. BeginDisconnect(H, p, data) = IF reliable THEN E ELSE G
    BY DEF BeginDisconnect, command, F, G, E
  <1> QED BY <1>5, <1>6, <1>7

\* A result that leaves the queue as it should be, and no peer in it without its
\* flag unless there is an event to return.
Leaves(H, r) ==
  QueueOK(r.host) /\ (r.event = NoEvent /\ AllFlagged(H) => AllFlagged(r.host))

\* Results that are left quietly.
LEMMA LeavesQuiet ==
  ASSUME NEW H, NEW G, Keeps(H, G)
  PROVE  Leaves(H, Quiet(G))
  BY DEF Keeps, Leaves, Quiet

\* Results by way of another host.
LEMMA LeavesAfter ==
  ASSUME NEW H, NEW G, NEW r, Keeps(H, G), Leaves(G, r)
  PROVE  Leaves(H, r)
  BY DEF Keeps, Leaves

\* A host that does nothing keeps its queue.
LEMMA KeepsSame ==
  ASSUME NEW H, QueueOK(H)
  PROVE  Keeps(H, H)
  BY DEF Keeps

\* A flag of the host is nothing the queue depends on.
LEMMA RecalculateQueue ==
  ASSUME NEW H, QueueOK(H), NEW b
  PROVE  LET G == [H EXCEPT !.recalculateBandwidthLimits = b]
         IN  /\ Keeps(H, G) /\ G.peer = H.peer
             /\ \A r \in Slots : Queued(G, r) <=> Queued(H, r)
  <1> DEFINE G == [H EXCEPT !.recalculateBandwidthLimits = b]
  <1>1. Shape(G) /\ G.peer = H.peer /\ G.dispatchQueue = H.dispatchQueue
    BY DEF QueueOK, Shape, HostFields
  <1> HIDE DEF G
  <1>2. \A r \in Slots : Queued(G, r) <=> Queued(H, r)
    BY <1>1 DEF Queued
  <1>3. QueueOK(G)
    <2>1. ASSUME NEW r \in Slots PROVE PeerWaits(G.peer[r], Queued(G, r))
      BY <1>1, <1>2, QueueFacts DEF PeerWaits
    <2> QED BY <1>1, <2>1 DEF QueueOK
  <1>4. AllFlagged(H) => AllFlagged(G)
    BY <1>1, <1>2 DEF AllFlagged
  <1> QED BY <1>1, <1>2, <1>3, <1>4 DEF Keeps, G

\* Nor is what an event will tell.
LEMMA EventDataQueue ==
  ASSUME NEW H, QueueOK(H), NEW p \in Slots, NEW data
  PROVE  LET G == [H EXCEPT !.peer[p].eventData = data]
         IN  /\ Keeps(H, G) /\ (\A r \in Slots : Queued(G, r) <=> Queued(H, r))
             /\ G.peer[p].state = H.peer[p].state
             /\ G.peer[p].needsDispatch = H.peer[p].needsDispatch
  <1> DEFINE G == [H EXCEPT !.peer[p].eventData = data]
  <1>1. Shape(H) /\ DOMAIN H.peer[p] = PeerFields
    BY QueueFacts
  <1>2. Writes(H, G, p) /\ G.peer[p].state = H.peer[p].state
    BY <1>1 DEF Writes, Shape, HostFields, Others, PeerFields
  <1> HIDE DEF G
  <1>3. G.peer[p].needsDispatch = H.peer[p].needsDispatch
    BY <1>2 DEF Writes
  <1> QED BY <1>2, <1>3, WritesStep DEF G

\* enet_protocol_notify_connect of a call with an event.
LEMMA NotifyConnectQueue ==
  ASSUME NEW H, QueueOK(H), NEW p \in Slots, NEW events, events = TRUE
  PROVE  Leaves(H, NotifyConnect(H, p, events))
  <1> DEFINE G == [H EXCEPT !.recalculateBandwidthLimits = TRUE]
             F == ChangeState(G, p, "CONNECTED")
  <1>1. QueueOK(G)
    BY RecalculateQueue DEF Keeps
  <1> HIDE DEF G
  <1>2. QueueOK(F)
    BY <1>1, ChangeStateQueue DEF Keeps, Waiting
  <1> HIDE DEF F
  <1>3. NotifyConnect(H, p, events) = Tell(F, "CONNECT", p, H.peer[p].eventData)
    BY DEF NotifyConnect, F, G
  <1> QED BY <1>2, <1>3 DEF Leaves, Tell, NoEvent

\* enet_protocol_notify_disconnect of a call with an event: a peer that goes
\* without one has no flag.
LEMMA NotifyDisconnectQueue ==
  ASSUME NEW H, QueueOK(H), NEW p \in Slots, NEW events, events = TRUE
  PROVE  Leaves(H, NotifyDisconnect(H, p, events))
  <1> DEFINE b == H.recalculateBandwidthLimits \/ State(H, p) \notin BeforePending
             G == [H EXCEPT !.recalculateBandwidthLimits = b]
             R == PeerReset(G, p)
  <1> HIDE DEF b
  <1>1. Keeps(H, G) /\ G.peer = H.peer
    BY RecalculateQueue
  <1> HIDE DEF G
  <1>2. QueueOK(R) /\ (AllFlagged(G) /\ ~G.peer[p].needsDispatch => AllFlagged(R))
    BY <1>1, PeerResetQueue DEF Keeps
  <1> HIDE DEF R
  <1>3. CASE H.peer[p].state \in Unannounced
    <2>1. ~H.peer[p].needsDispatch
      BY <1>3, QueueFacts DEF Unannounced, Waiting
    <2>2. NotifyDisconnect(H, p, events) = Quiet(R)
      BY <1>3 DEF NotifyDisconnect, State, R, G, b
    <2>3. Keeps(H, R)
      BY <1>1, <1>2, <2>1 DEF Keeps
    <2> QED BY <2>2, <2>3, LeavesQuiet
  <1>4. CASE H.peer[p].state \notin Unannounced
    <2>1. NotifyDisconnect(H, p, events) = Tell(R, "DISCONNECT", p, 0)
      BY <1>4 DEF NotifyDisconnect, State, R, G, b
    <2> QED BY <1>2, <2>1 DEF Leaves, Tell, NoEvent
  <1> QED BY <1>3, <1>4

\* enet_protocol_remove_sent_reliable_command.
LEMMA RemoveSentQueue ==
  ASSUME NEW H, QueueOK(H), NEW p \in Slots, NEW seq, NEW channel
  PROVE  LET G == RemoveSent(H, p, seq, channel)
         IN  /\ Keeps(H, G) /\ (\A r \in Slots : Queued(G, r) <=> Queued(H, r))
             /\ G.peer[p].state = H.peer[p].state
             /\ G.peer[p].needsDispatch = H.peer[p].needsDispatch
  <1> DEFINE G == RemoveSent(H, p, seq, channel)
             gone == Acknowledged(H.peer[p], seq, channel)
  <1>1. Shape(H) /\ DOMAIN H.peer[p] = PeerFields
    BY QueueFacts
  <1> HIDE DEF gone
  <1>2. G = [H EXCEPT !.peer[p].sentReliableCommands = @ \ gone,
                      !.peer[p].outgoingCommands = @ \ gone]
    BY DEF RemoveSent, gone
  <1> HIDE DEF G
  <1>3. Writes(H, G, p) /\ G.peer[p].state = H.peer[p].state
    BY <1>1, <1>2 DEF Writes, Shape, HostFields, Others, PeerFields
  <1>4. G.peer[p].needsDispatch = H.peer[p].needsDispatch
    BY <1>3 DEF Writes
  <1> QED BY <1>3, <1>4, WritesStep DEF G

\* enet_protocol_handle_verify_connect.
LEMMA HandleVerifyConnectQueue ==
  ASSUME NEW H, QueueOK(H), NEW p \in Slots, NEW c, NEW events, events = TRUE, AllFlagged(H)
  PROVE  Leaves(H, HandleVerifyConnect(H, p, c, events))
  <1> DEFINE q == H.peer[p]
  <1>1. CASE q.state # "CONNECTING"
    <2>1. HandleVerifyConnect(H, p, c, events) = Quiet(H)
      BY <1>1 DEF HandleVerifyConnect, State
    <2> QED BY <2>1, KeepsSame, LeavesQuiet
  <1>2. CASE q.state = "CONNECTING" /\ c.connectID # q.connectID
    <2> DEFINE E == [H EXCEPT !.peer[p].eventData = 0]
               F == DispatchState(E, p, "ZOMBIE")
    <2>1. Keeps(H, E)
      BY EventDataQueue
    <2> HIDE DEF E
    <2>2. QueueOK(E) /\ Free(E, p)
      BY <2>1, QueueFacts DEF Keeps
    <2>3. Keeps(E, F)
      BY <2>2, DispatchStateQueue DEF Waiting
    <2> HIDE DEF F
    <2>4. HandleVerifyConnect(H, p, c, events) = Quiet(F)
      BY <1>2 DEF HandleVerifyConnect, State, F, E
    <2>5. Keeps(H, F)
      BY <2>1, <2>3, KeepsTwice
    <2> QED BY <2>4, <2>5, LeavesQuiet
  <1>3. CASE q.state = "CONNECTING" /\ c.connectID = q.connectID
    <2> DEFINE G == RemoveSent(H, p, 1, "control")
               F == [G EXCEPT !.peer[p] = [@ EXCEPT !.outgoingPeerID = c.peerID,
                                                    !.incomingSessionID = c.incomingSessionID,
                                                    !.outgoingSessionID = c.outgoingSessionID,
                                                    !.incomingBandwidth = c.incomingBandwidth]]
    <2>1. Keeps(H, G)
      BY RemoveSentQueue
    <2>2. HandleVerifyConnect(H, p, c, events) = NotifyConnect(F, p, events)
      BY <1>3 DEF HandleVerifyConnect, State
    <2> HIDE DEF G
    <2>3. Shape(G) /\ DOMAIN G.peer[p] = PeerFields
      BY <2>1, QueueFacts DEF Keeps
    <2>4. Writes(G, F, p)
      BY <2>3 DEF Writes, Shape, HostFields, Others, PeerFields
    <2> HIDE DEF F
    <2>5. Keeps(G, F)
      BY <2>1, <2>4, WritesStep DEF Keeps
    <2>6. Keeps(H, F)
      BY <2>1, <2>5, KeepsTwice
    <2>7. Leaves(F, NotifyConnect(F, p, events))
      BY <2>6, NotifyConnectQueue DEF Keeps
    <2> QED BY <2>2, <2>6, <2>7, LeavesAfter
  <1> QED BY <1>1, <1>2, <1>3

\* enet_protocol_handle_acknowledge.
LEMMA HandleAcknowledgeQueue ==
  ASSUME NEW H, QueueOK(H), NEW p \in Slots, NEW c, NEW events, events = TRUE
  PROVE  Leaves(H, HandleAcknowledge(H, p, c, events))
  <1> DEFINE q == H.peer[p]
             types == {d.type : d \in Acknowledged(q, c.seq, c.channel)}
             G == RemoveSent(H, p, c.seq, c.channel)
             r == HandleAcknowledge(H, p, c, events)
  <1> HIDE DEF types
  <1>1. Keeps(H, G)
    BY RemoveSentQueue
  <1> HIDE DEF G
  <1>2. QueueOK(G)
    BY <1>1 DEF Keeps
  <1>3. CASE q.state = "ACKNOWLEDGING_CONNECT" /\ "VERIFY_CONNECT" \in types
    <2>1. r = NotifyConnect(G, p, events)
      BY <1>3 DEF HandleAcknowledge, State, G, types
    <2> QED BY <1>1, <1>2, <2>1, NotifyConnectQueue, LeavesAfter
  <1>4. CASE q.state = "DISCONNECTING" /\ "DISCONNECT" \in types
    <2>1. r = NotifyDisconnect(G, p, events)
      BY <1>4 DEF HandleAcknowledge, State, G, types
    <2> QED BY <1>1, <1>2, <2>1, NotifyDisconnectQueue, LeavesAfter
  <1>5. CASE q.state = "DISCONNECT_LATER" /\ ~HasOutgoing(G, p)
    <2> DEFINE F == BeginDisconnect(G, p, G.peer[p].eventData)
    <2>1. r = Quiet(F)
      BY <1>5 DEF HandleAcknowledge, State, G, types
    <2>2. Keeps(G, F)
      BY <1>2, BeginDisconnectQueue
    <2> HIDE DEF F
    <2>3. Keeps(H, F)
      BY <1>1, <2>2, KeepsTwice
    <2> QED BY <2>1, <2>3, LeavesQuiet
  <1>6. CASE /\ ~(q.state = "ACKNOWLEDGING_CONNECT" /\ "VERIFY_CONNECT" \in types)
             /\ ~(q.state = "DISCONNECTING" /\ "DISCONNECT" \in types)
             /\ ~(q.state = "DISCONNECT_LATER" /\ ~HasOutgoing(G, p))
    <2>1. r = Quiet(G)
      BY <1>6 DEF HandleAcknowledge, State, G, types
    <2> QED BY <1>1, <2>1, LeavesQuiet
  <1> QED BY <1>3, <1>4, <1>5, <1>6

\* enet_protocol_handle_connect takes a slot without a flag.
LEMMA HandleConnectQueue ==
  ASSUME NEW H, QueueOK(H), NEW m, AcceptsConnect(H, m)
  PROVE  Keeps(H, HandleConnect(H, m))
  <1> DEFINE p == FirstFree(H)
             q == H.peer[p]
             c == m.command
             incoming == NextSession(c.incomingSessionID, q.outgoingSessionID)
             outgoing == NextSession(c.outgoingSessionID, q.incomingSessionID)
             F == [H EXCEPT !.peer[p] =
                    [@ EXCEPT !.state = "ACKNOWLEDGING_CONNECT", !.connectID = c.connectID,
                              !.address = m.from, !.outgoingPeerID = c.peerID,
                              !.incomingBandwidth = c.incomingBandwidth, !.eventData = c.data,
                              !.outgoingSessionID = incoming, !.incomingSessionID = outgoing]]
             verify == [Command("VERIFY_CONNECT", TRUE) EXCEPT
                          !.peerID = p, !.incomingSessionID = incoming,
                          !.outgoingSessionID = outgoing, !.connectID = c.connectID,
                          !.incomingBandwidth = H.incomingBandwidth]
             G == QueueOutgoing(F, p, verify)
  <1>1. p \in Slots /\ q.state = "DISCONNECTED"
    BY FirstFreeIsFree DEF AcceptsConnect, State
  <1>2. G = HandleConnect(H, m)
    BY DEF HandleConnect
  <1> HIDE DEF p, incoming, outgoing, verify
  <1>3. Shape(H) /\ DOMAIN q = PeerFields
    BY <1>1, QueueFacts
  <1>4. Shape(F) /\ Others(H, F, p) /\ F.dispatchQueue = H.dispatchQueue
    BY <1>1, <1>3 DEF Shape, HostFields, Others
  <1>5. /\ DOMAIN F.peer[p] = PeerFields /\ F.peer[p].needsDispatch = q.needsDispatch
        /\ F.peer[p].state = "ACKNOWLEDGING_CONNECT"
    <2> HIDE DEF c, q
    <2>1. F.peer[p] = [q EXCEPT
                         !.state = "ACKNOWLEDGING_CONNECT", !.connectID = c.connectID,
                         !.address = m.from, !.outgoingPeerID = c.peerID,
                         !.incomingBandwidth = c.incomingBandwidth, !.eventData = c.data,
                         !.outgoingSessionID = incoming, !.incomingSessionID = outgoing]
      BY <1>1, <1>3 DEF Shape, HostFields, q
    <2> HIDE DEF F
    <2> QED BY <1>3, <2>1 DEF PeerFields
  <1>6. ~q.needsDispatch
    BY <1>1, QueueFacts DEF Waiting
  <1> HIDE DEF F
  <1>7. Writes(H, F, p)
    BY <1>4, <1>5, <1>6 DEF Writes
  <1>8. Keeps(H, F)
    BY <1>1, <1>7, WritesStep
  <1>9. Keeps(F, G)
    BY <1>1, <1>8, QueueOutgoingQueue DEF Keeps
  <1> HIDE DEF G
  <1>10. Keeps(H, G)
    BY <1>8, <1>9, KeepsTwice
  <1> QED BY <1>2, <1>10

\* enet_protocol_handle_disconnect takes the peer out of the queue first, so that it
\* is there once when it is put back, and not at all when it is to wait for its
\* acknowledgement.
LEMMA HandleDisconnectQueue ==
  ASSUME NEW H, QueueOK(H), NEW p \in Slots, NEW c, AllFlagged(H)
  PROVE  Keeps(H, HandleDisconnect(H, p, c))
  <1> DEFINE q == H.peer[p]
             G == HandleDisconnect(H, p, c)
             E == ResetQueues(H, p)
             Z == DispatchState(E, p, "ZOMBIE")
             A == ChangeState(E, p, "ACKNOWLEDGING_DISCONNECT")
             b == E.recalculateBandwidthLimits \/ State(H, p) = "CONNECTION_PENDING"
             B == [E EXCEPT !.recalculateBandwidthLimits = b]
             resetting == q.state \in {"ACKNOWLEDGING_CONNECT", "CONNECTION_PENDING"}
             waits == q.state \in Established /\ c.reliable
  <1>1. Keeps(H, E) /\ IsEmpty(E.peer[p]) /\ ~Queued(E, p)
    BY ResetQueuesQueue, QueueFacts
  <1> HIDE DEF E, b
  <1>2. QueueOK(E) /\ Free(E, p) /\ ~E.peer[p].needsDispatch
    BY <1>1 DEF Keeps, Free, IsEmpty
  <1>3. CASE q.state = "ACKNOWLEDGING_DISCONNECT"
    <2>1. G = H
      BY <1>3 DEF HandleDisconnect, State, Established
    <2> QED BY <2>1, KeepsSame
  <1>4. CASE q.state # "ACKNOWLEDGING_DISCONNECT" /\ ~resetting /\ ~waits
    <2>1. Keeps(E, Z)
      BY <1>2, DispatchStateQueue DEF Waiting
    <2>2. G = [Z EXCEPT !.peer[p].eventData = c.data]
      BY <1>4 DEF HandleDisconnect, State, Established, Z, E
    <2> HIDE DEF Z
    <2>3. Keeps(Z, G)
      BY <2>1, <2>2, EventDataQueue DEF Keeps
    <2> HIDE DEF G
    <2>4. Keeps(H, Z)
      BY <1>1, <2>1, KeepsTwice
    <2>5. Keeps(H, G)
      BY <2>3, <2>4, KeepsTwice
    <2> QED BY <2>5 DEF G
  <1>5. CASE resetting
    <2>1. Keeps(E, B) /\ B.peer = E.peer
      BY <1>2, RecalculateQueue
    <2>2. G = PeerReset(B, p)
      BY <1>5 DEF HandleDisconnect, State, Established, B, E, b
    <2> HIDE DEF B
    <2>3. QueueOK(G) /\ (AllFlagged(B) /\ ~B.peer[p].needsDispatch => AllFlagged(G))
      BY <2>1, <2>2, PeerResetQueue DEF Keeps
    <2> HIDE DEF G
    <2>4. Keeps(H, G)
      BY <1>1, <1>2, <2>1, <2>3 DEF Keeps
    <2> QED BY <2>4 DEF G
  <1>6. CASE waits
    <2>1. Keeps(E, A)
      BY <1>1, <1>2, ChangeStateQueue
    <2>2. G = [A EXCEPT !.peer[p].eventData = c.data]
      BY <1>6 DEF HandleDisconnect, State, Established, A, E
    <2> HIDE DEF A
    <2>3. Keeps(A, G)
      BY <2>1, <2>2, EventDataQueue DEF Keeps
    <2> HIDE DEF G
    <2>4. Keeps(H, A)
      BY <1>1, <2>1, KeepsTwice
    <2>5. Keeps(H, G)
      BY <2>3, <2>4, KeepsTwice
    <2> QED BY <2>5 DEF G
  <1> QED BY <1>3, <1>4, <1>5, <1>6

\* enet_protocol_handle_bandwidth_limit.
LEMMA HandleBandwidthLimitQueue ==
  ASSUME NEW H, QueueOK(H), NEW p \in Slots, NEW c
  PROVE  Keeps(H, HandleBandwidthLimit(H, p, c))
  <1> DEFINE G == HandleBandwidthLimit(H, p, c)
  <1>1. Shape(H) /\ DOMAIN H.peer[p] = PeerFields
    BY QueueFacts
  <1>2. Writes(H, G, p)
    BY <1>1 DEF HandleBandwidthLimit, Writes, Shape, HostFields, Others, PeerFields
  <1> HIDE DEF G
  <1> QED BY <1>2, WritesStep DEF G

\* enet_protocol_handle_send_reliable: a packet that can be received queues its peer.
LEMMA HandleSendReliableQueue ==
  ASSUME NEW H, QueueOK(H), NEW p \in Slots, NEW c, NEW connectID, AllFlagged(H)
  PROVE  Keeps(H, HandleSendReliable(H, p, c, connectID))
  <1> DEFINE q == H.peer[p]
             new == q.state = "CONNECTED" /\ c.seq > q.received
             waiting == q.waiting \union {[seq |-> c.seq, connectID |-> connectID]}
             ready == {e \in waiting : \A i \in (q.received + 1) .. e.seq : \E d \in waiting : d.seq = i}
             rest == waiting \ ready
             last == q.received + Cardinality(ready)
             all == q.dispatchedCommands \o
                      [i \in 1 .. Cardinality(ready) |->
                        (CHOOSE e \in ready : e.seq = q.received + i).connectID]
             G == [H EXCEPT !.peer[p] = [@ EXCEPT !.waiting = rest, !.received = last,
                                                  !.dispatchedCommands = all]]
             R == HandleSendReliable(H, p, c, connectID)
  <1>1. Shape(H) /\ DOMAIN q = PeerFields
    BY QueueFacts
  <1>2. R = IF new THEN (IF ready # {} THEN NeedsDispatch(G, p) ELSE G) ELSE H
    BY DEF HandleSendReliable
  <1> HIDE DEF R, rest, last, all, ready, waiting
  <1>3. Writes(H, G, p) /\ G.peer[p].state = q.state
    BY <1>1 DEF Writes, Shape, HostFields, Others, PeerFields
  <1> HIDE DEF G
  <1>4. Keeps(H, G) /\ \A r \in Slots : Queued(G, r) <=> Queued(H, r)
    BY <1>3, WritesStep
  <1>5. CASE ~new
    <2>1. R = H
      BY <1>2, <1>5
    <2> QED BY <2>1, KeepsSame DEF R
  <1>6. CASE new /\ ready = {}
    <2>1. R = G
      BY <1>2, <1>6
    <2> QED BY <1>4, <2>1 DEF R
  <1>7. CASE new /\ ready # {}
    <2>1. R = NeedsDispatch(G, p)
      BY <1>2, <1>7
    <2>2. G.peer[p].state \in Waiting /\ QueueOK(G) /\ Free(G, p)
      BY <1>3, <1>4, <1>7, QueueFacts DEF Waiting, Keeps
    <2>3. Keeps(G, R)
      BY <2>1, <2>2, NeedsDispatchQueue
    <2>4. Keeps(H, R)
      BY <1>4, <2>3, KeepsTwice
    <2> QED BY <2>4 DEF R
  <1> QED BY <1>5, <1>6, <1>7

\* The commands of the network reach the handlers of Handle.
LEMMA HandleQueue ==
  ASSUME NEW H, QueueOK(H), AllFlagged(H), NEW m, m.peerID \in Slots, NEW events, events = TRUE
  PROVE  Leaves(H, Handle(H, m, events))
  <1> DEFINE p == m.peerID
             c == m.command
             r == Handle(H, m, events)
             established == State(H, p) \in Established
  <1>0. p \in Slots /\ p # None
    BY ConnectionAssumption
  <1>1. CASE c.type = "VERIFY_CONNECT"
    <2>1. r = HandleVerifyConnect(H, p, c, events)
      BY <1>1 DEF Handle
    <2> QED BY <1>0, <2>1, HandleVerifyConnectQueue
  <1>2. CASE c.type = "ACKNOWLEDGE"
    <2>1. r = HandleAcknowledge(H, p, c, events)
      BY <1>2 DEF Handle
    <2> QED BY <1>0, <2>1, HandleAcknowledgeQueue
  <1>3. CASE c.type = "DISCONNECT"
    <2>1. r = Quiet(HandleDisconnect(H, p, c))
      BY <1>3 DEF Handle
    <2> QED BY <1>0, <2>1, HandleDisconnectQueue, LeavesQuiet
  <1>4. CASE c.type = "BANDWIDTH_LIMIT" /\ established
    <2>1. r = Quiet(HandleBandwidthLimit(H, p, c))
      BY <1>4 DEF Handle
    <2> QED BY <1>0, <2>1, HandleBandwidthLimitQueue, LeavesQuiet
  <1>5. CASE c.type = "SEND_RELIABLE" /\ established
    <2>1. r = Quiet(HandleSendReliable(H, p, c, m.connectID))
      BY <1>5 DEF Handle
    <2> QED BY <1>0, <2>1, HandleSendReliableQueue, LeavesQuiet
  <1>6. CASE /\ c.type \notin {"VERIFY_CONNECT", "ACKNOWLEDGE", "DISCONNECT"}
             /\ ~(c.type = "BANDWIDTH_LIMIT" /\ established)
             /\ ~(c.type = "SEND_RELIABLE" /\ established)
    <2>1. r = Quiet(H)
      BY <1>0, <1>6 DEF Handle
    <2> QED BY <2>1, KeepsSame, LeavesQuiet
  <1> QED BY <1>1, <1>2, <1>3, <1>4, <1>5, <1>6

\* What the header lets through.
LEMMA HandleIncomingQueue ==
  ASSUME NEW H, QueueOK(H), AllFlagged(H), NEW m, Accepts(H, m),
         m.peerID \in Slots \union {None}, NEW events, events = TRUE
  PROVE  Leaves(H, HandleIncoming(H, m, events))
  <1> DEFINE p == m.peerID
             c == m.command
             r == Handle(H, m, events)
             s == HandleIncoming(H, m, events)
             a == p # None /\ Acknowledges(H, r.host, p, c)
  <1>1. CASE p = None
    <2>1. c.type = "CONNECT" /\ AcceptsConnect(H, m)
      BY <1>1 DEF Accepts
    <2>2. s = Quiet(HandleConnect(H, m))
      BY <1>1, <2>1 DEF HandleIncoming, Handle
    <2> QED BY <2>1, <2>2, HandleConnectQueue, LeavesQuiet
  <1>2. CASE p # None /\ ~a
    <2>1. s = r
      BY <1>2 DEF HandleIncoming
    <2> QED BY <1>2, <2>1, HandleQueue
  <1>3. CASE p # None /\ a
    <2> DEFINE F == r.host
               G == QueueAcknowledgement(F, p, c)
    <2>1. s.host = G /\ s.event = r.event
      BY <1>3 DEF HandleIncoming
    <2>2. p \in Slots /\ Leaves(H, r)
      BY <1>3, HandleQueue
    <2>3. QueueOK(F)
      BY <2>2 DEF Leaves
    <2> HIDE DEF F
    <2>4. Shape(F) /\ DOMAIN F.peer[p] = PeerFields
      BY <2>2, <2>3, QueueFacts
    <2>5. Writes(F, G, p)
      BY <2>4 DEF QueueAcknowledgement, Writes, Shape, HostFields, Others, PeerFields
    <2> HIDE DEF G
    <2>6. Keeps(F, G)
      BY <2>2, <2>3, <2>5, WritesStep
    <2> QED BY <2>1, <2>2, <2>6 DEF Leaves, Keeps, F
  <1> QED BY <1>1, <1>2, <1>3

\* enet_protocol_dispatch_incoming_commands: the first peer leaves the queue, to
\* be put back if it has more to tell.
LEMMA DispatchHeadQueue ==
  ASSUME NEW H, QueueOK(H), H.dispatchQueue # <<>>
  PROVE  QueueOK(DispatchHead(H).host)
  <1> DEFINE p == Head(H.dispatchQueue)
             q == H.peer[p]
             G == [H EXCEPT !.dispatchQueue = Tail(@), !.peer[p].needsDispatch = FALSE]
             r == DispatchHead(H)
  <1>1. H.dispatchQueue \in Seq(Slots) /\ Distinct(H.dispatchQueue)
    BY DEF QueueOK, Shape
  <1>2. p \in Slots /\ Tail(H.dispatchQueue) \in Seq(Slots) /\ Distinct(Tail(H.dispatchQueue))
        /\ ~Listed(Tail(H.dispatchQueue), p)
        /\ \A s \in Slots \ {p} : Listed(Tail(H.dispatchQueue), s) <=> Queued(H, s)
    BY <1>1, TailDistinct DEF Queued
  <1> HIDE DEF p
  <1>3. Shape(H) /\ DOMAIN q = PeerFields
    BY <1>2, QueueFacts
  <1>4. G.dispatchQueue = Tail(H.dispatchQueue)
    BY <1>3 DEF Shape, HostFields
  <1>5. Shape(G) /\ Others(H, G, p)
    <2>1. /\ DOMAIN G = HostFields /\ DOMAIN G.peer = Slots /\ G.incomingBandwidth \in BOOLEAN
          /\ Others(H, G, p)
      BY <1>3 DEF Shape, HostFields, Others
    <2> HIDE DEF G
    <2> QED BY <1>2, <1>4, <2>1 DEF Shape
  <1>6. DOMAIN G.peer[p] = PeerFields /\ G.peer[p].needsDispatch = FALSE
        /\ G.peer[p].state = q.state
    BY <1>2, <1>3 DEF Shape, HostFields, PeerFields
  <1> HIDE DEF G
  <1>7. ~Queued(G, p) /\ \A s \in Slots \ {p} : Queued(G, s) <=> Queued(H, s)
    BY <1>2, <1>4 DEF Queued
  <1>8. PeerWaits(G.peer[p], Queued(G, p))
    BY <1>6, <1>7 DEF PeerWaits
  <1>9. QueueOK(G)
    BY <1>2, <1>4, <1>5, <1>7, <1>8, QueueStep
  <1>10. CASE q.state \in {"CONNECTION_PENDING", "CONNECTION_SUCCEEDED"}
    <2>1. r = Tell(ChangeState(G, p, "CONNECTED"), "CONNECT", p, q.eventData)
      BY <1>10 DEF DispatchHead, G, p
    <2>2. QueueOK(ChangeState(G, p, "CONNECTED"))
      BY <1>2, <1>9, ChangeStateQueue DEF Waiting, Keeps
    <2> QED BY <2>1, <2>2 DEF Tell
  <1>11. CASE q.state = "ZOMBIE"
    <2> DEFINE E == [G EXCEPT !.recalculateBandwidthLimits = TRUE]
    <2>1. r = Tell(PeerReset(E, p), "DISCONNECT", p, q.eventData)
      BY <1>11 DEF DispatchHead, G, p
    <2>2. QueueOK(E)
      BY <1>9, RecalculateQueue DEF Keeps
    <2> HIDE DEF E
    <2>3. QueueOK(PeerReset(E, p))
      BY <1>2, <2>2, PeerResetQueue
    <2> QED BY <2>1, <2>3 DEF Tell
  <1>12. CASE q.state = "CONNECTED" /\ q.dispatchedCommands # <<>>
    <2> DEFINE F == [G EXCEPT !.peer[p].dispatchedCommands = Tail(@)]
               more == Len(q.dispatchedCommands) > 1
    <2>1. r = Tell(IF more THEN NeedsDispatch(F, p) ELSE F, "RECEIVE", p, 0)
      BY <1>12 DEF DispatchHead, G, p
    <2>2. Writes(G, F, p) /\ F.peer[p].state = G.peer[p].state
      BY <1>2, <1>5, <1>6 DEF Writes, Shape, HostFields, Others, PeerFields
    <2> HIDE DEF F, more
    <2>3. QueueOK(F) /\ ~Queued(F, p)
      BY <1>2, <1>7, <1>9, <2>2, WritesStep DEF Keeps
    <2>4. QueueOK(NeedsDispatch(F, p))
      BY <1>2, <1>6, <1>12, <2>2, <2>3, NeedsDispatchQueue DEF Free, Waiting, Keeps
    <2> QED BY <2>1, <2>3, <2>4 DEF Tell
  <1>13. CASE ~HasEvent(q)
    <2>1. r = Quiet(G)
      BY <1>13 DEF HasEvent, DispatchHead, G, p
    <2> QED BY <1>9, <2>1 DEF Quiet
  <1> QED BY <1>10, <1>11, <1>12, <1>13 DEF HasEvent

\* enet_protocol_send_acknowledgements: the peer that acknowledges a DISCONNECT is
\* not in the queue.
LEMMA SendAcknowledgementsQueue ==
  ASSUME NEW H, QueueOK(H), NEW p \in Slots,
         (\E a \in H.peer[p].acknowledgements : a.type = "DISCONNECT") =>
           H.peer[p].state = "ACKNOWLEDGING_DISCONNECT"
  PROVE  Keeps(H, SendAcknowledgements(H, p))
  <1> DEFINE q == H.peer[p]
             types == {a.type : a \in q.acknowledgements}
             F == [H EXCEPT !.peer[p].acknowledgements = {}]
             G == SendAcknowledgements(H, p)
  <1>1. Shape(H) /\ DOMAIN q = PeerFields
    BY QueueFacts
  <1>2. "DISCONNECT" \in types => ~Queued(H, p)
    BY QueueFacts
  <1>3. G = IF "DISCONNECT" \in types THEN DispatchState(F, p, "ZOMBIE") ELSE F
    BY DEF SendAcknowledgements
  <1> HIDE DEF G, types
  <1>4. Writes(H, F, p)
    BY <1>1 DEF Writes, Shape, HostFields, Others, PeerFields
  <1> HIDE DEF F
  <1>5. Keeps(H, F) /\ (Queued(F, p) <=> Queued(H, p))
    BY <1>4, WritesStep
  <1>6. CASE "DISCONNECT" \notin types
    <2>1. G = F
      BY <1>3, <1>6
    <2> QED BY <1>5, <2>1 DEF G
  <1>7. CASE "DISCONNECT" \in types
    <2>1. G = DispatchState(F, p, "ZOMBIE")
      BY <1>3, <1>7
    <2>2. QueueOK(F) /\ Free(F, p)
      BY <1>2, <1>5, <1>7 DEF Keeps, Free
    <2>3. Keeps(F, G)
      BY <2>1, <2>2, DispatchStateQueue DEF Waiting
    <2>4. Keeps(H, G)
      BY <1>5, <2>3, KeepsTwice
    <2> QED BY <2>4 DEF G
  <1> QED BY <1>6, <1>7

\* enet_protocol_check_timeouts.
LEMMA TimeOutQueue ==
  ASSUME NEW H, QueueOK(H), NEW p \in Slots, NEW late
  PROVE  Keeps(H, TimeOut(H, p, late))
  <1> DEFINE G == TimeOut(H, p, late)
  <1>1. Shape(H) /\ DOMAIN H.peer[p] = PeerFields
    BY QueueFacts
  <1>2. Writes(H, G, p)
    BY <1>1 DEF Writes, Shape, HostFields, Others, PeerFields, TimeOut
  <1> HIDE DEF G
  <1> QED BY <1>2, WritesStep DEF G

\* enet_protocol_check_outgoing_commands.
LEMMA CheckOutgoingQueue ==
  ASSUME NEW H, QueueOK(H), NEW p \in Slots
  PROVE  Keeps(H, CheckOutgoing(H, p))
  <1> DEFINE sent == {[c EXCEPT !.attempts = @ + 1] :
                        c \in {d \in H.peer[p].outgoingCommands : d.reliable}}
             F == [H EXCEPT !.peer[p].outgoingCommands = {},
                            !.peer[p].sentReliableCommands = @ \union sent]
             G == CheckOutgoing(H, p)
  <1>1. Shape(H) /\ DOMAIN H.peer[p] = PeerFields
    BY QueueFacts
  <1>2. G = F \/ G = BeginDisconnect(F, p, F.peer[p].eventData)
    BY DEF CheckOutgoing
  <1> HIDE DEF G, sent
  <1>3. Writes(H, F, p)
    BY <1>1 DEF Writes, Shape, HostFields, Others, PeerFields
  <1> HIDE DEF F
  <1>4. Keeps(H, F)
    BY <1>3, WritesStep
  <1>5. Keeps(F, BeginDisconnect(F, p, F.peer[p].eventData))
    BY <1>4, BeginDisconnectQueue DEF Keeps
  <1>6. Keeps(H, BeginDisconnect(F, p, F.peer[p].eventData))
    BY <1>4, <1>5, KeepsTwice
  <1> QED BY <1>2, <1>4, <1>6 DEF G

\* The turn of a peer in enet_protocol_send_outgoing_commands.
LEMMA SendOutgoingQueue ==
  ASSUME NEW H, QueueOK(H), NEW p \in Slots,
         (\E a \in H.peer[p].acknowledgements : a.type = "DISCONNECT") =>
           H.peer[p].state = "ACKNOWLEDGING_DISCONNECT",
         NEW late, NEW ping
  PROVE  Keeps(H, SendOutgoing(H, p, late, ping).host)
  <1> DEFINE S == SendAcknowledgements(H, p)
             A == TimeOut(S, p, late)
             B == IF A.peer[p].outgoingCommands = {} THEN A ELSE CheckOutgoing(A, p)
             idle == B.peer[p].sentReliableCommands = {}
             C == IF ping /\ idle THEN PeerPing(B, p) ELSE B
             D == IF ping /\ idle THEN CheckOutgoing(C, p) ELSE C
  <1>1. Keeps(H, S)
    BY SendAcknowledgementsQueue
  <1>2. SendOutgoing(H, p, late, ping).host = D
    BY DEF SendOutgoing
  <1> HIDE DEF S
  <1>3. Keeps(S, A)
    BY <1>1, TimeOutQueue DEF Keeps
  <1> HIDE DEF A
  <1>4. Keeps(H, A)
    BY <1>1, <1>3, KeepsTwice
  <1>5. Keeps(A, CheckOutgoing(A, p)) /\ Keeps(A, A)
    BY <1>4, CheckOutgoingQueue, KeepsSame DEF Keeps
  <1>6. Keeps(A, B)
    BY <1>5
  <1> HIDE DEF B
  <1>7. Keeps(H, B)
    BY <1>4, <1>6, KeepsTwice
  <1>8. Keeps(B, C)
    <2>1. C = B \/ C = QueueOutgoing(B, p, Command("PING", TRUE))
      BY DEF PeerPing
    <2>2. Keeps(B, QueueOutgoing(B, p, Command("PING", TRUE)))
      BY <1>7, QueueOutgoingQueue DEF Keeps
    <2>3. Keeps(B, B)
      BY <1>7, KeepsSame DEF Keeps
    <2> QED BY <2>1, <2>2, <2>3
  <1> HIDE DEF C
  <1>9. Keeps(H, C)
    BY <1>7, <1>8, KeepsTwice
  <1>10. Keeps(C, CheckOutgoing(C, p)) /\ Keeps(C, C)
    BY <1>9, CheckOutgoingQueue, KeepsSame DEF Keeps
  <1>11. Keeps(C, D)
    BY <1>10
  <1> HIDE DEF D
  <1>12. Keeps(H, D)
    BY <1>9, <1>11, KeepsTwice
  <1> QED BY <1>2, <1>12

\* enet_host_bandwidth_throttle.
LEMMA BandwidthThrottleQueue ==
  ASSUME NEW H, QueueOK(H), NEW limited
  PROVE  Keeps(H, BandwidthThrottle(H, limited))
  <1> DEFINE G == BandwidthThrottle(H, limited)
             Limit(p) == [Command("BANDWIDTH_LIMIT", TRUE) EXCEPT !.incomingBandwidth = p \in limited]
             Told(p) == QueueOutgoing(H, p, Limit(p)).peer[p]
  <1>1. CASE H.connectedPeers = 0 \/ ~H.recalculateBandwidthLimits
    <2>1. G = H
      BY <1>1 DEF BandwidthThrottle
    <2> QED BY <2>1, KeepsSame
  <1>2. CASE ~(H.connectedPeers = 0 \/ ~H.recalculateBandwidthLimits)
    <2>1. G = [H EXCEPT !.recalculateBandwidthLimits = FALSE,
                        !.peer = [p \in Slots |->
                          IF State(H, p) \in Established THEN Told(p) ELSE H.peer[p]]]
      BY <1>2 DEF BandwidthThrottle
    <2> HIDE DEF Limit
    <2>2. ASSUME NEW p \in Slots
          PROVE  SameBut(H.peer[p], Told(p), {"outgoingReliableSequenceNumber", "outgoingCommands"})
      BY QueueOutgoingQueue
    <2> HIDE DEF Told, G
    <2>3. Shape(H)
      BY DEF QueueOK
    <2>4. Shape(G) /\ G.dispatchQueue = H.dispatchQueue
      BY <2>1, <2>3 DEF Shape, HostFields
    <2>5. \A p \in Slots : G.peer[p] = Told(p) \/ G.peer[p] = H.peer[p]
      BY <2>1, <2>3 DEF Shape, HostFields
    <2>6. ASSUME NEW p \in Slots
          PROVE  /\ DOMAIN G.peer[p] = PeerFields
                 /\ G.peer[p].state = H.peer[p].state
                 /\ G.peer[p].needsDispatch = H.peer[p].needsDispatch
      BY <2>2, <2>5, QueueFacts DEF SameBut, PeerFields
    <2>7. \A p \in Slots : Queued(G, p) <=> Queued(H, p)
      BY <2>4 DEF Queued
    <2>8. \A p \in Slots : PeerWaits(G.peer[p], Queued(G, p))
      <3>1. ASSUME NEW p \in Slots PROVE PeerWaits(G.peer[p], Queued(G, p))
        BY <2>6, <2>7, QueueFacts DEF PeerWaits
      <3> QED BY <3>1
    <2>9. QueueOK(G)
      BY <2>4, <2>8 DEF QueueOK
    <2>10. AllFlagged(H) => AllFlagged(G)
      BY <2>6, <2>7 DEF AllFlagged
    <2> QED BY <2>9, <2>10 DEF Keeps, G
  <1> QED BY <1>1, <1>2

\* The phases that give flags to peers they do not take out of the queue.
Passing == {"throttle", "send", "receive", "send_again"}

\* A call with host H that takes an event: it has emptied the queue before it goes
\* on to the network.
Takes(s, H) ==
  /\ s.phase \notin {"app", "flush"} => s.events = TRUE
  /\ s.phase \in Passing => AllFlagged(H)

QueueInv ==
  /\ \A h \in Hosts : QueueOK(host[h])
  /\ Takes(service, host[service.host])

\* An empty queue holds no peer.
LEMMA EmptyAllFlagged ==
  ASSUME NEW H, H.dispatchQueue = <<>>
  PROVE  AllFlagged(H)
  <1>1. \A p \in Slots : ~Queued(H, p)
    BY DEF Queued, Listed
  <1> QED BY <1>1 DEF AllFlagged

\* The phases that are passed by: the last look at the queue before the network
\* finds it empty.
LEMMA ProceedQueue ==
  ASSUME NEW H, NEW s, DOMAIN s = ServiceFields, Takes(s, H)
  PROVE  Takes(Proceed(H, s), H)
  <1> DEFINE a == PassDispatch(H, s)
             b == PassThrottle(H, a)
             c == PassSend(b)
             d == PassLastDispatch(H, c)
             todo == Busy(H)
  <1>1. DOMAIN a = ServiceFields /\ Takes(a, H)
    <2>1. CASE s.phase = "dispatch" /\ H.dispatchQueue = <<>>
      <3>1. a = [s EXCEPT !.phase = "throttle"]
        BY <2>1 DEF PassDispatch
      <3> QED BY <2>1, <3>1, EmptyAllFlagged DEF Takes, ServiceFields
    <2>2. CASE ~(s.phase = "dispatch" /\ H.dispatchQueue = <<>>)
      BY <2>2 DEF PassDispatch
    <2> QED BY <2>1, <2>2
  <1> HIDE DEF a, todo
  <1>2. DOMAIN b = ServiceFields /\ Takes(b, H)
    <2>1. CASE a.phase = "throttle" /\ ~SomethingToThrottle(H)
      <3>1. b = [a EXCEPT !.phase = "send", !.todo = todo]
        BY <2>1 DEF PassThrottle, todo
      <3> QED BY <1>1, <2>1, <3>1 DEF Takes, ServiceFields, Passing
    <2>2. CASE ~(a.phase = "throttle" /\ ~SomethingToThrottle(H))
      BY <1>1, <2>2 DEF PassThrottle
    <2> QED BY <2>1, <2>2
  <1> HIDE DEF b
  <1>3. Takes(Idle, H)
    BY DEF Takes, Idle, Passing
  <1>4. Takes(c, H)
    <2>1. CASE b.phase = "send" /\ b.todo = {}
      <3>1. c = [b EXCEPT !.phase = "receive"]
        BY <2>1 DEF PassSend
      <3> QED BY <1>2, <2>1, <3>1 DEF Takes, ServiceFields, Passing
    <2>2. CASE b.phase = "send_again" /\ b.todo = {} /\ b.events
      <3>1. c = [b EXCEPT !.phase = "dispatch_again"]
        BY <2>2 DEF PassSend
      <3> QED BY <1>2, <2>2, <3>1 DEF Takes, ServiceFields, Passing
    <2>3. CASE b.phase = "send_again" /\ b.todo = {} /\ ~b.events
      <3>1. c = Idle
        BY <2>3 DEF PassSend
      <3> QED BY <1>3, <3>1
    <2>4. CASE ~(b.phase = "send" /\ b.todo = {}) /\ ~(b.phase = "send_again" /\ b.todo = {})
      <3>1. c = b
        BY <2>4 DEF PassSend
      <3> QED BY <1>2, <3>1
    <2> QED BY <2>1, <2>2, <2>3, <2>4
  <1> HIDE DEF c
  <1>5. d = Idle \/ d = c
    BY DEF PassLastDispatch
  <1>6. Proceed(H, s) = d
    BY DEF Proceed, a, b, c
  <1> QED BY <1>3, <1>4, <1>5, <1>6

\* What there is of hosts and of the call in progress.
LEMMA ConnectionFacts ==
  ASSUME ConnectionInv
  PROVE  /\ DOMAIN host = Hosts
         /\ service # Idle => /\ service.host \in Hosts /\ CallOK(service, service.host)
                              /\ service.phase \in Dispatching =>
                                   host[service.host].dispatchQueue # <<>>
         /\ service # Idle /\ service.todo # {} => Turn \in Slots /\ CallOK(TurnDone, service.host)
         /\ \A h \in Hosts, p \in Slots :
              (\E a \in host[h].peer[p].acknowledgements : a.type = "DISCONNECT") =>
                host[h].peer[p].state = "ACKNOWLEDGING_DISCONNECT"
         /\ \A m \in net : m.peerID \in Slots \union {None}
  <1>1. PICK drawn : InvWith(drawn)
    BY DEF ConnectionInv
  <1>2. DOMAIN host = Hosts /\ \A m \in net : m.peerID \in Slots \union {None}
    BY <1>1 DEF InvWith, HostsOK, NetOK
  <1>3. ASSUME NEW h \in Hosts, NEW p \in Slots PROVE PeerOK(host[h].peer[p], h, drawn[h], connectIDs)
    BY <1>1 DEF InvWith, HostsOK, HostOK
  <1>4. \A h \in Hosts, p \in Slots :
          (\E a \in host[h].peer[p].acknowledgements : a.type = "DISCONNECT") =>
            host[h].peer[p].state = "ACKNOWLEDGING_DISCONNECT"
    BY <1>3 DEF PeerOK
  <1>5. service # Idle => /\ service.host \in Hosts /\ CallOK(service, service.host)
                          /\ service.phase \in Dispatching => host[service.host].dispatchQueue # <<>>
    BY <1>1, InsideFacts
  <1>6. service # Idle /\ service.todo # {} => Turn \in Slots /\ CallOK(TurnDone, service.host)
    BY <1>1, TurnFacts
  <1> QED BY <1>2, <1>4, <1>5, <1>6

\* A step of a call: it goes on, or its event makes it return.
LEMMA ReturnQueue ==
  ASSUME ConnectionInv, QueueInv, service # Idle, NEW r, NEW next, CallOK(next, service.host),
         QueueOK(r.host), r.event = NoEvent => Takes(next, r.host), Return(r, next)
  PROVE  QueueInv'
  <1> DEFINE h == service.host
             G == r.host
  <1>1. h \in Hosts /\ DOMAIN host = Hosts
    BY ConnectionFacts
  <1>2. host' = [host EXCEPT ![h] = G]
    BY DEF Return
  <1>3. \A g \in Hosts : QueueOK(host'[g])
    <2> HIDE DEF h, G
    <2>1. \A g \in Hosts : host'[g] = IF g = h THEN G ELSE host[g]
      BY <1>1, <1>2
    <2> QED BY <1>1, <2>1 DEF QueueInv, G
  <1>4. CASE r.event = NoEvent
    <2>1. service' = Proceed(G, next)
      BY <1>4 DEF Return
    <2>2. Takes(service', G)
      BY <1>4, <2>1, ProceedQueue DEF CallOK
    <2>3. service' = Idle \/ service'.host = h
      <3>1. service' = Idle \/ CallOK(service', h)
        BY <2>1, ProceedStep
      <3> QED BY <3>1 DEF CallOK
    <2>4. Takes(service', host'[service'.host])
      <3>1. CASE service' = Idle
        BY <3>1 DEF Takes, Idle, Passing
      <3>2. CASE service'.host = h
        BY <1>1, <1>2, <2>2, <3>2
      <3> QED BY <2>3, <3>1, <3>2
    <2> QED BY <1>3, <2>4 DEF QueueInv
  <1>5. CASE r.event # NoEvent
    <2>1. service' = Idle
      BY <1>5 DEF Return
    <2>2. Takes(service', host'[service'.host])
      BY <2>1 DEF Takes, Idle, Passing
    <2> QED BY <1>3, <2>2 DEF QueueInv
  <1> QED BY <1>4, <1>5

\* A step of a host between the calls that look at the queue.
LEMMA CallQueue ==
  ASSUME QueueInv, DOMAIN host = Hosts, NEW h \in Hosts, NEW G, Becomes(h, G), QueueOK(G),
         service'.phase \in {"app", "flush"}
  PROVE  QueueInv'
  <1>1. \A g \in Hosts : QueueOK(host'[g])
    BY DEF Becomes, QueueInv
  <1>2. Takes(service', host'[service'.host])
    BY DEF Takes, Passing
  <1> QED BY <1>1, <1>2 DEF QueueInv

\* enet_host_connect takes a slot without a flag.
LEMMA EnetHostConnectQueue ==
  ASSUME ConnectionInv, QueueInv, NEW h \in Hosts, NEW a, EnetHostConnect(h, a)
  PROVE  QueueInv'
  <1> DEFINE H == host[h]
             p == FirstFree(H)
             q == H.peer[p]
             k == connectIDs + 1
             F == [H EXCEPT !.peer[p] = [@ EXCEPT !.state = "CONNECTING", !.address = a,
                                                  !.connectID = k]]
             c == [Command("CONNECT", TRUE) EXCEPT
                     !.peerID = p, !.connectID = k,
                     !.incomingSessionID = q.incomingSessionID,
                     !.outgoingSessionID = q.outgoingSessionID,
                     !.incomingBandwidth = H.incomingBandwidth]
             G == QueueOutgoing(F, p, c)
  <1>1. service' = Idle /\ FreeSlots(H) # {} /\ host' = [host EXCEPT ![h] = G]
    BY DEF EnetHostConnect
  <1>2. p \in Slots /\ q.state = "DISCONNECTED"
    BY <1>1, FirstFreeIsFree DEF State
  <1>3. QueueOK(H) /\ DOMAIN host = Hosts
    BY ConnectionFacts DEF QueueInv
  <1> HIDE DEF p, c, k
  <1>4. Shape(H) /\ DOMAIN q = PeerFields /\ ~q.needsDispatch
    BY <1>2, <1>3, QueueFacts DEF Waiting
  <1>5. Writes(H, F, p)
    BY <1>2, <1>4 DEF Writes, Shape, HostFields, Others, PeerFields
  <1> HIDE DEF F
  <1>6. QueueOK(F)
    BY <1>2, <1>3, <1>5, WritesStep DEF Keeps
  <1>7. QueueOK(G)
    BY <1>2, <1>6, QueueOutgoingQueue DEF Keeps
  <1> HIDE DEF G
  <1>8. Becomes(h, G)
    BY <1>1, <1>3, BecomesStep
  <1> QED BY <1>1, <1>3, <1>7, <1>8, CallQueue DEF Idle

\* enet_peer_send.
LEMMA EnetPeerSendQueue ==
  ASSUME ConnectionInv, QueueInv, NEW h \in Hosts, NEW p \in Slots, EnetPeerSend(h, p)
  PROVE  QueueInv'
  <1> DEFINE H == host[h]
             q == H.peer[p]
             c == [Command("SEND_RELIABLE", TRUE) EXCEPT !.channel = "data", !.seq = q.sent + 1]
             G == [H EXCEPT !.peer[p] = [@ EXCEPT !.sent = q.sent + 1,
                                                  !.outgoingCommands = q.outgoingCommands \union {c}]]
  <1>1. QueueOK(H) /\ DOMAIN host = Hosts
    BY ConnectionFacts DEF QueueInv
  <1>2. service' = Idle /\ host' = [host EXCEPT ![h] = G]
    BY <1>1 DEF EnetPeerSend, Calling
  <1> HIDE DEF c
  <1>3. Shape(H) /\ DOMAIN q = PeerFields
    BY <1>1, QueueFacts
  <1>4. Writes(H, G, p)
    BY <1>3 DEF Writes, Shape, HostFields, Others, PeerFields
  <1> HIDE DEF G
  <1>5. QueueOK(G)
    BY <1>1, <1>4, WritesStep DEF Keeps
  <1>6. Becomes(h, G)
    BY <1>1, <1>2, BecomesStep
  <1> QED BY <1>1, <1>2, <1>5, <1>6, CallQueue DEF Idle

\* A call that begins to disconnect a peer, or changes no host.
LEMMA DisconnectCallQueue ==
  ASSUME ConnectionInv, QueueInv, NEW h \in Hosts, NEW p \in Slots, NEW data,
         \/ host' = host
         \/ host' = [host EXCEPT ![h] = BeginDisconnect(@, p, data)],
         service'.phase \in {"app", "flush"}
  PROVE  QueueInv'
  <1> DEFINE H == host[h]
             G == BeginDisconnect(H, p, data)
  <1>1. QueueOK(H) /\ DOMAIN host = Hosts
    BY ConnectionFacts DEF QueueInv
  <1>2. QueueOK(G)
    BY <1>1, BeginDisconnectQueue DEF Keeps
  <1>3. CASE host' = host
    <2>1. Becomes(h, H)
      BY <1>1, <1>3, BecomesSame
    <2> QED BY <1>1, <2>1, CallQueue
  <1>4. CASE host' = [host EXCEPT ![h] = BeginDisconnect(@, p, data)]
    <2>1. host' = [host EXCEPT ![h] = G]
      BY <1>1, <1>4
    <2> HIDE DEF G
    <2>2. Becomes(h, G)
      BY <1>1, <2>1, BecomesStep
    <2> QED BY <1>1, <1>2, <2>2, CallQueue
  <1> QED BY <1>3, <1>4

\* enet_peer_disconnect.
LEMMA EnetPeerDisconnectQueue ==
  ASSUME ConnectionInv, QueueInv, NEW h \in Hosts, NEW p \in Slots, EnetPeerDisconnect(h, p)
  PROVE  QueueInv'
  <1>1. host' = host \/ host' = [host EXCEPT ![h] = BeginDisconnect(@, p, 0)]
    BY DEF EnetPeerDisconnect
  <1>2. service'.phase = "app"
    BY DEF EnetPeerDisconnect, Calling, Idle
  <1> QED BY <1>1, <1>2, DisconnectCallQueue

\* enet_peer_disconnect of an attempt.
LEMMA EnetPeerDisconnectAttemptQueue ==
  ASSUME ConnectionInv, QueueInv, NEW h \in Hosts, NEW p \in Slots,
         EnetPeerDisconnectAttempt(h, p)
  PROVE  QueueInv'
  <1>1. host' = host \/ host' = [host EXCEPT ![h] = BeginDisconnect(@, p, 0)]
    BY DEF EnetPeerDisconnectAttempt
  <1>2. service'.phase \in {"app", "flush"}
    <2>1. service' = Idle \/ service' = Flushing(h, p)
      BY DEF EnetPeerDisconnectAttempt
    <2>2. Idle.phase = "app" /\ Flushing(h, p).phase = "flush"
      BY DEF Idle, Flushing
    <2> QED BY <2>1, <2>2
  <1>3. CASE host' = host
    BY <1>2, <1>3, DisconnectCallQueue
  <1>4. CASE host' = [host EXCEPT ![h] = BeginDisconnect(@, p, 0)]
    BY <1>2, <1>4, DisconnectCallQueue
  <1> QED BY <1>1, <1>3, <1>4

\* enet_peer_disconnect_later: a peer that waits for its commands keeps its flag.
LEMMA EnetPeerDisconnectLaterQueue ==
  ASSUME ConnectionInv, QueueInv, NEW h \in Hosts, NEW p \in Slots,
         EnetPeerDisconnectLater(h, p)
  PROVE  QueueInv'
  <1> DEFINE H == host[h]
             q == H.peer[p]
             G == [H EXCEPT !.peer[p] = [@ EXCEPT !.state = "DISCONNECT_LATER", !.eventData = q.sent]]
  <1>1. QueueOK(H) /\ DOMAIN host = Hosts /\ service'.phase = "app"
    BY ConnectionFacts DEF QueueInv, EnetPeerDisconnectLater, Calling, Idle
  <1>2. CASE q.state \in Established /\ HasOutgoing(H, p)
    <2>1. host' = [host EXCEPT ![h] = G]
      BY <1>1, <1>2 DEF EnetPeerDisconnectLater
    <2>2. Shape(H) /\ DOMAIN q = PeerFields
      BY <1>1, QueueFacts
    <2>3. Writes(H, G, p)
      BY <2>2 DEF Writes, Shape, HostFields, Others, PeerFields, Waiting
    <2> HIDE DEF G
    <2>4. QueueOK(G)
      BY <1>1, <2>3, WritesStep DEF Keeps
    <2>5. Becomes(h, G)
      BY <1>1, <2>1, BecomesStep
    <2> QED BY <1>1, <2>4, <2>5, CallQueue
  <1>3. CASE q.state \in Established /\ ~HasOutgoing(H, p)
    <2>1. host' = [host EXCEPT ![h] = BeginDisconnect(@, p, q.sent)]
      BY <1>3 DEF EnetPeerDisconnectLater
    <2> QED BY <1>1, <2>1, DisconnectCallQueue
  <1>4. CASE q.state \notin Established
    <2>1. host' = host
      BY <1>4 DEF EnetPeerDisconnectLater
    <2> QED BY <1>1, <2>1, DisconnectCallQueue
  <1> QED BY <1>2, <1>3, <1>4

\* A call that resets a peer.
LEMMA ResetCallQueue ==
  ASSUME ConnectionInv, QueueInv, NEW h \in Hosts, NEW p \in Slots,
         host' = [host EXCEPT ![h] = PeerReset(@, p)], service' = Idle
  PROVE  QueueInv'
  <1> DEFINE H == host[h]
             G == PeerReset(H, p)
  <1>1. QueueOK(H) /\ DOMAIN host = Hosts
    BY ConnectionFacts DEF QueueInv
  <1>2. QueueOK(G) /\ host' = [host EXCEPT ![h] = G]
    BY <1>1, PeerResetQueue
  <1> HIDE DEF G
  <1>3. Becomes(h, G)
    BY <1>1, <1>2, BecomesStep
  <1> QED BY <1>1, <1>2, <1>3, CallQueue DEF Idle

\* enet_peer_reset.
LEMMA EnetPeerResetQueue ==
  ASSUME ConnectionInv, QueueInv, NEW h \in Hosts, NEW p \in Slots, EnetPeerReset(h, p)
  PROVE  QueueInv'
  <1>1. host' = [host EXCEPT ![h] = PeerReset(@, p)] /\ service' = Idle
    BY DEF EnetPeerReset, Calling
  <1> QED BY <1>1, ResetCallQueue

\* enet_peer_disconnect_now.
LEMMA EnetPeerDisconnectNowQueue ==
  ASSUME ConnectionInv, QueueInv, NEW h \in Hosts, NEW p \in Slots, EnetPeerDisconnectNow(h, p)
  PROVE  QueueInv'
  <1> DEFINE H == host[h]
             c == Command("DISCONNECT", FALSE)
             E == ResetQueues(H, p)
             G == QueueOutgoing(E, p, c)
  <1>1. CASE State(H, p) \in {"ZOMBIE", "DISCONNECTING"}
    <2>1. host' = [host EXCEPT ![h] = PeerReset(@, p)] /\ service' = Idle
      BY <1>1 DEF EnetPeerDisconnectNow
    <2> QED BY <2>1, ResetCallQueue
  <1>2. CASE State(H, p) \notin {"ZOMBIE", "DISCONNECTING"}
    <2>1. host' = [host EXCEPT ![h] = G] /\ service'.phase = "flush"
      BY <1>2 DEF EnetPeerDisconnectNow, Flushing, Idle
    <2>2. QueueOK(H) /\ DOMAIN host = Hosts
      BY ConnectionFacts DEF QueueInv
    <2>3. QueueOK(E)
      BY <2>2, ResetQueuesQueue DEF Keeps
    <2> HIDE DEF E, c
    <2>4. QueueOK(G)
      BY <2>3, QueueOutgoingQueue DEF Keeps
    <2> HIDE DEF G
    <2>5. Becomes(h, G)
      BY <2>1, <2>2, BecomesStep
    <2> QED BY <2>1, <2>2, <2>4, <2>5, CallQueue
  <1> QED BY <1>1, <1>2

\* enet_host_bandwidth_limit.
LEMMA EnetHostBandwidthLimitQueue ==
  ASSUME ConnectionInv, QueueInv, NEW h \in Hosts, EnetHostBandwidthLimit(h)
  PROVE  QueueInv'
  <1> DEFINE H == host[h]
             G == [H EXCEPT !.incomingBandwidth = ~@, !.recalculateBandwidthLimits = TRUE]
  <1>1. QueueOK(H) /\ DOMAIN host = Hosts
    BY ConnectionFacts DEF QueueInv
  <1>2. host' = [host EXCEPT ![h] = G] /\ service' = Idle
    BY <1>1 DEF EnetHostBandwidthLimit
  <1>3. Shape(G) /\ G.peer = H.peer /\ G.dispatchQueue = H.dispatchQueue
    BY <1>1 DEF QueueOK, Shape, HostFields
  <1> HIDE DEF G
  <1>4. \A r \in Slots : Queued(G, r) <=> Queued(H, r)
    BY <1>3 DEF Queued
  <1>5. ASSUME NEW r \in Slots PROVE PeerWaits(G.peer[r], Queued(G, r))
    BY <1>1, <1>3, <1>4, QueueFacts DEF PeerWaits
  <1>6. QueueOK(G)
    BY <1>1, <1>3, <1>5 DEF QueueOK
  <1>7. Becomes(h, G)
    BY <1>1, <1>2, BecomesStep
  <1> QED BY <1>1, <1>2, <1>6, <1>7, CallQueue DEF Idle

\* A host that is new has nobody in its queue.
LEMMA NewHostQueue ==
  ASSUME NEW b \in BOOLEAN
  PROVE  QueueOK(NewHost(b))
  <1> DEFINE G == NewHost(b)
  <1>1. Shape(G) /\ G.peer = [p \in Slots |-> NewPeer] /\ G.dispatchQueue = <<>>
    BY DEF NewHost, Shape, HostFields
  <1>2. DOMAIN NewPeer = PeerFields /\ NewPeer.needsDispatch = FALSE /\ NewPeer.state = "DISCONNECTED"
    BY DEF NewPeer, PeerFields
  <1> HIDE DEF G
  <1>3. ASSUME NEW r \in Slots PROVE PeerWaits(G.peer[r], Queued(G, r))
    BY <1>1, <1>2 DEF PeerWaits
  <1>4. Distinct(G.dispatchQueue)
    BY <1>1 DEF Distinct
  <1> QED BY <1>1, <1>3, <1>4 DEF QueueOK, G

\* A host that goes and comes back.
LEMMA EnetHostCreateQueue ==
  ASSUME ConnectionInv, QueueInv, NEW h \in Hosts, EnetHostCreate(h)
  PROVE  QueueInv'
  <1> DEFINE b == h \in LimitedHosts
             G == NewHost(b)
  <1>1. host' = [host EXCEPT ![h] = G] /\ service' = Idle
    BY DEF EnetHostCreate
  <1>2. b \in BOOLEAN
    OBVIOUS
  <1> HIDE DEF b
  <1>3. QueueOK(G) /\ DOMAIN host = Hosts
    BY <1>2, NewHostQueue, ConnectionFacts
  <1> HIDE DEF G
  <1>4. Becomes(h, G)
    BY <1>1, <1>3, BecomesStep
  <1> QED BY <1>1, <1>3, <1>4, CallQueue DEF Idle

-----------------------------------------------------------------------------
(* The calls that look at the queue, when every one of them takes an event. *)

\* enet_host_service begins with the dispatch queue.
LEMMA EnetHostServiceQueue ==
  ASSUME EventModes \subseteq {TRUE}, ConnectionInv, QueueInv, NEW h \in Hosts, NEW events,
         EnetHostService(h, events)
  PROVE  QueueInv'
  <1> DEFINE H == host[h]
             next == [Idle EXCEPT !.host = h, !.events = events,
                                  !.phase = IF events THEN "dispatch" ELSE "throttle"]
  <1>1. events = TRUE /\ service' = Proceed(H, next) /\ host' = host
    BY DEF EnetHostService
  <1>2. CallOK(next, h) /\ next.events = TRUE /\ next.phase = "dispatch"
    BY <1>1 DEF CallOK, Idle, ServiceFields, Phases
  <1> HIDE DEF next
  <1>3. Takes(next, H) /\ DOMAIN next = ServiceFields
    BY <1>2 DEF Takes, Passing, CallOK
  <1>4. Takes(service', H)
    BY <1>1, <1>3, ProceedQueue
  <1>5. service' = Idle \/ CallOK(service', h)
    BY <1>1, <1>2, ProceedStep
  <1>6. Takes(service', host'[service'.host])
    <2>1. CASE service' = Idle
      BY <2>1 DEF Takes, Idle, Passing
    <2>2. CASE CallOK(service', h)
      <3>1. service'.host = h
        BY <2>2 DEF CallOK
      <3> QED BY <1>1, <1>4, <3>1
    <2> QED BY <1>5, <2>1, <2>2
  <1> QED BY <1>1, <1>6 DEF QueueInv

\* enet_host_check_events begins.
LEMMA EnetHostCheckEventsQueue ==
  ASSUME ConnectionInv, QueueInv, NEW h \in Hosts, EnetHostCheckEvents(h)
  PROVE  QueueInv'
  <1>1. host' = host /\ service'.phase = "check" /\ service'.events = TRUE
    BY DEF EnetHostCheckEvents, Idle
  <1>2. Takes(service', host'[service'.host])
    BY <1>1 DEF Takes, Passing
  <1> QED BY <1>1, <1>2 DEF QueueInv

\* enet_protocol_dispatch_incoming_commands.
LEMMA DispatchQueue ==
  ASSUME ConnectionInv, QueueInv, Dispatch
  PROVE  QueueInv'
  <1> DEFINE h == service.host
             H == host[h]
             r == DispatchHead(H)
  <1>1. service.phase \in Dispatching /\ Return(r, service)
    BY DEF Dispatch, Dispatching
  <1>2. service # Idle
    BY <1>1 DEF Idle, Dispatching
  <1>3. h \in Hosts /\ CallOK(service, h) /\ H.dispatchQueue # <<>>
    BY <1>1, <1>2, ConnectionFacts
  <1>4. QueueOK(r.host)
    BY <1>3, DispatchHeadQueue DEF QueueInv
  <1>5. Takes(service, r.host)
    BY <1>1 DEF QueueInv, Takes, Passing, Dispatching
  <1> HIDE DEF r
  <1> QED BY <1>1, <1>2, <1>3, <1>4, <1>5, ReturnQueue

\* enet_host_bandwidth_throttle.
LEMMA ThrottleQueue ==
  ASSUME ConnectionInv, QueueInv, Throttle
  PROVE  QueueInv'
  <1> DEFINE h == service.host
             H == host[h]
             todo == Busy(host'[h])
             next == [service EXCEPT !.phase = "send", !.todo = todo]
  <1>1. service.phase = "throttle" /\ service' = PassSend(next)
    BY DEF Throttle
  <1>2. PICK limited :
          host' = host \/ host' = [host EXCEPT ![h] = BandwidthThrottle(@, limited)]
    BY DEF Throttle
  <1>3. service # Idle
    BY <1>1 DEF Idle
  <1>4. h \in Hosts /\ CallOK(service, h) /\ DOMAIN host = Hosts
    BY <1>3, ConnectionFacts
  <1>5. QueueOK(H) /\ AllFlagged(H) /\ service.events = TRUE
    BY <1>1, <1>4 DEF QueueInv, Takes, Passing
  <1> HIDE DEF todo
  <1>6. CallOK(service, h) /\ next.host = h /\ next.phase = "send" /\ next.events = TRUE
        /\ DOMAIN next = ServiceFields
    BY <1>4, <1>5 DEF CallOK, ServiceFields
  <1> HIDE DEF next
  <1>7. service' = next \/ service' = [next EXCEPT !.phase = "receive"]
    BY <1>1, <1>6 DEF PassSend
  <1>8. service'.host = h /\ service'.phase \in Passing /\ service'.events = TRUE
    BY <1>6, <1>7 DEF ServiceFields, Passing
  <1> DEFINE B == BandwidthThrottle(H, limited)
  <1>9. Keeps(H, B)
    BY <1>5, BandwidthThrottleQueue
  <1>10. host' = host \/ host' = [host EXCEPT ![h] = B]
    BY <1>2, <1>4
  <1> HIDE DEF B
  <1>11. \A g \in Hosts : QueueOK(host'[g])
    BY <1>4, <1>9, <1>10 DEF QueueInv, Keeps
  <1>12. AllFlagged(host'[h])
    BY <1>4, <1>5, <1>9, <1>10 DEF Keeps
  <1> HIDE DEF h
  <1> QED BY <1>8, <1>11, <1>12 DEF QueueInv, Takes

\* The turn of a peer in enet_protocol_send_outgoing_commands.
LEMMA SendTurnQueue ==
  ASSUME ConnectionInv, QueueInv, NEW late, NEW ping, SendTurn(late, ping)
  PROVE  QueueInv'
  <1> DEFINE h == service.host
             H == host[h]
             p == Turn
             G == SendOutgoing(H, p, late, ping).host
             r == Quiet(G)
  <1>1. service.phase \in {"send", "send_again", "flush"} /\ service.todo # {}
        /\ Return(r, TurnDone)
    BY DEF SendTurn, Sending
  <1>2. service # Idle
    BY <1>1 DEF Idle
  <1>3. h \in Hosts /\ p \in Slots /\ CallOK(service, h) /\ CallOK(TurnDone, h)
    BY <1>1, <1>2, ConnectionFacts
  <1>4. TurnDone.phase = service.phase /\ TurnDone.events = service.events
    BY <1>3 DEF TurnDone, CallOK, ServiceFields
  <1>5. (\E a \in H.peer[p].acknowledgements : a.type = "DISCONNECT") =>
          H.peer[p].state = "ACKNOWLEDGING_DISCONNECT"
    BY <1>3, ConnectionFacts
  <1>6. QueueOK(H)
    BY <1>3 DEF QueueInv
  <1> HIDE DEF p
  <1>7. Keeps(H, G)
    BY <1>3, <1>5, <1>6, SendOutgoingQueue
  <1> HIDE DEF G
  <1>8. r.host = G
    BY DEF Quiet
  <1>9. Takes(TurnDone, G)
    BY <1>4, <1>7 DEF QueueInv, Takes, Keeps
  <1>10. QueueOK(r.host) /\ (r.event = NoEvent => Takes(TurnDone, r.host))
    BY <1>7, <1>8, <1>9 DEF Keeps
  <1> HIDE DEF r
  <1> QED BY <1>1, <1>2, <1>3, <1>10, ReturnQueue

\* enet_protocol_check_timeouts gives a peer up.
LEMMA GiveUpQueue ==
  ASSUME ConnectionInv, QueueInv, GiveUp
  PROVE  QueueInv'
  <1> DEFINE h == service.host
             H == host[h]
             p == Turn
             A == SendAcknowledgements(H, p)
             r == NotifyDisconnect(A, p, service.events)
  <1>1. service.phase \in {"send", "send_again"} /\ service.todo # {} /\ Return(r, TurnDone)
    BY DEF GiveUp
  <1>2. service # Idle
    BY <1>1 DEF Idle
  <1>3. h \in Hosts /\ p \in Slots /\ CallOK(service, h) /\ CallOK(TurnDone, h)
    BY <1>1, <1>2, ConnectionFacts
  <1>4. TurnDone.phase = service.phase /\ TurnDone.events = service.events
    BY <1>3 DEF TurnDone, CallOK, ServiceFields
  <1>5. (\E a \in H.peer[p].acknowledgements : a.type = "DISCONNECT") =>
          H.peer[p].state = "ACKNOWLEDGING_DISCONNECT"
    BY <1>3, ConnectionFacts
  <1>6. QueueOK(H) /\ AllFlagged(H) /\ service.events = TRUE
    BY <1>1, <1>3 DEF QueueInv, Takes, Passing
  <1> HIDE DEF p
  <1>7. Keeps(H, A)
    BY <1>3, <1>5, <1>6, SendAcknowledgementsQueue
  <1> HIDE DEF A
  <1>8. Leaves(A, r)
    BY <1>3, <1>6, <1>7, NotifyDisconnectQueue DEF Keeps
  <1> HIDE DEF r
  <1>9. Leaves(H, r)
    BY <1>7, <1>8, LeavesAfter
  <1>10. QueueOK(r.host) /\ (r.event = NoEvent => Takes(TurnDone, r.host))
    BY <1>4, <1>6, <1>9 DEF Leaves, Takes
  <1> QED BY <1>1, <1>2, <1>3, <1>10, ReturnQueue

\* A flush is over.
LEMMA FlushDoneQueue ==
  ASSUME ConnectionInv, QueueInv, FlushDone
  PROVE  QueueInv'
  <1> DEFINE h == service.host
             p == service.after
  <1>1. service.phase = "flush" /\ service' = Idle /\ host' = [host EXCEPT ![h] = PeerReset(@, p)]
    BY DEF FlushDone
  <1>2. service # Idle
    BY <1>1 DEF Idle
  <1>3. h \in Hosts /\ p \in Slots
    BY <1>1, <1>2, ConnectionFacts DEF CallOK
  <1> HIDE DEF h, p
  <1> QED BY <1>1, <1>3, ResetCallQueue

\* enet_protocol_receive_incoming_commands takes a datagram from the network.
LEMMA ReceiveQueue ==
  ASSUME ConnectionInv, QueueInv, NEW m \in net, Receive(m)
  PROVE  QueueInv'
  <1> DEFINE h == service.host
             H == host[h]
             r == HandleIncoming(H, m, service.events)
  <1>1. service.phase = "receive" /\ Accepts(H, m) /\ Return(r, service)
    BY DEF Receive
  <1>2. service # Idle
    BY <1>1 DEF Idle
  <1>3. h \in Hosts /\ CallOK(service, h) /\ m.peerID \in Slots \union {None}
    BY <1>2, ConnectionFacts
  <1>4. QueueOK(H) /\ AllFlagged(H) /\ service.events = TRUE
    BY <1>1, <1>3 DEF QueueInv, Takes, Passing
  <1>5. Leaves(H, r)
    BY <1>1, <1>3, <1>4, HandleIncomingQueue
  <1> HIDE DEF r
  <1>6. QueueOK(r.host) /\ (r.event = NoEvent => Takes(service, r.host))
    BY <1>4, <1>5 DEF Leaves, Takes
  <1> QED BY <1>1, <1>2, <1>3, <1>6, ReturnQueue

\* Nothing more is received in this call.
LEMMA ReceiveDoneQueue ==
  ASSUME ConnectionInv, QueueInv, ReceiveDone
  PROVE  QueueInv'
  <1> DEFINE h == service.host
             H == host[h]
             todo == Busy(H)
             next == [service EXCEPT !.phase = "send_again", !.todo = todo]
             r == Quiet(H)
  <1>1. service.phase = "receive" /\ Return(r, next)
    BY DEF ReceiveDone
  <1>2. service # Idle
    BY <1>1 DEF Idle
  <1>3. h \in Hosts /\ CallOK(service, h)
    BY <1>2, ConnectionFacts
  <1>4. QueueOK(H) /\ AllFlagged(H) /\ service.events = TRUE
    BY <1>1, <1>3 DEF QueueInv, Takes, Passing
  <1>5. todo \subseteq Slots
    BY DEF Busy, Active
  <1> HIDE DEF todo
  <1>6. CallOK(next, h) /\ next.events = TRUE
    BY <1>1, <1>3, <1>4, <1>5 DEF CallOK, ServiceFields, Phases
  <1> HIDE DEF next
  <1>7. r.host = H
    BY DEF Quiet
  <1>8. QueueOK(r.host) /\ (r.event = NoEvent => Takes(next, r.host))
    BY <1>4, <1>6, <1>7 DEF Takes
  <1> HIDE DEF r
  <1> QED BY <1>1, <1>2, <1>6, <1>8, ReturnQueue

\* Every step keeps the queues.
LEMMA NextQueue ==
  ASSUME EventModes \subseteq {TRUE}, ConnectionInv, QueueInv, [Next]_vars
  PROVE  QueueInv'
  <1>1. ASSUME NEW h \in Hosts, NEW a \in Hosts, EnetHostConnect(h, a) PROVE QueueInv'
    BY <1>1, EnetHostConnectQueue
  <1>2. ASSUME CallStarts PROVE QueueInv'
    <2>1. ASSUME NEW h \in Hosts, NEW p \in Slots, EnetPeerSend(h, p) PROVE QueueInv'
      BY <2>1, EnetPeerSendQueue
    <2>2. ASSUME NEW h \in Hosts, NEW p \in Slots, EnetPeerDisconnect(h, p) PROVE QueueInv'
      BY <2>2, EnetPeerDisconnectQueue
    <2>3. ASSUME NEW h \in Hosts, NEW p \in Slots, EnetPeerDisconnectAttempt(h, p)
          PROVE  QueueInv'
      BY <2>3, EnetPeerDisconnectAttemptQueue
    <2>4. ASSUME NEW h \in Hosts, NEW p \in Slots, EnetPeerDisconnectLater(h, p)
          PROVE  QueueInv'
      BY <2>4, EnetPeerDisconnectLaterQueue
    <2>5. ASSUME NEW h \in Hosts, NEW p \in Slots, EnetPeerDisconnectNow(h, p)
          PROVE  QueueInv'
      BY <2>5, EnetPeerDisconnectNowQueue
    <2>6. ASSUME NEW h \in Hosts, NEW p \in Slots, EnetPeerReset(h, p) PROVE QueueInv'
      BY <2>6, EnetPeerResetQueue
    <2>7. ASSUME NEW h \in Hosts, EnetHostBandwidthLimit(h) PROVE QueueInv'
      BY <2>7, EnetHostBandwidthLimitQueue
    <2>8. ASSUME NEW h \in Hosts, EnetHostCreate(h) PROVE QueueInv'
      BY <2>8, EnetHostCreateQueue
    <2>9. ASSUME NEW h \in Hosts, EnetHostCheckEvents(h) PROVE QueueInv'
      BY <2>9, EnetHostCheckEventsQueue
    <2>10. ASSUME NEW h \in Hosts, NEW events, EnetHostService(h, events) PROVE QueueInv'
      BY <2>10, EnetHostServiceQueue
    <2> QED
      BY <1>2, <2>1, <2>2, <2>3, <2>4, <2>5, <2>6, <2>7, <2>8, <2>9, <2>10 DEF CallStarts
  <1>3. ASSUME CallGoesOn PROVE QueueInv'
    <2>1. CASE Dispatch
      BY <2>1, DispatchQueue
    <2>2. CASE Throttle
      BY <2>2, ThrottleQueue
    <2>3. ASSUME NEW ping, NEW late, SendTurn(late, ping) PROVE QueueInv'
      BY <2>3, SendTurnQueue
    <2>4. CASE GiveUp
      BY <2>4, GiveUpQueue
    <2>5. CASE FlushDone
      BY <2>5, FlushDoneQueue
    <2>6. ASSUME NEW m \in net, Receive(m) PROVE QueueInv'
      BY <2>6, ReceiveQueue
    <2>7. CASE ReceiveDone
      BY <2>7, ReceiveDoneQueue
    <2> QED BY <1>3, <2>1, <2>2, <2>3, <2>4, <2>5, <2>6, <2>7 DEF CallGoesOn
  <1>4. CASE UNCHANGED vars
    BY <1>4 DEF vars, QueueInv
  <1>5. CASE Next
    BY <1>1, <1>2, <1>3, <1>5, NextCases
  <1> QED BY <1>4, <1>5

\* The queues of new hosts.
LEMMA InitQueue ==
  ASSUME Init
  PROVE  QueueInv
  <1>1. ASSUME NEW h \in Hosts PROVE QueueOK(host[h])
    <2> DEFINE b == h \in LimitedHosts
    <2>1. b \in BOOLEAN /\ host[h] = NewHost(b)
      BY DEF Init
    <2> HIDE DEF b
    <2> QED BY <2>1, NewHostQueue
  <1>2. Takes(service, host[service.host])
    BY DEF Init, Idle, Takes, Passing
  <1> QED BY <1>1, <1>2 DEF QueueInv

\* When every call takes an event, no peer is in the dispatch queue twice: the loop
\* of enet_protocol_dispatch_incoming_commands ends.
THEOREM PeersQueuedOnce ==
  ASSUME EventModes \subseteq {TRUE}
  PROVE  Spec => []QueuedOnce
  <1>1. Init => QueueInv
    BY InitQueue
  <1>2. ConnectionInv /\ QueueInv /\ [Next]_vars => QueueInv'
    BY NextQueue
  <1>3. QueueInv => QueuedOnce
    BY DEF QueueInv, QueueOK, Distinct, QueuedOnce
  <1> QED BY <1>1, <1>2, <1>3, ConnectionInvariant, PTL DEF Spec
=============================================================================
