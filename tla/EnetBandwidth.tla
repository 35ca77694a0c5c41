--------------------------- MODULE EnetBandwidth ----------------------------
(***************************************************************************)
(* The bandwidth throttle of a host (enet_host_bandwidth_throttle) and the *)
(* packet throttle of its peers (enet_peer_throttle).  Once an interval    *)
(* the host divides its outgoing bandwidth, and what its peers can take,   *)
(* among its peers; between two such rounds the round trip times move the  *)
(* throttle of each peer below the limit it was given.  The numbers are    *)
(* unsigned and wrap at Word, as those of the code do at 2^32.             *)
(***************************************************************************)
EXTENDS Integers, FiniteSets

CONSTANTS
  PeerCount,         \* the connected peers are 1 .. PeerCount, in the order of host->peers
  IncomingOf,        \* [Peers]: peer->incomingBandwidth, what the peer can take; 0 is no limit
  OutgoingOf,        \* [Peers]: peer->outgoingBandwidth, what it may send; 0 is no limit
  HostBandwidths,    \* the bandwidths the application sets
  Loads,             \* the bytes queued for a peer in an interval
  Interval,          \* ENET_HOST_BANDWIDTH_THROTTLE_INTERVAL, and the ticks of a second
  Pauses,            \* bound: the ticks that may pass between two rounds
  Scale,             \* ENET_PEER_PACKET_THROTTLE_SCALE
  Acceleration,
  Deceleration,
  Word               \* 2^32

Peers == 1..PeerCount

ASSUME BandwidthAssumption ==
  /\ Word \in Nat \ {0}
  /\ PeerCount \in Nat \ {0}
  /\ IncomingOf \in [Peers -> 0..(Word - 1)]
  /\ OutgoingOf \in [Peers -> 0..(Word - 1)]
  /\ HostBandwidths \subseteq 0..(Word - 1)
  /\ Loads \subseteq 0..(Word - 1)
  /\ Interval \in Nat \ {0}
  /\ Pauses \subseteq Nat
  /\ Scale \in Nat \ {0}
  /\ Acceleration \in Nat /\ Deceleration \in Nat

VARIABLES
  incomingBandwidth,   \* of the host; 0 is no limit
  outgoingBandwidth,
  recalculateBandwidthLimits,
  elapsed,             \* ticks since bandwidthThrottleEpoch
  outgoingDataTotal,   \* [Peers]: bytes queued since the last round
  packetThrottleLimit,
  packetThrottle,
  announced            \* [Peers]: the incoming bandwidth the peer was told it may use

vars == <<incomingBandwidth, outgoingBandwidth, recalculateBandwidthLimits, elapsed,
          outgoingDataTotal, packetThrottleLimit, packetThrottle, announced>>

hostVars == <<incomingBandwidth, outgoingBandwidth, recalculateBandwidthLimits>>

Init ==
  /\ incomingBandwidth \in HostBandwidths
  /\ outgoingBandwidth \in HostBandwidths
  /\ recalculateBandwidthLimits = FALSE
  /\ elapsed = 0
  /\ outgoingDataTotal = [p \in Peers |-> 0]
  /\ packetThrottleLimit = [p \in Peers |-> Scale]
  /\ packetThrottle = [p \in Peers |-> Scale]
  /\ announced = [p \in Peers |-> incomingBandwidth]

-----------------------------------------------------------------------------
(* Arithmetic of enet_uint32.                                              *)

Times(a, b) == (a * b) % Word
Less(a, b) == (a - b + Word) % Word

Smaller(a, b) == IF a < b THEN a ELSE b

\* The sum of f[p] for the first peers, and for all.
Sums(f) ==
  LET sum[n \in 0..PeerCount] == IF n = 0 THEN 0 ELSE sum[n - 1] + f[n]
  IN  sum

Sum(f) == Sums(f)[PeerCount]

\* The bytes a bandwidth lets through in the time that passed.
Allowance(bandwidth) == Times(bandwidth, elapsed) \div Interval

-----------------------------------------------------------------------------
(* The round that divides the outgoing bandwidth.                          *)

\* What is left to divide, who got a share of his own, and which limit that makes.
FirstRound ==
  [bandwidth |-> IF outgoingBandwidth = 0 THEN Word - 1 ELSE Allowance(outgoingBandwidth),
   dataTotal |-> IF outgoingBandwidth = 0 THEN Word - 1 ELSE Sum(outgoingDataTotal) % Word,
   own |-> {},
   limit |-> packetThrottleLimit,
   needsAdjustment |-> \E p \in Peers : IncomingOf[p] # 0]

\* The throttle that fits the data that is left to the bandwidth that is left.
ThrottleOf(round) ==
  IF round.dataTotal <= round.bandwidth THEN Scale
  ELSE Times(round.bandwidth, Scale) \div round.dataTotal

Remaining(round) == PeerCount - Cardinality(round.own)

\* Mutant: a peer that gets its own share leaves the whole bandwidth to the others.
AdjustKeepsBandwidth(round, throttle, p) ==
  LET share == Allowance(IncomingOf[p])
      limit == Times(share, Scale) \div outgoingDataTotal[p]
  IN  IF \/ p \in round.own
         \/ IncomingOf[p] = 0
         \/ Times(throttle, outgoingDataTotal[p]) \div Scale <= share
      THEN round
      ELSE [round EXCEPT !.own = @ \cup {p},
                         !.limit = [@ EXCEPT ![p] = IF limit = 0 THEN 1 ELSE limit],
                         !.needsAdjustment = TRUE,
                         !.dataTotal = Less(@, share)]

\* Mutant: a peer that gets its own share still counts with its data among the others.
AdjustKeepsData(round, throttle, p) ==
  LET share == Allowance(IncomingOf[p])
      limit == Times(share, Scale) \div outgoingDataTotal[p]
  IN  IF \/ p \in round.own
         \/ IncomingOf[p] = 0
         \/ Times(throttle, outgoingDataTotal[p]) \div Scale <= share
      THEN round
      ELSE [round EXCEPT !.own = @ \cup {p},
                         !.limit = [@ EXCEPT ![p] = IF limit = 0 THEN 1 ELSE limit],
                         !.needsAdjustment = TRUE,
                         !.bandwidth = Less(@, share)]

\* A peer that would get more than it can take gets what it can take, at least 1
\* of Scale, and no part of the rest.
Adjust(round, throttle, p) ==
  LET share == Allowance(IncomingOf[p])
      limit == Times(share, Scale) \div outgoingDataTotal[p]
  IN  IF \/ p \in round.own
         \/ IncomingOf[p] = 0
         \/ Times(throttle, outgoingDataTotal[p]) \div Scale <= share
      THEN round
      ELSE [round EXCEPT !.own = @ \cup {p},
                         !.limit = [@ EXCEPT ![p] = IF limit = 0 THEN 1 ELSE limit],
                         !.needsAdjustment = TRUE,
                         !.bandwidth = Less(@, share),
                         !.dataTotal = Less(@, share)]

\* One pass of the loop after each of the peers, with one throttle for all of them.
Pass(round) ==
  LET throttle == ThrottleOf(round)
      after[p \in 0..PeerCount] ==
        IF p = 0 THEN [round EXCEPT !.needsAdjustment = FALSE]
        ELSE Adjust(after[p - 1], throttle, p)
  IN  after

\* The loop: passes until one adjusts nobody, or nobody remains.
NextRound(round) ==
  IF round.needsAdjustment /\ Remaining(round) > 0 THEN Pass(round)[PeerCount] ELSE round

Rounds ==
  LET after[n \in 0..PeerCount] == IF n = 0 THEN FirstRound ELSE NextRound(after[n - 1])
  IN  after

LastRound == Rounds[PeerCount]

\* The limits: the peers that were not adjusted share one throttle.
LimitsOf(round) ==
  [p \in Peers |-> IF p \in round.own THEN round.limit[p] ELSE ThrottleOf(round)]

-----------------------------------------------------------------------------
(* The division of the incoming bandwidth.                                 *)

\* What is left to divide, who was told a bandwidth of his own, and bandwidthLimit.
FirstDivision ==
  [own |-> {}, needsAdjustment |-> TRUE, bandwidth |-> incomingBandwidth, part |-> 0]

\* Mutant: what such a peer is told is not taken from the rest.
AnnounceKeepsBandwidth(division, p) ==
  IF p \in division.own \/ (OutgoingOf[p] > 0 /\ OutgoingOf[p] >= division.part)
  THEN division
  ELSE [division EXCEPT !.own = @ \cup {p}, !.needsAdjustment = TRUE]

\* A peer that sends less than its part is told its own bandwidth and leaves the rest.
Announce(division, p) ==
  IF p \in division.own \/ (OutgoingOf[p] > 0 /\ OutgoingOf[p] >= division.part)
  THEN division
  ELSE [division EXCEPT !.own = @ \cup {p},
                        !.needsAdjustment = TRUE,
                        !.bandwidth = Less(@, OutgoingOf[p])]

\* One pass of the loop after each of the peers, with one part for all of them.
AnnouncePass(division) ==
  LET after[p \in 0..PeerCount] ==
        IF p = 0
        THEN [division EXCEPT !.needsAdjustment = FALSE,
                              !.part = division.bandwidth \div Remaining(division)]
        ELSE Announce(after[p - 1], p)
  IN  after

NextDivision(division) ==
  IF division.needsAdjustment /\ Remaining(division) > 0
  THEN AnnouncePass(division)[PeerCount] ELSE division

Divisions ==
  LET after[n \in 0..PeerCount] == IF n = 0 THEN FirstDivision ELSE NextDivision(after[n - 1])
  IN  after

\* What each peer is told.
AnnouncedTo ==
  LET last == Divisions[PeerCount]
  IN  IF incomingBandwidth = 0 THEN [p \in Peers |-> 0]
      ELSE [p \in Peers |-> IF p \in last.own THEN OutgoingOf[p] ELSE last.part]

-----------------------------------------------------------------------------
\* enet_host_bandwidth_throttle, called when an interval has passed: the limits,
\* throttles above their limit lowered to it, the totals cleared, and the peers
\* told what they may send if the application changed the bandwidths.
EnetHostBandwidthThrottle ==
  LET limits == LimitsOf(LastRound)
  IN  /\ elapsed >= Interval
      /\ elapsed' = 0
      /\ packetThrottleLimit' = limits
      /\ packetThrottle' = [p \in Peers |-> Smaller(packetThrottle[p], limits[p])]
      /\ outgoingDataTotal' = [p \in Peers |-> 0]
      /\ announced' = IF recalculateBandwidthLimits THEN AnnouncedTo ELSE announced
      /\ recalculateBandwidthLimits' = FALSE
      /\ UNCHANGED <<incomingBandwidth, outgoingBandwidth>>

Time ==
  /\ elapsed = 0
  /\ elapsed' \in Pauses
  /\ UNCHANGED <<hostVars, outgoingDataTotal, packetThrottleLimit, packetThrottle, announced>>

\* Commands are queued for a peer: outgoingDataTotal in enet_peer_setup_outgoing_command.
Queue(p) ==
  /\ outgoingDataTotal[p] = 0
  /\ \E load \in Loads : outgoingDataTotal' = [outgoingDataTotal EXCEPT ![p] = load]
  /\ UNCHANGED <<hostVars, elapsed, packetThrottleLimit, packetThrottle, announced>>

\* enet_host_bandwidth_limit.
EnetHostBandwidthLimit ==
  /\ incomingBandwidth' \in HostBandwidths
  /\ outgoingBandwidth' \in HostBandwidths
  /\ recalculateBandwidthLimits' = TRUE
  /\ UNCHANGED <<elapsed, outgoingDataTotal, packetThrottleLimit, packetThrottle, announced>>

\* Mutant: the throttle recovers up to the scale, whatever the limit.
ThrottlesToScale(p) ==
  {packetThrottleLimit[p],
   Smaller(packetThrottle[p] + Acceleration, Scale),
   IF packetThrottle[p] > Deceleration THEN packetThrottle[p] - Deceleration ELSE 0}

\* enet_peer_throttle: a round trip time that is not steady, not above the last
\* one, or far above it.
Throttles(p) ==
  {packetThrottleLimit[p],
   Smaller(packetThrottle[p] + Acceleration, packetThrottleLimit[p]),
   IF packetThrottle[p] > Deceleration THEN packetThrottle[p] - Deceleration ELSE 0}

EnetPeerThrottle(p) ==
  /\ \E throttle \in Throttles(p) : packetThrottle' = [packetThrottle EXCEPT ![p] = throttle]
  /\ UNCHANGED <<hostVars, elapsed, outgoingDataTotal, packetThrottleLimit, announced>>

Next ==
  \/ EnetHostBandwidthThrottle
  \/ Time
  \/ EnetHostBandwidthLimit
  \/ \E p \in Peers : Queue(p) \/ EnetPeerThrottle(p)

Spec == Init /\ [][Next]_vars

-----------------------------------------------------------------------------
\* The variables have values of their kinds, and no throttle is above its limit.
\* (enet_peer_throttle and enet_host_bandwidth_throttle both write them.)
TypeOK ==
  /\ incomingBandwidth \in HostBandwidths
  /\ outgoingBandwidth \in HostBandwidths
  /\ recalculateBandwidthLimits \in BOOLEAN
  /\ elapsed \in Pauses \cup {0}
  /\ outgoingDataTotal \in [Peers -> Loads \cup {0}]
  /\ packetThrottleLimit \in [Peers -> 0..Scale]
  /\ \A p \in Peers : packetThrottle[p] \in 0..packetThrottleLimit[p]
  /\ announced \in [Peers -> 0..(Word - 1)]

Rounded == elapsed >= Interval /\ elapsed' = 0

\* What was queued in the interval is counted without the wrap of the numbers.
LoadsFit ==
  /\ Sum(outgoingDataTotal) < Word
  /\ \A p \in Peers : Scale * outgoingDataTotal[p] < Word

\* What bandwidths let through is, too.
BandwidthsFit ==
  /\ outgoingBandwidth * elapsed < Word
  /\ \A p \in Peers : IncomingOf[p] * elapsed < Word

\* What a peer would be sent if it were queued again what was queued for it, and
\* what a bandwidth lets through without the wrap of the numbers.
Expected(p) == (packetThrottleLimit'[p] * outgoingDataTotal[p]) \div Scale
Exact(bandwidth) == (bandwidth * elapsed) \div Interval
Minimal(p) == packetThrottleLimit'[p] = 1

WithinBandwidth ==
  Rounded /\ LoadsFit =>
    /\ outgoingBandwidth # 0 =>
         Sum([p \in Peers |-> IF Minimal(p) THEN 0 ELSE Expected(p)]) <= Exact(outgoingBandwidth)
    /\ \A p \in Peers : IncomingOf[p] # 0 /\ ~Minimal(p) => Expected(p) <= Exact(IncomingOf[p])

ForCause ==
  Rounded /\ LoadsFit /\ BandwidthsFit =>
    \A p \in Peers :
      packetThrottleLimit'[p] < Scale =>
        \/ IncomingOf[p] # 0 /\ outgoingDataTotal[p] > Exact(IncomingOf[p])
        \/ outgoingBandwidth # 0 /\ Sum(outgoingDataTotal) > Exact(outgoingBandwidth)

Announced ==
  Rounded /\ recalculateBandwidthLimits /\ incomingBandwidth # 0 =>
    /\ Sum(announced') <= incomingBandwidth
    /\ \A p \in Peers : OutgoingOf[p] # 0 =>
         announced'[p] >= Smaller(OutgoingOf[p], incomingBandwidth \div PeerCount)

\* After a round the peers together stay within the outgoing bandwidth of the
\* host, and each within what it can take: the passes subtract from the bandwidth
\* and the data that are left without one of them passing zero, also when the
\* products of bandwidths and time wrap.  Only the least limit, 1, is given whatever
\* it makes.  (The loop of enet_host_bandwidth_throttle.)
SharesWithinBandwidth == [][WithinBandwidth]_vars

\* A peer is only throttled when its data does not fit, or that of all of them:
\* as long as the products of bandwidths and time do not wrap.
ThrottledForCause == [][ForCause]_vars

\* The peers that have a limit of their own are told to send, together, no more than
\* the host can take, and none of them is told less than it could have had from an
\* even division.  (The second loop of enet_host_bandwidth_throttle.)
AnnouncedWithinBandwidth == [][Announced]_vars
=============================================================================
