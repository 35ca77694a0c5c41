------------------------ MODULE EnetBandwidthProofs ------------------------
(***************************************************************************)
(* The division of the bandwidths, for any number of peers, any bandwidths *)
(* and any loads: what SharesWithinBandwidth, ThrottledForCause and        *)
(* AnnouncedWithinBandwidth say of enet_host_bandwidth_throttle.           *)
(*                                                                         *)
(* Both loops of the function keep the same kind of invariant: what is     *)
(* left, divided among those that are left, is enough to give each of them *)
(* the part (or the throttle) the pass was begun with.  A peer that is     *)
(* taken out takes less than that, so that the unsigned numbers the loops  *)
(* count down never pass zero.                                             *)
(***************************************************************************)
EXTENDS EnetBandwidth, EnetArithmetic

-----------------------------------------------------------------------------
(* Sums over the peers.                                                    *)

Amounts == [Peers -> Nat]

\* The sums of the first peers.
LEMMA SumsIs ==
  ASSUME NEW f \in Amounts
  PROVE  /\ Sums(f) \in [0..PeerCount -> Nat]
         /\ Sums(f)[0] = 0
         /\ \A n \in Peers : Sums(f)[n] = Sums(f)[n - 1] + f[n]
  <1> DEFINE step == [n \in Peers |-> [x \in Nat |-> x + f[n]]]
             Is(g) == g = [n \in 0..PeerCount |-> IF n = 0 THEN 0 ELSE g[n - 1] + f[n]]
  <1>1. PeerCount \in Nat /\ \A n \in Peers : f[n] \in Nat
    BY BandwidthAssumption DEF Amounts
  <1>2. step \in [1..PeerCount -> [Nat -> Nat]]
    BY <1>1 DEF Peers
  <1>3. PICK g : Steps(g, Nat, 0, step, PeerCount)
    <2> HIDE DEF step
    <2> QED BY <1>1, <1>2, Iterates
  <1>4. Is(g)
    <2>1. ASSUME NEW n \in 1..PeerCount PROVE g[n] = g[n - 1] + f[n]
      <3>1. n - 1 \in 0..PeerCount /\ n \in Peers
        BY <1>1 DEF Peers
      <3>2. g[n - 1] \in Nat
        BY <1>3, <3>1 DEF Steps
      <3> QED BY <1>3, <3>1, <3>2 DEF Steps
    <2>2. g = [n \in 0..PeerCount |-> g[n]] /\ g[0] = 0
      BY <1>3 DEF Steps
    <2>3. ASSUME NEW n \in 0..PeerCount PROVE g[n] = IF n = 0 THEN 0 ELSE g[n - 1] + f[n]
      <3>1. n = 0 \/ n \in 1..PeerCount
        BY <1>1
      <3> QED BY <2>1, <2>2, <3>1
    <2> QED BY <2>2, <2>3
  <1>5. Sums(f) = CHOOSE h : Is(h)
    BY DEF Sums
  <1>6. Is(Sums(f))
    <2> HIDE DEF Is
    <2> QED BY <1>4, <1>5
  <1> DEFINE h == Sums(f)
  <1>7. h = [n \in 0..PeerCount |-> IF n = 0 THEN 0 ELSE h[n - 1] + f[n]]
    BY <1>6
  <1> HIDE DEF h
  <1>8. h[0] = 0 /\ \A n \in Peers : h[n] = h[n - 1] + f[n]
    BY <1>1, <1>7 DEF Peers
  <1>9. \A n \in 0..PeerCount : h[n] \in Nat
    <2> DEFINE T == {n \in 0..PeerCount : h[n] \in Nat}
    <2>1. 0 \in T
      BY <1>1, <1>8
    <2>2. ASSUME NEW n \in 1..PeerCount, n - 1 \in T PROVE n \in T
      <3>1. n \in Peers /\ n \in 0..PeerCount /\ h[n - 1] \in Nat
        BY <1>1, <2>2 DEF Peers
      <3> QED BY <1>1, <1>8, <3>1
    <2>3. \A n \in 0..PeerCount : n \in T
      <3> HIDE DEF T
      <3> QED BY <1>1, <2>1, <2>2, UpTo
    <2> QED BY <2>3
  <1> QED BY <1>7, <1>8, <1>9 DEF h

\* A sum of amounts is a number.
LEMMA SumNat ==
  ASSUME NEW f \in Amounts
  PROVE  Sum(f) \in Nat
  BY SumsIs, BandwidthAssumption DEF Sum

\* Sums of amounts that are ordered peer by peer, up to factors.
LEMMA SumScaled ==
  ASSUME NEW f \in Amounts, NEW g \in Amounts, NEW a \in Nat, NEW b \in Nat,
         \A p \in Peers : a * f[p] <= b * g[p]
  PROVE  a * Sum(f) <= b * Sum(g)
  <1> DEFINE T == {n \in 0..PeerCount : a * Sums(f)[n] <= b * Sums(g)[n]}
  <1>1. PeerCount \in Nat
    BY BandwidthAssumption
  <1>2. 0 \in T
    BY <1>1, SumsIs
  <1>3. ASSUME NEW n \in 1..PeerCount, n - 1 \in T PROVE n \in T
    <2> DEFINE x == Sums(f)[n - 1]
               y == Sums(g)[n - 1]
    <2>0. n - 1 \in 0..PeerCount /\ n \in Peers
      BY <1>1 DEF Peers
    <2>1. x \in Nat /\ y \in Nat /\ f[n] \in Nat /\ g[n] \in Nat
      BY <2>0, SumsIs DEF Amounts
    <2>2. Sums(f)[n] = x + f[n] /\ Sums(g)[n] = y + g[n]
      BY SumsIs DEF Peers
    <2>3. a * x <= b * y /\ a * f[n] <= b * g[n]
      BY <1>3 DEF Peers
    <2> HIDE DEF x, y
    <2>4. a * (x + f[n]) <= b * (y + g[n])
      BY <2>1, <2>3
    <2> QED BY <2>2, <2>4
  <1>4. \A n \in 0..PeerCount : n \in T
    <2> HIDE DEF T
    <2> QED BY <1>1, <1>2, <1>3, UpTo
  <1> QED BY <1>1, <1>4 DEF Sum

\* The sum of sums.
LEMMA SumAdd ==
  ASSUME NEW f \in Amounts, NEW g \in Amounts, NEW h \in Amounts,
         \A p \in Peers : h[p] = f[p] + g[p]
  PROVE  Sum(h) = Sum(f) + Sum(g)
  <1> DEFINE T == {n \in 0..PeerCount : Sums(h)[n] = Sums(f)[n] + Sums(g)[n]}
  <1>1. PeerCount \in Nat
    BY BandwidthAssumption
  <1>2. 0 \in T
    BY <1>1, SumsIs
  <1>3. ASSUME NEW n \in 1..PeerCount, n - 1 \in T PROVE n \in T
    <2> DEFINE x == Sums(f)[n - 1]
               y == Sums(g)[n - 1]
               z == Sums(h)[n - 1]
    <2>0. n - 1 \in 0..PeerCount /\ n \in Peers
      BY <1>1 DEF Peers
    <2>1. x \in Nat /\ y \in Nat /\ z \in Nat /\ f[n] \in Nat /\ g[n] \in Nat /\ h[n] = f[n] + g[n]
      BY <2>0, SumsIs DEF Amounts
    <2>2. Sums(f)[n] = x + f[n] /\ Sums(g)[n] = y + g[n] /\ Sums(h)[n] = z + h[n]
      BY SumsIs DEF Peers
    <2>3. z = x + y
      BY <1>3
    <2> HIDE DEF x, y, z
    <2> QED BY <2>1, <2>2, <2>3
  <1>4. \A n \in 0..PeerCount : n \in T
    <2> HIDE DEF T
    <2> QED BY <1>1, <1>2, <1>3, UpTo
  <1> QED BY <1>1, <1>4 DEF Sum

\* Sums of amounts that differ for one peer.
LEMMA SumChange ==
  ASSUME NEW f \in Amounts, NEW g \in Amounts, NEW p \in Peers,
         \A q \in Peers : q # p => g[q] = f[q]
  PROVE  Sum(g) = Sum(f) - f[p] + g[p]
  <1> DEFINE T == {n \in 0..PeerCount :
                     Sums(g)[n] = Sums(f)[n] + (IF n >= p THEN g[p] - f[p] ELSE 0)}
  <1>1. PeerCount \in Nat
    BY BandwidthAssumption
  <1>2. 0 \in T
    BY <1>1, SumsIs DEF Peers
  <1>3. ASSUME NEW n \in 1..PeerCount, n - 1 \in T PROVE n \in T
    <2> DEFINE x == Sums(f)[n - 1]
               y == Sums(g)[n - 1]
    <2>0. n - 1 \in 0..PeerCount /\ n \in Peers
      BY <1>1 DEF Peers
    <2>1. x \in Nat /\ y \in Nat /\ f[n] \in Nat /\ g[n] \in Nat /\ f[p] \in Nat /\ g[p] \in Nat
      BY <2>0, SumsIs DEF Amounts
    <2>2. Sums(f)[n] = x + f[n] /\ Sums(g)[n] = y + g[n]
      BY SumsIs DEF Peers
    <2>3. y = x + (IF n - 1 >= p THEN g[p] - f[p] ELSE 0)
      BY <1>3
    <2>4. n # p => g[n] = f[n]
      BY DEF Peers
    <2> HIDE DEF x, y
    <2> QED BY <1>1, <2>1, <2>2, <2>3, <2>4 DEF Peers
  <1>4. \A n \in 0..PeerCount : n \in T
    <2> HIDE DEF T
    <2> QED BY <1>1, <1>2, <1>3, UpTo
  <1>5. f[p] \in Nat /\ g[p] \in Nat /\ p \in 1..PeerCount /\ Sum(f) \in Nat
    BY SumNat DEF Amounts, Peers
  <1> QED BY <1>1, <1>4, <1>5 DEF Sum

\* The peers that are left, counted and each with the same amount.
LEMMA SumRemaining ==
  ASSUME NEW own \in SUBSET Peers, NEW c \in Nat
  PROVE  /\ Cardinality(own) \in 0..PeerCount
         /\ Cardinality(own) = PeerCount => own = Peers
         /\ Sum([p \in Peers |-> IF p \in own THEN 0 ELSE c])
              = c * (PeerCount - Cardinality(own))
  <1> DEFINE f == [p \in Peers |-> IF p \in own THEN 0 ELSE c]
             Of(n) == own \cap (1..n)
             T == {n \in 0..PeerCount : Sums(f)[n] = c * (n - Cardinality(Of(n)))}
  <1>1. PeerCount \in Nat
    BY BandwidthAssumption
  <1>2. f \in Amounts /\ \A p \in Peers : f[p] = IF p \in own THEN 0 ELSE c
    BY DEF Amounts
  <1> HIDE DEF f
  <1>3. IsFiniteSet(Peers) /\ Cardinality(Peers) = PeerCount
    BY <1>1, FS_Interval DEF Peers
  <1>4. ASSUME NEW n \in Nat
        PROVE  IsFiniteSet(Of(n)) /\ Cardinality(Of(n)) \in Nat
    <2>1. Of(n) \in SUBSET Peers
      OBVIOUS
    <2> HIDE DEF Of
    <2> QED BY <1>3, <2>1, FS_Subset, FS_CardinalityType
  <1>5. 0 \in T
    <2>1. Of(0) = {}
      OBVIOUS
    <2>2. Cardinality(Of(0)) = 0
      BY <2>1, FS_EmptySet
    <2>3. Sums(f)[0] = 0
      BY <1>2, SumsIs
    <2> HIDE DEF Of
    <2> QED BY <1>1, <2>2, <2>3
  <1>6. ASSUME NEW n \in 1..PeerCount, n - 1 \in T PROVE n \in T
    <2>1. n - 1 \in Nat /\ n \in Peers /\ n \in 0..PeerCount
      BY <1>1 DEF Peers
    <2>2. Sums(f)[n] = Sums(f)[n - 1] + f[n] /\ f[n] = IF n \in own THEN 0 ELSE c
      BY <1>2, <2>1, SumsIs
    <2>3. Of(n) = IF n \in own THEN Of(n - 1) \cup {n} ELSE Of(n - 1)
      BY <2>1
    <2>4. n \notin Of(n - 1)
      BY <2>1
    <2> DEFINE k == Cardinality(Of(n - 1))
    <2>5. Cardinality(Of(n)) = IF n \in own THEN k + 1 ELSE k
      <3> HIDE DEF Of
      <3>1. IsFiniteSet(Of(n - 1))
        BY <1>4, <2>1
      <3> QED BY <2>3, <2>4, <3>1, FS_AddElement
    <2>6. k \in Nat /\ Sums(f)[n - 1] = c * (n - 1 - k)
      <3> HIDE DEF Of
      <3> QED BY <1>4, <1>6, <2>1
    <2> HIDE DEF k, Of
    <2>7. CASE n \in own
      BY <2>1, <2>2, <2>5, <2>6, <2>7
    <2>8. CASE n \notin own
      <3>1. c * (n - 1 - k) + c = c * (n - k)
        BY <2>1, <2>6
      <3> QED BY <2>1, <2>2, <2>5, <2>6, <2>8, <3>1
    <2> QED BY <2>7, <2>8
  <1>7. \A n \in 0..PeerCount : n \in T
    <2> HIDE DEF T
    <2> QED BY <1>1, <1>5, <1>6, UpTo
  <1>8. Of(PeerCount) = own
    BY <1>1 DEF Peers
  <1>9. Sum(f) = c * (PeerCount - Cardinality(own))
    <2>1. PeerCount \in T
      BY <1>1, <1>7
    <2> HIDE DEF Of
    <2> QED BY <1>8, <2>1 DEF Sum
  <1>10. Cardinality(own) \in 0..PeerCount /\ (Cardinality(own) = PeerCount => own = Peers)
    BY <1>3, FS_Subset, FS_CardinalityType
  <1> QED BY <1>9, <1>10 DEF f

-----------------------------------------------------------------------------
(* Quotients.                                                              *)

\* A remainder is no larger than the number.
LEMMA ModLess ==
  ASSUME NEW n \in Nat, NEW d \in Nat \ {0}
  PROVE  n % d \in 0..n /\ n % d < d /\ (n < d => n % d = n)
  <1> DEFINE p == n \div d
             r == n % d
  <1>0. p \in Nat
    BY DivNat
  <1>1. p \in Nat /\ r \in 0..(d - 1) /\ n = d * p + r
    BY <1>0, DivMod
  <1> HIDE DEF p, r
  <1>2. d * p >= 0
    BY <1>1
  <1>3. ASSUME n < d PROVE r = n
    <2>1. CASE p >= 1
      <3>1. d * p >= d
        BY <1>1, <2>1
      <3> QED BY <1>1, <1>3, <3>1
    <2> QED BY <1>1, <2>1
  <1> QED BY <1>1, <1>2, <1>3 DEF r

\* What a quotient is at most.
LEMMA DivBelow ==
  ASSUME NEW n \in Nat, NEW d \in Nat \ {0}
  PROVE  n \div d \in Nat /\ d * (n \div d) <= n /\ n \div d <= n
  <1> DEFINE p == n \div d
  <1>0. p \in Nat
    BY DivNat
  <1>1. p \in Nat /\ n % d \in 0..(d - 1) /\ n = d * p + (n % d)
    BY <1>0, DivMod
  <1> HIDE DEF p
  <1>2. d * p <= n /\ p <= d * p
    BY <1>1
  <1> QED BY <1>1, <1>2 DEF p

\* A product that is less than a product with the same factor.
LEMMA FactorLess ==
  ASSUME NEW a \in Nat, NEW x \in Int, NEW y \in Int, a * x < a * y
  PROVE  x < y
  <1>1. CASE x >= y
    <2>1. a * x >= a * y
      BY <1>1
    <2> QED BY <2>1
  <1> QED BY <1>1

-----------------------------------------------------------------------------
(* The rounds of the first loop.                                           *)

\* What the proofs need of a state.
Ready ==
  /\ elapsed \in Nat
  /\ outgoingBandwidth \in 0..(Word - 1)
  /\ incomingBandwidth \in 0..(Word - 1)
  /\ outgoingDataTotal \in [Peers -> 0..(Word - 1)]
  /\ packetThrottleLimit \in Amounts

Share(p) == Allowance(IncomingOf[p])

RoundType ==
  [bandwidth : 0..(Word - 1), dataTotal : 0..(Word - 1), own : SUBSET Peers,
   limit : Amounts, needsAdjustment : BOOLEAN]

\* The limit of a peer with a share of its own.
OwnLimit(p) ==
  LET limit == Times(Share(p), Scale) \div outgoingDataTotal[p]
  IN  IF limit = 0 THEN 1 ELSE limit

\* A peer has a share of its own only when its data does not fit in.
OwnShares(r) ==
  \A p \in r.own : /\ IncomingOf[p] # 0
                   /\ Share(p) < outgoingDataTotal[p]
                   /\ r.limit[p] = OwnLimit(p)

\* The shares given so far, and the data of the peers that are left.
Shares(own) == [p \in Peers |-> IF p \in own THEN Share(p) ELSE 0]
Others(own) == [p \in Peers |-> IF p \in own THEN 0 ELSE outgoingDataTotal[p]]

\* What was given is taken from the bandwidth and from the data, and the data left
\* is at least that of the peers that are left.
Left(r) ==
  /\ outgoingBandwidth = 0 => r.bandwidth = r.dataTotal
  /\ outgoingBandwidth # 0 =>
       /\ r.bandwidth + Sum(Shares(r.own)) = Allowance(outgoingBandwidth)
       /\ r.dataTotal + Sum(Shares(r.own)) = Sum(outgoingDataTotal)
       /\ Sum(Others(r.own)) <= r.dataTotal

\* The bandwidth that is left is enough for the peers that are left.
EnoughFor(r, throttle) ==
  outgoingBandwidth # 0 => throttle * Sum(Others(r.own)) <= Scale * r.bandwidth

\* Peer p takes no more than its share with that throttle.
Takes(p, throttle) ==
  IncomingOf[p] # 0 => Times(throttle, outgoingDataTotal[p]) \div Scale <= Share(p)

\* What a bandwidth lets through: no more than it does without the wrap.
LEMMA AllowanceIs ==
  ASSUME elapsed \in Nat, NEW b \in 0..(Word - 1)
  PROVE  /\ Allowance(b) \in 0..(Word - 1)
         /\ Exact(b) \in Nat /\ Allowance(b) <= Exact(b)
         /\ b * elapsed < Word => Allowance(b) = Exact(b)
  <1> DEFINE n == b * elapsed
             m == n % Word
  <1>1. Word \in Nat \ {0} /\ Interval \in Nat \ {0}
    BY BandwidthAssumption
  <1>2. n \in Nat
    BY <1>1
  <1> HIDE DEF n
  <1>3. m \in 0..n /\ m < Word /\ (n < Word => m = n)
    BY <1>1, <1>2, ModLess
  <1> HIDE DEF m
  <1>4. m \in Nat
    BY <1>2, <1>3
  <1>5. m \div Interval \in Nat /\ m \div Interval <= m
    BY <1>1, <1>4, DivBelow
  <1>6. n \div Interval \in Nat
    BY <1>1, <1>2, DivBelow
  <1>7. m \div Interval <= n \div Interval
    <2>1. m \in Int /\ n \in Int /\ m <= n
      BY <1>2, <1>3
    <2> QED BY <1>1, <2>1, DivMonotone
  <1>8. Allowance(b) = m \div Interval /\ Exact(b) = n \div Interval
    BY DEF Allowance, Exact, Times, m, n
  <1>9. n < Word => m \div Interval = n \div Interval
    BY <1>3
  <1>10. b * elapsed < Word => Allowance(b) = Exact(b)
    BY <1>8, <1>9 DEF n
  <1> QED BY <1>1, <1>3, <1>4, <1>5, <1>6, <1>7, <1>8, <1>10

\* A product that wraps is no larger than without.
LEMMA TimesIs ==
  ASSUME NEW a \in Nat, NEW b \in Nat
  PROVE  Times(a, b) \in 0..(a * b) /\ (a * b < Word => Times(a, b) = a * b)
  <1> DEFINE n == a * b
  <1>1. n \in Nat /\ Word \in Nat \ {0}
    BY BandwidthAssumption
  <1> HIDE DEF n
  <1>2. n % Word \in 0..n /\ (n < Word => n % Word = n)
    BY <1>1, ModLess
  <1> QED BY <1>2 DEF n, Times

\* A peer that would be sent more than its share has more data than its share.
LEMMA MoreThanShare ==
  ASSUME NEW t \in 0..Scale, NEW d \in Nat, NEW s \in Nat, ~(Times(t, d) \div Scale <= s)
  PROVE  s < d /\ Scale * s <= t * d
  <1> DEFINE n == Times(t, d)
             q == n \div Scale
  <1>1. Scale \in Nat \ {0} /\ t \in Nat
    BY BandwidthAssumption
  <1>2. n \in Nat /\ n <= t * d
    BY <1>1, TimesIs
  <1> HIDE DEF n
  <1>3. q \in Nat /\ Scale * q <= n
    BY <1>1, <1>2, DivBelow
  <1>4. q > s
    BY <1>3 DEF q, n
  <1> HIDE DEF q
  <1>5. Scale * (s + 1) <= Scale * q
    BY <1>1, <1>3, <1>4
  <1>6. Scale * (s + 1) <= t * d /\ Scale * (s + 1) = Scale * s + Scale
    BY <1>1, <1>2, <1>3, <1>5
  <1>7. t * d <= Scale * d
    BY <1>1
  <1>8. Scale * s < Scale * d
    BY <1>1, <1>6, <1>7
  <1> QED BY <1>1, <1>6, <1>8, FactorLess

\* The throttle of a pass.
LEMMA ThrottleIs ==
  ASSUME NEW r \in RoundType, NEW x \in Nat
  PROVE  /\ ThrottleOf(r) \in 0..Scale
         /\ x <= r.dataTotal => ThrottleOf(r) * x <= Scale * r.bandwidth
         /\ ThrottleOf(r) < Scale => r.bandwidth < r.dataTotal
  <1> DEFINE b == r.bandwidth
             d == r.dataTotal
             t == ThrottleOf(r)
  <1>1. Scale \in Nat \ {0} /\ b \in Nat /\ d \in Nat
    BY BandwidthAssumption DEF RoundType
  <1>2. t = IF d <= b THEN Scale ELSE Times(b, Scale) \div d
    BY DEF ThrottleOf
  <1>3. r.bandwidth = b /\ r.dataTotal = d
    OBVIOUS
  <1> HIDE DEF b, d, t
  <1>4. CASE d <= b
    <2>1. x <= d => Scale * x <= Scale * b
      BY <1>1, <1>4
    <2> QED BY <1>1, <1>2, <1>3, <1>4, <2>1 DEF t
  <1>5. CASE b < d
    <2> DEFINE n == Times(b, Scale)
    <2>1. n \in Nat /\ n <= b * Scale
      BY <1>1, TimesIs
    <2>2. d \in Nat \ {0}
      BY <1>1, <1>5
    <2>3. t = n \div d
      BY <1>1, <1>2, <1>5
    <2> HIDE DEF n
    <2>4. t \in Nat /\ d * t <= n
      BY <2>1, <2>2, <2>3, DivBelow
    <2>5. d * t <= b * Scale /\ b * Scale = Scale * b
      BY <1>1, <2>1, <2>2, <2>4
    <2>6. x <= d => t * x <= d * t
      BY <2>2, <2>4
    <2>7. t * x \in Nat /\ d * t \in Nat /\ Scale * b \in Nat
      BY <1>1, <2>4
    <2>8. x <= d => t * x <= Scale * b
      BY <2>5, <2>6, <2>7
    <2>9. t <= Scale
      <3>1. Scale * b <= Scale * d /\ d * t = t * d /\ Scale * d = d * Scale
        BY <1>1, <1>5, <2>4
      <3>2. CASE t > Scale
        <4>1. d * t >= d * Scale + d
          <5>1. d * t >= d * (Scale + 1) /\ d * (Scale + 1) = d * Scale + d
            BY <1>1, <2>4, <3>2
          <5> QED BY <5>1
        <4>2. d * Scale \in Nat
          BY <1>1
        <4> QED BY <2>2, <2>5, <2>7, <3>1, <4>1, <4>2
      <3> QED BY <1>1, <2>4, <3>2
    <2> QED BY <1>1, <1>3, <1>5, <2>4, <2>8, <2>9 DEF t
  <1> QED BY <1>1, <1>4, <1>5

\* The numbers of the peers.
LEMMA PeerNumbers ==
  ASSUME Ready
  PROVE  /\ outgoingDataTotal \in Amounts
         /\ \A p \in Peers : Share(p) \in 0..(Word - 1) /\ outgoingDataTotal[p] \in Nat
         /\ \A own \in SUBSET Peers : Shares(own) \in Amounts /\ Others(own) \in Amounts
  <1>1. Word \in Nat \ {0}
    BY BandwidthAssumption
  <1>2. ASSUME NEW p \in Peers PROVE Share(p) \in 0..(Word - 1)
    <2>1. IncomingOf[p] \in 0..(Word - 1) /\ elapsed \in Nat
      BY BandwidthAssumption DEF Ready
    <2> QED BY <2>1, AllowanceIs DEF Share
  <1>3. outgoingDataTotal \in Amounts
    BY <1>1 DEF Ready, Amounts
  <1>4. ASSUME NEW own \in SUBSET Peers PROVE Shares(own) \in Amounts /\ Others(own) \in Amounts
    BY <1>1, <1>2, <1>3 DEF Shares, Others, Amounts
  <1> QED BY <1>2, <1>3, <1>4 DEF Amounts

\* A difference is one that does not wrap when it is not below zero.
LEMMA LessIs ==
  ASSUME NEW a \in 0..(Word - 1), NEW b \in 0..(Word - 1)
  PROVE  Less(a, b) \in 0..(Word - 1) /\ (b <= a => Less(a, b) = a - b)
  <1>1. Word \in Nat \ {0}
    BY BandwidthAssumption
  <1> DEFINE n == a - b + Word
  <1>2. n \in Nat
    BY <1>1
  <1>3. b <= a => n = Word * 1 + (a - b) /\ a - b \in 0..(Word - 1)
    BY <1>1
  <1> HIDE DEF n
  <1>4. n % Word \in 0..(Word - 1)
    BY <1>1, <1>2, DivMod
  <1>5. ASSUME b <= a PROVE n % Word = a - b
    <2> DEFINE r == a - b
    <2>1. r \in 0..(Word - 1) /\ n = Word * 1 + r
      BY <1>3, <1>5
    <2> HIDE DEF r
    <2>2. n % Word = r
      BY <1>1, <1>2, <2>1, DivUnique
    <2> QED BY <2>2 DEF r
  <1> QED BY <1>4, <1>5 DEF Less, n

\* One more peer with a share of its own.
LEMMA OneMoreShare ==
  ASSUME Ready, NEW own \in SUBSET Peers, NEW p \in Peers, p \notin own
  PROVE  /\ Sum(Shares(own \cup {p})) = Sum(Shares(own)) + Share(p)
         /\ Sum(Others(own)) = Sum(Others(own \cup {p})) + outgoingDataTotal[p]
  <1> DEFINE f == Shares(own)
             g == Shares(own \cup {p})
             h == Others(own)
             k == Others(own \cup {p})
  <1>1. f \in Amounts /\ g \in Amounts /\ h \in Amounts /\ k \in Amounts
    BY PeerNumbers
  <1>2. \A q \in Peers : q # p => g[q] = f[q] /\ h[q] = k[q]
    BY DEF Shares, Others
  <1>3. f[p] = 0 /\ g[p] = Share(p) /\ k[p] = 0 /\ h[p] = outgoingDataTotal[p]
    BY DEF Shares, Others
  <1>4. Share(p) \in Nat /\ outgoingDataTotal[p] \in Nat
    BY PeerNumbers, BandwidthAssumption
  <1> HIDE DEF f, g, h, k
  <1>5. Sum(g) = Sum(f) - f[p] + g[p]
    BY <1>1, <1>2, SumChange
  <1>6. Sum(h) = Sum(k) - k[p] + h[p]
    BY <1>1, <1>2, SumChange
  <1>7. Sum(f) \in Nat /\ Sum(k) \in Nat
    BY <1>1, SumNat
  <1> QED BY <1>3, <1>4, <1>5, <1>6, <1>7 DEF f, g, h, k

\* A peer is left as it is because it takes no more than its share, or it gets a
\* share of its own; what is left is enough for the others all the same.
LEMMA AdjustStep ==
  ASSUME Ready, NEW r \in RoundType, OwnShares(r), NEW t \in 0..Scale, NEW p \in Peers,
         NEW a, a = Adjust(r, t, p)
  PROVE  /\ a \in RoundType /\ OwnShares(a)
         /\ \/ a = r /\ (p \in r.own \/ Takes(p, t))
            \/ p \notin r.own /\ a.own = r.own \cup {p} /\ a.needsAdjustment
         /\ Left(r) /\ EnoughFor(r, t) => Left(a) /\ EnoughFor(a, t)
  <1> DEFINE s == Share(p)
             d == outgoingDataTotal[p]
             same == p \in r.own \/ IncomingOf[p] = 0 \/ Times(t, d) \div Scale <= s
  <1>1. CASE same
    <2>1. a = r
      BY <1>1 DEF Adjust, Share
    <2>2. p \in r.own \/ Takes(p, t)
      BY <1>1 DEF Takes
    <2> QED BY <2>1, <2>2
  <1>2. CASE ~same
    <2>1. a = [r EXCEPT !.own = r.own \cup {p},
                        !.limit = [r.limit EXCEPT ![p] = OwnLimit(p)],
                        !.needsAdjustment = TRUE,
                        !.bandwidth = Less(r.bandwidth, s),
                        !.dataTotal = Less(r.dataTotal, s)]
      BY <1>2 DEF Adjust, Share, OwnLimit
    <2>2. s \in 0..(Word - 1) /\ s \in Nat /\ d \in Nat /\ Word \in Nat \ {0}
      BY PeerNumbers, BandwidthAssumption
    <2>3. s < d /\ Scale * s <= t * d
      <3>1. ~(Times(t, d) \div Scale <= s)
        BY <1>2
      <3> HIDE DEF s, d
      <3> QED BY <2>2, <3>1, MoreThanShare
    <2>4. OwnLimit(p) \in Nat
      <3> DEFINE n == Times(s, Scale)
      <3>1. n \in Nat
        <4>1. Scale \in Nat
          BY BandwidthAssumption
        <4>2. s \in Nat
          BY <2>2
        <4> HIDE DEF s
        <4>3. s * Scale \in Nat
          BY <4>1, <4>2
        <4>4. Times(s, Scale) \in 0..(s * Scale)
          BY <4>1, <4>2, TimesIs
        <4> QED BY <4>3, <4>4
      <3> HIDE DEF n
      <3>2. d \in Nat \ {0}
        BY <2>2, <2>3
      <3>3. n \div d \in Nat
        BY <3>1, <3>2, DivBelow
      <3> QED BY <3>3 DEF OwnLimit, n
    <2>5. r.bandwidth \in 0..(Word - 1) /\ r.dataTotal \in 0..(Word - 1) /\ r.own \in SUBSET Peers
          /\ r.limit \in Amounts
      BY DEF RoundType
    <2>6. Less(r.bandwidth, s) \in 0..(Word - 1) /\ Less(r.dataTotal, s) \in 0..(Word - 1)
      BY <2>2, <2>5, LessIs
    <2>7. /\ a.own = r.own \cup {p} /\ a.needsAdjustment = TRUE
          /\ a.limit = [r.limit EXCEPT ![p] = OwnLimit(p)]
          /\ a.bandwidth = Less(r.bandwidth, s) /\ a.dataTotal = Less(r.dataTotal, s)
      BY <2>1 DEF RoundType
    <2>8. a \in RoundType
      <3>1. [r.limit EXCEPT ![p] = OwnLimit(p)] \in Amounts
        BY <2>4, <2>5 DEF Amounts
      <3>2. a = [bandwidth |-> a.bandwidth, dataTotal |-> a.dataTotal, own |-> a.own,
                 limit |-> a.limit, needsAdjustment |-> a.needsAdjustment]
        BY <2>1 DEF RoundType
      <3>3. a.own \in SUBSET Peers
        BY <2>5, <2>7
      <3> QED BY <2>6, <2>7, <3>1, <3>2, <3>3 DEF RoundType
    <2>9. OwnShares(a)
      BY <1>2, <2>3, <2>5, <2>7 DEF OwnShares, Amounts
    <2>10. p \notin r.own
      BY <1>2
    <2>11. ASSUME Left(r), EnoughFor(r, t)
           PROVE  Left(a) /\ EnoughFor(a, t)
      <3>1. CASE outgoingBandwidth = 0
        BY <2>7, <2>11, <3>1 DEF Left, EnoughFor
      <3>2. CASE outgoingBandwidth # 0
        <4> DEFINE x == Sum(Shares(r.own))
                   y == Sum(Others(a.own))
                   b == r.bandwidth
                   e == r.dataTotal
        <4>1. Sum(Shares(a.own)) = x + s /\ Sum(Others(r.own)) = y + d
          BY <2>5, <2>7, <2>10, OneMoreShare
        <4>2. x \in Nat /\ y \in Nat
          <5>1. Shares(r.own) \in Amounts /\ Others(a.own) \in Amounts
            BY <2>5, <2>7, PeerNumbers
          <5> QED BY <5>1, SumNat
        <4>3. /\ b + x = Allowance(outgoingBandwidth) /\ e + x = Sum(outgoingDataTotal)
              /\ y + d <= e /\ t * (y + d) <= Scale * b
          BY <2>11, <3>2, <4>1 DEF Left, EnoughFor
        <4>4. b \in 0..(Word - 1) /\ e \in 0..(Word - 1) /\ t \in Nat /\ Scale \in Nat \ {0}
          BY <2>5, BandwidthAssumption
        <4>5. a.bandwidth = Less(b, s) /\ a.dataTotal = Less(e, s)
          BY <2>7
        <4> HIDE DEF s, d, x, y, b, e
        <4>6. t * y + Scale * s <= Scale * b
          <5>1. t * (y + d) = t * y + t * d /\ t * y \in Nat /\ t * d \in Nat
            BY <2>2, <4>2, <4>4
          <5>2. Scale * s \in Nat /\ Scale * b \in Nat
            BY <2>2, <4>4
          <5> QED BY <2>3, <4>3, <5>1, <5>2
        <4>7. s <= b
          <5>1. CASE b < s
            <6>1. Scale * b < Scale * s /\ t * y >= 0
              BY <2>2, <4>2, <4>4, <5>1
            <6>2. Scale * s \in Nat /\ Scale * b \in Nat /\ t * y \in Nat
              BY <2>2, <4>2, <4>4
            <6> QED BY <4>6, <6>1, <6>2
          <5> QED BY <2>2, <4>4, <5>1
        <4>8. a.bandwidth = b - s /\ a.dataTotal = e - s /\ s <= e
          <5>1. s <= e
            BY <2>2, <2>3, <4>2, <4>3, <4>4
          <5> QED BY <2>2, <4>4, <4>5, <4>7, <5>1, LessIs
        <4>9. t * y <= Scale * (b - s)
          <5>1. Scale * (b - s) = Scale * b - Scale * s
            BY <2>2, <4>4
          <5>2. t * y \in Nat /\ Scale * s \in Nat /\ Scale * b \in Nat
            BY <2>2, <4>2, <4>4
          <5> QED BY <4>6, <5>1, <5>2
        <4>10. (b - s) + (x + s) = b + x /\ (e - s) + (x + s) = e + x /\ y <= e - s
          BY <2>2, <2>3, <4>2, <4>3, <4>4
        <4>11. /\ a.bandwidth + Sum(Shares(a.own)) = Allowance(outgoingBandwidth)
               /\ a.dataTotal + Sum(Shares(a.own)) = Sum(outgoingDataTotal)
               /\ Sum(Others(a.own)) <= a.dataTotal
               /\ t * Sum(Others(a.own)) <= Scale * a.bandwidth
          BY <4>1, <4>3, <4>8, <4>9, <4>10 DEF y
        <4> QED BY <3>2, <4>11 DEF Left, EnoughFor
      <3> QED BY <3>1, <3>2
    <2> QED BY <2>7, <2>8, <2>9, <2>10, <2>11
  <1> QED BY <1>1, <1>2

\* A pass goes from one peer to the next.
LEMMA PassIs ==
  ASSUME Ready, NEW r \in RoundType, OwnShares(r)
  PROVE  /\ Pass(r)[0] = [r EXCEPT !.needsAdjustment = FALSE]
         /\ \A p \in Peers : Pass(r)[p] = Adjust(Pass(r)[p - 1], ThrottleOf(r), p)
  <1> DEFINE t == ThrottleOf(r)
             Good == {a \in RoundType : OwnShares(a)}
             base == [r EXCEPT !.needsAdjustment = FALSE]
             step == [p \in 1..PeerCount |-> [a \in Good |-> Adjust(a, t, p)]]
             Is(g) == g = [p \in 0..PeerCount |->
                             IF p = 0 THEN [r EXCEPT !.needsAdjustment = FALSE]
                             ELSE Adjust(g[p - 1], t, p)]
  <1>1. PeerCount \in Nat /\ Peers = 1..PeerCount /\ t \in 0..Scale
    BY BandwidthAssumption, ThrottleIs DEF Peers
  <1> HIDE DEF t
  <1>2. base \in Good
    BY DEF RoundType, OwnShares
  <1>3. \A p \in 1..PeerCount : \A a \in Good : Adjust(a, t, p) \in Good
    BY <1>1, AdjustStep
  <1>4. step \in [1..PeerCount -> [Good -> Good]]
    BY <1>3
  <1>5. PICK g : Steps(g, Good, base, step, PeerCount)
    <2> HIDE DEF step, Good, base
    <2> QED BY <1>1, <1>2, <1>4, Iterates
  <1>6. Is(g)
    <2>1. ASSUME NEW p \in 1..PeerCount PROVE g[p] = Adjust(g[p - 1], t, p)
      <3> HIDE DEF Good
      <3>1. p - 1 \in 0..PeerCount
        BY <1>1
      <3>2. g[p - 1] \in Good /\ g[p] = step[p][g[p - 1]]
        <4> HIDE DEF step
        <4> QED BY <1>5, <3>1 DEF Steps
      <3> QED BY <3>2
    <2>2. g = [p \in 0..PeerCount |-> g[p]] /\ g[0] = base
      BY <1>5 DEF Steps
    <2>3. ASSUME NEW p \in 0..PeerCount
          PROVE  g[p] = IF p = 0 THEN base ELSE Adjust(g[p - 1], t, p)
      <3>1. p = 0 \/ p \in 1..PeerCount
        BY <1>1
      <3> HIDE DEF base
      <3> QED BY <1>1, <2>1, <2>2, <3>1
    <2> QED BY <2>2, <2>3
  <1>7. Pass(r) = CHOOSE h : Is(h)
    BY DEF Pass, t
  <1>8. Is(Pass(r))
    <2> HIDE DEF Is
    <2> QED BY <1>6, <1>7
  <1> DEFINE h == Pass(r)
  <1>9. h = [p \in 0..PeerCount |->
               IF p = 0 THEN [r EXCEPT !.needsAdjustment = FALSE] ELSE Adjust(h[p - 1], t, p)]
    BY <1>8
  <1> HIDE DEF h
  <1>10. 0 \in 0..PeerCount /\ \A p \in Peers : p \in 0..PeerCount /\ p # 0
    BY <1>1
  <1>11. h[0] = [r EXCEPT !.needsAdjustment = FALSE]
    BY <1>9, <1>10
  <1>12. \A p \in Peers : h[p] = Adjust(h[p - 1], t, p)
    BY <1>9, <1>10
  <1> QED BY <1>11, <1>12 DEF h, t

\* The peers that are left take no more than their shares.
Settled(r) == \A p \in Peers \ r.own : Takes(p, ThrottleOf(r))

\* A round of the loop: n passes were made, or fewer, the last of which left all as
\* it was.
RoundOK(r, n) ==
  /\ r \in RoundType
  /\ OwnShares(r)
  /\ LoadsFit => Left(r)
  /\ r.needsAdjustment => Cardinality(r.own) >= n
  /\ ~r.needsAdjustment => Settled(r)

\* A pass takes a peer out, or leaves the rounds as they are.
LEMMA PassStep ==
  ASSUME Ready, NEW n \in 0..(PeerCount - 1), NEW r, RoundOK(r, n), r.needsAdjustment
  PROVE  RoundOK(Pass(r)[PeerCount], n + 1)
  <1> DEFINE t == ThrottleOf(r)
             F(p) == Pass(r)[p]
             Same(p) == /\ F(p) = [r EXCEPT !.needsAdjustment = FALSE]
                        /\ \A q \in 1..p : q \notin r.own => Takes(q, t)
             More(p) == F(p).needsAdjustment /\ Cardinality(F(p).own) >= Cardinality(r.own) + 1
             OK(p) == /\ F(p) \in RoundType /\ OwnShares(F(p))
                      /\ LoadsFit => Left(F(p)) /\ EnoughFor(F(p), t)
                      /\ Same(p) \/ More(p)
             T == {p \in 0..PeerCount : OK(p)}
  <1>1. PeerCount \in Nat \ {0} /\ Peers = 1..PeerCount /\ IsFiniteSet(Peers)
    BY BandwidthAssumption, FS_Interval DEF Peers
  <1>2. r \in RoundType /\ OwnShares(r) /\ (LoadsFit => Left(r)) /\ t \in 0..Scale
    BY ThrottleIs DEF RoundOK
  <1>3. F(0) = [r EXCEPT !.needsAdjustment = FALSE]
        /\ \A p \in Peers : F(p) = Adjust(F(p - 1), t, p)
    BY <1>2, PassIs
  <1>4. ASSUME Left(r) PROVE EnoughFor(r, t)
    <2>1. ASSUME outgoingBandwidth # 0
          PROVE  t * Sum(Others(r.own)) <= Scale * r.bandwidth
      <3>1. Sum(Others(r.own)) \in Nat
        <4>1. r.own \in SUBSET Peers
          BY <1>2 DEF RoundType
        <4>2. Others(r.own) \in Amounts
          BY <4>1, PeerNumbers
        <4> QED BY <4>2, SumNat
      <3>2. Sum(Others(r.own)) <= r.dataTotal
        BY <1>4, <2>1 DEF Left
      <3> QED BY <1>2, <3>1, <3>2, ThrottleIs
    <2> QED BY <2>1 DEF EnoughFor
  <1> HIDE DEF F, t
  <1>5. OK(0)
    <2>1. /\ F(0) \in RoundType /\ F(0).own = r.own /\ F(0).limit = r.limit
          /\ F(0).bandwidth = r.bandwidth /\ F(0).dataTotal = r.dataTotal
      BY <1>2, <1>3 DEF RoundType
    <2>2. OwnShares(F(0)) /\ (Left(r) => Left(F(0))) /\ (EnoughFor(r, t) => EnoughFor(F(0), t))
      BY <1>2, <2>1 DEF OwnShares, Left, EnoughFor
    <2>3. Same(0)
      BY <1>3
    <2> QED BY <1>2, <1>4, <2>1, <2>2, <2>3
  <1>6. ASSUME NEW p \in 1..PeerCount, OK(p - 1) PROVE OK(p)
    <2> DEFINE a == F(p - 1)
               b == F(p)
    <2>1. p \in Peers /\ b = Adjust(a, t, p) /\ a \in RoundType /\ OwnShares(a)
      BY <1>1, <1>3, <1>6
    <2>2. /\ b \in RoundType /\ OwnShares(b)
          /\ \/ b = a /\ (p \in a.own \/ Takes(p, t))
             \/ p \notin a.own /\ b.own = a.own \cup {p} /\ b.needsAdjustment
          /\ Left(a) /\ EnoughFor(a, t) => Left(b) /\ EnoughFor(b, t)
      <3> HIDE DEF a, b
      <3> QED BY <1>2, <2>1, AdjustStep
    <2>3. Same(p - 1) \/ More(p - 1)
      BY <1>6
    <2>4. LoadsFit => Left(b) /\ EnoughFor(b, t)
      BY <1>6, <2>2
    <2>5. Same(p) \/ More(p)
      <3>1. CASE b = a /\ (p \in a.own \/ Takes(p, t)) /\ Same(p - 1)
        <4>1. a.own = r.own
          BY <1>2, <3>1 DEF RoundType
        <4>2. ASSUME NEW q \in 1..p, q \notin r.own PROVE Takes(q, t)
          <5>1. q \in 1..(p - 1) \/ q = p
            BY <1>1
          <5> QED BY <3>1, <4>1, <4>2, <5>1
        <4>3. F(p) = [r EXCEPT !.needsAdjustment = FALSE]
          BY <3>1
        <4> QED BY <4>2, <4>3
      <3>2. CASE b = a /\ More(p - 1)
        BY <3>2
      <3>3. CASE p \notin a.own /\ b.own = a.own \cup {p} /\ b.needsAdjustment
        <4>1. a.own \in SUBSET Peers /\ r.own \in SUBSET Peers
          BY <1>2, <2>1 DEF RoundType
        <4>2. IsFiniteSet(a.own)
          BY <1>1, <4>1, FS_Subset
        <4>3. Cardinality(b.own) = Cardinality(a.own) + 1
          BY <3>3, <4>2, FS_AddElement
        <4>4. Cardinality(a.own) >= Cardinality(r.own)
          <5>1. CASE Same(p - 1)
            <6>1. a.own = r.own
              BY <1>2, <5>1 DEF RoundType
            <6>2. Cardinality(r.own) \in Nat
              BY <4>2, <6>1, FS_CardinalityType
            <6> QED BY <6>1, <6>2
          <5>2. CASE More(p - 1)
            <6>1. Cardinality(r.own) \in Nat /\ Cardinality(a.own) \in Nat
              BY <1>1, <4>1, FS_Subset, FS_CardinalityType
            <6> QED BY <5>2, <6>1
          <5> QED BY <2>3, <5>1, <5>2
        <4>5. Cardinality(r.own) \in Nat /\ Cardinality(a.own) \in Nat
          BY <1>1, <4>1, FS_Subset, FS_CardinalityType
        <4>6. Cardinality(b.own) >= Cardinality(r.own) + 1
          BY <4>3, <4>4, <4>5
        <4> QED BY <3>3, <4>6
      <3> QED BY <2>2, <2>3, <3>1, <3>2, <3>3
    <2> QED BY <2>2, <2>4, <2>5
  <1>7. OK(PeerCount)
    <2> HIDE DEF OK
    <2>1. 0 \in T
      BY <1>1, <1>5
    <2>2. \A p \in 1..PeerCount : p - 1 \in T => p \in T
      BY <1>1, <1>6
    <2>3. \A p \in 0..PeerCount : p \in T
      <3> HIDE DEF T
      <3> QED BY <1>1, <2>1, <2>2, UpTo
    <2> QED BY <1>1, <2>3
  <1> DEFINE z == F(PeerCount)
  <1>8. CASE Same(PeerCount)
    <2>1. ~z.needsAdjustment /\ z.own = r.own /\ z.bandwidth = r.bandwidth /\ z.dataTotal = r.dataTotal
      BY <1>2, <1>8 DEF RoundType
    <2>2. ThrottleOf(z) = t
      BY <2>1 DEF ThrottleOf, t
    <2>3. Settled(z)
      BY <1>1, <1>8, <2>1, <2>2 DEF Settled
    <2>4. RoundOK(z, n + 1)
      BY <1>7, <2>1, <2>3 DEF RoundOK
    <2> QED BY <2>4 DEF F
  <1>9. CASE More(PeerCount)
    <2>1. Cardinality(r.own) >= n
      BY DEF RoundOK
    <2>2. Cardinality(r.own) \in 0..PeerCount
      BY <1>2, SumRemaining DEF RoundType
    <2>3. z.own \in SUBSET Peers
      BY <1>7 DEF RoundType
    <2>4. Cardinality(z.own) \in 0..PeerCount
      BY <2>3, SumRemaining
    <2>5. z.needsAdjustment /\ Cardinality(z.own) >= n + 1
      BY <1>1, <1>9, <2>1, <2>2, <2>4
    <2>6. RoundOK(z, n + 1)
      BY <1>7, <2>5 DEF RoundOK
    <2> QED BY <2>6 DEF F
  <1> QED BY <1>7, <1>8, <1>9

\* Nothing is given before the first pass.
LEMMA FirstRoundOK ==
  ASSUME Ready
  PROVE  RoundOK(FirstRound, 0)
  <1> DEFINE r == FirstRound
             sum == Sum(outgoingDataTotal)
  <1>1. /\ r.bandwidth = IF outgoingBandwidth = 0 THEN Word - 1 ELSE Allowance(outgoingBandwidth)
        /\ r.dataTotal = IF outgoingBandwidth = 0 THEN Word - 1 ELSE sum % Word
        /\ r.own = {} /\ r.limit = packetThrottleLimit
        /\ r.needsAdjustment = (\E p \in Peers : IncomingOf[p] # 0)
    BY DEF FirstRound
  <1>2. Word \in Nat \ {0} /\ outgoingBandwidth \in 0..(Word - 1) /\ elapsed \in Nat
    BY BandwidthAssumption DEF Ready
  <1>3. Allowance(outgoingBandwidth) \in 0..(Word - 1)
    BY <1>2, AllowanceIs
  <1>4. sum \in Nat
    BY PeerNumbers, SumNat
  <1>5. sum % Word \in 0..(Word - 1) /\ (sum < Word => sum % Word = sum)
    <2> HIDE DEF sum
    <2>1. sum % Word \in 0..sum /\ sum % Word < Word /\ (sum < Word => sum % Word = sum)
      BY <1>2, <1>4, ModLess
    <2> QED BY <1>2, <1>4, <2>1
  <1>6. r \in RoundType
    <2>1. r = [bandwidth |-> r.bandwidth, dataTotal |-> r.dataTotal, own |-> r.own,
               limit |-> r.limit, needsAdjustment |-> r.needsAdjustment]
      BY DEF FirstRound
    <2>2. r.bandwidth \in 0..(Word - 1) /\ r.dataTotal \in 0..(Word - 1)
      BY <1>1, <1>2, <1>3, <1>5
    <2>3. r.limit \in Amounts /\ r.own \in SUBSET Peers /\ r.needsAdjustment \in BOOLEAN
      BY <1>1 DEF Ready
    <2> HIDE DEF r
    <2> QED BY <2>1, <2>2, <2>3 DEF RoundType
  <1> HIDE DEF r
  <1>7. OwnShares(r)
    BY <1>1 DEF OwnShares
  <1>8. ASSUME LoadsFit PROVE Left(r)
    <2>1. Sum(Shares({})) = 0
      <3> DEFINE z == [p \in Peers |-> IF p \in {} THEN 0 ELSE 0]
      <3>1. Sum(z) = 0 * (PeerCount - Cardinality({}))
        BY SumRemaining
      <3>2. Shares({}) = z
        BY DEF Shares
      <3>3. PeerCount - Cardinality({}) \in Int
        BY FS_EmptySet, BandwidthAssumption
      <3> HIDE DEF z
      <3> QED BY <3>1, <3>2, <3>3
    <2>2. Others({}) = outgoingDataTotal
      BY DEF Others, Ready
    <2>3. sum < Word
      BY <1>8 DEF LoadsFit
    <2>4. sum % Word = sum
      BY <1>5, <2>3
    <2> HIDE DEF sum
    <2>5. Sum(Others({})) = sum
      BY <2>2 DEF sum
    <2>6. CASE outgoingBandwidth = 0
      BY <1>1, <2>6 DEF Left
    <2>7. CASE outgoingBandwidth # 0
      <3>1. r.bandwidth + 0 = Allowance(outgoingBandwidth) /\ r.dataTotal = sum /\ sum + 0 = sum
        BY <1>1, <1>3, <1>4, <2>4, <2>7
      <3>2. sum <= sum
        BY <1>4
      <3> QED BY <1>1, <2>1, <2>5, <2>7, <3>1, <3>2 DEF Left, sum
    <2> QED BY <2>6, <2>7
  <1>9. ~r.needsAdjustment => Settled(r)
    BY <1>1 DEF Settled, Takes
  <1>10. Cardinality(r.own) >= 0
    BY <1>1, FS_EmptySet
  <1> QED BY <1>6, <1>7, <1>8, <1>9, <1>10 DEF RoundOK, r

\* The rounds of the loop.
LEMMA NextRoundOK ==
  ASSUME Ready, NEW n \in 0..(PeerCount - 1), NEW r, RoundOK(r, n)
  PROVE  RoundOK(NextRound(r), n + 1) /\ RoundOK(NextRound(r), 0)
  <1>1. PeerCount \in Nat \ {0}
    BY BandwidthAssumption
  <1>2. RoundOK(NextRound(r), n + 1)
    <2>1. CASE r.needsAdjustment /\ Remaining(r) > 0
      BY <2>1, PassStep DEF NextRound
    <2>2. CASE ~r.needsAdjustment
      BY <2>2 DEF NextRound, RoundOK
    <2>3. CASE r.needsAdjustment /\ ~(Remaining(r) > 0)
      <3>1. Cardinality(r.own) \in 0..PeerCount
        BY SumRemaining DEF RoundOK, RoundType
      <3>2. Cardinality(r.own) >= n + 1
        BY <1>1, <2>3, <3>1 DEF Remaining
      <3>3. NextRound(r) = r
        BY <2>3 DEF NextRound
      <3> QED BY <3>2, <3>3 DEF RoundOK
    <2> QED BY <2>1, <2>2, <2>3
  <1>3. Cardinality(NextRound(r).own) \in 0..PeerCount
    BY <1>2, SumRemaining DEF RoundOK, RoundType
  <1>4. Cardinality(NextRound(r).own) >= 0
    BY <1>1, <1>3
  <1> QED BY <1>2, <1>4 DEF RoundOK

\* The loop goes from one round to the next.
LEMMA RoundsIs ==
  ASSUME Ready
  PROVE  \A n \in 0..PeerCount : RoundOK(Rounds[n], n)
  <1> DEFINE Good == {r \in RoundType : RoundOK(r, 0)}
             step == [n \in 1..PeerCount |-> [r \in Good |-> NextRound(r)]]
             Is(g) == g = [n \in 0..PeerCount |-> IF n = 0 THEN FirstRound ELSE NextRound(g[n - 1])]
             h == Rounds
             T == {n \in 0..PeerCount : RoundOK(h[n], n)}
  <1>1. PeerCount \in Nat \ {0} /\ 0 \in 0..(PeerCount - 1)
    BY BandwidthAssumption
  <1>2. FirstRound \in Good
    BY FirstRoundOK DEF RoundOK
  <1>3. \A r \in Good : NextRound(r) \in Good
    <2>1. ASSUME NEW r \in Good PROVE NextRound(r) \in Good
      <3>1. RoundOK(r, 0)
        OBVIOUS
      <3>2. RoundOK(NextRound(r), 0)
        BY <1>1, <3>1, NextRoundOK
      <3> QED BY <3>2 DEF RoundOK
    <2> QED BY <2>1
  <1>4. step \in [1..PeerCount -> [Good -> Good]]
    BY <1>3
  <1>5. PICK g : Steps(g, Good, FirstRound, step, PeerCount)
    <2> HIDE DEF step, Good
    <2> QED BY <1>1, <1>2, <1>4, Iterates
  <1>6. Is(g)
    <2>1. ASSUME NEW n \in 1..PeerCount PROVE g[n] = NextRound(g[n - 1])
      <3> HIDE DEF Good
      <3>1. n - 1 \in 0..PeerCount
        BY <1>1
      <3>2. g[n - 1] \in Good /\ g[n] = step[n][g[n - 1]]
        <4> HIDE DEF step
        <4> QED BY <1>5, <3>1 DEF Steps
      <3> QED BY <3>2
    <2>2. g = [n \in 0..PeerCount |-> g[n]] /\ g[0] = FirstRound
      BY <1>5 DEF Steps
    <2>3. ASSUME NEW n \in 0..PeerCount
          PROVE  g[n] = IF n = 0 THEN FirstRound ELSE NextRound(g[n - 1])
      <3>1. n = 0 \/ n \in 1..PeerCount
        BY <1>1
      <3> QED BY <1>1, <2>1, <2>2, <3>1
    <2> QED BY <2>2, <2>3
  <1>7. Rounds = CHOOSE f : Is(f)
    BY DEF Rounds
  <1>8. Is(Rounds)
    <2> HIDE DEF Is
    <2> QED BY <1>6, <1>7
  <1>9. h = [n \in 0..PeerCount |-> IF n = 0 THEN FirstRound ELSE NextRound(h[n - 1])]
    BY <1>8
  <1> HIDE DEF h
  <1>10. 0 \in T
    <2>1. h[0] = FirstRound /\ 0 \in 0..PeerCount
      BY <1>1, <1>9
    <2> QED BY <2>1, FirstRoundOK
  <1>11. ASSUME NEW n \in 1..PeerCount, n - 1 \in T PROVE n \in T
    <2>1. n \in 0..PeerCount /\ n # 0 /\ n - 1 \in 0..(PeerCount - 1) /\ (n - 1) + 1 = n
      BY <1>1
    <2>2. h[n] = NextRound(h[n - 1])
      BY <1>9, <2>1
    <2> DEFINE m == n - 1
    <2>3. m \in 0..(PeerCount - 1) /\ m + 1 = n /\ RoundOK(h[m], m)
      BY <1>11, <2>1
    <2> HIDE DEF m
    <2>4. RoundOK(NextRound(h[m]), m + 1)
      BY <2>3, NextRoundOK
    <2> QED BY <2>1, <2>2, <2>3, <2>4 DEF m
  <1>12. \A n \in 0..PeerCount : n \in T
    <2> HIDE DEF T
    <2> QED BY <1>1, <1>10, <1>11, UpTo
  <1> QED BY <1>12 DEF h

\* What the loop ends with.
LEMMA LastRoundIs ==
  ASSUME Ready
  PROVE  /\ LastRound \in RoundType
         /\ OwnShares(LastRound)
         /\ LoadsFit => Left(LastRound)
         /\ Settled(LastRound)
  <1>1. PeerCount \in 0..PeerCount
    BY BandwidthAssumption
  <1>2. RoundOK(LastRound, PeerCount)
    BY <1>1, RoundsIs DEF LastRound
  <1>3. ASSUME LastRound.needsAdjustment PROVE Settled(LastRound)
    <2>1. LastRound.own \in SUBSET Peers
      BY <1>2 DEF RoundOK, RoundType
    <2>2. Cardinality(LastRound.own) \in 0..PeerCount
          /\ (Cardinality(LastRound.own) = PeerCount => LastRound.own = Peers)
      BY <2>1, SumRemaining
    <2>3. Cardinality(LastRound.own) >= PeerCount
      BY <1>2, <1>3 DEF RoundOK
    <2>4. LastRound.own = Peers
      BY <1>1, <2>2, <2>3
    <2> QED BY <2>4 DEF Settled
  <1> QED BY <1>2, <1>3 DEF RoundOK

-----------------------------------------------------------------------------
(* The limits the loop gives.                                              *)

\* A limit of one's own lets through no more than the share, or is 1.
LEMMA OwnLimitIs ==
  ASSUME Ready, NEW p \in Peers, Share(p) < outgoingDataTotal[p]
  PROVE  /\ OwnLimit(p) \in 1..Scale
         /\ OwnLimit(p) # 1 => outgoingDataTotal[p] * OwnLimit(p) <= Scale * Share(p)
  <1> DEFINE s == Share(p)
             d == outgoingDataTotal[p]
             n == Times(s, Scale)
             q == n \div d
  <1>1. Scale \in Nat \ {0} /\ s \in Nat /\ d \in Nat \ {0} /\ s < d
    BY PeerNumbers, BandwidthAssumption
  <1>2. OwnLimit(p) = IF q = 0 THEN 1 ELSE q
    BY DEF OwnLimit
  <1> HIDE DEF s, d
  <1>3. s * Scale \in Nat /\ s * Scale = Scale * s
    BY <1>1
  <1>4. n \in 0..(s * Scale)
    BY <1>1, TimesIs
  <1> HIDE DEF n
  <1>5. n \in Nat /\ n <= Scale * s
    BY <1>3, <1>4
  <1>6. q \in Nat /\ d * q <= n
    BY <1>1, <1>5, DivBelow
  <1> HIDE DEF q
  <1>7. d * q <= Scale * s
    <2>1. d * q \in Nat
      BY <1>1, <1>6
    <2> QED BY <1>3, <1>5, <1>6, <2>1
  <1>8. q <= Scale
    <2>1. Scale * s < d * Scale
      BY <1>1
    <2>2. d * q < d * Scale
      <3>1. d * q \in Nat /\ d * Scale \in Nat
        BY <1>1, <1>6
      <3> QED BY <1>3, <1>7, <2>1, <3>1
    <2>3. q < Scale
      BY <1>1, <1>6, <2>2, FactorLess
    <2> QED BY <1>1, <1>6, <2>3
  <1> QED BY <1>1, <1>2, <1>6, <1>7, <1>8 DEF s, d

\* The limits are parts of the scale.
LEMMA LimitsIs ==
  ASSUME Ready, NEW p \in Peers
  PROVE  LimitsOf(LastRound)[p] \in 0..Scale
  <1>1. Scale \in Nat \ {0}
    BY BandwidthAssumption
  <1>2. LimitsOf(LastRound)[p]
          = IF p \in LastRound.own THEN LastRound.limit[p] ELSE ThrottleOf(LastRound)
    BY DEF LimitsOf
  <1>3. CASE p \in LastRound.own
    <2>1. Share(p) < outgoingDataTotal[p] /\ LastRound.limit[p] = OwnLimit(p)
      BY <1>3, LastRoundIs DEF OwnShares
    <2> QED BY <1>1, <1>2, <1>3, <2>1, OwnLimitIs
  <1>4. CASE p \notin LastRound.own
    BY <1>2, <1>4, LastRoundIs, ThrottleIs
  <1> QED BY <1>3, <1>4

\* What a peer would be sent with its limit, if that is not the least one.
Sends(limits, p) ==
  IF limits[p] = 1 THEN 0 ELSE (limits[p] * outgoingDataTotal[p]) \div Scale

\* A peer with a share of its own is sent no more than its share.
LEMMA SendsShare ==
  ASSUME Ready, NEW p \in LastRound.own
  PROVE  Sends(LimitsOf(LastRound), p) \in 0..Share(p)
  <1> DEFINE s == Share(p)
             d == outgoingDataTotal[p]
             k == OwnLimit(p)
  <1>1. LastRound.own \in SUBSET Peers
    BY LastRoundIs DEF RoundType
  <1>2. p \in Peers /\ s < d /\ LimitsOf(LastRound)[p] = k
    BY <1>1, LastRoundIs DEF OwnShares, LimitsOf
  <1>3. Scale \in Nat \ {0} /\ s \in Nat /\ d \in Nat
    BY <1>2, PeerNumbers, BandwidthAssumption
  <1>4. k \in 1..Scale /\ (k # 1 => d * k <= Scale * s)
    BY <1>2, OwnLimitIs
  <1>5. Sends(LimitsOf(LastRound), p) = IF k = 1 THEN 0 ELSE (k * d) \div Scale
    BY <1>2 DEF Sends
  <1> HIDE DEF s, d, k
  <1>6. ASSUME k # 1 PROVE (k * d) \div Scale \in 0..s
    <2> DEFINE n == k * d
    <2>1. n \in Nat /\ n = d * k
      BY <1>3, <1>4
    <2>2. n <= Scale * s
      BY <1>4, <1>6, <2>1
    <2> HIDE DEF n
    <2> DEFINE q == n \div Scale
    <2>3. q \in Nat /\ Scale * q <= n
      BY <1>3, <2>1, DivBelow
    <2> HIDE DEF q
    <2>4. CASE q > s
      <3>1. Scale * q >= Scale * (s + 1) /\ Scale * (s + 1) = Scale * s + Scale
        BY <1>3, <2>3, <2>4
      <3>2. Scale * s \in Nat /\ Scale * q \in Nat
        BY <1>3, <2>3
      <3> QED BY <1>3, <2>1, <2>2, <2>3, <3>1, <3>2
    <2> QED BY <1>3, <2>3, <2>4 DEF q, n
  <1> QED BY <1>3, <1>5, <1>6 DEF s

\* A peer that is left is sent its part with the throttle of all of them.
LEMMA SendsPart ==
  ASSUME Ready, NEW p \in Peers \ LastRound.own
  PROVE  /\ Sends(LimitsOf(LastRound), p) \in Nat
         /\ Scale * Sends(LimitsOf(LastRound), p)
              <= ThrottleOf(LastRound) * outgoingDataTotal[p]
         /\ IncomingOf[p] # 0 /\ Scale * outgoingDataTotal[p] < Word =>
              Sends(LimitsOf(LastRound), p) <= Share(p)
  <1> DEFINE t == ThrottleOf(LastRound)
             d == outgoingDataTotal[p]
             n == t * d
             q == n \div Scale
             e == Sends(LimitsOf(LastRound), p)
  <1>1. t \in 0..Scale
    BY LastRoundIs, ThrottleIs
  <1>2. Scale \in Nat \ {0} /\ d \in Nat /\ Share(p) \in Nat /\ Word \in Nat
    BY PeerNumbers, BandwidthAssumption
  <1>3. LimitsOf(LastRound)[p] = t
    BY DEF LimitsOf
  <1>4. e = IF t = 1 THEN 0 ELSE q
    BY <1>3 DEF Sends
  <1>5. Takes(p, t)
    BY LastRoundIs DEF Settled
  <1> HIDE DEF t, d, e
  <1>6. n \in Nat /\ n <= Scale * d
    BY <1>1, <1>2
  <1>7. ASSUME IncomingOf[p] # 0, Scale * d < Word PROVE q <= Share(p)
    <2>1. t * d < Word
      <3>1. t * d \in Nat /\ Scale * d \in Nat
        BY <1>1, <1>2
      <3> QED BY <1>2, <1>6, <1>7, <3>1
    <2>2. Times(t, d) = t * d
      BY <1>1, <1>2, <2>1, TimesIs
    <2> QED BY <1>5, <1>7, <2>2 DEF Takes, d
  <1> HIDE DEF n
  <1>8. q \in Nat /\ Scale * q <= n
    BY <1>2, <1>6, DivBelow
  <1> HIDE DEF q
  <1>9. e \in Nat /\ Scale * e <= n /\ e <= q
    BY <1>2, <1>4, <1>6, <1>8
  <1> QED BY <1>2, <1>7, <1>8, <1>9 DEF e, n, t, d

\* Together they are sent what the host may send.
LEMMA SendsWithin ==
  ASSUME Ready, LoadsFit, outgoingBandwidth # 0
  PROVE  Sum([p \in Peers |-> Sends(LimitsOf(LastRound), p)]) <= Exact(outgoingBandwidth)
  <1> DEFINE own == LastRound.own
             t == ThrottleOf(LastRound)
             E == [p \in Peers |-> Sends(LimitsOf(LastRound), p)]
             f == Shares(own)
             g == [p \in Peers |-> IF p \in own THEN 0 ELSE E[p]]
             h == [p \in Peers |-> f[p] + g[p]]
             k == Others(own)
             b == LastRound.bandwidth
  <1>1. /\ own \in SUBSET Peers /\ b \in Nat
        /\ Scale \in Nat \ {0} /\ t \in Nat
    <2>1. LastRound \in RoundType /\ Word \in Nat /\ Scale \in Nat \ {0} /\ t \in 0..Scale
      BY LastRoundIs, ThrottleIs, BandwidthAssumption
    <2> QED BY <2>1 DEF RoundType
  <1>2. f \in Amounts /\ k \in Amounts
    BY <1>1, PeerNumbers
  <1>3. ASSUME NEW p \in own PROVE E[p] \in Nat /\ E[p] <= f[p]
    BY <1>1, SendsShare, PeerNumbers DEF Shares
  <1>4. ASSUME NEW p \in Peers \ own
        PROVE  E[p] \in Nat /\ Scale * E[p] <= t * k[p]
    BY <1>1, SendsPart DEF Others
  <1>5. E \in Amounts
    BY <1>3, <1>4 DEF Amounts
  <1>6. b + Sum(f) = Allowance(outgoingBandwidth) /\ t * Sum(k) <= Scale * b
    <2>1. Left(LastRound)
      BY LastRoundIs
    <2>2. Sum(k) \in Nat /\ Sum(k) <= LastRound.dataTotal
      BY <1>2, <2>1, SumNat DEF Left
    <2>3. t * Sum(k) <= Scale * b
      BY <2>2, LastRoundIs, ThrottleIs
    <2> QED BY <2>1, <2>3 DEF Left
  <1>7. Allowance(outgoingBandwidth) <= Exact(outgoingBandwidth)
        /\ Allowance(outgoingBandwidth) \in Nat /\ Exact(outgoingBandwidth) \in Nat
    BY AllowanceIs, BandwidthAssumption DEF Ready
  <1> HIDE DEF E, f, k, b, t, own
  <1>8. g \in Amounts
    BY <1>5 DEF Amounts
  <1>9. h \in Amounts
    BY <1>2, <1>8 DEF Amounts
  <1>10. \A p \in Peers : h[p] = f[p] + g[p]
    OBVIOUS
  <1>11. \A p \in Peers : 1 * E[p] <= 1 * h[p]
    <2>1. ASSUME NEW p \in Peers PROVE 1 * E[p] <= 1 * h[p]
      <3>1. E[p] \in Nat /\ f[p] \in Nat
        BY <1>2, <1>5 DEF Amounts
      <3>2. CASE p \in own
        BY <1>3, <3>1, <3>2
      <3>3. CASE p \notin own
        BY <3>1, <3>3
      <3> QED BY <3>2, <3>3
    <2> QED BY <2>1
  <1>12. \A p \in Peers : Scale * g[p] <= t * k[p]
    <2>1. ASSUME NEW p \in Peers PROVE Scale * g[p] <= t * k[p]
      <3>1. k[p] \in Nat /\ t * k[p] >= 0
        BY <1>1, <1>2 DEF Amounts
      <3>2. CASE p \in own
        BY <1>1, <3>1, <3>2
      <3>3. CASE p \notin own
        BY <1>4, <3>3
      <3> QED BY <3>2, <3>3
    <2> QED BY <2>1
  <1> HIDE DEF g, h
  <1>13. Sum(E) \in Nat /\ Sum(f) \in Nat /\ Sum(g) \in Nat /\ Sum(h) \in Nat /\ Sum(k) \in Nat
    BY <1>2, <1>5, <1>8, <1>9, SumNat
  <1>14. 1 * Sum(E) <= 1 * Sum(h)
    BY <1>5, <1>9, <1>11, SumScaled
  <1>15. Sum(h) = Sum(f) + Sum(g)
    BY <1>2, <1>8, <1>9, <1>10, SumAdd
  <1>16. Scale * Sum(g) <= t * Sum(k)
    BY <1>1, <1>2, <1>8, <1>12, SumScaled
  <1>17. Sum(g) <= b
    <2> DEFINE x == Sum(g)
               y == Sum(k)
    <2>1. x \in Nat /\ y \in Nat /\ Scale * x <= t * y /\ t * y <= Scale * b
      BY <1>6, <1>13, <1>16
    <2> HIDE DEF x, y
    <2>2. CASE x > b
      <3>1. Scale * x >= Scale * (b + 1) /\ Scale * (b + 1) = Scale * b + Scale
        BY <1>1, <2>1, <2>2
      <3>2. Scale * x \in Nat /\ t * y \in Nat /\ Scale * b \in Nat
        BY <1>1, <2>1
      <3> QED BY <1>1, <2>1, <3>1, <3>2
    <2> QED BY <1>1, <2>1, <2>2 DEF x
  <1>18. Sum(E) <= Exact(outgoingBandwidth)
    BY <1>1, <1>6, <1>7, <1>13, <1>14, <1>15, <1>17
  <1> QED BY <1>18 DEF E

\* A peer is limited for a cause.
LEMMA LimitedForCause ==
  ASSUME Ready, LoadsFit, BandwidthsFit, NEW p \in Peers, LimitsOf(LastRound)[p] < Scale
  PROVE  \/ IncomingOf[p] # 0 /\ outgoingDataTotal[p] > Exact(IncomingOf[p])
         \/ outgoingBandwidth # 0 /\ Sum(outgoingDataTotal) > Exact(outgoingBandwidth)
  <1> DEFINE r == LastRound
  <1>1. CASE p \in r.own
    <2>1. IncomingOf[p] # 0 /\ Share(p) < outgoingDataTotal[p]
      BY <1>1, LastRoundIs DEF OwnShares
    <2>2. IncomingOf[p] \in 0..(Word - 1) /\ IncomingOf[p] * elapsed < Word /\ elapsed \in Nat
      BY BandwidthAssumption DEF BandwidthsFit, Ready
    <2>3. Share(p) = Exact(IncomingOf[p]) /\ Exact(IncomingOf[p]) \in Nat
      BY <2>2, AllowanceIs DEF Share
    <2>4. outgoingDataTotal[p] \in Nat
      BY PeerNumbers
    <2> QED BY <2>1, <2>3, <2>4
  <1>2. CASE p \notin r.own
    <2>1. ThrottleOf(r) < Scale
      BY <1>2 DEF LimitsOf
    <2>2. r.bandwidth < r.dataTotal
      BY <2>1, LastRoundIs, ThrottleIs
    <2>3. r.bandwidth \in Nat /\ r.dataTotal \in Nat /\ r.own \in SUBSET Peers
      BY LastRoundIs, BandwidthAssumption DEF RoundType
    <2>4. Left(r)
      BY LastRoundIs
    <2>5. Sum(Shares(r.own)) \in Nat
      <3>1. Shares(r.own) \in Amounts
        BY <2>3, PeerNumbers
      <3> QED BY <3>1, SumNat
    <2>6. outgoingBandwidth # 0
      BY <2>2, <2>3, <2>4 DEF Left
    <2>7. /\ r.bandwidth + Sum(Shares(r.own)) = Allowance(outgoingBandwidth)
          /\ r.dataTotal + Sum(Shares(r.own)) = Sum(outgoingDataTotal)
      BY <2>4, <2>6 DEF Left
    <2>8. Allowance(outgoingBandwidth) = Exact(outgoingBandwidth)
      BY AllowanceIs DEF Ready, BandwidthsFit
    <2>9. Sum(outgoingDataTotal) > Allowance(outgoingBandwidth)
      BY <2>2, <2>3, <2>5, <2>7
    <2> QED BY <2>6, <2>8, <2>9
  <1> QED BY <1>1, <1>2

-----------------------------------------------------------------------------
(* The rounds of the second loop.                                          *)

DivisionType ==
  [own : SUBSET Peers, needsAdjustment : BOOLEAN, bandwidth : 0..(Word - 1), part : 0..(Word - 1)]

\* The bandwidths of the peers that are told their own.
Told(own) == [p \in Peers |-> IF p \in own THEN OutgoingOf[p] ELSE 0]

\* The part of an even division.
EvenPart == incomingBandwidth \div PeerCount

\* What was given is taken from the bandwidth; what is left is enough for an even
\* part for each that is left.
Divided(v) ==
  /\ v.bandwidth + Sum(Told(v.own)) = incomingBandwidth
  /\ EvenPart * Remaining(v) <= v.bandwidth

\* What is left is enough for the part of the pass.
PartFits(v) ==
  /\ v.part * Remaining(v) <= v.bandwidth
  /\ EvenPart <= v.part

\* A round of the loop: as RoundOK.
DivisionOK(v, n) ==
  /\ v \in DivisionType
  /\ Divided(v)
  /\ v.needsAdjustment => Cardinality(v.own) >= n
  /\ ~v.needsAdjustment => PartFits(v)

\* The numbers of peers that are left.
LEMMA RemainingIs ==
  ASSUME NEW v, v.own \in SUBSET Peers
  PROVE  /\ Remaining(v) \in 0..PeerCount
         /\ Remaining(v) = 0 => v.own = Peers
         /\ \A p \in Peers \ v.own : \A w :
              w.own = v.own \cup {p} => /\ Remaining(w) = Remaining(v) - 1
                                        /\ Remaining(v) > 0
                                        /\ Cardinality(w.own) = Cardinality(v.own) + 1
  <1>1. PeerCount \in Nat \ {0} /\ IsFiniteSet(Peers)
    BY BandwidthAssumption, FS_Interval DEF Peers
  <1>2. /\ Cardinality(v.own) \in 0..PeerCount
        /\ Cardinality(v.own) = PeerCount => v.own = Peers
    BY SumRemaining
  <1>3. ASSUME NEW p \in Peers \ v.own, NEW w, w.own = v.own \cup {p}
        PROVE  /\ Remaining(w) = Remaining(v) - 1
               /\ Remaining(v) > 0
               /\ Cardinality(w.own) = Cardinality(v.own) + 1
    <2>1. IsFiniteSet(v.own)
      BY <1>1, FS_Subset
    <2>2. Cardinality(w.own) = Cardinality(v.own) + 1
      BY <1>3, <2>1, FS_AddElement
    <2>3. w.own \in SUBSET Peers
      BY <1>3
    <2>4. Cardinality(w.own) \in 0..PeerCount
      BY <2>3, SumRemaining
    <2> QED BY <1>1, <1>2, <2>2, <2>4 DEF Remaining
  <1> QED BY <1>1, <1>2, <1>3 DEF Remaining

\* One more peer that is told its own bandwidth.
LEMMA OneMoreTold ==
  ASSUME NEW own \in SUBSET Peers
  PROVE  /\ Sum(Told(own)) \in Nat
         /\ \A p \in Peers \ own : Sum(Told(own \cup {p})) = Sum(Told(own)) + OutgoingOf[p]
  <1>1. \A p \in Peers : OutgoingOf[p] \in Nat
    BY BandwidthAssumption
  <1>2. \A o \in SUBSET Peers : Told(o) \in Amounts
    BY <1>1 DEF Told, Amounts
  <1>3. ASSUME NEW p \in Peers \ own
        PROVE  Sum(Told(own \cup {p})) = Sum(Told(own)) + OutgoingOf[p]
    <2> DEFINE f == Told(own)
               g == Told(own \cup {p})
    <2>1. f \in Amounts /\ g \in Amounts
      BY <1>2
    <2>2. (\A q \in Peers : q # p => g[q] = f[q]) /\ f[p] = 0 /\ g[p] = OutgoingOf[p]
      BY DEF Told
    <2> HIDE DEF f, g
    <2>3. Sum(g) = Sum(f) - f[p] + g[p] /\ Sum(f) \in Nat
      BY <2>1, <2>2, SumChange, SumNat
    <2> QED BY <1>1, <2>2, <2>3 DEF f, g
  <1> QED BY <1>2, <1>3, SumNat

\* A peer is left as it is, or it is told its own bandwidth, that is no more than the
\* part of the pass.
LEMMA AnnounceStep ==
  ASSUME NEW v \in DivisionType, Divided(v), PartFits(v), incomingBandwidth \in 0..(Word - 1),
         NEW p \in Peers, NEW a, a = Announce(v, p)
  PROVE  /\ a \in DivisionType /\ Divided(a) /\ PartFits(a)
         /\ \/ a = v
            \/ a.needsAdjustment /\ Cardinality(a.own) >= Cardinality(v.own) + 1
         /\ Cardinality(a.own) >= Cardinality(v.own)
  <1> DEFINE o == OutgoingOf[p]
             same == p \in v.own \/ (o > 0 /\ o >= v.part)
             x == v.part
             b == v.bandwidth
             m == Remaining(v)
             e == EvenPart
             c == Cardinality(v.own)
  <1>1. v.own \in SUBSET Peers /\ x \in 0..(Word - 1) /\ b \in 0..(Word - 1)
    BY DEF DivisionType
  <1>2. c \in 0..PeerCount /\ PeerCount \in Nat \ {0} /\ Word \in Nat \ {0} /\ o \in 0..(Word - 1)
    BY <1>1, SumRemaining, BandwidthAssumption
  <1>3. CASE same
    <2>1. a = v
      BY <1>3 DEF Announce
    <2> QED BY <1>2, <2>1
  <1>4. CASE ~same
    <2>1. a = [v EXCEPT !.own = v.own \cup {p}, !.needsAdjustment = TRUE,
                        !.bandwidth = Less(v.bandwidth, o)]
      BY <1>4 DEF Announce
    <2>2. /\ a.own = v.own \cup {p} /\ a.needsAdjustment = TRUE
          /\ a.bandwidth = Less(b, o) /\ a.part = x
          /\ a = [own |-> a.own, needsAdjustment |-> a.needsAdjustment,
                  bandwidth |-> a.bandwidth, part |-> a.part]
      BY <2>1 DEF DivisionType
    <2>3. p \in Peers \ v.own /\ o <= x
      BY <1>1, <1>2, <1>4
    <2>4. Remaining(a) = m - 1 /\ m > 0 /\ Cardinality(a.own) = c + 1 /\ m \in 0..PeerCount
      BY <1>1, <2>2, <2>3, RemainingIs
    <2>5. Sum(Told(a.own)) = Sum(Told(v.own)) + o /\ Sum(Told(v.own)) \in Nat
      BY <1>1, <2>2, <2>3, OneMoreTold
    <2>6. x * m <= b /\ e <= x
      BY DEF PartFits
    <2>7. e \in Nat
      <3>1. incomingBandwidth \in Nat
        BY <1>2
      <3> QED BY <1>2, <3>1, DivNat DEF EvenPart
    <2>8. b + Sum(Told(v.own)) = incomingBandwidth
      BY DEF Divided
    <2> HIDE DEF o, x, b, m, e, c
    <2>9. x * (m - 1) <= b - o /\ o <= b
      <3>1. x * (m - 1) = x * m - x /\ x * (m - 1) >= 0
        BY <1>1, <1>2, <2>4
      <3>2. x * m \in Nat
        BY <1>1, <1>2, <2>4
      <3> QED BY <1>1, <1>2, <2>3, <2>6, <3>1, <3>2
    <2>10. e * (m - 1) <= x * (m - 1)
      BY <1>1, <2>4, <2>6, <2>7
    <2>11. a.bandwidth = b - o
      BY <1>1, <1>2, <2>2, <2>9, LessIs
    <2>12. a.bandwidth \in 0..(Word - 1)
      BY <1>1, <1>2, <2>9, <2>11
    <2>13. a \in DivisionType
      BY <1>1, <2>2, <2>3, <2>12 DEF DivisionType
    <2>14. e * (m - 1) <= b - o
      <3>1. e * (m - 1) \in Int /\ x * (m - 1) \in Int
        BY <1>1, <2>4, <2>7
      <3> QED BY <1>1, <1>2, <2>9, <2>10, <3>1
    <2>15. Divided(a)
      <3>1. (b - o) + (Sum(Told(v.own)) + o) = incomingBandwidth
        BY <1>1, <1>2, <2>5, <2>8
      <3> QED BY <2>4, <2>5, <2>11, <2>14, <3>1 DEF Divided, e
    <2>16. PartFits(a)
      BY <2>2, <2>4, <2>6, <2>9, <2>11 DEF PartFits, e
    <2> QED BY <1>1, <1>2, <2>2, <2>4, <2>13, <2>15, <2>16 DEF c
  <1> QED BY <1>3, <1>4

\* A pass goes from one peer to the next and ends with one more peer told its own
\* bandwidth, or with what is left as it was.
LEMMA AnnouncePassIs ==
  ASSUME incomingBandwidth \in 0..(Word - 1), NEW n \in 0..(PeerCount - 1), NEW v,
         DivisionOK(v, n), v.needsAdjustment, Remaining(v) > 0
  PROVE  DivisionOK(AnnouncePass(v)[PeerCount], n + 1)
  <1> DEFINE base == [v EXCEPT !.needsAdjustment = FALSE,
                               !.part = v.bandwidth \div Remaining(v)]
             Good == {a \in DivisionType : Divided(a) /\ PartFits(a)}
             step == [p \in 1..PeerCount |-> [a \in Good |-> Announce(a, p)]]
             Is(g) == g = [p \in 0..PeerCount |-> IF p = 0 THEN base ELSE Announce(g[p - 1], p)]
             h == AnnouncePass(v)
             c == Cardinality(v.own)
             OK(p) == /\ h[p] \in Good
                      /\ h[p].needsAdjustment => Cardinality(h[p].own) >= c + 1
                      /\ Cardinality(h[p].own) >= c
             T == {p \in 0..PeerCount : OK(p)}
  <1>1. PeerCount \in Nat \ {0} /\ Peers = 1..PeerCount /\ Word \in Nat \ {0}
    BY BandwidthAssumption DEF Peers
  <1>2. v \in DivisionType /\ Divided(v) /\ v.own \in SUBSET Peers /\ v.bandwidth \in 0..(Word - 1)
    BY DEF DivisionOK, DivisionType
  <1>3. base = [own |-> v.own, needsAdjustment |-> FALSE, bandwidth |-> v.bandwidth,
                part |-> v.bandwidth \div Remaining(v)]
    <2> DEFINE x == v.bandwidth \div Remaining(v)
    <2>1. base = [v EXCEPT !.needsAdjustment = FALSE, !.part = x]
      OBVIOUS
    <2> HIDE DEF x, base
    <2>2. base.own = v.own /\ base.needsAdjustment = FALSE /\ base.bandwidth = v.bandwidth
          /\ base.part = x
      BY <1>2, <2>1 DEF DivisionType
    <2>3. base = [own |-> base.own, needsAdjustment |-> base.needsAdjustment,
                  bandwidth |-> base.bandwidth, part |-> base.part]
      BY <1>2, <2>1 DEF DivisionType
    <2> QED BY <2>2, <2>3 DEF x
  <1>4. base \in Good
    <2> DEFINE b == v.bandwidth
               m == Remaining(v)
               x == b \div m
               e == EvenPart
    <2>1. m \in Nat \ {0} /\ b \in Nat
      BY <1>1, <1>2, RemainingIs
    <2>2. Remaining(base) = m
      BY <1>3 DEF Remaining
    <2>3. e * m <= b
      BY <1>2 DEF Divided
    <2>4. e \in Nat
      <3>1. incomingBandwidth \in Nat
        BY <1>1
      <3> QED BY <1>1, <3>1, DivNat DEF EvenPart
    <2>5. base.own = v.own /\ base.bandwidth = b /\ base.part = x
      BY <1>3
    <2> HIDE DEF b, m, e
    <2>6. x \in Nat /\ m * x <= b /\ x <= b
      BY <2>1, DivBelow
    <2>7. b < m * x + m
      <3>1. b \in Int
        BY <2>1
      <3> QED BY <2>1, <3>1, DivMonotone
    <2> HIDE DEF x
    <2>8. e <= x
      <3>1. CASE e > x
        <4>1. e * m >= (x + 1) * m /\ (x + 1) * m = m * x + m
          BY <2>1, <2>4, <2>6, <3>1
        <4>2. e * m \in Nat /\ m * x \in Nat
          BY <2>1, <2>4, <2>6
        <4> QED BY <2>1, <2>3, <2>7, <4>1, <4>2
      <3> QED BY <2>4, <2>6, <3>1
    <2>9. x * m <= b
      BY <2>1, <2>6
    <2>10. PartFits(base)
      BY <2>2, <2>5, <2>8, <2>9 DEF PartFits, e
    <2>11. Divided(base)
      BY <1>2, <2>2, <2>5 DEF Divided, b, m
    <2>12. x \in 0..(Word - 1)
      BY <1>1, <1>2, <2>6 DEF b
    <2>13. base \in DivisionType
      BY <1>2, <1>3, <2>5, <2>12 DEF DivisionType
    <2> QED BY <2>10, <2>11, <2>13
  <1>5. \A p \in 1..PeerCount : \A a \in Good : Announce(a, p) \in Good
    BY <1>1, AnnounceStep
  <1>6. step \in [1..PeerCount -> [Good -> Good]]
    BY <1>5
  <1>7. PICK g : Steps(g, Good, base, step, PeerCount)
    <2> HIDE DEF step, Good, base
    <2> QED BY <1>1, <1>4, <1>6, Iterates
  <1>8. Is(g)
    <2> HIDE DEF base
    <2>1. ASSUME NEW p \in 1..PeerCount PROVE g[p] = Announce(g[p - 1], p)
      <3> HIDE DEF Good
      <3>1. p - 1 \in 0..PeerCount
        BY <1>1
      <3>2. g[p - 1] \in Good /\ g[p] = step[p][g[p - 1]]
        <4> HIDE DEF step
        <4> QED BY <1>7, <3>1 DEF Steps
      <3> QED BY <3>2
    <2>2. g = [p \in 0..PeerCount |-> g[p]] /\ g[0] = base
      BY <1>7 DEF Steps
    <2>3. ASSUME NEW p \in 0..PeerCount
          PROVE  g[p] = IF p = 0 THEN base ELSE Announce(g[p - 1], p)
      <3>1. p = 0 \/ p \in 1..PeerCount
        BY <1>1
      <3> QED BY <1>1, <2>1, <2>2, <3>1
    <2> QED BY <2>2, <2>3
  <1>9. AnnouncePass(v) = CHOOSE f : Is(f)
    BY DEF AnnouncePass
  <1>10. Is(AnnouncePass(v))
    <2> HIDE DEF Is
    <2> QED BY <1>8, <1>9
  <1>11. h = [p \in 0..PeerCount |-> IF p = 0 THEN base ELSE Announce(h[p - 1], p)]
    BY <1>10
  <1>12. c \in 0..PeerCount
    BY <1>2, SumRemaining
  <1> HIDE DEF h
  <1>13. 0 \in T
    <2>1. 0 \in 0..PeerCount
      BY <1>1
    <2>2. h[0] = base
      BY <1>11, <2>1
    <2>3. base.own = v.own /\ ~base.needsAdjustment
      BY <1>3
    <2> HIDE DEF base, Good
    <2> QED BY <1>4, <1>12, <2>1, <2>2, <2>3
  <1>14. ASSUME NEW p \in 1..PeerCount, p - 1 \in T PROVE p \in T
    <2> DEFINE a == h[p - 1]
               b == h[p]
    <2>1. p \in 0..PeerCount /\ p # 0 /\ p \in Peers
      BY <1>1
    <2>2. b = Announce(a, p)
      <3> HIDE DEF base
      <3> QED BY <1>11, <2>1
    <2>3. a \in Good /\ Cardinality(a.own) >= c
          /\ (a.needsAdjustment => Cardinality(a.own) >= c + 1)
      BY <1>14
    <2>4. a.own \in SUBSET Peers
      BY <2>3 DEF DivisionType
    <2>5. Cardinality(a.own) \in 0..PeerCount
      BY <2>4, SumRemaining
    <2> HIDE DEF a, b
    <2>6. /\ b \in DivisionType /\ Divided(b) /\ PartFits(b)
          /\ \/ b = a
             \/ b.needsAdjustment /\ Cardinality(b.own) >= Cardinality(a.own) + 1
          /\ Cardinality(b.own) >= Cardinality(a.own)
      BY <2>1, <2>2, <2>3, AnnounceStep
    <2>7. b.own \in SUBSET Peers
      BY <2>6 DEF DivisionType
    <2>8. Cardinality(b.own) \in 0..PeerCount
      BY <2>7, SumRemaining
    <2> HIDE DEF c
    <2>9. (b.needsAdjustment => Cardinality(b.own) >= c + 1) /\ Cardinality(b.own) >= c
      BY <1>1, <1>12, <2>3, <2>5, <2>6, <2>8
    <2> QED BY <2>1, <2>6, <2>9 DEF b
  <1>15. OK(PeerCount)
    <2>1. \A p \in 0..PeerCount : p \in T
      <3> HIDE DEF T
      <3> QED BY <1>1, <1>13, <1>14, UpTo
    <2> QED BY <1>1, <2>1
  <1>16. c >= n
    BY DEF DivisionOK
  <1>17. h[PeerCount].own \in SUBSET Peers
    BY <1>15 DEF DivisionType
  <1>18. Cardinality(h[PeerCount].own) \in 0..PeerCount
    BY <1>17, SumRemaining
  <1> HIDE DEF c
  <1>19. h[PeerCount].needsAdjustment => Cardinality(h[PeerCount].own) >= n + 1
    BY <1>1, <1>12, <1>15, <1>16, <1>18
  <1> QED BY <1>15, <1>19 DEF DivisionOK, h

\* The rounds of the second loop.
LEMMA DivisionsIs ==
  ASSUME incomingBandwidth \in 0..(Word - 1)
  PROVE  \A n \in 0..PeerCount : DivisionOK(Divisions[n], n)
  <1> DEFINE Good == {v \in DivisionType : DivisionOK(v, 0)}
             step == [n \in 1..PeerCount |-> [v \in Good |-> NextDivision(v)]]
             Is(g) == g = [n \in 0..PeerCount |->
                             IF n = 0 THEN FirstDivision ELSE NextDivision(g[n - 1])]
             h == Divisions
             T == {n \in 0..PeerCount : DivisionOK(h[n], n)}
  <1>1. PeerCount \in Nat \ {0} /\ 0 \in 0..(PeerCount - 1) /\ Word \in Nat \ {0}
    BY BandwidthAssumption
  <1>2. DivisionOK(FirstDivision, 0)
    <2> DEFINE v == FirstDivision
    <2>1. /\ v.own = {} /\ v.needsAdjustment /\ v.bandwidth = incomingBandwidth
          /\ v \in DivisionType
      BY <1>1 DEF FirstDivision, DivisionType
    <2> HIDE DEF v
    <2>2. Cardinality(v.own) = 0 /\ Remaining(v) = PeerCount
      BY <1>1, <2>1, FS_EmptySet DEF Remaining
    <2>3. Sum(Told({})) = 0
      <3> DEFINE z == [p \in Peers |-> IF p \in {} THEN 0 ELSE 0]
      <3>1. Sum(z) = 0 * (PeerCount - Cardinality({}))
        BY SumRemaining
      <3>2. Told({}) = z
        BY DEF Told
      <3>3. PeerCount - Cardinality({}) \in Int
        BY FS_EmptySet, BandwidthAssumption
      <3> HIDE DEF z
      <3> QED BY <3>1, <3>2, <3>3
    <2>4. EvenPart * PeerCount <= incomingBandwidth
      <3> DEFINE e == EvenPart
      <3>1. incomingBandwidth \in Nat
        BY <1>1
      <3>2. e \in Nat /\ PeerCount * e <= incomingBandwidth
        BY <1>1, <3>1, DivBelow DEF EvenPart
      <3> HIDE DEF e
      <3>3. e * PeerCount = PeerCount * e
        BY <1>1, <3>2
      <3> QED BY <3>2, <3>3 DEF e
    <2>5. incomingBandwidth + 0 = incomingBandwidth
      BY <1>1
    <2>6. Divided(v)
      BY <2>1, <2>2, <2>3, <2>4, <2>5 DEF Divided
    <2> QED BY <2>1, <2>2, <2>6 DEF DivisionOK, v
  <1>3. ASSUME NEW n \in 0..(PeerCount - 1), NEW v, DivisionOK(v, n)
        PROVE  DivisionOK(NextDivision(v), n + 1) /\ DivisionOK(NextDivision(v), 0)
    <2>1. DivisionOK(NextDivision(v), n + 1)
      <3>1. CASE v.needsAdjustment /\ Remaining(v) > 0
        BY <1>3, <3>1, AnnouncePassIs DEF NextDivision
      <3>2. CASE ~v.needsAdjustment
        BY <1>3, <3>2 DEF NextDivision, DivisionOK
      <3>3. CASE v.needsAdjustment /\ ~(Remaining(v) > 0)
        <4>1. Cardinality(v.own) \in 0..PeerCount
          BY <1>3, SumRemaining DEF DivisionOK, DivisionType
        <4>2. Cardinality(v.own) >= n + 1
          BY <1>1, <3>3, <4>1 DEF Remaining
        <4>3. NextDivision(v) = v
          BY <3>3 DEF NextDivision
        <4> QED BY <1>3, <4>2, <4>3 DEF DivisionOK
      <3> QED BY <3>1, <3>2, <3>3
    <2>2. Cardinality(NextDivision(v).own) \in 0..PeerCount
      BY <2>1, SumRemaining DEF DivisionOK, DivisionType
    <2>3. Cardinality(NextDivision(v).own) >= 0
      BY <1>1, <2>2
    <2> QED BY <2>1, <2>3 DEF DivisionOK
  <1>4. FirstDivision \in Good
    BY <1>2 DEF DivisionOK
  <1>5. \A v \in Good : NextDivision(v) \in Good
    <2>1. ASSUME NEW v \in Good PROVE NextDivision(v) \in Good
      <3>1. DivisionOK(v, 0)
        OBVIOUS
      <3>2. DivisionOK(NextDivision(v), 0)
        BY <1>1, <1>3, <3>1
      <3> QED BY <3>2 DEF DivisionOK
    <2> QED BY <2>1
  <1>6. step \in [1..PeerCount -> [Good -> Good]]
    BY <1>5
  <1>7. PICK g : Steps(g, Good, FirstDivision, step, PeerCount)
    <2> HIDE DEF step, Good
    <2> QED BY <1>1, <1>4, <1>6, Iterates
  <1>8. Is(g)
    <2>1. ASSUME NEW n \in 1..PeerCount PROVE g[n] = NextDivision(g[n - 1])
      <3> HIDE DEF Good
      <3>1. n - 1 \in 0..PeerCount
        BY <1>1
      <3>2. g[n - 1] \in Good /\ g[n] = step[n][g[n - 1]]
        <4> HIDE DEF step
        <4> QED BY <1>7, <3>1 DEF Steps
      <3> QED BY <3>2
    <2>2. g = [n \in 0..PeerCount |-> g[n]] /\ g[0] = FirstDivision
      BY <1>7 DEF Steps
    <2>3. ASSUME NEW n \in 0..PeerCount
          PROVE  g[n] = IF n = 0 THEN FirstDivision ELSE NextDivision(g[n - 1])
      <3>1. n = 0 \/ n \in 1..PeerCount
        BY <1>1
      <3> QED BY <1>1, <2>1, <2>2, <3>1
    <2> QED BY <2>2, <2>3
  <1>9. Divisions = CHOOSE f : Is(f)
    BY DEF Divisions
  <1>10. Is(Divisions)
    <2> HIDE DEF Is
    <2> QED BY <1>8, <1>9
  <1>11. h = [n \in 0..PeerCount |-> IF n = 0 THEN FirstDivision ELSE NextDivision(h[n - 1])]
    BY <1>10
  <1> HIDE DEF h
  <1>12. 0 \in T
    <2>1. h[0] = FirstDivision /\ 0 \in 0..PeerCount
      BY <1>1, <1>11
    <2> QED BY <1>2, <2>1
  <1>13. ASSUME NEW n \in 1..PeerCount, n - 1 \in T PROVE n \in T
    <2>1. n \in 0..PeerCount /\ n # 0 /\ n - 1 \in 0..(PeerCount - 1) /\ (n - 1) + 1 = n
      BY <1>1
    <2>2. h[n] = NextDivision(h[n - 1])
      BY <1>11, <2>1
    <2> DEFINE m == n - 1
    <2>3. m \in 0..(PeerCount - 1) /\ m + 1 = n /\ DivisionOK(h[m], m)
      BY <1>13, <2>1
    <2> HIDE DEF m
    <2>4. DivisionOK(NextDivision(h[m]), m + 1)
      BY <1>3, <2>3
    <2> QED BY <2>1, <2>2, <2>3, <2>4 DEF m
  <1>14. \A n \in 0..PeerCount : n \in T
    <2> HIDE DEF T
    <2> QED BY <1>1, <1>12, <1>13, UpTo
  <1> QED BY <1>14 DEF h

\* What the peers are told: bandwidths that together fit in that of the host, and
\* none less than an even part or the bandwidth of the peer.
LEMMA AnnouncedIs ==
  ASSUME incomingBandwidth \in 0..(Word - 1)
  PROVE  /\ AnnouncedTo \in [Peers -> 0..(Word - 1)]
         /\ incomingBandwidth # 0 =>
              /\ Sum(AnnouncedTo) <= incomingBandwidth
              /\ \A p \in Peers :
                   AnnouncedTo[p] >= Smaller(OutgoingOf[p], incomingBandwidth \div PeerCount)
  <1>1. PeerCount \in Nat \ {0} /\ Word \in Nat \ {0} /\ OutgoingOf \in [Peers -> 0..(Word - 1)]
    BY BandwidthAssumption
  <1>2. CASE incomingBandwidth = 0
    <2>1. AnnouncedTo = [p \in Peers |-> 0]
      BY <1>2 DEF AnnouncedTo
    <2> QED BY <1>1, <1>2, <2>1
  <1>3. CASE incomingBandwidth # 0
    <2> DEFINE v == Divisions[PeerCount]
               A == [p \in Peers |-> IF p \in v.own THEN OutgoingOf[p] ELSE v.part]
               f == Told(v.own)
               g == [p \in Peers |-> IF p \in v.own THEN 0 ELSE v.part]
               e == EvenPart
    <2>1. AnnouncedTo = A
      BY <1>3 DEF AnnouncedTo
    <2>2. DivisionOK(v, PeerCount)
      BY <1>1, DivisionsIs
    <2> HIDE DEF v
    <2>3. v.own \in SUBSET Peers /\ v.part \in 0..(Word - 1) /\ v.bandwidth \in 0..(Word - 1)
      BY <2>2 DEF DivisionOK, DivisionType
    <2>4. A \in [Peers -> 0..(Word - 1)]
      BY <1>1, <2>3
    <2>5. f \in Amounts /\ g \in Amounts /\ A \in Amounts
      BY <1>1, <2>3, <2>4 DEF Told, Amounts
    <2>6. Sum(A) = Sum(f) + Sum(g)
      <3>1. \A p \in Peers : A[p] = f[p] + g[p]
        BY <1>1, <2>3 DEF Told
      <3> HIDE DEF f, g, A
      <3> QED BY <2>5, <3>1, SumAdd
    <2>7. Sum(g) = v.part * Remaining(v)
      <3>1. v.part \in Nat
        BY <1>1, <2>3
      <3> QED BY <2>3, <3>1, SumRemaining DEF Remaining
    <2>8. v.bandwidth + Sum(f) = incomingBandwidth
      BY <2>2 DEF DivisionOK, Divided
    <2>9. Sum(f) \in Nat /\ Sum(g) \in Nat
      <3> HIDE DEF f, g
      <3> QED BY <2>5, SumNat
    <2>10. e \in Nat
      <3>1. incomingBandwidth \in Nat
        BY <1>1
      <3> QED BY <1>1, <3>1, DivNat DEF EvenPart
    <2>11. (v.own = Peers /\ Remaining(v) = 0) \/ PartFits(v)
      <3>1. CASE v.needsAdjustment
        <4>1. Cardinality(v.own) \in 0..PeerCount /\ Cardinality(v.own) >= PeerCount
          BY <2>2, <2>3, <3>1, SumRemaining DEF DivisionOK
        <4>2. Remaining(v) = 0
          BY <1>1, <4>1 DEF Remaining
        <4> QED BY <2>3, <4>2, RemainingIs
      <3>2. CASE ~v.needsAdjustment
        BY <2>2, <3>2 DEF DivisionOK
      <3> QED BY <3>1, <3>2
    <2>12. Sum(g) <= v.bandwidth
      <3>1. CASE Remaining(v) = 0
        BY <1>1, <2>3, <2>7, <3>1
      <3>2. CASE PartFits(v)
        BY <2>7, <3>2 DEF PartFits
      <3> QED BY <2>11, <3>1, <3>2
    <2>13. Sum(A) <= incomingBandwidth
      <3> HIDE DEF f, g, A
      <3> QED BY <1>1, <2>3, <2>6, <2>8, <2>9, <2>12
    <2>14. ASSUME NEW p \in Peers PROVE A[p] >= Smaller(OutgoingOf[p], e)
      <3>1. OutgoingOf[p] \in Nat /\ v.part \in Nat
        BY <1>1, <2>3
      <3>2. CASE p \in v.own
        <4>1. A[p] = OutgoingOf[p]
          BY <3>2
        <4> HIDE DEF A, e
        <4> QED BY <2>10, <3>1, <4>1 DEF Smaller
      <3>3. CASE p \notin v.own
        <4>1. A[p] = v.part /\ e <= v.part
          BY <2>11, <3>3 DEF PartFits
        <4> HIDE DEF A, e
        <4> QED BY <2>10, <3>1, <4>1 DEF Smaller
      <3> QED BY <3>2, <3>3
    <2> QED BY <2>1, <2>4, <2>13, <2>14 DEF EvenPart
  <1> QED BY <1>2, <1>3

-----------------------------------------------------------------------------
(* The invariant.                                                          *)

BandwidthInv ==
  /\ TypeOK
  /\ packetThrottle \in Amounts

\* A state with the invariant is one the rounds are about.
LEMMA InvReady ==
  ASSUME BandwidthInv
  PROVE  Ready
  <1>1. /\ Scale \in Nat /\ Word \in Nat \ {0} /\ Pauses \subseteq Nat
        /\ Loads \subseteq 0..(Word - 1) /\ HostBandwidths \subseteq 0..(Word - 1)
    BY BandwidthAssumption
  <1>2. elapsed \in Nat
    BY <1>1 DEF BandwidthInv, TypeOK
  <1>3. outgoingBandwidth \in 0..(Word - 1) /\ incomingBandwidth \in 0..(Word - 1)
    BY <1>1 DEF BandwidthInv, TypeOK
  <1>4. outgoingDataTotal \in [Peers -> 0..(Word - 1)]
    <2>1. Loads \cup {0} \subseteq 0..(Word - 1)
      BY <1>1
    <2>2. outgoingDataTotal \in [Peers -> Loads \cup {0}]
      BY DEF BandwidthInv, TypeOK
    <2> QED BY <2>1, <2>2
  <1>5. packetThrottleLimit \in Amounts
    BY <1>1 DEF BandwidthInv, TypeOK, Amounts
  <1> QED BY <1>2, <1>3, <1>4, <1>5 DEF Ready

\* It holds at first.
LEMMA InitBandwidth ==
  ASSUME Init
  PROVE  BandwidthInv
  <1>1. Scale \in Nat \ {0} /\ Word \in Nat \ {0} /\ HostBandwidths \subseteq 0..(Word - 1)
    BY BandwidthAssumption
  <1>2. packetThrottle \in Amounts /\ packetThrottleLimit \in [Peers -> 0..Scale]
    BY <1>1 DEF Init, Amounts
  <1>3. \A p \in Peers : packetThrottle[p] \in 0..packetThrottleLimit[p]
    BY <1>1 DEF Init
  <1>4. announced \in [Peers -> 0..(Word - 1)]
    BY <1>1 DEF Init
  <1>5. outgoingDataTotal \in [Peers -> Loads \cup {0}]
    BY DEF Init
  <1>6. /\ incomingBandwidth \in HostBandwidths /\ outgoingBandwidth \in HostBandwidths
        /\ recalculateBandwidthLimits \in BOOLEAN /\ elapsed \in Pauses \cup {0}
    BY DEF Init
  <1> QED BY <1>2, <1>3, <1>4, <1>5, <1>6 DEF BandwidthInv, TypeOK

\* A round keeps it: the limits are of the scale, the throttles within the limits.
LEMMA RoundKeeps ==
  ASSUME BandwidthInv, EnetHostBandwidthThrottle
  PROVE  BandwidthInv'
  <1> DEFINE limits == LimitsOf(LastRound)
  <1>1. Scale \in Nat \ {0} /\ Word \in Nat \ {0}
    BY BandwidthAssumption
  <1>2. Ready
    BY InvReady
  <1>3. limits \in [Peers -> 0..Scale]
    <2>1. \A p \in Peers : limits[p] \in 0..Scale
      BY <1>2, LimitsIs
    <2>2. limits = [p \in Peers |-> limits[p]]
      BY DEF LimitsOf
    <2> HIDE DEF limits
    <2> QED BY <2>1, <2>2
  <1>4. /\ packetThrottleLimit' = limits
        /\ packetThrottle' = [p \in Peers |-> Smaller(packetThrottle[p], limits[p])]
        /\ announced' = IF recalculateBandwidthLimits THEN AnnouncedTo ELSE announced
        /\ outgoingDataTotal' = [p \in Peers |-> 0]
        /\ elapsed' = 0 /\ recalculateBandwidthLimits' = FALSE
        /\ incomingBandwidth' = incomingBandwidth /\ outgoingBandwidth' = outgoingBandwidth
    BY DEF EnetHostBandwidthThrottle
  <1> HIDE DEF limits
  <1>5. packetThrottle \in Amounts
    BY DEF BandwidthInv
  <1>6. \A p \in Peers : packetThrottle'[p] \in 0..limits[p] /\ packetThrottle'[p] \in Nat
    BY <1>1, <1>3, <1>4, <1>5 DEF Smaller, Amounts
  <1>7. packetThrottle' \in Amounts
    <2>1. packetThrottle' = [p \in Peers |-> packetThrottle'[p]]
      BY <1>4
    <2> QED BY <1>6, <2>1 DEF Amounts
  <1>8. announced' \in [Peers -> 0..(Word - 1)]
    BY <1>2, <1>4, AnnouncedIs DEF Ready, BandwidthInv, TypeOK
  <1>9. outgoingDataTotal' \in [Peers -> Loads \cup {0}]
    BY <1>4
  <1>10. /\ incomingBandwidth' \in HostBandwidths /\ outgoingBandwidth' \in HostBandwidths
         /\ recalculateBandwidthLimits' \in BOOLEAN /\ elapsed' \in Pauses \cup {0}
    BY <1>4 DEF BandwidthInv, TypeOK
  <1> QED BY <1>3, <1>4, <1>6, <1>7, <1>8, <1>9, <1>10 DEF BandwidthInv, TypeOK

\* What moves a throttle keeps it within the limit.
LEMMA ThrottleKeeps ==
  ASSUME BandwidthInv, NEW p \in Peers, EnetPeerThrottle(p)
  PROVE  BandwidthInv'
  <1>1. Acceleration \in Nat /\ Deceleration \in Nat /\ Scale \in Nat
    BY BandwidthAssumption
  <1>2. packetThrottle \in Amounts /\ packetThrottleLimit \in [Peers -> 0..Scale]
        /\ \A q \in Peers : packetThrottle[q] \in 0..packetThrottleLimit[q]
    BY DEF BandwidthInv, TypeOK
  <1>3. PICK t \in Throttles(p) : packetThrottle' = [packetThrottle EXCEPT ![p] = t]
    BY DEF EnetPeerThrottle
  <1>4. packetThrottle[p] \in 0..packetThrottleLimit[p] /\ packetThrottleLimit[p] \in Nat
    BY <1>1, <1>2
  <1>5. t \in 0..packetThrottleLimit[p]
    <2>1. CASE t = packetThrottleLimit[p]
      BY <1>4, <2>1
    <2>2. CASE t = Smaller(packetThrottle[p] + Acceleration, packetThrottleLimit[p])
      BY <1>1, <1>4, <2>2 DEF Smaller
    <2>3. CASE t = IF packetThrottle[p] > Deceleration THEN packetThrottle[p] - Deceleration ELSE 0
      BY <1>1, <1>4, <2>3
    <2> QED BY <2>1, <2>2, <2>3 DEF Throttles
  <1>6. packetThrottle' \in Amounts
    BY <1>2, <1>3, <1>4, <1>5 DEF Amounts
  <1>7. \A q \in Peers : packetThrottle'[q] \in 0..packetThrottleLimit[q]
    BY <1>2, <1>3, <1>5 DEF Amounts
  <1>8. UNCHANGED <<hostVars, elapsed, outgoingDataTotal, packetThrottleLimit, announced>>
    BY DEF EnetPeerThrottle
  <1> QED BY <1>6, <1>7, <1>8 DEF BandwidthInv, TypeOK, hostVars

\* Every step keeps it.
LEMMA NextBandwidth ==
  ASSUME BandwidthInv, [Next]_vars
  PROVE  BandwidthInv'
  <1>1. CASE EnetHostBandwidthThrottle
    BY <1>1, RoundKeeps
  <1>2. CASE Time
    BY <1>2 DEF Time, BandwidthInv, TypeOK, hostVars
  <1>3. CASE EnetHostBandwidthLimit
    BY <1>3 DEF EnetHostBandwidthLimit, BandwidthInv, TypeOK
  <1>4. ASSUME NEW p \in Peers, Queue(p) PROVE BandwidthInv'
    <2>1. outgoingDataTotal' \in [Peers -> Loads \cup {0}]
      BY <1>4 DEF Queue, BandwidthInv, TypeOK
    <2>2. UNCHANGED <<hostVars, elapsed, packetThrottleLimit, packetThrottle, announced>>
      BY <1>4 DEF Queue
    <2> QED BY <2>1, <2>2 DEF BandwidthInv, TypeOK, hostVars
  <1>5. ASSUME NEW p \in Peers, EnetPeerThrottle(p) PROVE BandwidthInv'
    BY <1>5, ThrottleKeeps
  <1>6. CASE UNCHANGED vars
    BY <1>6 DEF vars, BandwidthInv, TypeOK
  <1> QED BY <1>1, <1>2, <1>3, <1>4, <1>5, <1>6 DEF Next

\* The invariant of every behaviour.
LEMMA BandwidthInvariant == Spec => []BandwidthInv
  <1>1. Init => BandwidthInv
    BY InitBandwidth
  <1>2. BandwidthInv /\ [Next]_vars => BandwidthInv'
    BY NextBandwidth
  <1> QED BY <1>1, <1>2, PTL DEF Spec

-----------------------------------------------------------------------------
(* What a round is sure of.                                                *)

\* Only enet_host_bandwidth_throttle ends an interval.
LEMMA RoundedIs ==
  ASSUME BandwidthInv, [Next]_vars, Rounded
  PROVE  /\ packetThrottleLimit' = LimitsOf(LastRound)
         /\ announced' = IF recalculateBandwidthLimits THEN AnnouncedTo ELSE announced
  <1>1. elapsed # 0 /\ elapsed' # elapsed
    <2>1. elapsed \in Nat /\ Interval \in Nat \ {0}
      BY InvReady, BandwidthAssumption DEF Ready
    <2> QED BY <2>1 DEF Rounded
  <1>2. EnetHostBandwidthThrottle
    <2>1. ~ UNCHANGED vars
      BY <1>1 DEF vars
    <2>2. ~ Time /\ ~ EnetHostBandwidthLimit
      BY <1>1 DEF Time, EnetHostBandwidthLimit
    <2>3. \A p \in Peers : ~ Queue(p) /\ ~ EnetPeerThrottle(p)
      BY <1>1 DEF Queue, EnetPeerThrottle
    <2> QED BY <2>1, <2>2, <2>3 DEF Next
  <1> QED BY <1>2 DEF EnetHostBandwidthThrottle

\* What a peer may be sent is within what it can take.
LEMMA SendsOwn ==
  ASSUME Ready, LoadsFit, NEW p \in Peers, IncomingOf[p] # 0
  PROVE  Sends(LimitsOf(LastRound), p) <= Exact(IncomingOf[p])
  <1> DEFINE e == Sends(LimitsOf(LastRound), p)
             s == Share(p)
             x == Exact(IncomingOf[p])
  <1>1. s \in Nat /\ x \in Nat /\ s <= x
    <2>1. elapsed \in Nat /\ IncomingOf[p] \in 0..(Word - 1) /\ Word \in Nat
      BY BandwidthAssumption DEF Ready
    <2> QED BY <2>1, AllowanceIs DEF Share
  <1>2. e \in Nat /\ e <= s
    <2>1. CASE p \in LastRound.own
      <3> HIDE DEF e, s
      <3>1. e \in 0..s
        BY <2>1, SendsShare DEF e, s
      <3> QED BY <1>1, <3>1
    <2>2. CASE p \notin LastRound.own
      <3>1. Scale * outgoingDataTotal[p] < Word
        BY DEF LoadsFit
      <3> QED BY <2>2, <3>1, SendsPart
    <2> QED BY <2>1, <2>2
  <1> HIDE DEF e, s, x
  <1>3. e <= x
    BY <1>1, <1>2
  <1> QED BY <1>3 DEF e, x

\* One round shares out no more than the bandwidth.
LEMMA StepWithinBandwidth ==
  ASSUME BandwidthInv, [Next]_vars
  PROVE  WithinBandwidth
  <1> SUFFICES ASSUME Rounded, LoadsFit
               PROVE  /\ outgoingBandwidth # 0 =>
                           Sum([p \in Peers |-> IF Minimal(p) THEN 0 ELSE Expected(p)])
                             <= Exact(outgoingBandwidth)
                      /\ \A p \in Peers : IncomingOf[p] # 0 /\ ~Minimal(p) =>
                                            Expected(p) <= Exact(IncomingOf[p])
    BY DEF WithinBandwidth
  <1>1. Ready
    BY InvReady
  <1>2. packetThrottleLimit' = LimitsOf(LastRound)
    BY RoundedIs
  <1>3. \A p \in Peers : Sends(LimitsOf(LastRound), p) = IF Minimal(p) THEN 0 ELSE Expected(p)
    BY <1>2 DEF Sends, Minimal, Expected
  <1>4. [p \in Peers |-> IF Minimal(p) THEN 0 ELSE Expected(p)]
          = [p \in Peers |-> Sends(LimitsOf(LastRound), p)]
    BY <1>3
  <1>5. ASSUME outgoingBandwidth # 0
        PROVE  Sum([p \in Peers |-> IF Minimal(p) THEN 0 ELSE Expected(p)])
                 <= Exact(outgoingBandwidth)
    BY <1>1, <1>4, <1>5, SendsWithin
  <1>6. ASSUME NEW p \in Peers, IncomingOf[p] # 0, ~Minimal(p)
        PROVE  Expected(p) <= Exact(IncomingOf[p])
    <2>1. Sends(LimitsOf(LastRound), p) <= Exact(IncomingOf[p])
      BY <1>1, <1>6, SendsOwn
    <2> QED BY <1>3, <1>6, <2>1
  <1> QED BY <1>5, <1>6

\* One round limits a peer only for a cause.
LEMMA StepForCause ==
  ASSUME BandwidthInv, [Next]_vars
  PROVE  ForCause
  <1> SUFFICES ASSUME Rounded, LoadsFit, BandwidthsFit,
                      NEW p \in Peers, packetThrottleLimit'[p] < Scale
               PROVE  \/ IncomingOf[p] # 0 /\ outgoingDataTotal[p] > Exact(IncomingOf[p])
                      \/ outgoingBandwidth # 0
                         /\ Sum(outgoingDataTotal) > Exact(outgoingBandwidth)
    BY DEF ForCause
  <1>1. Ready
    BY InvReady
  <1>2. LimitsOf(LastRound)[p] < Scale
    BY RoundedIs
  <1> QED BY <1>1, <1>2, LimitedForCause

\* One round tells the peers bandwidths that fit together.
LEMMA StepAnnounced ==
  ASSUME BandwidthInv, [Next]_vars
  PROVE  Announced
  <1> SUFFICES ASSUME Rounded, recalculateBandwidthLimits, incomingBandwidth # 0
               PROVE  /\ Sum(announced') <= incomingBandwidth
                      /\ \A p \in Peers : OutgoingOf[p] # 0 =>
                           announced'[p] >= Smaller(OutgoingOf[p], incomingBandwidth \div PeerCount)
    BY DEF Announced
  <1>1. incomingBandwidth \in 0..(Word - 1)
    BY InvReady DEF Ready
  <1>2. announced' = AnnouncedTo
    BY RoundedIs
  <1> QED BY <1>1, <1>2, AnnouncedIs

-----------------------------------------------------------------------------
(* The theorems.                                                           *)

\* For any number of peers, any bandwidths and any times: the variables have values
\* of their kinds and no throttle is above its limit, also where the products of
\* enet_host_bandwidth_throttle wrap.
THEOREM BandwidthTyped == Spec => []TypeOK
  <1>1. BandwidthInv => TypeOK
    BY DEF BandwidthInv
  <1> QED BY <1>1, BandwidthInvariant, PTL

\* The limits that a round of enet_host_bandwidth_throttle makes keep the peers
\* within the outgoing bandwidth of the host and each within what it can take.
THEOREM RoundsShareBandwidth == Spec => SharesWithinBandwidth
  <1>1. BandwidthInv /\ [Next]_vars => [WithinBandwidth]_vars
    BY StepWithinBandwidth
  <1> QED BY <1>1, BandwidthInvariant, PTL DEF Spec, SharesWithinBandwidth

\* They are below the scale only for a peer whose data does not fit, or when that
\* of all of them does not.
THEOREM RoundsThrottleForCause == Spec => ThrottledForCause
  <1>1. BandwidthInv /\ [Next]_vars => [ForCause]_vars
    BY StepForCause
  <1> QED BY <1>1, BandwidthInvariant, PTL DEF Spec, ThrottledForCause

\* The bandwidths that a round announces fit together in what the host can take,
\* and are no less than an even part or the peer's own bandwidth.
THEOREM RoundsAnnounceBandwidth == Spec => AnnouncedWithinBandwidth
  <1>1. BandwidthInv /\ [Next]_vars => [Announced]_vars
    BY StepAnnounced
  <1> QED BY <1>1, BandwidthInvariant, PTL DEF Spec, AnnouncedWithinBandwidth

=============================================================================
