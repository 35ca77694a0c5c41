-------------------------- MODULE EnetTimingProofs --------------------------
(***************************************************************************)
(* What holds of EnetTiming for every clock, whatever the turns of its     *)
(* lower bits, the timeouts and the pauses of the application: the time    *)
(* that an acknowledgement echoes is told from its lower bits, and         *)
(* nextTimeout is that of the command sent longest ago.                    *)
(***************************************************************************)
EXTENDS EnetTiming, EnetArithmetic, SequenceTheorems, TLAPS

-----------------------------------------------------------------------------
(* The clock.                                                              *)

\* Times are counted modulo the clock.
LEMMA TimesAreTimes ==
  ASSUME NEW a \in Int, NEW b \in Int
  PROVE  Minus(a, b) \in Time /\ Plus(a, b) \in Time
  <1>1. Modulus \in Nat \ {0}
    BY TimingAssumption
  <1>2. Minus(a, b) \in 0..(Modulus - 1) /\ Plus(a, b) \in 0..(Modulus - 1)
    <2>1. a - b + Modulus \in Int /\ a + b \in Int
      BY <1>1
    <2> QED BY <1>1, <2>1, DivMod DEF Minus, Plus
  <1> QED BY <1>2 DEF Time

\* The time from b to a is the difference, or one turn of the clock more.
LEMMA MinusIs ==
  ASSUME NEW a \in Time, NEW b \in Time
  PROVE  Minus(a, b) = IF b <= a THEN a - b ELSE a - b + Modulus
  <1>1. Modulus \in Nat \ {0}
    BY TimingAssumption
  <1>2. a \in 0..(Modulus - 1) /\ b \in 0..(Modulus - 1)
    BY DEF Time
  <1> DEFINE n == a - b + Modulus
  <1>3. ASSUME NEW q \in Int, NEW r \in 0..(Modulus - 1), n = Modulus * q + r
        PROVE  Minus(a, b) = r
    <2>1. n \in Int
      BY <1>1, <1>2
    <2> HIDE DEF n
    <2>2. n % Modulus = r
      BY <1>1, <1>3, <2>1, DivUnique
    <2> QED BY <2>2 DEF n, Minus
  <1>4. CASE b <= a
    <2>1. a - b \in 0..(Modulus - 1) /\ n = Modulus * 1 + (a - b)
      BY <1>1, <1>2, <1>4
    <2> QED BY <1>3, <1>4, <2>1
  <1>5. CASE ~(b <= a)
    <2>1. n \in 0..(Modulus - 1) /\ n = Modulus * 0 + n
      BY <1>1, <1>2, <1>5
    <2> QED BY <1>3, <1>5, <2>1
  <1> QED BY <1>4, <1>5

\* A time is its upper and its lower bits, which have room below the next turn.
LEMMA LowIs ==
  ASSUME NEW t \in Time
  PROVE  /\ High(t) \in Time /\ t % Low \in 0..(Low - 1) /\ t = High(t) + (t % Low)
         /\ \E k \in Int : High(t) = Low * k
         /\ High(t) + Low <= Modulus
  <1>1. Low \in Nat \ {0} /\ Modulus \in Nat \ {0} /\ t \in 0..(Modulus - 1)
    BY TimingAssumption DEF Time
  <1> DEFINE k == t \div Low
             l == t % Low
  <1>2. k \in Int /\ l \in 0..(Low - 1) /\ t = Low * k + l
    BY <1>1, DivMod
  <1>3. k \in Nat
    BY <1>1, DivNat
  <1> DEFINE m == Modulus \div Low
  <1>4. m \in Int /\ Modulus = Low * m
    <2>1. Modulus % Low = 0
      BY TimingAssumption
    <2>2. m \in Int /\ Modulus = Low * m + (Modulus % Low)
      BY <1>1, DivMod
    <2> QED BY <1>1, <2>1, <2>2
  <1> HIDE DEF k, l, m
  <1>5. k + 1 <= m
    <2>1. CASE k >= m
      <3>1. Low * k >= Low * m
        BY <1>1, <1>2, <1>4, <2>1
      <3> QED BY <1>1, <1>2, <1>4, <3>1
    <2> QED BY <1>2, <1>4, <2>1
  <1>6. Low * (k + 1) <= Low * m /\ Low * (k + 1) = Low * k + Low
    BY <1>1, <1>2, <1>4, <1>5
  <1>7. Low * k \in Nat
    BY <1>1, <1>3
  <1>8. High(t) = Low * k
    BY <1>1, <1>2 DEF High, l
  <1> QED BY <1>1, <1>2, <1>4, <1>6, <1>7, <1>8 DEF Time, l

\* What the lower bits of a sum are.
LEMMA LowOf ==
  ASSUME NEW k \in Int, NEW r \in 0..(Low - 1)
  PROVE  (Low * k + r) % Low = r
  <1>1. Low \in Nat \ {0}
    BY TimingAssumption
  <1> DEFINE n == Low * k + r
  <1>2. n \in Int /\ n = Low * k + r
    BY <1>1
  <1> HIDE DEF n
  <1>3. n % Low = r
    BY <1>1, <1>2, DivUnique
  <1> QED BY <1>3 DEF n

-----------------------------------------------------------------------------
(* The echo of an acknowledgement.                                         *)

\* A time less than a turn ago is known from its lower bits, or it was more than
\* half a turn ago and the echo seems to come from the future.
LEMMA EchoIsTime ==
  ASSUME serviceTime \in Time, NEW t \in Time, Minus(serviceTime, t) < Low
  PROVE  IF TimeLess(serviceTime, Widened(t % Low))
         THEN Minus(serviceTime, t) > Low \div 2
         ELSE Widened(t % Low) = t
  <1> DEFINE s == serviceTime
             d == Minus(s, t)
             high == High(s)
             sl == s % Low
             tl == t % Low
             half == Low \div 2
             x == high + tl
             w == Widened(tl)
  <1>1. /\ Low \in Nat \ {0} /\ Modulus \in Nat \ {0} /\ Overflow \in Low..(Modulus - Low)
        /\ s \in 0..(Modulus - 1) /\ t \in 0..(Modulus - 1)
    BY TimingAssumption DEF Time
  <1>2. half \in Int /\ Low = 2 * half
    <2>1. Low % 2 = 0 /\ 2 \in Nat \ {0} /\ Low \in Int
      BY TimingAssumption
    <2>2. half \in Int /\ Low = 2 * half + (Low % 2)
      BY <2>1, DivMod
    <2> QED BY <2>1, <2>2
  <1>3. /\ high \in Time /\ sl \in 0..(Low - 1) /\ s = high + sl
        /\ \E k \in Int : high = Low * k
        /\ high + Low <= Modulus
    BY LowIs
  <1>4. tl \in 0..(Low - 1)
    BY LowIs
  <1>5. tl % Low = tl
    <2>1. (Low * 0 + tl) % Low = tl
      BY <1>4, LowOf
    <2> HIDE DEF tl
    <2> QED BY <1>1, <1>4, <2>1
  <1>6. w = IF tl >= half /\ ~(sl >= half) THEN Minus(x, Low) ELSE x
    BY <1>5 DEF Widened, UpperHalf
  <1>7. d = IF t <= s THEN s - t ELSE s - t + Modulus
    BY MinusIs DEF Time
  <1>8. TimeLess(s, w) <=> Minus(s, w) >= Overflow
    BY DEF TimeLess
  <1>9. d < Low /\ (TimeLess(s, t) <=> d >= Overflow)
    BY DEF TimeLess
  <1>10. high \in 0..(Modulus - 1) /\ x \in Time /\ x = high + tl
    BY <1>1, <1>3, <1>4 DEF Time
  <1> SUFFICES IF TimeLess(s, w) THEN d > half ELSE w = t
    OBVIOUS
  <1>11. PICK k \in Int : high = Low * k
    BY <1>3
  <1>12. PICK m \in Int : Modulus = Low * m
    <2> DEFINE m == Modulus \div Low
    <2>1. m \in Int /\ Modulus = Low * m + (Modulus % Low)
      BY <1>1, DivMod
    <2> QED BY <1>1, <2>1, TimingAssumption
  <1>13. ASSUME NEW i \in Int, NEW r \in 0..(Low - 1), t = Low * i + r
         PROVE  tl = r
    BY <1>13, LowOf
  <1>15. w \in Time => Minus(s, w) = IF w <= s THEN s - w ELSE s - w + Modulus
    BY MinusIs
  <1> HIDE DEF s, d, high, sl, tl, half, x, w
  <1>14. Minus(x, Low) = IF Low <= x THEN x - Low ELSE x - Low + Modulus
    <2>1. Low \in Time
      BY <1>1 DEF Time
    <2> QED BY <1>10, <2>1, MinusIs
  \* The same turn.
  <1>16. CASE high <= t /\ t <= s
    <2>1. t - high \in 0..(Low - 1) /\ t = Low * k + (t - high)
      BY <1>1, <1>3, <1>10, <1>11, <1>16
    <2>2. tl = t - high
      BY <1>13, <2>1
    <2>3. w = t
      BY <1>1, <1>2, <1>3, <1>4, <1>6, <1>10, <2>2, <1>16
    <2> QED BY <1>1, <1>7, <1>9, <2>3
  \* The turn before.
  <1>17. CASE ~(high <= t /\ t <= s)
    <2>1. tl > sl /\ d = sl + Low - tl /\ Minus(x, Low) = t
      <3>1. CASE t <= s
        <4>1. t - high + Low \in 0..(Low - 1) /\ t = Low * (k - 1) + (t - high + Low) /\ k - 1 \in Int
          BY <1>1, <1>3, <1>7, <1>9, <1>10, <1>11, <1>17, <3>1
        <4>2. tl = t - high + Low
          BY <1>13, <4>1
        <4> QED BY <1>1, <1>3, <1>7, <1>9, <1>10, <1>14, <3>1, <4>2
      <3>2. CASE ~(t <= s)
        <4>1. high = 0
          <5>1. s < Low
            BY <1>1, <1>7, <1>9, <3>2
          <5>2. CASE k >= 1
            BY <1>1, <1>3, <1>11, <5>1, <5>2
          <5>3. CASE k <= -1
            <6>1. Low * k <= -Low
              BY <1>1, <5>3
            <6> QED BY <1>1, <1>10, <1>11, <6>1
          <5>4. CASE k = 0
            BY <1>1, <1>11, <5>4
          <5> QED BY <1>11, <5>2, <5>3, <5>4
        <4>2. t - Modulus + Low \in 0..(Low - 1) /\ t = Low * (m - 1) + (t - Modulus + Low)
              /\ m - 1 \in Int
          BY <1>1, <1>7, <1>9, <1>12, <3>2
        <4>3. tl = t - Modulus + Low
          BY <1>13, <4>2
        <4> QED BY <1>1, <1>3, <1>7, <1>9, <1>10, <1>14, <3>2, <4>1, <4>3
      <3> QED BY <3>1, <3>2
    <2>2. CASE tl >= half /\ ~(sl >= half)
      <3>1. w = t
        BY <1>6, <2>1, <2>2
      <3> QED BY <1>1, <1>7, <1>9, <3>1
    <2>3. CASE ~(tl >= half /\ ~(sl >= half))
      <3>1. w = x /\ w \in Time
        BY <1>6, <1>10, <2>3
      <3>2. Minus(s, w) >= Overflow
        BY <1>1, <1>3, <1>4, <1>10, <1>15, <2>1, <3>1
      <3>3. d > half
        BY <1>2, <1>3, <1>4, <2>1, <2>3
      <3> QED BY <1>8, <3>2, <3>3
    <2> QED BY <2>2, <2>3
  <1> QED BY <1>16, <1>17

-----------------------------------------------------------------------------
(* The loop over the timeouts.                                             *)

CommandType ==
  [name : Commands, sendAttempts : Nat, roundTripTimeout : Nat, sentTime : Time, first : Time]

\* One turn of the loop, as a recursive definition has it.
ScanTurn(f, now, n) ==
  IF n = 0 THEN Scan ELSE ScanCommand(f[n - 1], sentReliableCommands[n], now)

\* There is a function that the recursion defines: it is extended by one command
\* after the other.
LEMMA ScanAllIs ==
  ASSUME NEW now, Len(sentReliableCommands) \in Nat
  PROVE  \A n \in 0..Len(sentReliableCommands) :
           ScanAll(now)[n] = ScanTurn(ScanAll(now), now, n)
  <1> DEFINE N == Len(sentReliableCommands)
             Defined(f, k) == f = [n \in 0..k |-> ScanTurn(f, now, n)]
             T == {k \in Nat : \A f : ~Defined(f, k)}
  <1>1. CASE T # {}
    <2>1. PICK k \in T : \A j \in T : k <= j
      BY <1>1, LeastNumber
    <2>2. CASE k = 0
      <3> DEFINE f == [n \in 0..0 |-> Scan]
      <3>1. Defined(f, 0)
        BY DEF ScanTurn
      <3> HIDE DEF f
      <3> QED BY <2>1, <2>2, <3>1
    <2>3. CASE k # 0
      <3>1. k - 1 \in Nat /\ k - 1 \notin T /\ k \in Nat
        BY <2>1, <2>3
      <3>2. PICK f : Defined(f, k - 1)
        BY <3>1
      <3> DEFINE g == [n \in 0..k |-> IF n = k THEN ScanTurn(f, now, k) ELSE f[n]]
      <3>3. \A n \in 0..(k - 1) : g[n] = f[n] /\ f[n] = ScanTurn(f, now, n)
        BY <3>1, <3>2
      <3>4. g[k] = ScanTurn(f, now, k) /\ DOMAIN g = 0..k /\ g = [n \in 0..k |-> g[n]]
        BY <3>1
      <3> HIDE DEF g
      <3>5. ASSUME NEW n \in 0..k PROVE g[n] = ScanTurn(g, now, n)
        <4>1. n # 0 => g[n - 1] = f[n - 1]
          BY <3>1, <3>3
        <4>2. ScanTurn(g, now, n) = ScanTurn(f, now, n)
          BY <4>1 DEF ScanTurn
        <4> QED BY <3>1, <3>3, <3>4, <4>2
      <3>6. Defined(g, k)
        BY <3>4, <3>5
      <3> QED BY <2>1, <3>6
    <2> QED BY <2>2, <2>3
  <1>2. CASE T = {}
    <2>1. \E f : Defined(f, N)
      BY <1>2
    <2>2. ScanAll(now) = CHOOSE f : Defined(f, N)
      BY DEF ScanAll, ScanTurn
    <2>3. Defined(ScanAll(now), N)
      <3> HIDE DEF Defined
      <3> QED BY <2>1, <2>2
    <2> HIDE DEF N
    <2>4. \A n \in 0..N : ScanAll(now)[n] = ScanTurn(ScanAll(now), now, n)
      <3> DEFINE F == ScanAll(now)
      <3>1. F = [n \in 0..N |-> ScanTurn(F, now, n)]
        BY <2>3
      <3> HIDE DEF F
      <3>2. \A n \in 0..N : F[n] = ScanTurn(F, now, n)
        BY <3>1
      <3> QED BY <3>2 DEF F
    <2> QED BY <2>4 DEF N
  <1> QED BY <1>1, <1>2

\* A list without one of its commands: the front changes only when it is the front
\* that is taken out.
LEMMA WithoutIs ==
  ASSUME NEW s \in Seq(CommandType), NEW name
  PROVE  /\ Without(s, name) \in Seq(CommandType)
         /\ s = <<>> => Without(s, name) = <<>>
         /\ s # <<>> /\ Head(s).name # name =>
              Without(s, name) # <<>> /\ Head(Without(s, name)) = Head(s)
  <1>1. CASE ~\E i \in DOMAIN s : s[i].name = name
    BY <1>1 DEF Without
  <1>2. CASE \E i \in DOMAIN s : s[i].name = name
    <2> DEFINE k == CHOOSE i \in DOMAIN s : s[i].name = name
               a == SubSeq(s, 1, k - 1)
               b == SubSeq(s, k + 1, Len(s))
               t == a \o b
    <2>1. k \in 1 .. Len(s) /\ s[k].name = name /\ Len(s) \in Nat
      BY <1>2
    <2>2. Without(s, name) = t
      BY <1>2 DEF Without, RemoveAt
    <2> HIDE DEF k
    <2>3. a \in Seq(CommandType) /\ Len(a) = k - 1 /\ \A i \in 1 .. k - 1 : a[i] = s[i]
      BY <2>1
    <2>4. b \in Seq(CommandType)
      <3>1. k + 1 \in Int /\ Len(s) \in Int /\ \A i \in k + 1 .. Len(s) : s[i] \in CommandType
        BY <2>1
      <3> QED BY <3>1, SubSeqProperties
    <2> HIDE DEF a, b
    <2>5. /\ t \in Seq(CommandType) /\ Len(t) = Len(a) + Len(b)
          /\ \A i \in 1 .. Len(a) + Len(b) : t[i] = IF i <= Len(a) THEN a[i] ELSE b[i - Len(a)]
      BY <2>3, <2>4, ConcatProperties
    <2> HIDE DEF t
    <2>6. ASSUME Head(s).name # name
          PROVE  t # <<>> /\ Head(t) = Head(s)
      <3>1. Head(s) = s[1] /\ k # 1
        BY <2>1, <2>6
      <3>2. Len(b) \in Nat /\ Len(a) >= 1 /\ a[1] = s[1]
        BY <2>1, <2>3, <2>4, <3>1
      <3>3. Len(t) >= 1 /\ t[1] = s[1]
        BY <2>3, <2>5, <3>2
      <3> QED BY <2>5, <3>1, <3>3
    <2> QED BY <2>1, <2>2, <2>5, <2>6
  <1> QED BY <1>1, <1>2

ScanFields == {"sent", "requeued", "next", "earliest", "over"}

\* A list of commands that were sent, and the next timeout.
FrontIsDue(sent, next) == sent # <<>> => next = DueTime(Head(sent))

ScanOK(scan) ==
  /\ DOMAIN scan = ScanFields
  /\ scan.sent \in Seq(CommandType)
  /\ scan.requeued \in Seq(CommandType)
  /\ FrontIsDue(scan.sent, scan.next)

\* One command of the loop: when the front is taken out, the next timeout is that of
\* the next front.
LEMMA ScanCommandStep ==
  ASSUME NEW scan, ScanOK(scan), NEW c \in CommandType, NEW now
  PROVE  ScanOK(ScanCommand(scan, c, now))
  <1> DEFINE left == Without(scan.sent, c.name)
             more == Append(scan.requeued, [c EXCEPT !.roundTripTimeout = 2 * @])
             next == IF Head(scan.sent).name = c.name THEN NextOf(left, scan.next) ELSE scan.next
             r == ScanCommand(scan, c, now)
  <1>1. \/ r = scan
        \/ r = [scan EXCEPT !.over = TRUE]
        \/ \E earliest : r = [sent |-> left, requeued |-> more, next |-> next,
                              earliest |-> earliest, over |-> FALSE]
    BY DEF ScanCommand
  <1>2. more \in Seq(CommandType)
    <2>1. [c EXCEPT !.roundTripTimeout = 2 * @] \in CommandType
      BY DEF CommandType
    <2> QED BY <2>1 DEF ScanOK
  <1>3. left \in Seq(CommandType)
    BY WithoutIs DEF ScanOK
  <1>4. FrontIsDue(left, next)
    BY WithoutIs DEF ScanOK, FrontIsDue, NextOf
  <1> HIDE DEF left, more, next, r
  <1>5. ASSUME r = scan \/ r = [scan EXCEPT !.over = TRUE]
        PROVE  ScanOK(r)
    <2>1. /\ DOMAIN r = ScanFields /\ r.sent = scan.sent /\ r.requeued = scan.requeued
          /\ r.next = scan.next
      BY <1>5 DEF ScanOK, ScanFields
    <2> QED BY <2>1 DEF ScanOK
  <1>6. ASSUME NEW earliest,
               r = [sent |-> left, requeued |-> more, next |-> next,
                    earliest |-> earliest, over |-> FALSE]
        PROVE  ScanOK(r)
    <2>1. DOMAIN r = ScanFields /\ r.sent = left /\ r.requeued = more /\ r.next = next
      BY <1>6 DEF ScanFields
    <2> QED BY <1>2, <1>3, <1>4, <2>1 DEF ScanOK
  <1>7. ScanOK(r)
    BY <1>1, <1>5, <1>6
  <1> QED BY <1>7 DEF r

\* All of the loop.
LEMMA CheckTimeoutsStep ==
  ASSUME ScanOK(Scan), NEW now
  PROVE  ScanOK(CheckTimeouts(now))
  <1> DEFINE N == Len(sentReliableCommands)
             F == ScanAll(now)
             T == {k \in Nat : k <= N /\ ~ScanOK(F[k])}
  <1>1. sentReliableCommands \in Seq(CommandType) /\ N \in Nat
    BY DEF ScanOK, Scan
  <1>2. \A n \in 0..N : F[n] = ScanTurn(F, now, n)
    BY <1>1, ScanAllIs
  <1> HIDE DEF F
  <1>3. CASE T # {}
    <2>1. PICK k \in T : \A j \in T : k <= j
      BY <1>3, LeastNumber
    <2>2. k \in 0..N /\ ~ScanOK(F[k])
      BY <1>1, <2>1
    <2>3. CASE k = 0
      BY <1>2, <2>2, <2>3 DEF ScanTurn
    <2>4. CASE k # 0
      <3>1. ScanOK(F[k - 1])
        BY <1>1, <2>1, <2>2, <2>4
      <3>2. sentReliableCommands[k] \in CommandType
        BY <1>1, <2>2, <2>4
      <3>3. F[k] = ScanCommand(F[k - 1], sentReliableCommands[k], now)
        BY <1>2, <2>2, <2>4 DEF ScanTurn
      <3> QED BY <2>2, <3>1, <3>2, <3>3, ScanCommandStep
    <2> QED BY <2>3, <2>4
  <1>4. CASE T = {}
    <2>1. ScanOK(F[N])
      BY <1>1, <1>4
    <2> QED BY <2>1 DEF CheckTimeouts, F
  <1> QED BY <1>3, <1>4

-----------------------------------------------------------------------------
(* The invariant.                                                          *)

\* The acknowledgements that may still arrive at a time are less than a turn old.
Young(acknowledgements, now) ==
  \A a \in acknowledgements : a.sentTime \in Time /\ Minus(now, a.sentTime) <= Lifetime

TimingInv ==
  /\ serviceTime \in Time
  /\ waiting \in Seq(CommandType)
  /\ sentReliableCommands \in Seq(CommandType)
  /\ roundTripTime \in Nat /\ roundTripTimeVariance \in Nat
  /\ Young(net, serviceTime)
  /\ FrontIsDue(sentReliableCommands, nextTimeout)

\* What stands in front of a list that grows at its end.
LEMMA ConcatFront ==
  ASSUME NEW s \in Seq(CommandType), NEW t \in Seq(CommandType)
  PROVE  /\ s \o t \in Seq(CommandType)
         /\ s = <<>> => s \o t = t
         /\ s # <<>> => Head(s \o t) = Head(s)
  <1> DEFINE r == s \o t
  <1>1. /\ r \in Seq(CommandType) /\ Len(r) = Len(s) + Len(t)
        /\ \A i \in 1 .. Len(s) + Len(t) : r[i] = IF i <= Len(s) THEN s[i] ELSE t[i - Len(s)]
    BY ConcatProperties
  <1> HIDE DEF r
  <1>2. ASSUME s # <<>> PROVE Head(r) = Head(s)
    <2>1. Len(s) \in Nat /\ Len(t) \in Nat /\ Len(s) >= 1
      BY <1>2
    <2>2. r[1] = s[1] /\ Len(r) >= 1
      BY <1>1, <2>1
    <2> QED BY <1>1, <1>2, <2>1, <2>2
  <1>3. s = <<>> => s \o t = t
    OBVIOUS
  <1> QED BY <1>1, <1>2, <1>3 DEF r

\* A command that is sent has the time and a timeout.
LEMMA SentAtIs ==
  ASSUME TimingInv, NEW c \in CommandType, NEW now \in Time
  PROVE  SentAt(c, now) \in CommandType
  <1>1. roundTripTime + 4 * roundTripTimeVariance \in Nat
    BY DEF TimingInv
  <1> DEFINE timeout == IF c.roundTripTimeout = 0 THEN roundTripTime + 4 * roundTripTimeVariance
                        ELSE c.roundTripTimeout
             attempts == c.sendAttempts + 1
             first == IF c.sendAttempts = 0 THEN now ELSE c.first
             r == SentAt(c, now)
  <1>2. timeout \in Nat /\ attempts \in Nat /\ first \in Time
    BY <1>1 DEF CommandType
  <1>3. r = [c EXCEPT !.sendAttempts = attempts, !.roundTripTimeout = timeout,
                      !.sentTime = now, !.first = first]
    BY DEF SentAt
  <1> HIDE DEF timeout, attempts, first, r
  <1>4. r \in CommandType
    BY <1>2, <1>3 DEF CommandType
  <1> QED BY <1>4 DEF r

\* Sending: the first command in an empty list sets the next timeout.
LEMMA SendStep ==
  ASSUME TimingInv, NEW scan, ScanOK(scan), NEW queue \in Seq(CommandType),
         NEW now \in Time, Send(scan, queue, now)
  PROVE  /\ waiting' \in Seq(CommandType)
         /\ sentReliableCommands' \in Seq(CommandType)
         /\ FrontIsDue(sentReliableCommands, nextTimeout)'
         /\ Young(net', now)
  <1>1. PICK sends \in 0..Len(queue) :
          LET sending == [i \in 1..sends |-> SentAt(queue[i], now)]
          IN  /\ sentReliableCommands' = scan.sent \o sending
              /\ nextTimeout' = IF scan.sent = <<>> /\ sends > 0
                                THEN DueTime(Head(sending)) ELSE scan.next
              /\ waiting' = SubSeq(queue, sends + 1, Len(queue))
              /\ net' = {a \in net : Minus(now, a.sentTime) <= Lifetime}
                        \cup {[name |-> c.name, sentTime |-> now] : c \in ToSet(sending)}
    BY DEF Send
  <1> DEFINE sending == [i \in 1..sends |-> SentAt(queue[i], now)]
  <1>2. sending \in Seq(CommandType) /\ Len(sending) = sends /\ sends \in Nat
    <2>1. \A i \in 1..sends : SentAt(queue[i], now) \in CommandType
      BY SentAtIs
    <2> QED BY <2>1
  <1>3. waiting' \in Seq(CommandType)
    <2>1. Len(queue) \in Int /\ sends + 1 \in Int
          /\ \A i \in sends + 1 .. Len(queue) : queue[i] \in CommandType
      <3>1. Len(queue) \in Nat /\ \A i \in 1 .. Len(queue) : queue[i] \in CommandType
        OBVIOUS
      <3>2. \A i \in sends + 1 .. Len(queue) : i \in 1 .. Len(queue)
        BY <3>1
      <3> QED BY <3>1, <3>2
    <2> QED BY <1>1, <2>1, SubSeqProperties
  <1>4. Young(net', now)
    <2> DEFINE Copy(c) == [name |-> c.name, sentTime |-> now]
               copies == {Copy(c) : c \in ToSet(sending)}
    <2>1. net' = {a \in net : Minus(now, a.sentTime) <= Lifetime} \cup copies
      BY <1>1
    <2>2. \A c : Copy(c).sentTime = now
      OBVIOUS
    <2> HIDE DEF Copy, sending
    <2>3. Minus(now, now) = 0
      <3>1. now \in Nat
        BY DEF Time
      <3> QED BY <3>1, MinusIs
    <2>4. 0 <= Lifetime
      BY TimingAssumption
    <2> QED BY <2>1, <2>2, <2>3, <2>4 DEF copies, Young, TimingInv
  <1>5. sentReliableCommands' = scan.sent \o sending
        /\ nextTimeout' = IF scan.sent = <<>> /\ sends > 0
                          THEN DueTime(Head(sending)) ELSE scan.next
    BY <1>1
  <1> HIDE DEF sending
  <1>6. sending # <<>> => sends > 0
    BY <1>2
  <1>7. sentReliableCommands' \in Seq(CommandType)
    BY <1>2, <1>5, ConcatFront DEF ScanOK
  <1>8. FrontIsDue(sentReliableCommands', nextTimeout')
    <2>1. CASE scan.sent = <<>>
      BY <1>2, <1>5, <1>6, <2>1, ConcatFront DEF ScanOK, FrontIsDue
    <2>2. CASE scan.sent # <<>>
      BY <1>2, <1>5, <2>2, ConcatFront DEF ScanOK, FrontIsDue
    <2> QED BY <2>1, <2>2
  <1> QED BY <1>3, <1>4, <1>7, <1>8 DEF FrontIsDue

\* The lists as they are before the loop.
LEMMA ScanIsOK ==
  ASSUME TimingInv
  PROVE  ScanOK(Scan)
  BY DEF TimingInv, ScanOK, Scan, ScanFields

\* A peer that was given up has nothing left.
LEMMA GiveUpStep ==
  ASSUME TimingInv, GiveUp, serviceTime' \in Time
  PROVE  TimingInv'
  BY TimingAssumption DEF TimingInv, GiveUp, Young, FrontIsDue

\* A turn of sending, with the timeouts checked first.
LEMMA EnetHostServiceStep ==
  ASSUME TimingInv, NEW now \in Time, EnetHostService(now)
  PROVE  TimingInv'
  <1> DEFINE scan == CheckTimeouts(now)
  <1>1. ScanOK(scan)
    BY ScanIsOK, CheckTimeoutsStep
  <1>2. /\ serviceTime' = now
        /\ \/ GiveUp
           \/ /\ Send(scan, scan.requeued \o waiting, now)
              /\ UNCHANGED estimates
    BY DEF EnetHostService
  <1> HIDE DEF scan
  <1>3. CASE GiveUp
    BY <1>2, <1>3, GiveUpStep
  <1>4. CASE Send(scan, scan.requeued \o waiting, now) /\ UNCHANGED estimates
    <2>1. scan.requeued \o waiting \in Seq(CommandType)
      BY <1>1, ConcatFront DEF ScanOK, TimingInv
    <2> QED BY <1>1, <1>2, <1>4, <2>1, SendStep DEF TimingInv, estimates
  <1> QED BY <1>2, <1>3, <1>4

\* A turn of sending alone.
LEMMA EnetHostFlushStep ==
  ASSUME TimingInv, NEW now \in Time, EnetHostFlush(now)
  PROVE  TimingInv'
  <1>1. serviceTime' = now /\ Send(Scan, waiting, now) /\ UNCHANGED estimates
    BY DEF EnetHostFlush
  <1> QED BY <1>1, ScanIsOK, SendStep DEF TimingInv, estimates

\* The estimates are never negative.
LEMMA MeasuredIs ==
  ASSUME TimingInv, NEW time \in Nat
  PROVE  Measured(time)[1] \in Nat /\ Measured(time)[2] \in Nat
  <1> DEFINE diff == IF time >= roundTripTime THEN time - roundTripTime ELSE roundTripTime - time
  <1>1. roundTripTime \in Nat /\ roundTripTimeVariance \in Nat /\ diff \in Nat
    BY DEF TimingInv
  <1>2. /\ roundTripTimeVariance - roundTripTimeVariance \div 4 \in Nat
        /\ diff \div 4 \in Nat /\ diff \div 8 \in Nat /\ (time + 1) \div 2 \in Nat
        /\ diff \div 8 <= diff
    BY <1>1, SMT
  <1>3. ~(time >= roundTripTime) => diff <= roundTripTime
    BY <1>1
  <1> HIDE DEF diff
  <1>4. roundTripTime + diff \div 8 \in Nat
        /\ (~(time >= roundTripTime) => roundTripTime - diff \div 8 \in Nat)
        /\ (roundTripTimeVariance - roundTripTimeVariance \div 4) + diff \div 4 \in Nat
    BY <1>1, <1>2, <1>3
  <1>5. \/ Measured(time) = <<time, (time + 1) \div 2>>
        \/ Measured(time) =
             <<IF time >= roundTripTime THEN roundTripTime + diff \div 8
               ELSE roundTripTime - diff \div 8,
               (roundTripTimeVariance - roundTripTimeVariance \div 4) + diff \div 4>>
    BY DEF Measured, diff
  <1> QED BY <1>2, <1>4, <1>5

\* An acknowledgement: the front of what is left sets the next timeout.
LEMMA HandleAcknowledgeStep ==
  ASSUME TimingInv, NEW a \in net, HandleAcknowledge(a)
  PROVE  TimingInv'
  <1> DEFINE sentTime == Widened(a.sentTime % Low)
             time == MeasuredTime(sentTime)
  <1>1. /\ roundTripTime' = Measured(time)[1] /\ roundTripTimeVariance' = Measured(time)[2]
        /\ RemoveSentReliableCommand(a.name)
        /\ serviceTime' = serviceTime /\ net' = net
    BY DEF HandleAcknowledge
  <1>2. sentTime \in Time
    <2> DEFINE echo == a.sentTime % Low
               high == High(serviceTime)
    <2>1. a.sentTime \in Time /\ Low \in Nat \ {0}
      BY TimingAssumption DEF TimingInv, Young
    <2>2. echo \in 0..(Low - 1) /\ high \in Time /\ high + Low <= Modulus
      BY <2>1, LowIs DEF TimingInv
    <2>3. sentTime = Minus(high + echo, Low) \/ sentTime = high + echo
      BY DEF Widened
    <2> HIDE DEF echo, high, sentTime
    <2>4. high + echo \in Time
      BY <2>1, <2>2, TimingAssumption DEF Time
    <2>5. Minus(high + echo, Low) \in Time
      <3>1. high + echo \in Int /\ Low \in Int
        BY <2>1, <2>4 DEF Time
      <3> QED BY <3>1, TimesAreTimes
    <2> QED BY <2>3, <2>4, <2>5
  <1> HIDE DEF sentTime
  <1>3. time \in Nat
    <2>1. Minus(serviceTime, sentTime) \in Nat /\ Minus(sentTime, serviceTime) \in Nat
      <3>1. serviceTime \in Int /\ sentTime \in Int
        BY <1>2 DEF Time, TimingInv
      <3> QED BY <3>1, TimesAreTimes DEF Time
    <2> QED BY <2>1 DEF MeasuredTime, TimeDifference, Larger
  <1> HIDE DEF time
  <1>4. roundTripTime' \in Nat /\ roundTripTimeVariance' \in Nat
    BY <1>1, <1>3, MeasuredIs
  <1>5. waiting' \in Seq(CommandType) /\ sentReliableCommands' \in Seq(CommandType)
    BY <1>1, WithoutIs DEF RemoveSentReliableCommand, TimingInv
  <1>6. FrontIsDue(sentReliableCommands', nextTimeout')
    BY <1>1 DEF RemoveSentReliableCommand, NextOf, FrontIsDue
  <1> QED BY <1>1, <1>4, <1>5, <1>6 DEF TimingInv, FrontIsDue

\* A command that is queued waits.
LEMMA EnetPeerSendStep ==
  ASSUME TimingInv, EnetPeerSend
  PROVE  TimingInv'
  <1>1. PICK name \in Commands : waiting' = Append(waiting, NewCommand(name))
    BY DEF EnetPeerSend
  <1>2. NewCommand(name) \in CommandType
    <2>1. 0 \in Time
      BY TimingAssumption DEF Time
    <2> QED BY <2>1 DEF NewCommand, CommandType
  <1>3. waiting' \in Seq(CommandType)
    BY <1>1, <1>2 DEF TimingInv
  <1> QED BY <1>3 DEF EnetPeerSend, estimates, TimingInv, FrontIsDue

\* The invariant of the clock: no acknowledgement in flight is older than Lifetime,
\* and nextTimeout is that of the command sent longest ago, whatever is sent again,
\* acknowledged out of order or given up.
THEOREM TimingInvariant == Spec => []TimingInv
  <1>1. Init => TimingInv
    BY TimingAssumption DEF Init, TimingInv, Young, FrontIsDue
  <1>2. TimingInv /\ [Next]_vars => TimingInv'
    <2> SUFFICES ASSUME TimingInv, [Next]_vars
                 PROVE  TimingInv'
      OBVIOUS
    <2>1. ASSUME NEW pause \in Pauses
          PROVE  Plus(serviceTime, pause) \in Time
      <3>1. serviceTime \in Int /\ pause \in Int
        BY TimingAssumption DEF TimingInv, Time
      <3> QED BY <3>1, TimesAreTimes
    <2>2. ASSUME NEW pause \in Pauses, EnetHostService(Plus(serviceTime, pause))
          PROVE  TimingInv'
      BY <2>1, <2>2, EnetHostServiceStep
    <2>3. ASSUME NEW pause \in Pauses, EnetHostFlush(Plus(serviceTime, pause))
          PROVE  TimingInv'
      BY <2>1, <2>3, EnetHostFlushStep
    <2>4. CASE EnetPeerSend
      BY <2>4, EnetPeerSendStep
    <2>5. ASSUME NEW a \in net, HandleAcknowledge(a)
          PROVE  TimingInv'
      BY <2>5, HandleAcknowledgeStep
    <2>6. CASE Connect
      BY <2>6 DEF Connect, estimates, TimingInv, FrontIsDue
    <2>7. CASE UNCHANGED vars
      BY <2>7 DEF vars, TimingInv, FrontIsDue
    <2> QED BY <2>2, <2>3, <2>4, <2>5, <2>6, <2>7 DEF Next
  <1> QED BY <1>1, <1>2, PTL DEF Spec

\* enet_protocol_check_timeouts is entered when the oldest transmission is overdue:
\* the three functions that write nextTimeout agree on the front of the list.
THEOREM NextTimeoutAlwaysDue == Spec => []NextTimeoutIsDue
  <1>1. TimingInv => NextTimeoutIsDue
    BY DEF TimingInv, FrontIsDue, NextTimeoutIsDue
  <1> QED BY <1>1, TimingInvariant, PTL

\* enet_protocol_handle_acknowledge knows the time its command was sent at from the
\* lower bits alone, or ignores an acknowledgement of more than half a turn.
THEOREM EchoAlwaysTellsTime == Spec => []EchoTellsTime
  <1>1. TimingInv => EchoTellsTime
    <2> SUFFICES ASSUME TimingInv, NEW a \in net
                 PROVE  LET sentTime == Widened(a.sentTime % Low)
                        IN  IF TimeLess(serviceTime, sentTime)
                            THEN Minus(serviceTime, a.sentTime) > Low \div 2
                            ELSE sentTime = a.sentTime
      BY DEF EchoTellsTime
    <2>1. a.sentTime \in Time /\ Minus(serviceTime, a.sentTime) <= Lifetime
      BY DEF TimingInv, Young
    <2>2. Minus(serviceTime, a.sentTime) \in Int /\ Lifetime \in 1..(Low - 1) /\ Low \in Int
      <3>1. serviceTime \in Int /\ a.sentTime \in Int
        BY <2>1 DEF TimingInv, Time
      <3>2. Minus(serviceTime, a.sentTime) \in 0..(Modulus - 1)
        BY <3>1, TimesAreTimes DEF Time
      <3>3. Minus(serviceTime, a.sentTime) \in Int
        BY <3>2
      <3> QED BY <3>3, TimingAssumption
    <2>3. Minus(serviceTime, a.sentTime) < Low
      BY <2>1, <2>2
    <2> QED BY <2>1, <2>3, EchoIsTime DEF TimingInv
  <1> QED BY <1>1, TimingInvariant, PTL
=============================================================================
