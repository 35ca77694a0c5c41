--------------------------- MODULE EnetArithmetic ---------------------------
(***************************************************************************)
(* What the other proofs use of numbers and sequences: division with       *)
(* remainder and the least element of a set of numbers, since sequence     *)
(* numbers, windows and times are all kept modulo something and the provers*)
(* know division by a variable only through these facts; functions defined *)
(* step by step; what the elements of a sequence weigh together.           *)
(***************************************************************************)
EXTENDS Integers, Sequences, FiniteSets, FiniteSetTheorems, SequenceTheorems, TLAPS

-----------------------------------------------------------------------------
(* Division.                                                               *)

\* What n \div d and n % d are.
LEMMA DivMod ==
  ASSUME NEW n \in Int, NEW d \in Nat \ {0}
  PROVE  /\ n \div d \in Int
         /\ n % d \in 0..(d - 1)
         /\ n = d * (n \div d) + (n % d)
  BY SMT

\* The quotient of a natural number is one.
LEMMA DivNat ==
  ASSUME NEW n \in Nat, NEW d \in Nat \ {0}
  PROVE  n \div d \in Nat
  <1> DEFINE p == n \div d
  <1>1. p \in Int /\ n % d \in 0..(d - 1) /\ n = d * p + (n % d)
    BY DivMod
  <1> HIDE DEF p
  <1>2. CASE p <= -1
    <2>1. d * p <= -d
      BY <1>1, <1>2, SMT
    <2> QED BY <1>1, <2>1, SMT
  <1> QED BY <1>1, <1>2, SMT DEF p

\* Quotient and remainder are unique.
LEMMA DivUnique ==
  ASSUME NEW n \in Int, NEW d \in Nat \ {0}, NEW q \in Int, NEW r \in 0..(d - 1),
         n = d * q + r
  PROVE  n \div d = q /\ n % d = r
  <1> DEFINE p == n \div d
             t == n % d
  <1>1. p \in Int /\ t \in 0..(d - 1) /\ n = d * p + t
    BY DivMod
  <1> HIDE DEF p, t
  <1>2. d * (p - q) = r - t
    BY <1>1, SMT
  <1>3. p = q
    <2>1. CASE p - q >= 1
      <3>1. d * (p - q) >= d
        BY <1>1, <2>1, SMT
      <3> QED BY <1>1, <1>2, <3>1, SMT
    <2>2. CASE p - q <= -1
      <3>1. d * (p - q) <= -d
        BY <1>1, <2>2, SMT
      <3> QED BY <1>1, <1>2, <3>1, SMT
    <2> QED BY <1>1, <2>1, <2>2, SMT
  <1> QED BY <1>1, <1>2, <1>3, SMT DEF p, t

\* Dividing by d what is kept modulo k * d.
LEMMA DivOfMod ==
  ASSUME NEW n \in Int, NEW k \in Nat \ {0}, NEW d \in Nat \ {0}
  PROVE  /\ (n % (k * d)) \div d = (n \div d) % k
         /\ (n % (k * d)) % d = n % d
  <1> DEFINE s == n % (k * d)
             q == n \div (k * d)
             u == s \div d
             t == s % d
  <1>1. k * d \in Nat \ {0}
    BY SMT
  <1>2. s \in 0..(k * d - 1) /\ q \in Int /\ n = (k * d) * q + s
    BY <1>1, DivMod
  <1>3. u \in Int /\ t \in 0..(d - 1) /\ s = d * u + t
    <2> HIDE DEF s
    <2>1. s \in Int
      BY <1>1, <1>2
    <2> QED BY <2>1, DivMod
  <1> HIDE DEF s, q, u, t
  <1>4. u \in 0..(k - 1)
    <2>1. CASE u >= k
      <3>1. d * u >= k * d
        BY <1>3, <2>1, SMT
      <3> QED BY <1>2, <1>3, <3>1, SMT
    <2>2. CASE u < 0
      <3>1. d * u <= -d
        BY <1>3, <2>2, SMT
      <3> QED BY <1>2, <1>3, <3>1, SMT
    <2> QED BY <1>3, <2>1, <2>2, SMT
  <1>5. n = d * (k * q + u) + t
    BY <1>2, <1>3, <1>4, SMT
  <1>6. n \div d = k * q + u /\ n % d = t
    BY <1>2, <1>3, <1>4, <1>5, DivUnique
  <1>7. (k * q + u) % k = u
    BY <1>2, <1>4, DivUnique
  <1> QED BY <1>6, <1>7 DEF u, t, s

\* Dividing by d keeps the order, and n is in the d numbers from
\* d * (n \div d) on.
LEMMA DivMonotone ==
  ASSUME NEW n \in Int, NEW m \in Int, NEW d \in Nat \ {0}
  PROVE  /\ n <= m => n \div d <= m \div d
         /\ d * (n \div d) <= n
         /\ n < d * (n \div d) + d
  <1> DEFINE p == n \div d
             q == m \div d
  <1>1. p \in Int /\ n % d \in 0..(d - 1) /\ n = d * p + (n % d)
    BY DivMod
  <1>2. q \in Int /\ m % d \in 0..(d - 1) /\ m = d * q + (m % d)
    BY DivMod
  <1> HIDE DEF p, q
  <1>3. d * p <= n /\ n < d * p + d /\ d * q <= m /\ m < d * q + d
    BY <1>1, <1>2, SMT
  <1>4. ASSUME n <= m PROVE p <= q
    <2>1. CASE p >= q + 1
      <3>1. d * p >= d * q + d
        BY <1>1, <1>2, <2>1, SMT
      <3> QED BY <1>1, <1>2, <1>3, <1>4, <3>1, SMT
    <2> QED BY <1>1, <1>2, <2>1, SMT
  <1> QED BY <1>3, <1>4 DEF p, q

\* Numbers that agree modulo d and are less than d apart are equal.
LEMMA ModEqual ==
  ASSUME NEW n \in Int, NEW m \in Int, NEW d \in Nat \ {0},
         n % d = m % d, n - m < d, m - n < d
  PROVE  n = m
  <1> DEFINE p == n \div d
             q == m \div d
             t == n % d
  <1>1. p \in Int /\ t \in 0..(d - 1) /\ n = d * p + t
    BY DivMod
  <1>2. q \in Int /\ m = d * q + t
    BY DivMod
  <1> HIDE DEF p, q, t
  <1>3. n - m = d * (p - q)
    BY <1>1, <1>2, SMT
  <1>4. CASE p - q >= 1
    <2>1. d * (p - q) >= d
      BY <1>1, <1>2, <1>4, SMT
    <2> QED BY <1>3, <2>1, SMT
  <1>5. CASE p - q <= -1
    <2>1. d * (p - q) <= -d
      BY <1>1, <1>2, <1>5, SMT
    <2> QED BY <1>3, <2>1, SMT
  <1> QED BY <1>1, <1>2, <1>4, <1>5, SMT

\* A number may be reduced before another is added to it.
LEMMA ModShift ==
  ASSUME NEW n \in Int, NEW k \in Int, NEW d \in Nat \ {0}
  PROVE  ((n % d) + k) % d = (n + k) % d
  <1> DEFINE p == n \div d
             r == n % d
             o == (r + k) \div d
             t == (r + k) % d
  <1>1. p \in Int /\ r \in 0..(d - 1) /\ n = d * p + r
    BY DivMod
  <1>2. r + k \in Int
    BY <1>1
  <1>3. o \in Int /\ t \in 0..(d - 1) /\ r + k = d * o + t
    BY <1>2, DivMod
  <1> HIDE DEF p, r, o, t
  <1>4. n + k = d * (p + o) + t
    BY <1>1, <1>3, SMT
  <1>5. (n + k) % d = t
    <2>1. n + k \in Int /\ p + o \in Int
      BY <1>1, <1>3
    <2> QED BY <1>3, <1>4, <2>1, DivUnique
  <1> QED BY <1>5 DEF t, r

\* Adding d changes nothing modulo d.
LEMMA ModPeriod ==
  ASSUME NEW n \in Int, NEW d \in Nat \ {0}
  PROVE  (n + d) % d = n % d
  <1> DEFINE p == n \div d
             r == n % d
  <1>1. p \in Int /\ r \in 0..(d - 1) /\ n = d * p + r
    BY DivMod
  <1> HIDE DEF p, r
  <1>2. n + d = d * (p + 1) + r
    BY <1>1, SMT
  <1>3. (n + d) % d = r
    <2>1. n + d \in Int /\ p + 1 \in Int
      BY <1>1
    <2> QED BY <1>1, <1>2, <2>1, DivUnique
  <1> QED BY <1>3 DEF r

-----------------------------------------------------------------------------
(* The order of the natural numbers.                                       *)

\* A set of natural numbers that is not empty has a least element.
LEMMA LeastNumber ==
  ASSUME NEW T \in SUBSET Nat, T # {}
  PROVE  \E x \in T : \A y \in T : x <= y
  <1> DEFINE F == {0..n : n \in T}
  <1>1. IsWellFoundedOn(StrictSubsetOrdering(Nat), FiniteSubsetsOf(Nat))
    BY FS_StrictSubsetOrderingWellFounded
  <1>2. F \subseteq FiniteSubsetsOf(Nat) /\ F # {}
    <2>1. ASSUME NEW n \in T PROVE 0..n \in SUBSET Nat /\ IsFiniteSet(0..n)
      BY FS_Interval
    <2> QED BY <2>1 DEF FiniteSubsetsOf
  <1> HIDE DEF F
  <1>3. \E I \in F : \A J \in F : ~ (<<J, I>> \in StrictSubsetOrdering(Nat))
    BY <1>1, <1>2, WFMin
  <1>4. PICK x \in T : \A y \in T : ~ (<<0..y, 0..x>> \in StrictSubsetOrdering(Nat))
    BY <1>3 DEF F
  <1>5. ASSUME NEW y \in T, y < x PROVE FALSE
    <2>1. 0..y \subseteq 0..x /\ x \in 0..x /\ x \notin 0..y /\ 0..x \subseteq Nat
      BY <1>5
    <2>2. <<0..y, 0..x>> \in StrictSubsetOrdering(Nat)
      BY <2>1 DEF StrictSubsetOrdering
    <2> QED BY <1>4, <2>2
  <1> QED BY <1>5

-----------------------------------------------------------------------------
(* Recursion and induction up to a number.                                 *)

\* What holds of 0 and is kept by each step holds up to N.
LEMMA UpTo ==
  ASSUME NEW N \in Nat, NEW T, 0 \in T, \A n \in 1..N : n - 1 \in T => n \in T
  PROVE  \A n \in 0..N : n \in T
  <1> DEFINE W == {n \in 0..N : n \notin T}
  <1>1. W \in SUBSET Nat
    OBVIOUS
  <1>2. CASE W # {}
    <2>1. PICK k \in W : \A j \in W : k <= j
      BY <1>1, <1>2, LeastNumber
    <2>2. k \in 1..N
      BY <2>1
    <2>3. k - 1 \in 0..N /\ k - 1 \notin W
      BY <2>1, <2>2
    <2> QED BY <2>1, <2>2, <2>3
  <1> QED BY <1>2

\* f is what the steps 1 to k make of base, one after the other.
Steps(f, S, base, step, k) ==
  /\ f \in [0..k -> S]
  /\ f[0] = base
  /\ \A n \in 1..k : f[n] = step[n][f[n - 1]]

\* A function can be defined step by step.
LEMMA Iterates ==
  ASSUME NEW N \in Nat, NEW S, NEW base \in S, NEW step \in [1..N -> [S -> S]]
  PROVE  \E f : Steps(f, S, base, step, N)
  <1> DEFINE T == {k \in 0..N : \E f : Steps(f, S, base, step, k)}
  <1>1. 0 \in T
    <2>1. Steps([n \in 0..0 |-> base], S, base, step, 0)
      BY DEF Steps
    <2> QED BY <2>1
  <1>2. ASSUME NEW k \in 1..N, k - 1 \in T PROVE k \in T
    <2>1. PICK f : Steps(f, S, base, step, k - 1)
      BY <1>2
    <2> DEFINE g == [n \in 0..k |-> IF n = k THEN step[k][f[k - 1]] ELSE f[n]]
    <2>2. f[k - 1] \in S /\ step[k] \in [S -> S]
      BY <2>1 DEF Steps
    <2>3. g \in [0..k -> S]
      BY <2>1, <2>2 DEF Steps
    <2>4. g[0] = base
      BY <2>1 DEF Steps
    <2>5. ASSUME NEW n \in 1..k PROVE g[n] = step[n][g[n - 1]]
      BY <2>1 DEF Steps
    <2>6. Steps(g, S, base, step, k)
      BY <2>3, <2>4, <2>5 DEF Steps
    <2> HIDE DEF g
    <2> QED BY <2>6
  <1>3. N \in T
    <2> HIDE DEF T
    <2>1. \A n \in 0..N : n \in T
      BY <1>1, <1>2, UpTo
    <2> QED BY <2>1
  <1> QED BY <1>3

\* f is what rounds of one step make of base.
Repetition(f, S, base, step, k) ==
  /\ f \in [0..k -> S]
  /\ f[0] = base
  /\ \A n \in 1..k : f[n] = step[f[n - 1]]

LEMMA Repeats ==
  ASSUME NEW N \in Nat, NEW S, NEW base \in S, NEW step \in [S -> S]
  PROVE  \E f : Repetition(f, S, base, step, N)
  <1> DEFINE steps == [n \in 1..N |-> step]
  <1>1. PICK f : Steps(f, S, base, steps, N)
    <2>1. steps \in [1..N -> [S -> S]]
      OBVIOUS
    <2> HIDE DEF steps
    <2> QED BY <2>1, Iterates
  <1>2. Repetition(f, S, base, step, N)
    BY <1>1 DEF Steps, Repetition
  <1> QED BY <1>2

-----------------------------------------------------------------------------
(* What is left of a sequence without its first elements.                  *)

LEMMA TailElements ==
  ASSUME NEW D, NEW q \in Seq(D), NEW n \in 0..Len(q)
  PROVE  LET p == SubSeq(q, n + 1, Len(q))
         IN  p \in Seq(D) /\ Len(p) = Len(q) - n /\ \A k \in 1..(Len(q) - n) : p[k] = q[n + k]
  <1> DEFINE N == Len(q)
             p == SubSeq(q, n + 1, N)
  <1>1. N \in Nat /\ \A k \in 1..N : q[k] \in D
    BY LenProperties, ElementOfSeq
  <1>2. n + 1 \in Int /\ N \in Int /\ \A k \in (n + 1)..N : q[k] \in D
    BY <1>1
  <1>3. p \in Seq(D) /\ Len(p) = (IF n + 1 <= N THEN N - (n + 1) + 1 ELSE 0) /\ \A k \in 1..(N - (n + 1) + 1) : p[k] = q[(n + 1) + k - 1]
    BY <1>2, SubSeqProperties
  <1> HIDE DEF p
  <1>4. n \in 0..N
    OBVIOUS
  <1> HIDE DEF N
  <1>5. Len(p) = N - n /\ N - (n + 1) + 1 = N - n
    BY <1>1, <1>3, <1>4
  <1>6. ASSUME NEW k \in 1..(N - n) PROVE p[k] = q[n + k]
    <2>1. (n + 1) + k - 1 = n + k
      BY <1>1, <1>4
    <2> QED BY <1>3, <1>5, <2>1
  <1> QED BY <1>3, <1>5, <1>6 DEF p, N

-----------------------------------------------------------------------------
(* What the elements of a sequence weigh together.                         *)

\* g[n] is the weight of the first n elements of q.
Running(g, w, q) ==
  /\ g \in [0..Len(q) -> Nat]
  /\ g[0] = 0
  /\ \A n \in 1..Len(q) : g[n] = g[n - 1] + w[q[n]]

Load(w, q) == (CHOOSE g : Running(g, w, q))[Len(q)]

LEMMA RunningExists ==
  ASSUME NEW D, NEW w \in [D -> Nat], NEW q \in Seq(D)
  PROVE  \E g : Running(g, w, q)
  <1> DEFINE step == [n \in 1..Len(q) |-> [x \in Nat |-> x + w[q[n]]]]
  <1>1. Len(q) \in Nat /\ \A n \in 1..Len(q) : w[q[n]] \in Nat
    BY LenProperties, ElementOfSeq
  <1>2. step \in [1..Len(q) -> [Nat -> Nat]]
    BY <1>1
  <1>3. PICK g : Steps(g, Nat, 0, step, Len(q))
    <2> HIDE DEF step
    <2> QED BY <1>1, <1>2, Iterates
  <1>4. ASSUME NEW n \in 1..Len(q) PROVE g[n] = g[n - 1] + w[q[n]]
    <2>1. n - 1 \in 0..Len(q)
      BY <1>1
    <2>2. g[n - 1] \in Nat /\ g[n] = step[n][g[n - 1]]
      BY <1>3, <2>1 DEF Steps
    <2> QED BY <2>2
  <1>5. Running(g, w, q)
    BY <1>3, <1>4 DEF Running, Steps
  <1> QED BY <1>5

\* Sequences whose first elements weigh the same one by one.
Alike(v, p, w, q, k) == k \in 0..Len(p) /\ k \in 0..Len(q) /\ \A n \in 1..k : v[p[n]] = w[q[n]]

LEMMA RunningSame ==
  ASSUME NEW g, NEW v, NEW p, Running(g, v, p), Len(p) \in Nat,
         NEW h, NEW w, NEW q, Running(h, w, q), Len(q) \in Nat, NEW k, Alike(v, p, w, q, k)
  PROVE  g[k] = h[k]
  <1> DEFINE T == {n \in 0..k : g[n] = h[n]}
  <1>0. k \in Nat /\ k <= Len(p) /\ k <= Len(q) /\ \A n \in 1..k : v[p[n]] = w[q[n]]
    BY DEF Alike
  <1>1. 0 \in T
    BY <1>0 DEF Running
  <1>2. ASSUME NEW n \in 1..k, n - 1 \in T PROVE n \in T
    <2>1. n \in 1..Len(p) /\ n \in 1..Len(q) /\ n \in 0..k /\ g[n - 1] = h[n - 1]
      BY <1>0, <1>2
    <2>2. g[n] = g[n - 1] + v[p[n]] /\ h[n] = h[n - 1] + w[q[n]] /\ v[p[n]] = w[q[n]]
      BY <1>0, <2>1 DEF Running
    <2> QED BY <2>1, <2>2
  <1> HIDE DEF T
  <1>3. \A n \in 0..k : n \in T
    BY <1>0, <1>1, <1>2, UpTo
  <1>4. k \in T
    BY <1>0, <1>3
  <1> QED BY <1>4 DEF T

LEMMA LoadIs ==
  ASSUME NEW D, NEW w \in [D -> Nat], NEW q \in Seq(D)
  PROVE  \E g : Running(g, w, q) /\ Load(w, q) = g[Len(q)] /\ Load(w, q) \in Nat
  <1>1. Running(CHOOSE g : Running(g, w, q), w, q)
    BY RunningExists
  <1>2. Len(q) \in 0..Len(q)
    BY LenProperties
  <1> QED BY <1>1, <1>2 DEF Load, Running

\* Two lists of the same length whose elements weigh the same one by one.
Matched(C, v, p, D, w, q) ==
  /\ v \in [C -> Nat] /\ p \in Seq(C)
  /\ w \in [D -> Nat] /\ q \in Seq(D)
  /\ Len(p) = Len(q)
  /\ Alike(v, p, w, q, Len(q))

LEMMA LoadSame ==
  ASSUME NEW C, NEW v, NEW p, NEW D, NEW w, NEW q, Matched(C, v, p, D, w, q)
  PROVE  Load(v, p) = Load(w, q)
  <1>0. v \in [C -> Nat] /\ p \in Seq(C) /\ w \in [D -> Nat] /\ q \in Seq(D)
    BY DEF Matched
  <1>1. PICK g : Running(g, v, p) /\ Load(v, p) = g[Len(p)]
    BY <1>0, LoadIs
  <1>2. PICK h : Running(h, w, q) /\ Load(w, q) = h[Len(q)]
    BY <1>0, LoadIs
  <1>3. Len(p) \in Nat /\ Len(q) \in Nat
    BY <1>0, LenProperties
  <1>4. Len(p) = Len(q) /\ Alike(v, p, w, q, Len(p))
    BY DEF Matched
  <1>5. g[Len(p)] = h[Len(p)]
    BY <1>1, <1>2, <1>3, <1>4, RunningSame
  <1> QED BY <1>1, <1>2, <1>4, <1>5

LEMMA LoadEmpty ==
  ASSUME NEW D, NEW w \in [D -> Nat]
  PROVE  <<>> \in Seq(D) /\ Load(w, <<>>) = 0
  <1>1. <<>> \in Seq(D) /\ Len(<<>>) = 0
    OBVIOUS
  <1>2. PICK g : Running(g, w, <<>>) /\ Load(w, <<>>) = g[Len(<<>>)]
    BY <1>1, LoadIs
  <1> QED BY <1>1, <1>2 DEF Running

LEMMA LoadAppend ==
  ASSUME NEW D, NEW w \in [D -> Nat], NEW q \in Seq(D), NEW x \in D
  PROVE  Append(q, x) \in Seq(D) /\ Load(w, Append(q, x)) = Load(w, q) + w[x]
  <1> DEFINE p == Append(q, x)
             k == Len(q)
  <1>1. p \in Seq(D) /\ k \in Nat /\ Len(p) = k + 1 /\ p[k + 1] = x /\ \A n \in 1..k : p[n] = q[n]
    BY AppendProperties, LenProperties
  <1> HIDE DEF p
  <1>2. PICK g : Running(g, w, q) /\ Load(w, q) = g[k]
    BY LoadIs
  <1>3. PICK h : Running(h, w, p) /\ Load(w, p) = h[k + 1]
    BY <1>1, LoadIs
  <1>4. g[k] = h[k]
    <2>1. Alike(w, q, w, p, k) /\ Len(p) \in Nat /\ Len(q) \in Nat
      BY <1>1 DEF Alike
    <2> QED BY <1>2, <1>3, <2>1, RunningSame
  <1>5. h[k + 1] = h[k] + w[x]
    <2>1. k + 1 \in 1..Len(p) /\ (k + 1) - 1 = k
      BY <1>1
    <2> QED BY <1>1, <1>3, <2>1 DEF Running
  <1> QED BY <1>1, <1>2, <1>3, <1>4, <1>5 DEF p

LEMMA LoadConcat ==
  ASSUME NEW D, NEW w \in [D -> Nat], NEW p \in Seq(D), NEW q \in Seq(D)
  PROVE  p \o q \in Seq(D) /\ Load(w, p \o q) = Load(w, p) + Load(w, q)
  <1> DEFINE r == p \o q
             j == Len(p)
             k == Len(q)
  <1>1. /\ r \in Seq(D) /\ j \in Nat /\ k \in Nat /\ Len(r) = j + k
        /\ \A n \in 1..j : r[n] = p[n]
        /\ \A n \in 1..k : r[j + n] = q[n]
    <2>1. r \in Seq(D) /\ j \in Nat /\ k \in Nat /\ Len(r) = j + k
      BY ConcatProperties, LenProperties
    <2>2. \A n \in 1..(j + k) : r[n] = IF n <= j THEN p[n] ELSE q[n - j]
      BY ConcatProperties
    <2>3. ASSUME NEW n \in 1..j PROVE r[n] = p[n]
      BY <2>1, <2>2
    <2>4. ASSUME NEW n \in 1..k PROVE r[j + n] = q[n]
      <3>1. j + n \in 1..(j + k) /\ ~(j + n <= j) /\ (j + n) - j = n
        BY <2>1
      <3> QED BY <2>2, <3>1
    <2> QED BY <2>1, <2>3, <2>4
  <1> HIDE DEF r, j, k
  <1>2. PICK g : Running(g, w, p) /\ Load(w, p) = g[j]
    BY LoadIs DEF j
  <1>3. PICK h : Running(h, w, q) /\ Load(w, q) = h[k]
    BY LoadIs DEF k
  <1>4. PICK f : Running(f, w, r) /\ Load(w, r) = f[j + k]
    BY <1>1, LoadIs
  <1>5. f[j] = g[j]
    <2>1. Alike(w, r, w, p, j) /\ Len(r) \in Nat /\ Len(p) \in Nat
      BY <1>1 DEF Alike, j
    <2> QED BY <1>2, <1>4, <2>1, RunningSame
  <1> DEFINE T == {n \in 0..k : f[j + n] = f[j] + h[n]}
  <1>6. 0 \in T
    <2>1. f[j] \in Nat /\ h[0] = 0 /\ j + 0 = j
      <3>1. j \in 0..Len(r)
        BY <1>1
      <3>2. f[j] \in Nat
        BY <1>4, <3>1 DEF Running
      <3> QED BY <1>1, <1>3, <3>2 DEF Running
    <2> QED BY <1>1, <2>1
  <1>7. ASSUME NEW n \in 1..k, n - 1 \in T PROVE n \in T
    <2>1. n \in 0..k /\ j + n \in 1..Len(r) /\ (j + n) - 1 = j + (n - 1) /\ f[j + (n - 1)] = f[j] + h[n - 1]
      BY <1>1, <1>7
    <2>2. f[j + n] = f[j + (n - 1)] + w[q[n]]
      BY <1>1, <1>4, <2>1 DEF Running
    <2>3. h[n] = h[n - 1] + w[q[n]] /\ h[n - 1] \in Nat /\ f[j] \in Nat
      <3>1. n \in 1..Len(q) /\ n - 1 \in 0..Len(q) /\ j \in 0..Len(r)
        BY <1>1 DEF k
      <3> QED BY <1>3, <1>4, <3>1 DEF Running
    <2>4. w[q[n]] \in Nat
      BY ElementOfSeq DEF k
    <2> QED BY <2>1, <2>2, <2>3, <2>4
  <1> HIDE DEF T
  <1>8. \A n \in 0..k : n \in T
    BY <1>1, <1>6, <1>7, UpTo
  <1>9. f[j + k] = f[j] + h[k]
    <2>1. k \in T
      BY <1>1, <1>8
    <2> QED BY <2>1 DEF T
  <1> QED BY <1>1, <1>2, <1>3, <1>4, <1>5, <1>9 DEF r

LEMMA LoadOne ==
  ASSUME NEW D, NEW w \in [D -> Nat], NEW x \in D
  PROVE  <<x>> \in Seq(D) /\ Load(w, <<x>>) = w[x]
  <1>1. Append(<<>>, x) = <<x>>
    OBVIOUS
  <1>2. <<>> \in Seq(D) /\ Load(w, <<>>) = 0
    BY LoadEmpty
  <1>3. Append(<<>>, x) \in Seq(D) /\ Load(w, Append(<<>>, x)) = Load(w, <<>>) + w[x]
    BY <1>2, LoadAppend
  <1>4. w[x] \in Nat
    OBVIOUS
  <1> QED BY <1>1, <1>2, <1>3, <1>4

LEMMA LoadTail ==
  ASSUME NEW D, NEW w \in [D -> Nat], NEW q \in Seq(D), q # <<>>
  PROVE  /\ Head(q) \in D /\ Tail(q) \in Seq(D)
         /\ Load(w, q) = w[Head(q)] + Load(w, Tail(q))
  <1>1. Head(q) \in D /\ Tail(q) \in Seq(D) /\ Len(q) \in Nat \ {0} /\ Head(q) = q[1]
    BY HeadTailProperties, EmptySeq
  <1>2. q = <<Head(q)>> \o Tail(q)
    <2>1. 1 \in 1..Len(q) /\ Len(q) \in 1..Len(q)
      BY <1>1
    <2>2. SubSeq(q, 1, Len(q)) = <<q[1]>> \o SubSeq(q, 1 + 1, Len(q))
      BY <2>1, SubSeqRecursiveFirst
    <2>3. SubSeq(q, 1, Len(q)) = q
      BY SubSeqFull
    <2>4. Tail(q) = SubSeq(q, 2, Len(q)) /\ 1 + 1 = 2
      BY TailIsSubSeq
    <2> QED BY <1>1, <2>2, <2>3, <2>4
  <1> DEFINE p == <<Head(q)>>
             r == Tail(q)
  <1>3. p \in Seq(D) /\ Load(w, p) = w[Head(q)]
    BY <1>1, LoadOne
  <1>4. r \in Seq(D) /\ q = p \o r
    BY <1>1, <1>2
  <1> HIDE DEF p, r
  <1>5. Load(w, q) = Load(w, p) + Load(w, r)
    BY <1>3, <1>4, LoadConcat
  <1> QED BY <1>1, <1>3, <1>5 DEF r

=============================================================================
