------------------------- MODULE EnetIncomingProofs -------------------------
(***************************************************************************)
(* What holds of EnetIncoming for every kind of packets, whatever the      *)
(* windows, limits and lifetimes are: the fields keep their types, so that *)
(* totalWaitingData never passes zero, and the throttle drops whole        *)
(* packets.                                                                *)
(***************************************************************************)
EXTENDS EnetIncoming, EnetArithmetic, FiniteSetTheorems, SequenceTheorems, TLAPS

-----------------------------------------------------------------------------
(* The elements of a list at some of its places.                           *)

\* g[n] are those of the first n elements.
Picking(g, D, list, S) ==
  /\ g \in [0..Len(list) -> Seq(D)]
  /\ g[0] = <<>>
  /\ \A n \in 1..Len(list) : g[n] = IF n \in S THEN Append(g[n - 1], list[n]) ELSE g[n - 1]

LEMMA ChosenIs ==
  ASSUME NEW D, NEW list \in Seq(D), NEW S
  PROVE  \E g : Picking(g, D, list, S) /\ Chosen(list, S) = g[Len(list)] /\ Chosen(list, S) \in Seq(D)
  <1> DEFINE N == Len(list)
             step == [n \in 1..N |-> [q \in Seq(D) |-> IF n \in S THEN Append(q, list[n]) ELSE q]]
             Is(g) == g = [i \in 0..N |-> IF i = 0 THEN <<>>
                                          ELSE IF i \in S THEN Append(g[i - 1], list[i]) ELSE g[i - 1]]
             h == CHOOSE g : Is(g)
  <1>1. N \in Nat /\ \A n \in 1..N : list[n] \in D
    BY LenProperties, ElementOfSeq
  <1>2. step \in [1..N -> [Seq(D) -> Seq(D)]]
    <2>1. ASSUME NEW n \in 1..N, NEW q \in Seq(D)
          PROVE  (IF n \in S THEN Append(q, list[n]) ELSE q) \in Seq(D)
      BY <1>1, AppendProperties
    <2> QED BY <2>1
  <1>3. <<>> \in Seq(D)
    OBVIOUS
  <1>4. PICK g : Steps(g, Seq(D), <<>>, step, N)
    <2> HIDE DEF step, N
    <2> QED BY <1>1, <1>2, <1>3, Iterates
  <1>5. \A n \in 1..N : g[n] = IF n \in S THEN Append(g[n - 1], list[n]) ELSE g[n - 1]
    <2>1. ASSUME NEW n \in 1..N
          PROVE  g[n] = IF n \in S THEN Append(g[n - 1], list[n]) ELSE g[n - 1]
      <3>1. n - 1 \in 0..N
        BY <1>1
      <3>2. g[n - 1] \in Seq(D) /\ g[n] = step[n][g[n - 1]]
        BY <1>4, <3>1 DEF Steps
      <3> QED BY <3>2
    <2> QED BY <2>1
  <1>6. Is(g)
    <2>1. g = [i \in 0..N |-> g[i]] /\ g[0] = <<>>
      BY <1>4 DEF Steps
    <2>2. ASSUME NEW i \in 0..N
          PROVE  g[i] = IF i = 0 THEN <<>> ELSE IF i \in S THEN Append(g[i - 1], list[i]) ELSE g[i - 1]
      <3>1. i = 0 \/ i \in 1..N
        BY <1>1
      <3> QED BY <1>5, <2>1, <3>1
    <2> QED BY <2>1, <2>2
  <1>7. Is(h)
    <2> HIDE DEF Is
    <2> QED BY <1>6
  <1>8. h = g
    <2> DEFINE T == {i \in 0..N : h[i] = g[i]}
    <2> HIDE DEF step, h, N
    <2>a. g = [i \in 0..N |-> g[i]] /\ g[0] = <<>>
      BY <1>4 DEF Steps
    <2>b. h = [i \in 0..N |-> h[i]]
      BY <1>7
    <2>c. \A i \in 0..N : h[i] = IF i = 0 THEN <<>> ELSE IF i \in S THEN Append(h[i - 1], list[i]) ELSE h[i - 1]
      BY <1>7
    <2>1. h = [i \in 0..N |-> h[i]] /\ g = [i \in 0..N |-> g[i]]
      BY <2>a, <2>b
    <2>2. 0 \in T
      <3>1. 0 \in 0..N /\ h[0] = <<>> /\ g[0] = <<>>
        BY <1>1, <2>a, <2>c
      <3> QED BY <3>1
    <2>3. ASSUME NEW n \in 1..N, n - 1 \in T PROVE n \in T
      <3>1. n \in 0..N /\ n # 0 /\ h[n - 1] = g[n - 1]
        BY <1>1, <2>3
      <3>2. h[n] = IF n \in S THEN Append(h[n - 1], list[n]) ELSE h[n - 1]
        BY <2>c, <3>1
      <3>3. h[n] = g[n]
        BY <1>5, <3>1, <3>2
      <3> QED BY <3>1, <3>3
    <2> HIDE DEF T
    <2>4. \A n \in 0..N : n \in T
      BY <1>1, <2>2, <2>3, UpTo
    <2>5. \A n \in 0..N : h[n] = g[n]
      BY <2>4 DEF T
    <2> QED BY <2>1, <2>5
  <1>9. Chosen(list, S) = h[N]
    BY DEF Chosen
  <1>10. N \in 0..N /\ g[N] \in Seq(D)
    <2>1. N \in 0..N
      BY <1>1
    <2> QED BY <1>4, <2>1 DEF Steps
  <1>11. Picking(g, D, list, S)
    BY <1>4, <1>5 DEF Picking, Steps
  <1> HIDE DEF h
  <1> QED BY <1>8, <1>9, <1>10, <1>11

\* What is chosen twice weighs no more than the list, if nothing is chosen twice.
LEMMA ChosenLoad ==
  ASSUME NEW D, NEW w \in [D -> Nat], NEW list \in Seq(D), NEW S, NEW R, S \cap R = {}
  PROVE  Load(w, Chosen(list, S)) + Load(w, Chosen(list, R)) <= Load(w, list)
  <1> DEFINE N == Len(list)
  <1>1. N \in Nat /\ \A n \in 1..N : list[n] \in D
    BY LenProperties, ElementOfSeq
  <1>2. PICK g : Picking(g, D, list, S) /\ Chosen(list, S) = g[N]
    BY ChosenIs
  <1>3. PICK h : Picking(h, D, list, R) /\ Chosen(list, R) = h[N]
    BY ChosenIs
  <1>4. PICK f : Running(f, w, list) /\ Load(w, list) = f[N]
    BY LoadIs
  <1>5. /\ \A n \in 0..N : g[n] \in Seq(D) /\ h[n] \in Seq(D) /\ f[n] \in Nat
        /\ g[0] = <<>> /\ h[0] = <<>> /\ f[0] = 0
        /\ \A n \in 1..N : g[n] = IF n \in S THEN Append(g[n - 1], list[n]) ELSE g[n - 1]
        /\ \A n \in 1..N : h[n] = IF n \in R THEN Append(h[n - 1], list[n]) ELSE h[n - 1]
        /\ \A n \in 1..N : f[n] = f[n - 1] + w[list[n]]
    BY <1>2, <1>3, <1>4 DEF Picking, Running
  <1> HIDE DEF N
  <1> DEFINE T == {n \in 0..N : Load(w, g[n]) + Load(w, h[n]) <= f[n]}
  <1>6. 0 \in T
    <2>1. Load(w, g[0]) = 0 /\ Load(w, h[0]) = 0
      BY <1>5, LoadEmpty
    <2> QED BY <1>1, <1>5, <2>1
  <1>7. ASSUME NEW n \in 1..N, n - 1 \in T PROVE n \in T
    <2> DEFINE a == Load(w, g[n - 1])
               b == Load(w, h[n - 1])
               x == w[list[n]]
    <2>1. n \in 0..N /\ n - 1 \in 0..N
      BY <1>1
    <2>2. a \in Nat /\ b \in Nat /\ x \in Nat /\ f[n - 1] \in Nat
      BY <1>1, <1>5, <2>1, LoadIs
    <2>3. Load(w, g[n]) = IF n \in S THEN a + x ELSE a
      BY <1>1, <1>5, <2>1, LoadAppend
    <2>4. Load(w, h[n]) = IF n \in R THEN b + x ELSE b
      BY <1>1, <1>5, <2>1, LoadAppend
    <2>5. f[n] = f[n - 1] + x
      BY <1>5
    <2>6. a + b <= f[n - 1]
      BY <1>7
    <2>7. ~(n \in S /\ n \in R)
      OBVIOUS
    <2> HIDE DEF a, b, x
    <2>8. Load(w, g[n]) + Load(w, h[n]) <= f[n]
      BY <2>2, <2>3, <2>4, <2>5, <2>6, <2>7
    <2> QED BY <2>1, <2>8
  <1> HIDE DEF T
  <1>8. \A n \in 0..N : n \in T
    BY <1>1, <1>6, <1>7, UpTo
  <1>9. N \in T
    BY <1>1, <1>8
  <1> QED BY <1>2, <1>3, <1>4, <1>9 DEF T

\* The greatest number of a set of numbers up to N.
LEMMA MaxIs ==
  ASSUME NEW N \in Nat, NEW T \in SUBSET (0..N), T # {}
  PROVE  Max(T) \in T /\ Max(T) \in Nat /\ \A y \in T : y <= Max(T)
  <1> DEFINE W == {n \in 0..N : N - n \in T}
  <1>1. W # {}
    <2>1. PICK x \in T : TRUE
      OBVIOUS
    <2>2. x \in 0..N
      OBVIOUS
    <2>3. N - x \in 0..N /\ N - (N - x) = x
      BY <2>2
    <2> QED BY <2>1, <2>3
  <1>2. W \in SUBSET Nat
    OBVIOUS
  <1> HIDE DEF W
  <1>3. PICK n \in W : \A m \in W : n <= m
    BY <1>1, <1>2, LeastNumber
  <1>4. N - n \in T /\ n \in 0..N
    BY <1>3 DEF W
  <1>5. ASSUME NEW y \in T PROVE N - n >= y
    <2>1. y \in 0..N /\ N - y \in 0..N /\ N - (N - y) = y
      OBVIOUS
    <2>2. n <= N - y
      BY <1>3, <2>1 DEF W
    <2> QED BY <1>4, <2>1, <2>2
  <1> DEFINE x == Max(T)
  <1>6. x \in T /\ \A y \in T : x >= y
    BY <1>4, <1>5 DEF Max
  <1> HIDE DEF x
  <1>7. x \in 0..N /\ \A y \in T : y \in 0..N
    BY <1>6
  <1>8. x \in Nat /\ \A y \in T : y <= x
    BY <1>6, <1>7
  <1> QED BY <1>6, <1>8 DEF x

-----------------------------------------------------------------------------
(* The walk of enet_peer_dispatch_incoming_unreliable_commands.            *)

\* The packets that were handed to enet_peer_send.
SentOK ==
  /\ sent \in Seq(Packet)
  /\ Len(sent) <= MaxPackets
  /\ \A i \in DOMAIN sent : sent[i].unreliable <= MaxUnreliable

Entries == [packet : DOMAIN sent, missing : SUBSET Nat]

LEMMA SentIs ==
  ASSUME SentOK
  PROVE  /\ DOMAIN sent = 1..Len(sent) /\ Len(sent) \in Nat
         /\ \A i \in DOMAIN sent : sent[i] \in Packet /\ UnreliableNumber(i) \in 0..MaxUnreliable
  <1>1. DOMAIN sent = 1..Len(sent) /\ Len(sent) \in Nat
    BY LenProperties DEF SentOK
  <1>2. ASSUME NEW i \in DOMAIN sent PROVE sent[i] \in Packet /\ UnreliableNumber(i) \in 0..MaxUnreliable
    <2>1. sent[i] \in Packet
      BY <1>1, ElementOfSeq DEF SentOK
    <2>2. sent[i].unreliable \in Nat /\ sent[i].unreliable <= MaxUnreliable /\ MaxUnreliable \in Nat
      BY <2>1, IncomingAssumption DEF Packet, SentOK
    <2> QED BY <2>1, <2>2 DEF UnreliableNumber
  <1> QED BY <1>1, <1>2

\* The iterators over a list of N packets.
Iterators(N) ==
  [current : 1..(N + 1), start : 1..(N + 1), dropped : 0..(N + 1), moved : SUBSET (1..N),
   unreliable : 0..MaxUnreliable, stopped : BOOLEAN]

LEMMA WalkStepIs ==
  ASSUME SentOK, NEW list \in Seq(Entries), NEW w \in Iterators(Len(list)), NEW i \in 1..Len(list), NEW r
  PROVE  WalkStep(w, i, list, r) \in Iterators(Len(list))
  <1> DEFINE N == Len(list)
             e == list[i]
             next == [w EXCEPT !.current = i + 1]
             moved == [w EXCEPT !.current = i + 1, !.moved = w.moved \cup w.start..(i - 1)]
  <1>1. N \in Nat /\ e \in Entries /\ e.packet \in DOMAIN sent
    <2>1. N \in Nat /\ e \in Entries
      BY LenProperties, ElementOfSeq
    <2> QED BY <2>1 DEF Entries
  <1>2. UnreliableNumber(e.packet) \in 0..MaxUnreliable
    BY <1>1, SentIs
  <1> HIDE DEF N, e
  <1>3. w \in Iterators(N) /\ i \in 1..N /\ i + 1 \in 1..(N + 1) /\ i + 1 \in 0..(N + 1) /\ i \in 0..(N + 1)
    BY <1>1 DEF N
  <1>4. next \in Iterators(N)
    BY <1>3 DEF Iterators
  <1>5. MoveRun(next, i) = moved /\ moved \in Iterators(N)
    <2>1. w.start \in 1..(N + 1) /\ w.moved \in SUBSET (1..N)
      BY <1>3 DEF Iterators
    <2>2. w.start..(i - 1) \in SUBSET (1..N)
      BY <1>1, <1>3, <2>1
    <2>3. w.moved \cup w.start..(i - 1) \in SUBSET (1..N)
      BY <2>1, <2>2
    <2> QED BY <1>3, <2>3 DEF MoveRun, Iterators
  <1>6. Previous(next, i) \in 0..(N + 1)
    <2> DEFINE T == {0} \cup {k \in 1..(i - 1) : k \notin next.moved}
    <2>1. T \in SUBSET (0..N) /\ T # {}
      BY <1>1, <1>3
    <2> HIDE DEF T
    <2> DEFINE x == Max(T)
    <2>2. x \in T
      BY <1>1, <2>1, MaxIs
    <2>3. Previous(next, i) = x
      BY DEF Previous, T
    <2> HIDE DEF x
    <2>4. x \in 0..N
      BY <2>1, <2>2
    <2>5. x \in 0..(N + 1)
      BY <1>1, <2>4
    <2> QED BY <2>3, <2>5
  <1>7. CASE w.stopped
    BY <1>3, <1>7 DEF WalkStep, N
  <1>8. WalkIncomplete(next, i) \in Iterators(N)
    <2> DEFINE run == IF next.start # i THEN MoveRun(next, i) ELSE next
               drop == CASE next.start # i -> i
                         [] next.start = i /\ next.dropped # i -> Previous(next, i)
                         [] OTHER -> next.dropped
    <2>1. run \in Iterators(N)
      BY <1>4, <1>5
    <2>2. drop \in 0..(N + 1)
      BY <1>3, <1>4, <1>6 DEF Iterators
    <2>3. WalkIncomplete(next, i) = [run EXCEPT !.start = i + 1, !.dropped = drop]
      BY DEF WalkIncomplete
    <2> HIDE DEF run, drop
    <2>4. [run EXCEPT !.start = i + 1, !.dropped = drop] \in Iterators(N)
      BY <1>3, <2>1, <2>2 DEF Iterators
    <2> QED BY <2>3, <2>4
  <1>9. WalkOvertaken(next, i) \in Iterators(N)
    <2> DEFINE run == IF next.start # i THEN MoveRun(next, i) ELSE next
    <2>1. run \in Iterators(N)
      BY <1>4, <1>5
    <2>2. WalkOvertaken(next, i) = [run EXCEPT !.start = i + 1, !.dropped = i + 1]
      BY DEF WalkOvertaken
    <2> HIDE DEF run
    <2>3. [run EXCEPT !.start = i + 1, !.dropped = i + 1] \in Iterators(N)
      BY <1>3, <2>1 DEF Iterators
    <2> QED BY <2>2, <2>3
  <1>10. [next EXCEPT !.unreliable = UnreliableNumber(e.packet)] \in Iterators(N)
    <2> HIDE DEF next
    <2> QED BY <1>2, <1>4 DEF Iterators
  <1>11. [w EXCEPT !.stopped = TRUE] \in Iterators(N)
    BY <1>3 DEF Iterators
  <1> DEFINE s == ReliableNumber(e.packet)
             Turn == CASE s = r /\ e.missing = {} -> [next EXCEPT !.unreliable = UnreliableNumber(e.packet)]
                       [] s = r /\ e.missing # {} -> WalkIncomplete(next, i)
                       [] s # r /\ InWindow(s, r) -> [w EXCEPT !.stopped = TRUE]
                       [] OTHER -> WalkOvertaken(next, i)
  <1>12. WalkStep(w, i, list, r) = IF w.stopped THEN w
                                   ELSE IF sent[e.packet].kind = "unsequenced" THEN next ELSE Turn
    BY DEF WalkStep, e
  <1>13. Turn \in Iterators(N)
    <2> HIDE DEF next, s
    <2> QED BY <1>8, <1>9, <1>10, <1>11
  <1> HIDE DEF Turn, next
  <1> QED BY <1>3, <1>4, <1>12, <1>13 DEF N

LEMMA WalkOverIs ==
  ASSUME SentOK, NEW list \in Seq(Entries), NEW r, NEW u \in 0..MaxUnreliable
  PROVE  /\ WalkOver(list, r, u).moved \in SUBSET (1..Len(list))
         /\ WalkOver(list, r, u).unreliable \in 0..MaxUnreliable
  <1> DEFINE N == Len(list)
             S == Iterators(N)
             step == [n \in 1..N |-> [w \in S |-> WalkStep(w, n, list, r)]]
             Is(g) == g = [i \in 0..N |-> IF i = 0 THEN WalkBegins(u) ELSE WalkStep(g[i - 1], i, list, r)]
             h == CHOOSE g : Is(g)
  <1>1. N \in Nat
    BY LenProperties
  <1>2. step \in [1..N -> [S -> S]]
    <2>1. \A n \in 1..N, w \in S : WalkStep(w, n, list, r) \in S
      BY WalkStepIs
    <2> QED BY <2>1
  <1>3. WalkBegins(u) \in S
    <2>1. 1 \in 1..(N + 1) /\ 1 \in 0..(N + 1) /\ {} \in SUBSET (1..N)
      BY <1>1
    <2> HIDE DEF N
    <2> QED BY <2>1 DEF WalkBegins, Iterators
  <1>4. PICK g : Steps(g, S, WalkBegins(u), step, N)
    <2> HIDE DEF step, N, S
    <2> QED BY <1>1, <1>2, <1>3, Iterates
  <1>5. \A n \in 1..N : g[n] = WalkStep(g[n - 1], n, list, r)
    <2>1. ASSUME NEW n \in 1..N
          PROVE  g[n] = WalkStep(g[n - 1], n, list, r)
      <3>1. n - 1 \in 0..N
        BY <1>1
      <3>2. g[n - 1] \in S /\ g[n] = step[n][g[n - 1]]
        <4> HIDE DEF step, S
        <4> QED BY <1>4, <3>1 DEF Steps
      <3> QED BY <3>2
    <2> QED BY <2>1
  <1>6. Is(g)
    <2>1. g = [i \in 0..N |-> g[i]] /\ g[0] = WalkBegins(u)
      BY <1>4 DEF Steps
    <2>2. ASSUME NEW i \in 0..N
          PROVE  g[i] = IF i = 0 THEN WalkBegins(u) ELSE WalkStep(g[i - 1], i, list, r)
      <3>1. i = 0 \/ i \in 1..N
        BY <1>1
      <3> QED BY <1>5, <2>1, <3>1
    <2> QED BY <2>1, <2>2
  <1>7. Is(h)
    <2> HIDE DEF Is
    <2> QED BY <1>6
  <1> HIDE DEF h, step
  <1>8. \A i \in 0..N : h[i] \in S
    <2> DEFINE T == {i \in 0..N : h[i] \in S}
    <2>1. \A i \in 0..N : h[i] = IF i = 0 THEN WalkBegins(u) ELSE WalkStep(h[i - 1], i, list, r)
      BY <1>7
    <2>2. 0 \in T
      BY <1>1, <1>3, <2>1
    <2>3. ASSUME NEW n \in 1..N, n - 1 \in T PROVE n \in T
      <3>1. n \in 0..N /\ n # 0 /\ h[n - 1] \in S
        BY <1>1, <2>3
      <3>2. h[n] = WalkStep(h[n - 1], n, list, r)
        BY <2>1, <3>1
      <3> QED BY <3>1, <3>2, WalkStepIs
    <2> HIDE DEF T
    <2>4. \A n \in 0..N : n \in T
      BY <1>1, <2>2, <2>3, UpTo
    <2> QED BY <2>4 DEF T
  <1> DEFINE w == h[N]
  <1>9. w \in S
    <2>1. N \in 0..N
      BY <1>1
    <2> QED BY <1>8, <2>1
  <1>10. WalkOver(list, r, u) = Ended(w)
    BY DEF WalkOver, h
  <1> HIDE DEF w, N
  <1>11. /\ w.moved \in SUBSET (1..N) /\ w.unreliable \in 0..MaxUnreliable
         /\ w.start \in 1..(N + 1) /\ w.current \in 1..(N + 1)
    BY <1>9 DEF Iterators
  <1>12. w.start..(w.current - 1) \in SUBSET (1..N)
    BY <1>1, <1>11
  <1>13. Ended(w).moved \in SUBSET (1..N) /\ Ended(w).unreliable \in 0..MaxUnreliable
    <2>1. CASE w.start # w.current
      <3> DEFINE moved == w.moved \cup w.start..(w.current - 1)
                 run == [w EXCEPT !.moved = moved]
      <3>1. moved \in SUBSET (1..N)
        BY <1>11, <1>12
      <3>2. Ended(w) = [run EXCEPT !.dropped = w.current]
        BY <2>1 DEF Ended, MoveRun
      <3> HIDE DEF moved
      <3>3. [run EXCEPT !.dropped = w.current].moved = moved /\ [run EXCEPT !.dropped = w.current].unreliable = w.unreliable
        BY <1>9 DEF Iterators
      <3> QED BY <1>11, <3>1, <3>2, <3>3
    <2>2. CASE w.start = w.current
      BY <1>11, <2>2 DEF Ended
    <2> QED BY <2>1, <2>2
  <1> QED BY <1>10, <1>13 DEF N

\* The weights of packets, and of the entries of the list.
Weights(s) == [i \in DOMAIN s |-> s[i].count]
EntryWeights == [e \in Entries |-> sent[e.packet].count]

LEMMA WeightsAre ==
  ASSUME SentOK
  PROVE  /\ Weights(sent) \in [DOMAIN sent -> Nat] /\ EntryWeights \in [Entries -> Nat]
         /\ \A e \in Entries : e.packet \in DOMAIN sent /\ EntryWeights[e] = Weights(sent)[e.packet]
  <1>1. \A i \in DOMAIN sent : sent[i].count \in Nat
    BY SentIs DEF Packet
  <1>2. \A e \in Entries : e.packet \in DOMAIN sent
    BY DEF Entries
  <1> HIDE DEF Entries
  <1> QED BY <1>1, <1>2 DEF Weights, EntryWeights

LEMMA PacketsOfIs ==
  ASSUME SentOK, NEW list \in Seq(Entries)
  PROVE  PacketsOf(list) \in Seq(DOMAIN sent) /\ Load(Weights(sent), PacketsOf(list)) = Load(EntryWeights, list)
  <1>1. /\ Len(list) \in Nat /\ DOMAIN list = 1..Len(list)
        /\ \A k \in 1..Len(list) : list[k] \in Entries /\ list[k].packet \in DOMAIN sent
    BY LenProperties, ElementOfSeq, WeightsAre
  <1>2. PacketsOf(list) = [k \in 1..Len(list) |-> list[k].packet]
    BY <1>1 DEF PacketsOf
  <1>3. PacketsOf(list) \in Seq(DOMAIN sent) /\ Len(PacketsOf(list)) = Len(list)
    BY <1>1, <1>2
  <1>4. \A k \in 1..Len(list) : Weights(sent)[PacketsOf(list)[k]] = EntryWeights[list[k]]
    BY <1>1, <1>2, WeightsAre
  <1>5. Alike(Weights(sent), PacketsOf(list), EntryWeights, list, Len(list))
    BY <1>1, <1>3, <1>4 DEF Alike
  <1>6. Weights(sent) \in [DOMAIN sent -> Nat] /\ EntryWeights \in [Entries -> Nat]
    BY WeightsAre
  <1>7. Load(Weights(sent), PacketsOf(list)) = Load(EntryWeights, list)
    <2> DEFINE C == DOMAIN sent
               D == Entries
               v == Weights(sent)
               w == EntryWeights
               p == PacketsOf(list)
    <2>1. Matched(C, v, p, D, w, list)
      BY <1>3, <1>5, <1>6 DEF Matched
    <2> HIDE DEF C, D, v, w, p
    <2>2. Load(v, p) = Load(w, list)
      BY <2>1, LoadSame
    <2> QED BY <2>2 DEF v, w, p
  <1> QED BY <1>3, <1>7

\* What a dispatch leaves: packets in two lists that weigh no more than before.
Settled(to, load) ==
  /\ to.dispatched \in Seq(DOMAIN sent)
  /\ to.list \in Seq(Entries)
  /\ to.unreliable \in 0..MaxUnreliable
  /\ Load(Weights(sent), to.dispatched) + Load(EntryWeights, to.list) <= load

LEMMA DispatchUnreliableIs ==
  ASSUME SentOK, NEW list \in Seq(Entries), NEW r, NEW u \in 0..MaxUnreliable, NEW queued
  PROVE  Settled(DispatchUnreliable(list, r, u, queued), Load(EntryWeights, list))
  <1> DEFINE w == WalkOver(list, r, u)
             S == {i \in DOMAIN list : Stays(w, i, list[i], queued)}
             to == DispatchUnreliable(list, r, u, queued)
  <1>1. w.unreliable \in 0..MaxUnreliable
    BY WalkOverIs
  <1>2. w.moved \cap S = {}
    BY DEF Stays
  <1>3. to.dispatched = PacketsOf(Chosen(list, w.moved)) /\ to.list = Chosen(list, S) /\ to.unreliable = w.unreliable
    BY DEF DispatchUnreliable, Outcome
  <1> HIDE DEF w, S, to
  <1>4. Chosen(list, w.moved) \in Seq(Entries) /\ Chosen(list, S) \in Seq(Entries)
    BY ChosenIs
  <1>5. Load(EntryWeights, Chosen(list, w.moved)) + Load(EntryWeights, Chosen(list, S)) <= Load(EntryWeights, list)
    BY <1>2, ChosenLoad, WeightsAre
  <1>6. /\ to.dispatched \in Seq(DOMAIN sent)
        /\ Load(Weights(sent), to.dispatched) = Load(EntryWeights, Chosen(list, w.moved))
    BY <1>3, <1>4, PacketsOfIs
  <1>7. Settled(to, Load(EntryWeights, list))
    BY <1>1, <1>3, <1>4, <1>5, <1>6 DEF Settled
  <1> QED BY <1>7 DEF to

-----------------------------------------------------------------------------
(* Adding to a list and taking from it.                                    *)

LEMMA LoadInsert ==
  ASSUME NEW D, NEW w \in [D -> Nat], NEW q \in Seq(D), NEW at \in 0..Len(q), NEW x \in D
  PROVE  /\ InsertAt(q, at + 1, x) \in Seq(D)
         /\ Load(w, InsertAt(q, at + 1, x)) = Load(w, q) + w[x]
  <1> DEFINE p == SubSeq(q, 1, at)
             r == SubSeq(q, at + 1, Len(q))
             o == <<x>>
  <1>1. Len(q) \in Nat /\ at \in Int /\ \A n \in 1..Len(q) : q[n] \in D
    BY LenProperties, ElementOfSeq
  <1>2. p \in Seq(D)
    <2>1. \A n \in 1..at : q[n] \in D
      BY <1>1
    <2> QED BY <1>1, <2>1, SubSeqProperties
  <1>3. r \in Seq(D)
    <2>1. \A n \in (at + 1)..Len(q) : q[n] \in D
      BY <1>1
    <2>2. at + 1 \in Int /\ Len(q) \in Int
      BY <1>1
    <2> QED BY <2>1, <2>2, SubSeqProperties
  <1>4. p \o r = q
    <2>1. 1 \in 1..(Len(q) + 1) /\ at \in (1 - 1)..Len(q) /\ Len(q) \in at..Len(q)
      BY <1>1
    <2>2. SubSeq(q, 1, at) \o SubSeq(q, at + 1, Len(q)) = SubSeq(q, 1, Len(q))
      BY <2>1, ConcatAdjacentSubSeq
    <2> QED BY <2>2, SubSeqFull
  <1>5. o \in Seq(D) /\ Load(w, o) = w[x] /\ w[x] \in Nat
    BY LoadOne
  <1>6. InsertAt(q, at + 1, x) = (p \o o) \o r
    <2>1. (at + 1) - 1 = at
      BY <1>1
    <2> QED BY <2>1 DEF InsertAt
  <1> HIDE DEF p, r, o
  <1>7. p \o o \in Seq(D) /\ Load(w, p \o o) = Load(w, p) + Load(w, o)
    BY <1>2, <1>5, LoadConcat
  <1>8. (p \o o) \o r \in Seq(D) /\ Load(w, (p \o o) \o r) = Load(w, p \o o) + Load(w, r)
    BY <1>3, <1>7, LoadConcat
  <1>9. Load(w, q) = Load(w, p) + Load(w, r)
    BY <1>2, <1>3, <1>4, LoadConcat
  <1>10. Load(w, p) \in Nat /\ Load(w, r) \in Nat
    BY <1>2, <1>3, LoadIs
  <1> DEFINE t == (p \o o) \o r
  <1>11. Load(w, t) = Load(w, p) + w[x] + Load(w, r)
    BY <1>5, <1>7, <1>8
  <1>12. t \in Seq(D) /\ t = InsertAt(q, at + 1, x)
    BY <1>6, <1>8
  <1> HIDE DEF t
  <1>13. Load(w, t) = Load(w, q) + w[x]
    BY <1>5, <1>9, <1>10, <1>11
  <1> QED BY <1>12, <1>13

-----------------------------------------------------------------------------
(* Reliable packets that wait for others are a set.                        *)

Pieces(S) == UNION {Commands(i) : i \in S}

HeldWeight(S) == Cardinality(Pieces(S))

LEMMA CommandsAre ==
  ASSUME SentOK, NEW i \in DOMAIN sent
  PROVE  IsFiniteSet(Commands(i)) /\ Cardinality(Commands(i)) = sent[i].count /\ sent[i].count \in Nat
  <1> DEFINE n == sent[i].count
             C == Commands(i)
  <1>1. n \in Nat
    BY SentIs DEF Packet
  <1>2. C = {[packet |-> i, fragment |-> f] : f \in 1..n}
    BY DEF Commands
  <1> HIDE DEF n, C
  <1> DEFINE b == [f \in 1..n |-> [packet |-> i, fragment |-> f]]
  <1>3. b \in [1..n -> C]
    BY <1>2
  <1>4. \A f, g \in 1..n : b[f] = b[g] => f = g
    <2>1. ASSUME NEW f \in 1..n, NEW g \in 1..n, b[f] = b[g] PROVE f = g
      <3>1. b[f].fragment = f /\ b[g].fragment = g
        OBVIOUS
      <3> QED BY <2>1, <3>1
    <2> QED BY <2>1
  <1>5. \A c \in C : \E f \in 1..n : b[f] = c
    BY <1>2
  <1>6. DOMAIN b = 1..n
    OBVIOUS
  <1> HIDE DEF b
  <1>7. b \in Bijection(1..n, C)
    BY <1>3, <1>4, <1>5, <1>6 DEF Bijection, Injection, Surjection, IsInjective
  <1>8. ExistsBijection(1..n, C)
    BY <1>7 DEF ExistsBijection
  <1>9. IsFiniteSet(1..n)
    BY <1>1, FS_Interval
  <1>10. Cardinality(C) = n
    BY <1>1, <1>8, FS_CountingElements
  <1>11. IsFiniteSet(C)
    BY <1>8, <1>9, FS_Bijection
  <1> QED BY <1>1, <1>10, <1>11 DEF n, C

LEMMA PiecesFinite ==
  ASSUME SentOK, NEW S \in SUBSET DOMAIN sent
  PROVE  IsFiniteSet(S) /\ IsFiniteSet(Pieces(S)) /\ HeldWeight(S) \in Nat
  <1> DEFINE N == Len(sent)
             T == {n \in 0..N : IsFiniteSet(Pieces(1..n))}
  <1>1. N \in Nat /\ DOMAIN sent = 1..N
    BY SentIs
  <1> HIDE DEF N
  <1>2. 0 \in T
    <2>1. 1..0 = {}
      OBVIOUS
    <2>2. Pieces(1..0) = {}
      BY <2>1 DEF Pieces
    <2> QED BY <1>1, <2>2, FS_EmptySet
  <1>3. ASSUME NEW n \in 1..N, n - 1 \in T PROVE n \in T
    <2>1. 1..n = (1..(n - 1)) \cup {n} /\ n \in DOMAIN sent /\ n \in 0..N
      BY <1>1
    <2>2. Pieces(1..n) = Pieces(1..(n - 1)) \cup Commands(n)
      BY <2>1 DEF Pieces
    <2>3. IsFiniteSet(Commands(n))
      BY <2>1, CommandsAre
    <2>4. IsFiniteSet(Pieces(1..(n - 1)))
      BY <1>3
    <2>5. IsFiniteSet(Pieces(1..n))
      BY <2>2, <2>3, <2>4, FS_Union
    <2> QED BY <2>1, <2>5
  <1> HIDE DEF T
  <1>4. \A n \in 0..N : n \in T
    BY <1>1, <1>2, <1>3, UpTo
  <1>5. IsFiniteSet(Pieces(1..N))
    <2>1. N \in T
      BY <1>1, <1>4
    <2> QED BY <2>1 DEF T
  <1>6. Pieces(S) \subseteq Pieces(1..N)
    BY <1>1 DEF Pieces
  <1>7. IsFiniteSet(Pieces(S))
    BY <1>5, <1>6, FS_Subset
  <1>8. IsFiniteSet(S)
    BY <1>1, FS_Interval, FS_Subset
  <1> QED BY <1>7, <1>8, FS_CardinalityType DEF HeldWeight

LEMMA HeldGrows ==
  ASSUME SentOK, NEW S \in SUBSET DOMAIN sent, NEW i \in DOMAIN sent, i \notin S
  PROVE  HeldWeight(S \cup {i}) = HeldWeight(S) + sent[i].count
  <1>1. Pieces(S \cup {i}) = Pieces(S) \cup Commands(i)
    BY DEF Pieces
  <1>2. Pieces(S) \cap Commands(i) = {}
    <2>1. ASSUME NEW c \in Pieces(S), c \in Commands(i) PROVE FALSE
      <3>1. PICK j \in S : c \in Commands(j)
        BY <2>1 DEF Pieces
      <3>2. c.packet = j /\ c.packet = i
        BY <2>1, <3>1 DEF Commands
      <3> QED BY <3>2
    <2> QED BY <2>1
  <1>3. IsFiniteSet(Pieces(S)) /\ IsFiniteSet(Commands(i)) /\ Cardinality(Commands(i)) = sent[i].count /\ sent[i].count \in Nat
    BY CommandsAre, PiecesFinite
  <1>4. Cardinality(Pieces(S)) \in Nat
    BY <1>3, FS_CardinalityType
  <1>5. Cardinality(Pieces(S) \cup Commands(i)) = Cardinality(Pieces(S)) + Cardinality(Commands(i)) - Cardinality({})
    BY <1>2, <1>3, FS_Union
  <1>6. Cardinality({}) = 0
    BY FS_EmptySet
  <1> DEFINE a == Cardinality(Pieces(S))
             b == Cardinality(Pieces(S \cup {i}))
             k == sent[i].count
  <1>7. a \in Nat /\ k \in Nat /\ b = a + k - 0
    BY <1>1, <1>3, <1>4, <1>5, <1>6
  <1> HIDE DEF a, b, k
  <1>8. b = a + k
    BY <1>7
  <1> QED BY <1>8 DEF HeldWeight, a, b, k

\* A choice of packets that wait, one after the other, each once.
Taken(q, held) ==
  /\ q \in Seq(held)
  /\ HeldWeight(held \ Range(q)) + Load(Weights(sent), q) = HeldWeight(held)

LEMMA TakenMore ==
  ASSUME SentOK, NEW held \in SUBSET DOMAIN sent, NEW q, Taken(q, held), NEW x \in held \ Range(q)
  PROVE  Taken(Append(q, x), held)
  <1> DEFINE p == Append(q, x)
             C == DOMAIN sent
             w == Weights(sent)
             S == held \ Range(p)
  <1>1. q \in Seq(held) /\ x \in held /\ q \in Seq(C) /\ x \in C
    BY SeqMonotonic DEF Taken
  <1>2. p \in Seq(held) /\ Range(p) = Range(q) \cup {x}
    <2>1. p \in Seq(held) /\ Len(p) = Len(q) + 1 /\ Len(q) \in Nat /\ p[Len(q) + 1] = x /\ \A n \in 1..Len(q) : p[n] = q[n]
      BY <1>1, AppendProperties, LenProperties
    <2>2. DOMAIN p = 1..(Len(q) + 1) /\ DOMAIN q = 1..Len(q)
      BY <1>1, <2>1, LenProperties
    <2>3. \A n \in DOMAIN p : n \in DOMAIN q \/ n = Len(q) + 1
      BY <2>1, <2>2
    <2>4. DOMAIN q \subseteq DOMAIN p /\ Len(q) + 1 \in DOMAIN p
      BY <2>1, <2>2
    <2> HIDE DEF p
    <2> QED BY <2>1, <2>2, <2>3, <2>4 DEF Range
  <1>3. w \in [C -> Nat] /\ w[x] = sent[x].count
    BY <1>1, WeightsAre DEF Weights
  <1> HIDE DEF w, C
  <1>4. Load(w, p) = Load(w, q) + w[x]
    BY <1>1, <1>3, LoadAppend
  <1>5. HeldWeight(S \cup {x}) = HeldWeight(S) + w[x]
    <2>1. S \in SUBSET DOMAIN sent /\ x \notin S /\ x \in DOMAIN sent
      BY <1>2
    <2> HIDE DEF S
    <2> QED BY <1>3, <2>1, HeldGrows
  <1>6. S \cup {x} = held \ Range(q)
    BY <1>2
  <1>7. HeldWeight(held \ Range(q)) + Load(w, q) = HeldWeight(held)
    BY DEF Taken, w
  <1>8. Load(w, q) \in Nat /\ w[x] \in Nat /\ HeldWeight(S) \in Nat
    <2>1. Load(w, q) \in Nat
      BY <1>1, <1>3, LoadIs
    <2>2. HeldWeight(S) \in Nat
      BY PiecesFinite
    <2> QED BY <1>1, <1>3, <2>1, <2>2
  <1> DEFINE a == HeldWeight(S)
             b == Load(w, q)
             k == w[x]
             t == HeldWeight(held)
  <1> HIDE DEF p, S
  <1>9. a + Load(w, p) = t
    <2>1. a \in Nat /\ b \in Nat /\ k \in Nat
      BY <1>8
    <2>2. Load(w, p) = b + k
      BY <1>4
    <2>3. HeldWeight(held \ Range(q)) = a + k
      BY <1>5, <1>6
    <2>4. HeldWeight(held \ Range(q)) + b = t
      BY <1>7
    <2>5. (a + k) + b = t
      BY <2>3, <2>4
    <2> HIDE DEF a, b, k, t
    <2>6. a + (b + k) = t
      BY <2>1, <2>5
    <2> QED BY <2>2, <2>6
  <1> QED BY <1>2, <1>9 DEF Taken, p, w, S

LEMMA ReadyAfterIs ==
  ASSUME SentOK, NEW held \in SUBSET DOMAIN sent, NEW r
  PROVE  Taken(ReadyAfter(held, r), held)
  <1> DEFINE N == Cardinality(held)
             Q == {q \in Seq(held) : Taken(q, held)}
             last(q) == IF q = <<>> THEN r ELSE LastReliableNumber(q[Len(q)])
             next(q) == {i \in held \ Range(q) : ReliableNumber(i) = (last(q) + 1) % SequenceSpace}
             Grown(n, q) == IF Len(q) < n - 1 \/ next(q) = {} THEN q ELSE Append(q, CHOOSE i \in next(q) : TRUE)
             step == [n \in 1..N |-> [q \in Q |-> Grown(n, q)]]
             Is(g) == g = [n \in 0..N |-> IF n = 0 THEN <<>> ELSE Grown(n, g[n - 1])]
             h == CHOOSE g : Is(g)
  <1>1. N \in Nat
    BY PiecesFinite, FS_CardinalityType
  <1>2. <<>> \in Q
    <2>1. <<>> \in Seq(held) /\ Range(<<>>) = {}
      BY DEF Range
    <2>2. Load(Weights(sent), <<>>) = 0
      BY WeightsAre, LoadEmpty
    <2>3. held \ {} = held /\ HeldWeight(held) \in Nat
      BY PiecesFinite
    <2>4. HeldWeight(held \ Range(<<>>)) + Load(Weights(sent), <<>>) = HeldWeight(held)
      <3>1. HeldWeight(held \ Range(<<>>)) = HeldWeight(held)
        BY <2>1, <2>3
      <3> DEFINE a == HeldWeight(held)
      <3>2. a + 0 = a
        <4>1. a \in Nat
          BY <2>3
        <4> HIDE DEF a
        <4> QED BY <4>1
      <3> QED BY <2>2, <3>1, <3>2
    <2> QED BY <2>1, <2>4 DEF Taken
  <1>3. \A n \in 1..N, q \in Q : Grown(n, q) \in Q
    <2>1. ASSUME NEW n \in 1..N, NEW q \in Q PROVE Grown(n, q) \in Q
      <3>1. CASE Len(q) < n - 1 \/ next(q) = {}
        BY <3>1
      <3>2. CASE ~(Len(q) < n - 1 \/ next(q) = {})
        <4> DEFINE x == CHOOSE i \in next(q) : TRUE
        <4>1. x \in held \ Range(q)
          BY <3>2
        <4> HIDE DEF x
        <4>2. Taken(Append(q, x), held)
          BY <4>1, TakenMore
        <4>3. Append(q, x) \in Q
          BY <4>2 DEF Taken
        <4> QED BY <3>2, <4>3 DEF x
      <3> QED BY <3>1, <3>2
    <2> QED BY <2>1
  <1> HIDE DEF Grown
  <1>4. step \in [1..N -> [Q -> Q]]
    BY <1>3
  <1>5. PICK g : Steps(g, Q, <<>>, step, N)
    <2> HIDE DEF step, N, Q
    <2> QED BY <1>1, <1>2, <1>4, Iterates
  <1>6. \A n \in 1..N : g[n] = Grown(n, g[n - 1])
    <2>1. ASSUME NEW n \in 1..N
          PROVE  g[n] = Grown(n, g[n - 1])
      <3>1. n - 1 \in 0..N
        BY <1>1
      <3>2. g[n - 1] \in Q /\ g[n] = step[n][g[n - 1]]
        <4> HIDE DEF step, Q
        <4> QED BY <1>5, <3>1 DEF Steps
      <3> QED BY <3>2
    <2> QED BY <2>1
  <1>7. Is(g)
    <2> HIDE DEF step, Q
    <2>1. g = [i \in 0..N |-> g[i]] /\ g[0] = <<>>
      BY <1>5 DEF Steps
    <2>2. ASSUME NEW i \in 0..N
          PROVE  g[i] = IF i = 0 THEN <<>> ELSE Grown(i, g[i - 1])
      <3>1. i = 0 \/ i \in 1..N
        BY <1>1
      <3> QED BY <1>6, <2>1, <3>1
    <2> QED BY <2>1, <2>2
  <1>8. Is(h)
    <2> HIDE DEF Is
    <2> QED BY <1>7
  <1>9. ReadyAfter(held, r) = h[N]
    BY DEF ReadyAfter, Grown
  <1> HIDE DEF h, step
  <1>10. \A i \in 0..N : h[i] \in Q
    <2> DEFINE T == {i \in 0..N : h[i] \in Q}
    <2>1. \A i \in 0..N : h[i] = IF i = 0 THEN <<>> ELSE Grown(i, h[i - 1])
      BY <1>8
    <2> HIDE DEF Q, N
    <2>2. 0 \in T
      <3>1. 0 \in 0..N
        BY <1>1
      <3>2. h[0] = <<>>
        BY <2>1, <3>1
      <3> QED BY <1>2, <3>1, <3>2
    <2>3. ASSUME NEW n \in 1..N, n - 1 \in T PROVE n \in T
      <3>1. n \in 0..N /\ n # 0 /\ h[n - 1] \in Q
        BY <1>1, <2>3
      <3>2. h[n] = Grown(n, h[n - 1])
        BY <2>1, <3>1
      <3> QED BY <1>3, <2>3, <3>1, <3>2
    <2> HIDE DEF T
    <2>4. \A n \in 0..N : n \in T
      BY <1>1, <2>2, <2>3, UpTo
    <2> QED BY <2>4 DEF T
  <1>11. h[N] \in Q
    <2> HIDE DEF Q
    <2>1. N \in 0..N
      BY <1>1
    <2> QED BY <1>10, <2>1
  <1> QED BY <1>9, <1>11

-----------------------------------------------------------------------------
(* What the receiver holds weighs no more than totalWaitingData.           *)

Accounted(held, list, queue, total) ==
  /\ held \in SUBSET DOMAIN sent
  /\ list \in Seq(Entries)
  /\ queue \in Seq(DOMAIN sent)
  /\ total \in Nat
  /\ HeldWeight(held) + Load(EntryWeights, list) + Load(Weights(sent), queue) <= total

LEMMA AccountedIs ==
  ASSUME SentOK, NEW held, NEW list, NEW queue, NEW total, Accounted(held, list, queue, total)
  PROVE  /\ HeldWeight(held) \in Nat /\ Load(EntryWeights, list) \in Nat /\ Load(Weights(sent), queue) \in Nat
         /\ total \in Nat
  <1>1. held \in SUBSET DOMAIN sent /\ list \in Seq(Entries) /\ queue \in Seq(DOMAIN sent) /\ total \in Nat
    BY DEF Accounted
  <1>2. HeldWeight(held) \in Nat
    BY <1>1, PiecesFinite
  <1>3. Load(EntryWeights, list) \in Nat
    <2> DEFINE D == Entries
               w == EntryWeights
    <2>1. w \in [D -> Nat] /\ list \in Seq(D)
      BY <1>1, WeightsAre
    <2> HIDE DEF D, w
    <2>2. Load(w, list) \in Nat
      BY <2>1, LoadIs
    <2> QED BY <2>2 DEF w
  <1>4. Load(Weights(sent), queue) \in Nat
    <2> DEFINE D == DOMAIN sent
               w == Weights(sent)
    <2>1. w \in [D -> Nat] /\ queue \in Seq(D)
      BY <1>1, WeightsAre
    <2> HIDE DEF D, w
    <2>2. Load(w, queue) \in Nat
      BY <2>1, LoadIs
    <2> QED BY <2>2 DEF w
  <1> QED BY <1>1, <1>2, <1>3, <1>4

\* The queue with more behind it.
LEMMA QueueLoad ==
  ASSUME SentOK, NEW p \in Seq(DOMAIN sent), NEW q \in Seq(DOMAIN sent)
  PROVE  /\ p \o q \in Seq(DOMAIN sent)
         /\ Load(Weights(sent), p \o q) = Load(Weights(sent), p) + Load(Weights(sent), q)
         /\ Load(Weights(sent), p) \in Nat /\ Load(Weights(sent), q) \in Nat
  <1> DEFINE D == DOMAIN sent
             w == Weights(sent)
  <1>1. w \in [D -> Nat] /\ p \in Seq(D) /\ q \in Seq(D)
    BY WeightsAre
  <1> HIDE DEF D, w
  <1>2. p \o q \in Seq(D) /\ Load(w, p \o q) = Load(w, p) + Load(w, q) /\ Load(w, p) \in Nat /\ Load(w, q) \in Nat
    BY <1>1, LoadConcat, LoadIs
  <1> QED BY <1>2 DEF w, D

\* A dispatch keeps the accounts; more has come in for it.
LEMMA AccountsKept ==
  ASSUME SentOK, NEW held, NEW list, NEW queue, NEW total, Accounted(held, list, queue, total),
         NEW more \in Nat, NEW to, Settled(to, Load(EntryWeights, list) + more)
  PROVE  Accounted(held, to.list, queue \o to.dispatched, total + more)
  <1> DEFINE h == HeldWeight(held)
             l == Load(EntryWeights, list)
             q == Load(Weights(sent), queue)
             d == Load(Weights(sent), to.dispatched)
             k == Load(EntryWeights, to.list)
             p == Load(Weights(sent), queue \o to.dispatched)
  <1>1. h \in Nat /\ l \in Nat /\ q \in Nat /\ total \in Nat
    BY AccountedIs
  <1>2. h + l + q <= total /\ d + k <= l + more
    BY DEF Accounted, Settled
  <1>3. held \in SUBSET DOMAIN sent /\ queue \in Seq(DOMAIN sent) /\ to.dispatched \in Seq(DOMAIN sent) /\ to.list \in Seq(Entries)
    BY DEF Accounted, Settled
  <1>4. queue \o to.dispatched \in Seq(DOMAIN sent) /\ p = q + d /\ d \in Nat
    BY <1>3, QueueLoad
  <1>5. k \in Nat
    <2> DEFINE D == Entries
               w == EntryWeights
               s == to.list
    <2>1. w \in [D -> Nat] /\ s \in Seq(D)
      BY <1>3, WeightsAre
    <2> HIDE DEF D, w, s
    <2>2. Load(w, s) \in Nat
      BY <2>1, LoadIs
    <2> QED BY <2>2 DEF w, s
  <1> HIDE DEF h, l, q, d, k, p
  <1>6. h + k + p <= total + more /\ total + more \in Nat
    BY <1>1, <1>2, <1>4, <1>5
  <1> QED BY <1>3, <1>4, <1>6 DEF Accounted, h, k, p

\* Reliable packets leave the set for the queue.
LEMMA HeldLeave ==
  ASSUME SentOK, NEW held, NEW list, NEW queue, NEW total, Accounted(held, list, queue, total),
         NEW i \in DOMAIN sent, i \notin held, NEW ready, Taken(ready, held \cup {i})
  PROVE  Accounted((held \cup {i}) \ Range(ready), list, queue \o ready, total + sent[i].count)
  <1> DEFINE more == sent[i].count
             S == held \cup {i}
             R == S \ Range(ready)
             a == HeldWeight(R)
             b == Load(Weights(sent), ready)
             h == HeldWeight(held)
             l == Load(EntryWeights, list)
             q == Load(Weights(sent), queue)
             p == Load(Weights(sent), queue \o ready)
  <1>1. held \in SUBSET DOMAIN sent /\ list \in Seq(Entries) /\ queue \in Seq(DOMAIN sent) /\ S \in SUBSET DOMAIN sent /\ R \in SUBSET DOMAIN sent
    BY DEF Accounted
  <1>2. h \in Nat /\ l \in Nat /\ q \in Nat /\ total \in Nat /\ h + l + q <= total
    <2>1. h \in Nat /\ l \in Nat /\ q \in Nat /\ total \in Nat
      BY AccountedIs
    <2> QED BY <2>1 DEF Accounted
  <1>3. HeldWeight(S) = h + more /\ more \in Nat
    BY <1>1, HeldGrows, CommandsAre
  <1>4. a + b = HeldWeight(S) /\ ready \in Seq(DOMAIN sent)
    <2>1. a + b = HeldWeight(S) /\ ready \in Seq(S)
      BY DEF Taken
    <2>2. ready \in Seq(DOMAIN sent)
      BY <1>1, <2>1, SeqMonotonic
    <2> QED BY <2>1, <2>2
  <1>5. queue \o ready \in Seq(DOMAIN sent) /\ p = q + b /\ b \in Nat
    BY <1>1, <1>4, QueueLoad
  <1>6. a \in Nat
    BY <1>1, PiecesFinite
  <1>7. a + b = h + more
    BY <1>3, <1>4
  <1> HIDE DEF a, b, h, l, q, p, more, R
  <1>8. a + l + p <= total + more /\ total + more \in Nat
    BY <1>2, <1>3, <1>5, <1>6, <1>7
  <1>9. Accounted(R, list, queue \o ready, total + more)
    BY <1>1, <1>5, <1>8 DEF Accounted, a, l, p
  <1> QED BY <1>9 DEF R, more

-----------------------------------------------------------------------------
(* The handlers.                                                           *)

\* The numbers and the window keep their types, and the accounts balance.
ReceiverIs(reliable, unreliable, group, bits, held, list, queue, total) ==
  /\ reliable \in 0..(SequenceSpace - 1)
  /\ unreliable \in 0..MaxUnreliable
  /\ group \in 0..(GroupSpace - 1)
  /\ bits \in SUBSET (0..(GroupWindowSize - 1))
  /\ Accounted(held, list, queue, total)

ReceiverOK ==
  ReceiverIs(incomingReliableSequenceNumber, incomingUnreliableSequenceNumber,
             incomingUnsequencedGroup, unsequencedWindow, incomingReliableCommands,
             incomingUnreliableCommands, dispatchedCommands, totalWaitingData)

\* The same of the next state, before anything is sent.
ReceiverStays ==
  ReceiverIs(incomingReliableSequenceNumber', incomingUnreliableSequenceNumber',
             incomingUnsequencedGroup', unsequencedWindow', incomingReliableCommands',
             incomingUnreliableCommands', dispatchedCommands', totalWaitingData')

LEMMA SpacesAre ==
  SequenceSpace \in Nat \ {0} /\ GroupSpace \in Nat \ {0} /\ 0 \in 0..MaxUnreliable /\ GroupWindowSize \in Nat \ {0}
  <1>1. /\ ReliableWindows \in Nat \ {0} /\ WindowSize \in Nat \ {0} /\ GroupWindows \in Nat \ {0}
        /\ GroupWindowSize \in Nat \ {0} /\ MaxUnreliable \in Nat \ {0}
    BY IncomingAssumption
  <1>2. SequenceSpace \in Nat \ {0}
    BY <1>1, SMT DEF SequenceSpace
  <1>3. GroupSpace \in Nat \ {0}
    BY <1>1, SMT DEF GroupSpace
  <1> QED BY <1>1, <1>2, <1>3

LEMMA NumbersAre ==
  ASSUME SentOK, NEW i \in DOMAIN sent
  PROVE  LastReliableNumber(i) \in 0..(SequenceSpace - 1) /\ GroupNumber(i) \in 0..(GroupSpace - 1)
  <1> DEFINE n == sent[i].reliable + sent[i].count - 1
             g == sent[i].group
  <1>1. n \in Int /\ g \in Int
    <2>1. sent[i].reliable \in Nat /\ sent[i].count \in Nat /\ g \in Nat
      BY SentIs DEF Packet
    <2> QED BY <2>1
  <1>2. LastReliableNumber(i) = n % SequenceSpace /\ GroupNumber(i) = g % GroupSpace
    BY DEF LastReliableNumber, GroupNumber
  <1> HIDE DEF n, g
  <1>3. n % SequenceSpace \in 0..(SequenceSpace - 1) /\ g % GroupSpace \in 0..(GroupSpace - 1)
    BY <1>1, SpacesAre, DivMod
  <1> QED BY <1>2, <1>3

LEMMA FoundPlaceIs ==
  ASSUME SentOK, incomingUnreliableCommands \in Seq(Entries), NEW i
  PROVE  FoundPlace(i) \in 0..Len(incomingUnreliableCommands)
  <1> DEFINE N == Len(incomingUnreliableCommands)
             T == {0} \cup {k \in DOMAIN incomingUnreliableCommands :
                    ~GoesPast(incomingUnreliableCommands[k], ReliableNumber(i), UnreliableNumber(i))}
  <1>1. N \in Nat /\ DOMAIN incomingUnreliableCommands = 1..N
    BY LenProperties
  <1>2. T \in SUBSET (0..N) /\ T # {}
    BY <1>1
  <1>3. FoundPlace(i) = Max(T)
    BY DEF FoundPlace
  <1> HIDE DEF N, T
  <1>4. Max(T) \in T
    BY <1>1, <1>2, MaxIs
  <1> QED BY <1>2, <1>3, <1>4 DEF N

LEMMA QueuedBehindIs ==
  ASSUME SentOK, incomingUnreliableCommands \in Seq(Entries), NEW i \in DOMAIN sent,
         NEW at \in 0..Len(incomingUnreliableCommands), NEW missing \in SUBSET Nat
  PROVE  /\ QueuedBehind(at, i, missing) \in Seq(Entries)
         /\ Load(EntryWeights, QueuedBehind(at, i, missing)) = Load(EntryWeights, incomingUnreliableCommands) + sent[i].count
  <1> DEFINE x == [packet |-> i, missing |-> missing]
             D == Entries
             w == EntryWeights
             list == incomingUnreliableCommands
  <1>1. x \in D
    BY DEF Entries
  <1>2. w \in [D -> Nat] /\ w[x] = sent[i].count
    BY <1>1, WeightsAre DEF EntryWeights
  <1>3. list \in Seq(D) /\ at \in 0..Len(list)
    OBVIOUS
  <1>4. QueuedBehind(at, i, missing) = InsertAt(list, at + 1, x)
    BY DEF QueuedBehind
  <1> HIDE DEF x, D, w, list
  <1>5. InsertAt(list, at + 1, x) \in Seq(D) /\ Load(w, InsertAt(list, at + 1, x)) = Load(w, list) + w[x]
    BY <1>1, <1>2, <1>3, LoadInsert
  <1>6. Load(w, InsertAt(list, at + 1, x)) = Load(w, list) + sent[i].count
    BY <1>2, <1>5
  <1> QED BY <1>4, <1>5, <1>6 DEF w, list, D

\* The marks on the fragments weigh nothing.
LEMMA MarkedIs ==
  ASSUME SentOK, NEW list \in Seq(Entries), NEW i, NEW f
  PROVE  Marked(list, i, f) \in Seq(Entries) /\ Load(EntryWeights, Marked(list, i, f)) = Load(EntryWeights, list)
  <1> DEFINE C == Entries
             v == EntryWeights
             p == Marked(list, i, f)
             mark(e) == IF e.packet = i THEN [e EXCEPT !.missing = e.missing \ {f}] ELSE e
  <1>1. \A e \in C : mark(e) \in C /\ mark(e).packet = e.packet
    <2>1. ASSUME NEW e \in C PROVE mark(e) \in C /\ mark(e).packet = e.packet
      <3>1. CASE e.packet = i
        <4>1. mark(e) = [e EXCEPT !.missing = e.missing \ {f}]
          BY <3>1
        <4>2. [e EXCEPT !.missing = e.missing \ {f}] \in C /\ [e EXCEPT !.missing = e.missing \ {f}].packet = e.packet
          BY DEF Entries
        <4> QED BY <4>1, <4>2
      <3>2. CASE e.packet # i
        BY <3>2
      <3> QED BY <3>1, <3>2
    <2> QED BY <2>1
  <1>2. Len(list) \in Nat /\ DOMAIN list = 1..Len(list) /\ \A k \in 1..Len(list) : list[k] \in C
    BY LenProperties, ElementOfSeq
  <1>3. p = [k \in 1..Len(list) |-> mark(list[k])]
    <2>1. p = [k \in DOMAIN list |-> mark(list[k])]
      BY DEF Marked
    <2> QED BY <1>2, <2>1
  <1>4. v \in [C -> Nat] /\ \A e \in C : v[e] = Weights(sent)[e.packet]
    BY WeightsAre
  <1> HIDE DEF C, v, p, mark
  <1>5. p \in Seq(C) /\ Len(p) = Len(list) /\ \A k \in 1..Len(list) : p[k] = mark(list[k])
    <2> DEFINE n == Len(list)
    <2>1. n \in Nat /\ p = [k \in 1..n |-> mark(list[k])] /\ \A k \in 1..n : mark(list[k]) \in C
      BY <1>1, <1>2, <1>3
    <2> HIDE DEF n
    <2>2. p \in [1..n -> C] /\ \A k \in 1..n : p[k] = mark(list[k])
      BY <2>1
    <2>3. p \in Seq(C) /\ Len(p) = n
      BY <2>1, <2>2
    <2> QED BY <2>2, <2>3 DEF n
  <1>6. \A k \in 1..Len(list) : v[p[k]] = v[list[k]]
    <2>1. ASSUME NEW k \in 1..Len(list) PROVE v[p[k]] = v[list[k]]
      <3>1. p[k] = mark(list[k]) /\ p[k] \in C /\ p[k].packet = list[k].packet /\ list[k] \in C
        BY <1>1, <1>2, <1>5
      <3> QED BY <1>4, <3>1
    <2> QED BY <2>1
  <1>7. Alike(v, p, v, list, Len(list))
    <2>1. Len(list) \in 0..Len(p) /\ Len(list) \in 0..Len(list)
      BY <1>2, <1>5
    <2> QED BY <1>6, <2>1 DEF Alike
  <1>8. list \in Seq(C)
    BY DEF C
  <1>9. Load(v, p) = Load(v, list)
    <2>1. Matched(C, v, p, C, v, list)
      BY <1>4, <1>5, <1>7, <1>8 DEF Matched
    <2> QED BY <2>1, LoadSame
  <1> QED BY <1>5, <1>9 DEF C, v, p

\* What the receiver's lists are when its state is what it should be.
LEMMA ReceiverFields ==
  ASSUME SentOK, ReceiverOK
  PROVE  /\ incomingReliableSequenceNumber \in 0..(SequenceSpace - 1)
         /\ incomingUnreliableSequenceNumber \in 0..MaxUnreliable
         /\ incomingUnreliableCommands \in Seq(Entries)
         /\ incomingReliableCommands \in SUBSET DOMAIN sent
         /\ Accounted(incomingReliableCommands, incomingUnreliableCommands, dispatchedCommands, totalWaitingData)
         /\ Load(EntryWeights, incomingUnreliableCommands) \in Nat
  <1>1. Accounted(incomingReliableCommands, incomingUnreliableCommands, dispatchedCommands, totalWaitingData)
    BY DEF ReceiverOK, ReceiverIs
  <1>2. incomingReliableSequenceNumber \in 0..(SequenceSpace - 1) /\ incomingUnreliableSequenceNumber \in 0..MaxUnreliable
    BY DEF ReceiverOK, ReceiverIs
  <1>3. incomingUnreliableCommands \in Seq(Entries) /\ incomingReliableCommands \in SUBSET DOMAIN sent
    BY <1>1 DEF Accounted
  <1> QED BY <1>1, <1>2, <1>3, AccountedIs

\* Nothing dispatched: the list is as it was.
LEMMA SettledAsItWas ==
  ASSUME SentOK, NEW list \in Seq(Entries), NEW u \in 0..MaxUnreliable, NEW to,
         to.list = list, to.unreliable = u, to.dispatched = <<>>
  PROVE  Settled(to, Load(EntryWeights, list))
  <1> DEFINE w == Weights(sent)
             l == Load(EntryWeights, list)
  <1>1. <<>> \in Seq(DOMAIN sent) /\ Load(w, <<>>) = 0
    BY WeightsAre, LoadEmpty
  <1>2. l \in Nat
    <2> DEFINE D == Entries
               v == EntryWeights
    <2>1. v \in [D -> Nat] /\ list \in Seq(D)
      BY WeightsAre
    <2> HIDE DEF D, v
    <2>2. Load(v, list) \in Nat
      BY <2>1, LoadIs
    <2> QED BY <2>2 DEF v
  <1> HIDE DEF l
  <1>3. 0 + l <= l
    BY <1>2
  <1> QED BY <1>1, <1>3 DEF Settled, l

LEMMA WithPacketIs ==
  ASSUME SentOK, ReceiverOK, NEW i \in DOMAIN sent
  PROVE  Settled(WithPacket(i), Load(EntryWeights, incomingUnreliableCommands)
                                  + (IF AlreadyQueued(i) THEN 0 ELSE sent[i].count))
  <1> DEFINE list == incomingUnreliableCommands
             u == incomingUnreliableSequenceNumber
             l == Load(EntryWeights, list)
             to == WithPacket(i)
  <1>1. list \in Seq(Entries) /\ u \in 0..MaxUnreliable /\ l \in Nat
    BY ReceiverFields
  <1>2. CASE AlreadyQueued(i)
    <2>1. to.list = list /\ to.unreliable = u /\ to.dispatched = <<>>
      BY <1>2 DEF WithPacket
    <2> HIDE DEF to, list, u
    <2>2. Settled(to, Load(EntryWeights, list))
      BY <1>1, <2>1, SettledAsItWas
    <2> HIDE DEF l
    <2>3. l + (IF AlreadyQueued(i) THEN 0 ELSE sent[i].count) = l
      BY <1>1, <1>2
    <2> QED BY <2>2, <2>3 DEF to, l, list
  <1>3. CASE ~AlreadyQueued(i)
    <2> DEFINE q == QueuedBehind(FoundPlace(i), i, 1..sent[i].count)
               r == incomingReliableSequenceNumber
    <2>1. to = DispatchUnreliable(q, r, u, i)
      BY <1>3 DEF WithPacket
    <2>2. q \in Seq(Entries) /\ Load(EntryWeights, q) = l + sent[i].count
      <3>1. FoundPlace(i) \in 0..Len(list) /\ 1..sent[i].count \in SUBSET Nat
        BY <1>1, FoundPlaceIs
      <3> QED BY <1>1, <3>1, QueuedBehindIs
    <2> HIDE DEF q, r, u, to
    <2>3. Settled(to, Load(EntryWeights, q))
      BY <1>1, <2>1, <2>2, DispatchUnreliableIs
    <2>4. (IF AlreadyQueued(i) THEN 0 ELSE sent[i].count) = sent[i].count
      BY <1>3
    <2> QED BY <2>2, <2>3, <2>4 DEF to
  <1> QED BY <1>2, <1>3

LEMMA WithFragmentIs ==
  ASSUME SentOK, NEW queue, NEW load \in Nat, Settled(queue, load), NEW i, NEW f,
         queue = [list |-> queue.list, unreliable |-> queue.unreliable, dispatched |-> queue.dispatched]
  PROVE  Settled(WithFragment(queue, Marked(queue.list, i, f)), load)
  <1> DEFINE list == queue.list
             u == queue.unreliable
             before == queue.dispatched
             marked == Marked(list, i, f)
             r == incomingReliableSequenceNumber
             to == WithFragment(queue, marked)
             l == Load(EntryWeights, list)
             d == Load(Weights(sent), before)
             Done == \E k \in DOMAIN marked : marked[k] # queue.list[k] /\ marked[k].missing = {}
  <1>1. list \in Seq(Entries) /\ u \in 0..MaxUnreliable /\ before \in Seq(DOMAIN sent) /\ d + l <= load
    BY DEF Settled
  <1>2. marked \in Seq(Entries) /\ Load(EntryWeights, marked) = l
    BY <1>1, MarkedIs
  <1>3. queue = [list |-> list, unreliable |-> u, dispatched |-> before]
    OBVIOUS
  <1> HIDE DEF marked, list, u, before, l, d
  <1>4. CASE ~Done
    <2>1. to = [queue EXCEPT !.list = marked]
      BY <1>4 DEF WithFragment, list
    <2> HIDE DEF to
    <2>2. to.list = marked /\ to.unreliable = u /\ to.dispatched = before
      BY <1>3, <2>1
    <2>3. Settled(to, load)
      BY <1>1, <1>2, <2>2 DEF Settled, d
    <2> QED BY <2>3 DEF to, marked, list
  <1>5. CASE Done
    <2> DEFINE next == DispatchUnreliable(marked, r, u, 0)
               after == next.dispatched
    <2>1. to = [next EXCEPT !.dispatched = before \o next.dispatched]
      BY <1>5 DEF WithFragment, list, u, before
    <2>2. Settled(next, l)
      BY <1>1, <1>2, DispatchUnreliableIs
    <2>3. next = [dispatched |-> next.dispatched, list |-> next.list, unreliable |-> next.unreliable]
      BY DEF DispatchUnreliable, Outcome
    <2> DEFINE b == Load(Weights(sent), after)
               k == Load(EntryWeights, next.list)
    <2>4. after \in Seq(DOMAIN sent) /\ next.list \in Seq(Entries) /\ next.unreliable \in 0..MaxUnreliable /\ b + k <= l
      BY <2>2 DEF Settled
    <2> HIDE DEF next, to
    <2>5. to.list = next.list /\ to.unreliable = next.unreliable /\ to.dispatched = before \o after
      BY <2>1, <2>3
    <2>6. /\ before \o after \in Seq(DOMAIN sent) /\ d \in Nat /\ b \in Nat
          /\ Load(Weights(sent), before \o after) = d + b
      BY <1>1, <2>4, QueueLoad DEF d
    <2>7. k \in Nat /\ l \in Nat
      <3> DEFINE D == Entries
                 v == EntryWeights
                 s == next.list
      <3>1. v \in [D -> Nat] /\ list \in Seq(D) /\ s \in Seq(D)
        BY <1>1, <2>4, WeightsAre
      <3> HIDE DEF D, v, s
      <3>2. Load(v, list) \in Nat /\ Load(v, s) \in Nat
        BY <3>1, LoadIs
      <3> QED BY <3>2 DEF v, s, l
    <2> DEFINE t == Load(Weights(sent), before \o after)
    <2>8. t + k <= load
      <3>1. t = d + b
        BY <2>6
      <3>2. d \in Nat /\ b \in Nat /\ k \in Nat /\ l \in Nat /\ b + k <= l /\ d + l <= load
        BY <1>1, <2>4, <2>6, <2>7
      <3> HIDE DEF t, b, k
      <3> QED BY <3>1, <3>2
    <2>9. Settled(to, load)
      <3> HIDE DEF after
      <3> QED BY <2>4, <2>5, <2>6, <2>8 DEF Settled
    <2> QED BY <2>9 DEF to, marked, list
  <1> QED BY <1>4, <1>5

LEMMA DiscardKeeps ==
  ASSUME ReceiverOK, Discard
  PROVE  ReceiverStays
  BY DEF ReceiverOK, ReceiverStays, Discard, receiverVars

\* What is taken over from a dispatch.
LEMMA TakeKeeps ==
  ASSUME SentOK, ReceiverOK, NEW to, NEW more \in Nat,
         Settled(to, Load(EntryWeights, incomingUnreliableCommands) + more), TakeDispatched(to)
  PROVE  /\ incomingUnreliableSequenceNumber' \in 0..MaxUnreliable
         /\ Accounted(incomingReliableCommands, incomingUnreliableCommands', dispatchedCommands', totalWaitingData + more)
  <1>1. /\ incomingUnreliableCommands' = to.list /\ incomingUnreliableSequenceNumber' = to.unreliable
        /\ dispatchedCommands' = dispatchedCommands \o to.dispatched
    BY DEF TakeDispatched
  <1>2. Accounted(incomingReliableCommands, incomingUnreliableCommands, dispatchedCommands, totalWaitingData)
    BY ReceiverFields
  <1>3. Accounted(incomingReliableCommands, to.list, dispatchedCommands \o to.dispatched, totalWaitingData + more)
    BY <1>2, AccountsKept
  <1>4. to.unreliable \in 0..MaxUnreliable
    BY DEF Settled
  <1> QED BY <1>1, <1>3, <1>4

\* A packet that is queued, dispatched with what it lets go.
LEMMA QueuedSettles ==
  ASSUME SentOK, ReceiverOK, NEW i \in DOMAIN sent, NEW missing \in SUBSET Nat,
         NEW at \in 0..Len(incomingUnreliableCommands)
  PROVE  Settled(DispatchUnreliable(QueuedBehind(at, i, missing), incomingReliableSequenceNumber,
                                    incomingUnreliableSequenceNumber, i),
                 Load(EntryWeights, incomingUnreliableCommands) + sent[i].count)
  <1> DEFINE q == QueuedBehind(at, i, missing)
             u == incomingUnreliableSequenceNumber
             r == incomingReliableSequenceNumber
  <1>1. incomingUnreliableCommands \in Seq(Entries) /\ u \in 0..MaxUnreliable
    BY ReceiverFields
  <1>2. q \in Seq(Entries) /\ Load(EntryWeights, q) = Load(EntryWeights, incomingUnreliableCommands) + sent[i].count
    BY <1>1, QueuedBehindIs
  <1> HIDE DEF q, u, r
  <1>3. Settled(DispatchUnreliable(q, r, u, i), Load(EntryWeights, q))
    BY <1>1, <1>2, DispatchUnreliableIs
  <1> QED BY <1>2, <1>3 DEF q, u, r

LEMMA UnreliableKeeps ==
  ASSUME SentOK, ReceiverOK, NEW i \in DOMAIN sent, HandleSendUnreliable(i)
  PROVE  ReceiverStays
  <1> DEFINE to == DispatchUnreliable(QueuedBehind(FoundPlace(i), i, {}), incomingReliableSequenceNumber,
                                      incomingUnreliableSequenceNumber, i)
  <1>1. CASE ~InWindow(ReliableNumber(i), incomingReliableSequenceNumber) \/ Overtaken(i) \/ AlreadyQueued(i) \/ BufferFull
    BY <1>1, DiscardKeeps DEF HandleSendUnreliable
  <1>2. CASE ~(~InWindow(ReliableNumber(i), incomingReliableSequenceNumber) \/ Overtaken(i) \/ AlreadyQueued(i) \/ BufferFull)
    <2>1. /\ TakeDispatched(to)
          /\ totalWaitingData' = totalWaitingData + sent[i].count
          /\ UNCHANGED <<incomingReliableSequenceNumber, incomingUnsequencedGroup, unsequencedWindow, incomingReliableCommands>>
      BY <1>2 DEF HandleSendUnreliable
    <2>2. Settled(to, Load(EntryWeights, incomingUnreliableCommands) + sent[i].count)
      <3>1. FoundPlace(i) \in 0..Len(incomingUnreliableCommands)
        BY ReceiverFields, FoundPlaceIs
      <3> QED BY <3>1, QueuedSettles
    <2>3. sent[i].count \in Nat
      BY CommandsAre
    <2> HIDE DEF to
    <2>4. /\ incomingUnreliableSequenceNumber' \in 0..MaxUnreliable
          /\ Accounted(incomingReliableCommands, incomingUnreliableCommands', dispatchedCommands', totalWaitingData + sent[i].count)
      BY <2>1, <2>2, <2>3, TakeKeeps
    <2> QED BY <2>1, <2>4 DEF ReceiverOK, ReceiverStays, ReceiverIs
  <1> QED BY <1>1, <1>2

LEMMA FragmentKeeps ==
  ASSUME SentOK, ReceiverOK, NEW i \in DOMAIN sent, NEW f, HandleSendUnreliableFragment(i, f)
  PROVE  ReceiverStays
  <1> DEFINE queue == WithPacket(i)
             to == WithFragment(queue, Marked(queue.list, i, f))
             more == IF AlreadyQueued(i) THEN 0 ELSE sent[i].count
             load == Load(EntryWeights, incomingUnreliableCommands) + more
             Out == \/ ~InWindow(ReliableNumber(i), incomingReliableSequenceNumber)
                    \/ Overtaken(i)
                    \/ ~AlreadyQueued(i) /\ BufferFull
  <1>1. CASE Out
    BY <1>1, DiscardKeeps DEF HandleSendUnreliableFragment
  <1>2. CASE ~Out
    <2>1. /\ TakeDispatched(to)
          /\ totalWaitingData' = totalWaitingData + more
          /\ UNCHANGED <<incomingReliableSequenceNumber, incomingUnsequencedGroup, unsequencedWindow, incomingReliableCommands>>
      BY <1>2 DEF HandleSendUnreliableFragment, TakeFragment
    <2>2. more \in Nat /\ load \in Nat
      <3>1. more \in Nat
        BY CommandsAre
      <3> HIDE DEF more
      <3> QED BY <3>1, ReceiverFields
    <2>3. Settled(queue, load)
      BY WithPacketIs
    <2>4. queue = [list |-> queue.list, unreliable |-> queue.unreliable, dispatched |-> queue.dispatched]
      BY DEF WithPacket, DispatchUnreliable, Outcome
    <2> HIDE DEF queue, load, more
    <2>5. Settled(to, load)
      BY <2>2, <2>3, <2>4, WithFragmentIs
    <2> HIDE DEF to
    <2>6. /\ incomingUnreliableSequenceNumber' \in 0..MaxUnreliable
          /\ Accounted(incomingReliableCommands, incomingUnreliableCommands', dispatchedCommands', totalWaitingData + more)
      BY <2>1, <2>2, <2>5, TakeKeeps DEF load
    <2> QED BY <2>1, <2>6 DEF ReceiverOK, ReceiverStays, ReceiverIs
  <1> QED BY <1>1, <1>2

LEMMA WindowOfIs ==
  ASSUME SentOK, ReceiverOK, NEW i \in DOMAIN sent
  PROVE  /\ WindowOf(GroupNumber(i)).group \in 0..(GroupSpace - 1)
         /\ WindowOf(GroupNumber(i)).bits \in SUBSET (0..(GroupWindowSize - 1))
         /\ GroupNumber(i) % GroupWindowSize \in 0..(GroupWindowSize - 1)
  <1> DEFINE g == GroupNumber(i)
             d == GroupWindowSize
             n == g % d
             s == GroupSpace
  <1>1. g \in 0..(s - 1) /\ d \in Nat \ {0} /\ s \in Nat \ {0}
    BY NumbersAre, SpacesAre
  <1> HIDE DEF g, d, s
  <1>2. n \in 0..(d - 1) /\ g \div d \in Nat /\ g = d * (g \div d) + n
    <2>1. g \in Nat /\ g \in Int
      BY <1>1
    <2>2. g \div d \in Nat
      BY <1>1, <2>1, DivNat
    <2>3. n \in 0..(d - 1) /\ g = d * (g \div d) + n
      BY <1>1, <2>1, DivMod
    <2> QED BY <2>2, <2>3
  <1>3. n <= g
    <2> DEFINE k == g \div d
    <2>1. k \in Nat /\ g = d * k + n
      BY <1>2
    <2> HIDE DEF k, n
    <2>2. d * k >= 0
      BY <1>1, <2>1, SMT
    <2> QED BY <1>1, <1>2, <2>1, <2>2, SMT
  <1> HIDE DEF n
  <1>4. g - n \in 0..(s - 1)
    BY <1>1, <1>2, <1>3
  <1>5. unsequencedWindow \in SUBSET (0..(d - 1))
    BY DEF ReceiverOK, ReceiverIs, d
  <1>6. WindowOf(g).group = g - n /\ WindowOf(g).bits \in {unsequencedWindow, {}}
    BY DEF WindowOf, n, d
  <1> QED BY <1>2, <1>4, <1>5, <1>6 DEF g, d, s, n

LEMMA UnsequencedKeeps ==
  ASSUME SentOK, ReceiverOK, NEW i \in DOMAIN sent, HandleSendUnsequenced(i)
  PROVE  ReceiverStays
  <1> DEFINE group == GroupNumber(i)
             window == WindowOf(group)
             index == group % GroupWindowSize
             to == DispatchUnreliable(QueuedBehind(0, i, {}), incomingReliableSequenceNumber,
                                      incomingUnreliableSequenceNumber, i)
  <1>1. window.group \in 0..(GroupSpace - 1) /\ window.bits \in SUBSET (0..(GroupWindowSize - 1)) /\ index \in 0..(GroupWindowSize - 1)
    BY WindowOfIs
  <1>2. CASE GroupIsOld(group) \/ index \in window.bits
    BY <1>2, DiscardKeeps DEF HandleSendUnsequenced
  <1>3. CASE ~(GroupIsOld(group) \/ index \in window.bits)
    <2>1. incomingUnsequencedGroup' = window.group /\ UNCHANGED <<incomingReliableSequenceNumber, incomingReliableCommands>>
      BY <1>3 DEF HandleSendUnsequenced
    <2>2. CASE BufferFull
      <3>1. /\ unsequencedWindow' = window.bits
            /\ UNCHANGED <<incomingUnreliableSequenceNumber, incomingUnreliableCommands, dispatchedCommands, totalWaitingData>>
        BY <1>3, <2>2 DEF HandleSendUnsequenced
      <3> HIDE DEF window
      <3> QED BY <1>1, <2>1, <3>1 DEF ReceiverOK, ReceiverStays, ReceiverIs
    <2>3. CASE ~BufferFull
      <3>1. /\ unsequencedWindow' = window.bits \cup {index} /\ TakeDispatched(to)
            /\ totalWaitingData' = totalWaitingData + sent[i].count
        BY <1>3, <2>3 DEF HandleSendUnsequenced
      <3>2. Settled(to, Load(EntryWeights, incomingUnreliableCommands) + sent[i].count)
        <4>1. 0 \in 0..Len(incomingUnreliableCommands)
          BY ReceiverFields, LenProperties
        <4> QED BY <4>1, QueuedSettles
      <3>3. sent[i].count \in Nat
        BY CommandsAre
      <3> HIDE DEF to, window, index
      <3>4. /\ incomingUnreliableSequenceNumber' \in 0..MaxUnreliable
            /\ Accounted(incomingReliableCommands, incomingUnreliableCommands', dispatchedCommands', totalWaitingData + sent[i].count)
        BY <3>1, <3>2, <3>3, TakeKeeps
      <3>5. unsequencedWindow' \in SUBSET (0..(GroupWindowSize - 1))
        BY <1>1, <3>1
      <3> QED BY <1>1, <2>1, <3>1, <3>4, <3>5 DEF ReceiverOK, ReceiverStays, ReceiverIs
    <2> QED BY <2>2, <2>3
  <1> QED BY <1>2, <1>3

LEMMA DispatchReadyIs ==
  ASSUME SentOK, ReceiverOK, NEW ready \in Seq(DOMAIN sent), ready # <<>>
  PROVE  LET to == DispatchReady(ready, 0)
             later == DispatchUnreliable(incomingUnreliableCommands, LastReliableNumber(ready[Len(ready)]), 0, 0)
         IN  /\ to.ready = Range(ready)
             /\ to.reliable \in 0..(SequenceSpace - 1)
             /\ to.unreliable = later.unreliable /\ to.list = later.list /\ to.dispatched = ready \o later.dispatched
             /\ Settled(later, Load(EntryWeights, incomingUnreliableCommands) + 0)
  <1> DEFINE to == DispatchReady(ready, 0)
             r == LastReliableNumber(ready[Len(ready)])
             list == incomingUnreliableCommands
             later == DispatchUnreliable(list, r, 0, 0)
  <1>1. to = Following(ready, r, later)
    BY DEF DispatchReady
  <1>2. list \in Seq(Entries) /\ Load(EntryWeights, list) \in Nat /\ 0 \in 0..MaxUnreliable
    BY ReceiverFields, SpacesAre
  <1>3. r \in 0..(SequenceSpace - 1)
    <2>1. Len(ready) \in 1..Len(ready)
      BY EmptySeq
    <2>2. ready[Len(ready)] \in DOMAIN sent
      BY <2>1, ElementOfSeq
    <2> QED BY <2>2, NumbersAre
  <1>4. Settled(later, Load(EntryWeights, list))
    <2> HIDE DEF r, list
    <2> QED BY <1>2, DispatchUnreliableIs
  <1>5. Load(EntryWeights, list) + 0 = Load(EntryWeights, list)
    <2> DEFINE l == Load(EntryWeights, list)
    <2>1. l \in Nat
      BY <1>2
    <2> HIDE DEF l
    <2>2. l + 0 = l
      BY <2>1
    <2> QED BY <2>2 DEF l
  <1> HIDE DEF to, later, r
  <1>6. to.ready = Range(ready) /\ to.reliable = r /\ to.unreliable = later.unreliable /\ to.list = later.list
        /\ to.dispatched = ready \o later.dispatched
    BY <1>1 DEF Following
  <1>7. Settled(later, Load(EntryWeights, list) + 0)
    BY <1>4, <1>5
  <1> QED BY <1>3, <1>6, <1>7 DEF to, later, r, list

LEMMA ReliableKeeps ==
  ASSUME SentOK, ReceiverOK, NEW i \in DOMAIN sent, HandleSendReliable(i)
  PROVE  ReceiverStays
  <1> DEFINE held == incomingReliableCommands \cup {i}
             ready == ReadyAfter(held, incomingReliableSequenceNumber)
             to == DispatchReady(ready, 0)
             list == incomingUnreliableCommands
             queue == dispatchedCommands
             more == sent[i].count
             Out == \/ ~InWindow(ReliableNumber(i), incomingReliableSequenceNumber)
                    \/ ReliableNumber(i) = incomingReliableSequenceNumber
                    \/ \E j \in incomingReliableCommands : ReliableNumber(j) = ReliableNumber(i)
                    \/ BufferFull
  <1>1. CASE Out
    BY <1>1, DiscardKeeps DEF HandleSendReliable
  <1>2. CASE ~Out
    <2>1. /\ TakeReliable(held, to)
          /\ totalWaitingData' = totalWaitingData + more
          /\ UNCHANGED <<incomingUnsequencedGroup, unsequencedWindow>>
      BY <1>2 DEF HandleSendReliable, DispatchReliable
    <2>2. i \notin incomingReliableCommands
      BY <1>2
    <2> HIDE DEF Out
    <2>3. /\ Accounted(incomingReliableCommands, list, queue, totalWaitingData)
          /\ incomingReliableCommands \in SUBSET DOMAIN sent
          /\ incomingReliableSequenceNumber \in 0..(SequenceSpace - 1)
          /\ incomingUnreliableSequenceNumber \in 0..MaxUnreliable
      BY ReceiverFields
    <2>4. held \in SUBSET DOMAIN sent
      BY <2>3
    <2>5. Taken(ready, held)
      <3> HIDE DEF held
      <3> QED BY <2>4, ReadyAfterIs
    <2> HIDE DEF ready, to
    <2>6. Accounted(held \ Range(ready), list, queue \o ready, totalWaitingData + more)
      BY <2>2, <2>3, <2>5, HeldLeave
    <2>7. ready \in Seq(DOMAIN sent) /\ queue \in Seq(DOMAIN sent) /\ totalWaitingData + more \in Nat
      <3>1. ready \in Seq(held)
        BY <2>5 DEF Taken
      <3>2. ready \in Seq(DOMAIN sent)
        <4> HIDE DEF held
        <4> QED BY <2>4, <3>1, SeqMonotonic
      <3> QED BY <2>3, <2>6, <3>2 DEF Accounted
    <2>8. /\ incomingReliableCommands' = held \ to.ready /\ incomingReliableSequenceNumber' = to.reliable
          /\ incomingUnreliableCommands' = to.list /\ incomingUnreliableSequenceNumber' = to.unreliable
          /\ dispatchedCommands' = queue \o to.dispatched
      <3> HIDE DEF held
      <3> QED BY <2>1 DEF TakeReliable, TakeDispatched
    <2>9. CASE ready = <<>>
      <3>1. /\ to.ready = {} /\ to.reliable = incomingReliableSequenceNumber /\ to.list = list
            /\ to.unreliable = incomingUnreliableSequenceNumber /\ to.dispatched = ready
        BY <2>9 DEF DispatchReady, to
      <3>2. Range(ready) = {}
        BY <2>9 DEF Range
      <3>3. Accounted(incomingReliableCommands', incomingUnreliableCommands', dispatchedCommands', totalWaitingData')
        <4> HIDE DEF held, more, list, queue
        <4> QED BY <2>1, <2>6, <2>8, <3>1, <3>2
      <3> QED BY <2>1, <2>3, <2>8, <3>1, <3>3 DEF ReceiverOK, ReceiverStays, ReceiverIs
    <2>10. CASE ready # <<>>
      <3> DEFINE later == DispatchUnreliable(list, LastReliableNumber(ready[Len(ready)]), 0, 0)
      <3>1. /\ to.ready = Range(ready)
            /\ to.reliable \in 0..(SequenceSpace - 1)
            /\ to.unreliable = later.unreliable /\ to.list = later.list /\ to.dispatched = ready \o later.dispatched
            /\ Settled(later, Load(EntryWeights, list) + 0)
        BY <2>7, <2>10, DispatchReadyIs DEF to
      <3> HIDE DEF later
      <3>2. Accounted(held \ Range(ready), later.list, (queue \o ready) \o later.dispatched, totalWaitingData + more + 0)
        <4> DEFINE H == held \ Range(ready)
                   q == queue \o ready
                   t == totalWaitingData + more
        <4>1. Accounted(H, list, q, t)
          BY <2>6
        <4> HIDE DEF H, q, t, list
        <4>2. Accounted(H, later.list, q \o later.dispatched, t + 0)
          BY <3>1, <4>1, AccountsKept
        <4> QED BY <4>2 DEF H, q, t
      <3>3. (queue \o ready) \o later.dispatched = queue \o to.dispatched
        <4>1. later.dispatched \in Seq(DOMAIN sent)
          BY <3>1 DEF Settled
        <4> DEFINE o == later.dispatched
        <4>2. (queue \o ready) \o o = queue \o (ready \o o)
          <5> HIDE DEF o, queue
          <5>1. o \in Seq(DOMAIN sent)
            BY <4>1 DEF o
          <5> QED BY <2>7, <5>1, ConcatAssociative
        <4> QED BY <3>1, <4>2
      <3>4. totalWaitingData + more + 0 = totalWaitingData'
        <4> DEFINE t == totalWaitingData + more
        <4>1. t \in Nat /\ totalWaitingData' = t
          BY <2>1, <2>7
        <4> HIDE DEF t
        <4>2. t + 0 = totalWaitingData'
          BY <4>1
        <4> QED BY <4>2 DEF t
      <3>5. Accounted(incomingReliableCommands', incomingUnreliableCommands', dispatchedCommands', totalWaitingData')
        <4> HIDE DEF held, more, list, queue
        <4> QED BY <2>8, <3>1, <3>2, <3>3, <3>4
      <3>6. to.unreliable \in 0..MaxUnreliable
        BY <3>1 DEF Settled
      <3> QED BY <2>1, <2>8, <3>1, <3>5, <3>6 DEF ReceiverOK, ReceiverStays, ReceiverIs
    <2> QED BY <2>9, <2>10
  <1> QED BY <1>1, <1>2

-----------------------------------------------------------------------------
(* The commands that wait to be sent, and those that were.                 *)

\* The order in which enet_peer_send queues commands.
Before(c, d) == c.packet < d.packet \/ (c.packet = d.packet /\ c.fragment < d.fragment)

\* The commands of packet i of s.
AllOf(s, i) == {[packet |-> i, fragment |-> f] : f \in 1..s[i].count}

\* Each is one of its packet's, they are in order, and behind what was sent.
InOrder(s, out, gone) ==
  /\ out \in Seq(Command)
  /\ gone \in SUBSET Command
  /\ \A c \in gone : c.packet \in DOMAIN s
  /\ \A k \in 1..Len(out) :
       out[k].packet \in DOMAIN s /\ s[out[k].packet].kind # "reliable" /\ out[k] \in AllOf(s, out[k].packet)
  /\ \A k, l \in 1..Len(out) : k < l => Before(out[k], out[l])
  /\ \A c \in gone, k \in 1..Len(out) : Before(c, out[k])

\* Of a packet none or all of the commands were dropped.
WholeOrNone(s, out, gone) ==
  \A i \in DOMAIN s : s[i].kind # "reliable" => AllOf(s, i) \ (Range(out) \cup gone) \in {{}, AllOf(s, i)}

LEMMA ThrottleIsWhole ==
  ThrottleDropsWhole <=> WholeOrNone(sent, outgoingCommands, transmitted)
  BY DEF ThrottleDropsWhole, WholeOrNone, Commands, AllOf

LEMMA CommandFields ==
  ASSUME NEW c \in Command
  PROVE  c.packet \in Nat /\ c.fragment \in Nat \ {0}
  <1>1. MaxPackets \in Nat
    BY IncomingAssumption
  <1> QED BY <1>1 DEF Command

\* Dropping from the front up to the end of a packet.
LEMMA DropKeeps ==
  ASSUME NEW s, NEW out, NEW gone, InOrder(s, out, gone), WholeOrNone(s, out, gone),
         NEW n \in 1..Len(out), out[1].fragment = 1,
         \A k \in 1..n, m \in (n + 1)..Len(out) : out[k].packet # out[m].packet
  PROVE  /\ InOrder(s, SubSeq(out, n + 1, Len(out)), gone)
         /\ WholeOrNone(s, SubSeq(out, n + 1, Len(out)), gone)
  <1> DEFINE N == Len(out)
             rest == SubSeq(out, n + 1, N)
  <1>1. out \in Seq(Command) /\ N \in Nat /\ \A k \in 1..N : out[k] \in Command /\ out[k].packet \in Nat /\ out[k].fragment \in Nat \ {0}
    <2>1. out \in Seq(Command)
      BY DEF InOrder
    <2> QED BY <2>1, LenProperties, ElementOfSeq, CommandFields
  <1>2. n \in 0..N /\ n \in 1..N
    BY <1>1
  <1>3. rest \in Seq(Command) /\ Len(rest) = N - n /\ \A k \in 1..(N - n) : rest[k] = out[n + k]
    BY <1>1, <1>2, TailElements
  <1>4. DOMAIN out = 1..N /\ DOMAIN rest = 1..(N - n)
    BY <1>1, <1>3, LenProperties
  <1>5. /\ \A k \in 1..N : out[k].packet \in DOMAIN s /\ s[out[k].packet].kind # "reliable" /\ out[k] \in AllOf(s, out[k].packet)
        /\ \A k, l \in 1..N : k < l => Before(out[k], out[l])
        /\ \A c \in gone, k \in 1..N : Before(c, out[k])
        /\ gone \in SUBSET Command /\ \A c \in gone : c.packet \in DOMAIN s
    BY DEF InOrder
  <1>6. \A k \in 1..n, m \in (n + 1)..N : out[k].packet # out[m].packet
    OBVIOUS
  <1> HIDE DEF rest, N
  <1>7. \A k \in 1..(N - n) : n + k \in 1..N
    BY <1>1, <1>2
  <1>8. InOrder(s, rest, gone)
    <2>1. ASSUME NEW k \in 1..(N - n), NEW l \in 1..(N - n), k < l PROVE Before(rest[k], rest[l])
      <3>1. n + k \in 1..N /\ n + l \in 1..N /\ n + k < n + l
        BY <1>1, <1>2, <1>7, <2>1
      <3> QED BY <1>3, <1>5, <3>1
    <2>2. \A k \in 1..(N - n) : rest[k].packet \in DOMAIN s /\ s[rest[k].packet].kind # "reliable" /\ rest[k] \in AllOf(s, rest[k].packet)
      BY <1>3, <1>5, <1>7
    <2>3. \A c \in gone, k \in 1..(N - n) : Before(c, rest[k])
      BY <1>3, <1>5, <1>7
    <2> QED BY <1>3, <1>5, <2>1, <2>2, <2>3 DEF InOrder
  <1>9. \A k \in 1..N : k \in 1..n \/ (k \in (n + 1)..N /\ k - n \in 1..(N - n) /\ rest[k - n] = out[k])
    <2>1. ASSUME NEW k \in 1..N, k \notin 1..n PROVE k \in (n + 1)..N /\ k - n \in 1..(N - n) /\ n + (k - n) = k
      BY <1>1, <1>2, <2>1
    <2> QED BY <1>3, <2>1
  <1>10. ASSUME NEW i \in DOMAIN s, s[i].kind # "reliable"
         PROVE  AllOf(s, i) \ (Range(rest) \cup gone) \in {{}, AllOf(s, i)}
    <2> DEFINE A == AllOf(s, i)
    <2>1. A \ (Range(out) \cup gone) \in {{}, A}
      BY <1>10 DEF WholeOrNone
    <2>2. \A c \in A : c.packet = i
      BY DEF AllOf
    <2> HIDE DEF A
    <2>3. CASE \E k \in 1..n : out[k].packet = i
      <3>1. PICK k \in 1..n : out[k].packet = i
        BY <2>3
      <3>2. ASSUME NEW c \in A, c \in Range(rest) PROVE FALSE
        <4>1. PICK l \in 1..(N - n) : c = rest[l]
          BY <1>4, <3>2 DEF Range
        <4>2. n + l \in (n + 1)..N /\ c = out[n + l]
          BY <1>1, <1>2, <1>3, <4>1
        <4> QED BY <1>6, <2>2, <3>1, <4>2
      <3>3. ASSUME NEW c \in A, c \in gone PROVE FALSE
        <4>1. 1 \in 1..N /\ k \in 1..N
          BY <1>1, <1>2
        <4>2. out[1].packet <= out[k].packet
          <5>1. 1 < k => Before(out[1], out[k])
            BY <1>5, <4>1
          <5>2. out[1].packet \in Nat /\ out[k].packet \in Nat /\ (1 < k \/ k = 1)
            BY <1>1, <4>1
          <5>3. CASE k = 1
            BY <5>2, <5>3
          <5>4. CASE 1 < k
            BY <5>1, <5>2, <5>4 DEF Before
          <5> QED BY <5>2, <5>3, <5>4
        <4>3. c.packet = i /\ Before(c, out[1])
          BY <1>5, <2>2, <3>3, <4>1
        <4>4. c \in Command /\ out[1].fragment = 1
          BY <1>5, <3>3
        <4>5. c.packet \in Nat /\ c.fragment \in Nat \ {0} /\ out[1].packet \in Nat
          BY <1>1, <4>1, <4>4, CommandFields
        <4> QED BY <4>4, <3>1, <4>2, <4>3, <4>5 DEF Before
      <3>4. A \ (Range(rest) \cup gone) = A
        BY <3>2, <3>3
      <3> QED BY <3>4 DEF A
    <2>4. CASE ~ \E k \in 1..n : out[k].packet = i
      <3>1. ASSUME NEW c \in A PROVE c \in Range(rest) <=> c \in Range(out)
        <4>1. ASSUME c \in Range(out) PROVE c \in Range(rest)
          <5>1. PICK k \in 1..N : c = out[k]
            BY <1>4, <4>1 DEF Range
          <5>2. k \notin 1..n
            BY <2>2, <2>4, <5>1
          <5> QED BY <1>4, <1>9, <5>1, <5>2 DEF Range
        <4>2. ASSUME c \in Range(rest) PROVE c \in Range(out)
          <5>1. PICK l \in 1..(N - n) : c = rest[l]
            BY <1>4, <4>2 DEF Range
          <5> QED BY <1>3, <1>4, <1>7, <5>1 DEF Range
        <4> QED BY <4>1, <4>2
      <3>2. A \ (Range(rest) \cup gone) = A \ (Range(out) \cup gone)
        BY <3>1
      <3> QED BY <2>1, <3>2 DEF A
    <2> QED BY <2>3, <2>4
  <1>11. WholeOrNone(s, rest, gone)
    BY <1>10 DEF WholeOrNone
  <1> QED BY <1>8, <1>11 DEF rest, N

\* A command that is sent goes from the one set to the other.
LEMMA MoveKeeps ==
  ASSUME NEW s, NEW out, NEW gone, InOrder(s, out, gone), WholeOrNone(s, out, gone), out # <<>>
  PROVE  /\ InOrder(s, Tail(out), gone \cup {Head(out)})
         /\ WholeOrNone(s, Tail(out), gone \cup {Head(out)})
         /\ Head(out) \in Command /\ Head(out).packet \in DOMAIN s
  <1> DEFINE N == Len(out)
             rest == Tail(out)
             c == Head(out)
  <1>1. out \in Seq(Command) /\ N \in Nat \ {0} /\ DOMAIN out = 1..N
    <2>1. out \in Seq(Command)
      BY DEF InOrder
    <2> QED BY <2>1, LenProperties, EmptySeq
  <1>2. rest \in Seq(Command) /\ Len(rest) = N - 1 /\ (\A k \in 1..(N - 1) : rest[k] = out[k + 1]) /\ c = out[1] /\ c \in Command
    <2>1. rest \in Seq(Command) /\ Len(rest) = N - 1 /\ \A k \in 1..Len(rest) : rest[k] = out[k + 1]
      BY <1>1, HeadTailProperties
    <2>2. c = out[1] /\ c \in Command
      BY <1>1, HeadTailProperties
    <2> QED BY <2>1, <2>2
  <1>3. DOMAIN rest = 1..(N - 1)
    BY <1>2, LenProperties
  <1>4. /\ \A k \in 1..N : out[k].packet \in DOMAIN s /\ s[out[k].packet].kind # "reliable" /\ out[k] \in AllOf(s, out[k].packet)
        /\ \A k, l \in 1..N : k < l => Before(out[k], out[l])
        /\ \A d \in gone, k \in 1..N : Before(d, out[k])
        /\ gone \in SUBSET Command /\ \A d \in gone : d.packet \in DOMAIN s
    BY DEF InOrder
  <1> HIDE DEF N, rest, c
  <1>5. 1 \in 1..N /\ \A k \in 1..(N - 1) : k + 1 \in 1..N /\ 1 < k + 1
    BY <1>1
  <1>6. InOrder(s, rest, gone \cup {c})
    <2>1. ASSUME NEW k \in 1..(N - 1), NEW l \in 1..(N - 1), k < l PROVE Before(rest[k], rest[l])
      <3>1. k + 1 < l + 1
        BY <1>1, <2>1
      <3> QED BY <1>2, <1>4, <1>5, <3>1
    <2>2. \A k \in 1..(N - 1) : rest[k].packet \in DOMAIN s /\ s[rest[k].packet].kind # "reliable" /\ rest[k] \in AllOf(s, rest[k].packet)
      BY <1>2, <1>4, <1>5
    <2>3. \A d \in gone \cup {c}, k \in 1..(N - 1) : Before(d, rest[k])
      BY <1>2, <1>4, <1>5
    <2>4. gone \cup {c} \in SUBSET Command /\ \A d \in gone \cup {c} : d.packet \in DOMAIN s
      BY <1>2, <1>4, <1>5
    <2> QED BY <1>2, <2>1, <2>2, <2>3, <2>4 DEF InOrder
  <1>7. Range(rest) \cup (gone \cup {c}) = Range(out) \cup gone
    <2>1. ASSUME NEW d \in Range(out) PROVE d = c \/ d \in Range(rest)
      <3>1. PICK k \in 1..N : d = out[k]
        BY <1>1 DEF Range
      <3>2. k = 1 \/ (k - 1 \in 1..(N - 1) /\ (k - 1) + 1 = k)
        BY <1>1
      <3> QED BY <1>2, <1>3, <3>1, <3>2 DEF Range
    <2>2. ASSUME NEW d \in Range(rest) PROVE d \in Range(out)
      <3>1. PICK k \in 1..(N - 1) : d = rest[k]
        BY <1>3, <2>2 DEF Range
      <3> QED BY <1>1, <1>2, <1>5, <3>1 DEF Range
    <2>3. c \in Range(out)
      BY <1>1, <1>2, <1>5 DEF Range
    <2> QED BY <2>1, <2>2, <2>3
  <1>8. WholeOrNone(s, rest, gone \cup {c})
    BY <1>7 DEF WholeOrNone
  <1> QED BY <1>2, <1>4, <1>5, <1>6, <1>8 DEF rest, c

\* The commands of a packet as enet_peer_send queues them.
InARow(j, n) == [f \in 1..n |-> [packet |-> j, fragment |-> f]]

LEMMA InARowIs ==
  ASSUME NEW j \in 1..MaxPackets, NEW n \in Nat
  PROVE  /\ InARow(j, n) \in Seq(Command) /\ Len(InARow(j, n)) = n /\ DOMAIN InARow(j, n) = 1..n
         /\ \A f \in 1..n : InARow(j, n)[f] = [packet |-> j, fragment |-> f]
  <1> DEFINE q == InARow(j, n)
  <1>1. \A f \in 1..n : [packet |-> j, fragment |-> f] \in Command
    BY DEF Command
  <1>2. q \in [1..n -> Command] /\ \A f \in 1..n : q[f] = [packet |-> j, fragment |-> f]
    <2> HIDE DEF Command
    <2> QED BY <1>1 DEF InARow
  <1> HIDE DEF q
  <1>3. q \in Seq(Command) /\ Len(q) = n /\ DOMAIN q = 1..n
    <2> DEFINE C == Command
    <2>1. q \in [1..n -> C]
      BY <1>2
    <2> HIDE DEF C
    <2>2. q \in Seq(C) /\ Len(q) = n /\ DOMAIN q = 1..n
      BY <2>1
    <2> QED BY <2>2 DEF C
  <1> QED BY <1>2, <1>3 DEF q

\* A packet more, with its commands at the end unless they are reliable.
LEMMA GrowKeeps ==
  ASSUME NEW s \in Seq(Packet), NEW out, NEW gone, InOrder(s, out, gone), WholeOrNone(s, out, gone),
         NEW x \in Packet, Len(s) < MaxPackets
  PROVE  LET long == out \o InARow(Len(s) + 1, x.count)
         IN  /\ x.kind = "reliable" => InOrder(Append(s, x), out, gone) /\ WholeOrNone(Append(s, x), out, gone)
             /\ x.kind # "reliable" => InOrder(Append(s, x), long, gone) /\ WholeOrNone(Append(s, x), long, gone)
  <1> DEFINE t == Append(s, x)
             N == Len(out)
             M == x.count
             j == Len(s) + 1
             more == InARow(j, M)
             long == out \o more
  <1>1. /\ j \in 1..MaxPackets /\ MaxPackets \in Nat /\ DOMAIN s = 1..(j - 1) /\ DOMAIN t = 1..j /\ j \in Nat \ {0}
        /\ t[j] = x /\ \A i \in 1..(j - 1) : t[i] = s[i]
    <2>1. Len(s) \in Nat /\ DOMAIN s = 1..Len(s) /\ MaxPackets \in Nat
      BY LenProperties, IncomingAssumption
    <2>2. t \in Seq(Packet) /\ Len(t) = Len(s) + 1 /\ t[Len(s) + 1] = x /\ \A i \in 1..Len(s) : t[i] = s[i]
      BY AppendProperties
    <2>3. DOMAIN t = 1..(Len(s) + 1)
      BY <2>2, LenProperties
    <2> HIDE DEF t
    <2>4. j \in 1..MaxPackets /\ j - 1 = Len(s)
      BY <2>1
    <2> QED BY <2>1, <2>2, <2>3, <2>4
  <1>2. out \in Seq(Command) /\ N \in Nat /\ M \in Nat /\ DOMAIN out = 1..N
    <2>1. out \in Seq(Command)
      BY DEF InOrder
    <2> QED BY <2>1, LenProperties DEF Packet
  <1>3. more \in Seq(Command) /\ Len(more) = M /\ DOMAIN more = 1..M /\ \A f \in 1..M : more[f] = [packet |-> j, fragment |-> f]
    <2> HIDE DEF j, M
    <2> QED BY <1>1, <1>2, InARowIs
  <1>4. /\ \A k \in 1..N : out[k].packet \in DOMAIN s /\ s[out[k].packet].kind # "reliable" /\ out[k] \in AllOf(s, out[k].packet)
        /\ \A k, l \in 1..N : k < l => Before(out[k], out[l])
        /\ \A c \in gone, k \in 1..N : Before(c, out[k])
        /\ gone \in SUBSET Command /\ \A c \in gone : c.packet \in DOMAIN s
    BY DEF InOrder
  <1>5. long \in Seq(Command) /\ Len(long) = N + M /\ \A k \in 1..(N + M) : long[k] = IF k <= N THEN out[k] ELSE more[k - N]
    <2> DEFINE C == Command
    <2>1. out \in Seq(C) /\ more \in Seq(C) /\ Len(more) = M
      BY <1>2, <1>3
    <2> HIDE DEF C, more, M
    <2>2. long \in Seq(C) /\ Len(long) = N + M /\ \A k \in 1..(N + M) : long[k] = IF k <= N THEN out[k] ELSE more[k - N]
      BY <2>1, ConcatProperties
    <2> QED BY <2>2 DEF C
  <1>6. DOMAIN long = 1..(N + M)
    BY <1>5, LenProperties
  <1> HIDE DEF t, N, M, j, more, long
  <1>7. \A i \in DOMAIN s : i \in DOMAIN t /\ t[i] = s[i] /\ AllOf(t, i) = AllOf(s, i) /\ i < j /\ i \in Nat
    <2>1. ASSUME NEW i \in DOMAIN s PROVE i \in DOMAIN t /\ t[i] = s[i] /\ i < j /\ i \in Nat
      BY <1>1
    <2> QED BY <2>1 DEF AllOf
  <1>8. AllOf(t, j) = Range(more)
    <2>1. AllOf(t, j) = {[packet |-> j, fragment |-> f] : f \in 1..M}
      BY <1>1 DEF AllOf, M
    <2>2. Range(more) = {more[f] : f \in 1..M}
      BY <1>3 DEF Range
    <2>3. \A f \in 1..M : more[f] = [packet |-> j, fragment |-> f]
      BY <1>3
    <2>4. ASSUME NEW c PROVE c \in AllOf(t, j) <=> c \in Range(more)
      <3>1. c \in AllOf(t, j) <=> \E f \in 1..M : c = [packet |-> j, fragment |-> f]
        BY <2>1
      <3>2. c \in Range(more) <=> \E f \in 1..M : c = more[f]
        BY <2>2
      <3> QED BY <2>3, <3>1, <3>2
    <2>5. AllOf(t, j) \subseteq Range(more) /\ Range(more) \subseteq AllOf(t, j)
      BY <2>4
    <2> QED BY <2>5
  <1>9. ASSUME x.kind = "reliable" PROVE InOrder(t, out, gone) /\ WholeOrNone(t, out, gone)
    <2>1. InOrder(t, out, gone)
      <3>1. \A k \in 1..N : out[k].packet \in DOMAIN t /\ t[out[k].packet].kind # "reliable" /\ out[k] \in AllOf(t, out[k].packet)
        BY <1>4, <1>7
      <3>2. \A c \in gone : c.packet \in DOMAIN t
        BY <1>4, <1>7
      <3> QED BY <1>2, <1>4, <3>1, <3>2 DEF InOrder, N
    <2>2. ASSUME NEW i \in DOMAIN t, t[i].kind # "reliable"
          PROVE  AllOf(t, i) \ (Range(out) \cup gone) \in {{}, AllOf(t, i)}
      <3>1. i # j
        BY <1>1, <1>9, <2>2
      <3>2. i \in DOMAIN s
        BY <1>1, <3>1
      <3> QED BY <1>7, <2>2, <3>2 DEF WholeOrNone
    <2> QED BY <2>1, <2>2 DEF WholeOrNone
  <1>10. ASSUME x.kind # "reliable" PROVE InOrder(t, long, gone) /\ WholeOrNone(t, long, gone)
    <2>1. \A k \in 1..(N + M) : \/ k \in 1..N /\ long[k] = out[k]
                                \/ k - N \in 1..M /\ k > N /\ long[k] = [packet |-> j, fragment |-> k - N]
      <3>1. ASSUME NEW k \in 1..(N + M) PROVE k \in 1..N \/ (k - N \in 1..M /\ k > N /\ ~(k <= N))
        BY <1>2
      <3>2. ASSUME NEW k \in 1..(N + M), k \in 1..N PROVE k <= N
        BY <1>2, <3>2
      <3> QED BY <1>3, <1>5, <3>1, <3>2
    <2>2. \A k \in 1..N : k \in 1..(N + M) /\ long[k] = out[k]
      <3>1. ASSUME NEW k \in 1..N PROVE k \in 1..(N + M) /\ k <= N
        BY <1>2
      <3> QED BY <1>5, <3>1
    <2>3. \A f \in 1..M : N + f \in 1..(N + M) /\ long[N + f] = more[f]
      <3>1. ASSUME NEW f \in 1..M PROVE N + f \in 1..(N + M) /\ ~(N + f <= N) /\ (N + f) - N = f
        BY <1>2
      <3> QED BY <1>5, <3>1
    <2>4. \A k \in 1..(N + M) : long[k].packet \in DOMAIN t /\ t[long[k].packet].kind # "reliable" /\ long[k] \in AllOf(t, long[k].packet)
      <3>1. ASSUME NEW k \in 1..(N + M)
            PROVE  long[k].packet \in DOMAIN t /\ t[long[k].packet].kind # "reliable" /\ long[k] \in AllOf(t, long[k].packet)
        <4>1. CASE k \in 1..N /\ long[k] = out[k]
          BY <1>4, <1>7, <4>1
        <4>2. CASE k - N \in 1..M /\ k > N /\ long[k] = [packet |-> j, fragment |-> k - N]
          <5>1. long[k].packet = j /\ j \in DOMAIN t /\ t[j] = x
            BY <1>1, <4>2
          <5>2. long[k] \in AllOf(t, j)
            BY <1>1, <4>2 DEF AllOf, M
          <5> QED BY <1>10, <5>1, <5>2
        <4> QED BY <2>1, <4>1, <4>2
      <3> QED BY <3>1
    <2>5. ASSUME NEW k \in 1..(N + M), NEW l \in 1..(N + M), k < l PROVE Before(long[k], long[l])
      <3>1. CASE l \in 1..N /\ long[l] = out[l]
        <4>1. k \in 1..N
          BY <1>2, <2>5, <3>1
        <4> QED BY <1>4, <2>2, <2>5, <3>1, <4>1
      <3>2. CASE l - N \in 1..M /\ l > N /\ long[l] = [packet |-> j, fragment |-> l - N]
        <4>1. CASE k \in 1..N /\ long[k] = out[k]
          <5>1. long[k].packet < j
            BY <1>4, <1>7, <4>1
          <5> QED BY <3>2, <5>1 DEF Before
        <4>2. CASE k - N \in 1..M /\ k > N /\ long[k] = [packet |-> j, fragment |-> k - N]
          <5>1. k - N < l - N
            BY <1>2, <2>5
          <5> QED BY <3>2, <4>2, <5>1 DEF Before
        <4> QED BY <2>1, <4>1, <4>2
      <3> QED BY <2>1, <3>1, <3>2
    <2>6. ASSUME NEW c \in gone, NEW k \in 1..(N + M) PROVE Before(c, long[k])
      <3>1. CASE k \in 1..N /\ long[k] = out[k]
        BY <1>4, <3>1
      <3>2. CASE k - N \in 1..M /\ k > N /\ long[k] = [packet |-> j, fragment |-> k - N]
        <4>1. c.packet < j
          BY <1>4, <1>7
        <4> QED BY <3>2, <4>1 DEF Before
      <3> QED BY <2>1, <3>1, <3>2
    <2>7. InOrder(t, long, gone)
      <3>1. \A c \in gone : c.packet \in DOMAIN t
        BY <1>4, <1>7
      <3> QED BY <1>4, <1>5, <2>4, <2>5, <2>6, <3>1 DEF InOrder
    <2>8. \A c \in Range(long) : c \in Range(out) \/ c.packet = j
      <3>1. ASSUME NEW c \in Range(long) PROVE c \in Range(out) \/ c.packet = j
        <4>1. PICK k \in 1..(N + M) : c = long[k]
          BY <1>6, <3>1 DEF Range
        <4>2. CASE k \in 1..N /\ long[k] = out[k]
          <5>1. k \in DOMAIN out /\ c = out[k]
            BY <1>2, <4>1, <4>2
          <5> QED BY <5>1 DEF Range
        <4>3. CASE k - N \in 1..M /\ k > N /\ long[k] = [packet |-> j, fragment |-> k - N]
          BY <4>1, <4>3
        <4> QED BY <2>1, <4>2, <4>3
      <3> QED BY <3>1
    <2>9. Range(out) \subseteq Range(long) /\ Range(more) \subseteq Range(long)
      <3>1. Range(out) \subseteq Range(long)
        BY <1>2, <1>6, <2>2 DEF Range
      <3>2. Range(more) \subseteq Range(long)
        <4>1. DOMAIN more = 1..M
          BY <1>3
        <4> QED BY <1>6, <2>3, <4>1 DEF Range
      <3> QED BY <3>1, <3>2
    <2>10. ASSUME NEW i \in DOMAIN t, t[i].kind # "reliable"
           PROVE  AllOf(t, i) \ (Range(long) \cup gone) \in {{}, AllOf(t, i)}
      <3>1. CASE i = j
        BY <1>8, <2>9, <3>1
      <3>2. CASE i # j
        <4>1. i \in DOMAIN s
          BY <1>1, <3>2
        <4>2. \A c \in AllOf(t, i) : c.packet = i
          BY DEF AllOf
        <4>3. AllOf(t, i) \ (Range(long) \cup gone) = AllOf(t, i) \ (Range(out) \cup gone)
          BY <2>8, <2>9, <3>2, <4>2
        <4> QED BY <1>7, <2>10, <4>1, <4>3 DEF WholeOrNone
      <3> QED BY <3>1, <3>2
    <2> QED BY <2>7, <2>10 DEF WholeOrNone
  <1> QED BY <1>9, <1>10 DEF t, long, more, j, M

-----------------------------------------------------------------------------
(* The inductive invariant.                                                *)

SenderOK ==
  /\ SentOK
  /\ outgoingReliableSequenceNumber \in Nat
  /\ outgoingUnreliableSequenceNumber \in 0..MaxUnreliable
  /\ outgoingUnsequencedGroup \in Nat
  /\ InOrder(sent, outgoingCommands, transmitted)
  /\ WholeOrNone(sent, outgoingCommands, transmitted)

\* Whatever is on its way or was received belongs to a packet that was sent.
NetworkOK ==
  /\ network \in SUBSET Command
  /\ \A c \in network : c.packet \in DOMAIN sent
  /\ received \in Seq(DOMAIN sent)

IInv == SenderOK /\ NetworkOK /\ ReceiverOK

LEMMA InvariantTypes ==
  ASSUME IInv
  PROVE  TypeOK
  <1>1. SentOK
    BY DEF IInv, SenderOK
  <1>2. Accounted(incomingReliableCommands, incomingUnreliableCommands, dispatchedCommands, totalWaitingData)
    BY DEF IInv, ReceiverOK, ReceiverIs
  <1>3. /\ incomingReliableCommands \subseteq DOMAIN sent
        /\ incomingUnreliableCommands \in Seq([packet : DOMAIN sent, missing : SUBSET Nat])
        /\ dispatchedCommands \in Seq(DOMAIN sent)
        /\ totalWaitingData \in Nat
    BY <1>2 DEF Accounted, Entries
  <1>4. /\ incomingReliableSequenceNumber \in 0..(SequenceSpace - 1)
        /\ incomingUnreliableSequenceNumber \in 0..MaxUnreliable
        /\ incomingUnsequencedGroup \in 0..(GroupSpace - 1)
        /\ unsequencedWindow \subseteq 0..(GroupWindowSize - 1)
    BY DEF IInv, ReceiverOK, ReceiverIs
  <1>5. /\ outgoingCommands \in Seq(Command) /\ transmitted \subseteq Command
        /\ outgoingReliableSequenceNumber \in Nat
        /\ outgoingUnreliableSequenceNumber \in 0..MaxUnreliable
        /\ outgoingUnsequencedGroup \in Nat
    BY DEF IInv, SenderOK, InOrder
  <1>6. network \subseteq Command /\ received \in Seq(DOMAIN sent)
    BY DEF IInv, NetworkOK
  <1>7. sent \in Seq(Packet)
    BY <1>1 DEF SentOK
  <1> QED BY <1>3, <1>4, <1>5, <1>6, <1>7 DEF TypeOK

LEMMA InvariantInit ==
  ASSUME Init
  PROVE  IInv
  <1>1. sent = <<>> /\ SentOK /\ Len(sent) = 0 /\ DOMAIN sent = {}
    <2>1. MaxPackets \in Nat
      BY IncomingAssumption
    <2>2. sent = <<>> /\ DOMAIN sent = {}
      BY DEF Init
    <2> QED BY <2>1, <2>2 DEF SentOK
  <1>2. /\ StartPosition \in Nat /\ StartGroup \in Nat /\ SequenceSpace \in Nat \ {0} /\ GroupSpace \in Nat \ {0}
        /\ GroupWindowSize \in Nat \ {0} /\ 0 \in 0..MaxUnreliable
    BY IncomingAssumption, SpacesAre
  <1>3. SenderOK
    <2>1. outgoingCommands = <<>> /\ transmitted = {} /\ outgoingReliableSequenceNumber = StartPosition
          /\ outgoingUnreliableSequenceNumber = 0 /\ outgoingUnsequencedGroup = StartGroup
      BY DEF Init
    <2>2. InOrder(sent, outgoingCommands, transmitted)
      <3>1. outgoingCommands \in Seq(Command) /\ Len(outgoingCommands) = 0
        BY <2>1
      <3> QED BY <2>1, <3>1 DEF InOrder
    <2>3. WholeOrNone(sent, outgoingCommands, transmitted)
      BY <1>1 DEF WholeOrNone
    <2> QED BY <1>1, <1>2, <2>1, <2>2, <2>3 DEF SenderOK
  <1>4. NetworkOK
    BY DEF Init, NetworkOK
  <1>5. Accounted(incomingReliableCommands, incomingUnreliableCommands, dispatchedCommands, totalWaitingData)
    <2>1. incomingReliableCommands = {} /\ incomingUnreliableCommands = <<>> /\ dispatchedCommands = <<>> /\ totalWaitingData = 0
      BY DEF Init
    <2>2. <<>> \in Seq(Entries) /\ <<>> \in Seq(DOMAIN sent) /\ Load(EntryWeights, <<>>) = 0 /\ Load(Weights(sent), <<>>) = 0
      BY <1>1, WeightsAre, LoadEmpty
    <2>3. HeldWeight({}) = 0
      <3>1. Pieces({}) = {}
        BY DEF Pieces
      <3> QED BY <3>1, FS_EmptySet DEF HeldWeight
    <2> QED BY <2>1, <2>2, <2>3 DEF Accounted
  <1>6. StartPosition % SequenceSpace \in 0..(SequenceSpace - 1)
    BY <1>2, DivMod
  <1> DEFINE group == StartGroup % GroupSpace
             index == group % GroupWindowSize
  <1>7. incomingUnsequencedGroup = group - index /\ unsequencedWindow \in {{}, 0..index}
    BY DEF Init
  <1>8. index \in 0..(GroupWindowSize - 1) /\ group - index \in 0..(GroupSpace - 1)
    <2>1. group \in 0..(GroupSpace - 1)
      BY <1>2, DivMod
    <2> DEFINE k == group \div GroupWindowSize
    <2>2. index \in 0..(GroupWindowSize - 1) /\ group = GroupWindowSize * k + index /\ k \in Nat
      <3> HIDE DEF group
      <3>1. group \in Int /\ group \in Nat
        BY <1>2, <2>1
      <3> QED BY <1>2, <3>1, DivMod, DivNat
    <2> HIDE DEF group, index, k
    <2>3. GroupWindowSize * k >= 0
      BY <1>2, <2>2, SMT
    <2> DEFINE m == GroupWindowSize * k
    <2>4. group = m + index /\ m >= 0 /\ m \in Int
      BY <1>2, <2>2, <2>3
    <2> HIDE DEF m
    <2>5. group - index \in 0..(GroupSpace - 1)
      BY <1>2, <2>1, <2>2, <2>4
    <2> QED BY <2>2, <2>5
  <1> HIDE DEF group, index
  <1>9. unsequencedWindow \in SUBSET (0..(GroupWindowSize - 1))
    BY <1>2, <1>7, <1>8
  <1>10. ReceiverOK
    <2>1. incomingReliableSequenceNumber = StartPosition % SequenceSpace /\ incomingUnreliableSequenceNumber = 0
      BY DEF Init
    <2> QED BY <1>2, <1>5, <1>6, <1>7, <1>8, <1>9, <2>1 DEF ReceiverOK, ReceiverIs
  <1> QED BY <1>3, <1>4, <1>10 DEF IInv

\* The accounts do not depend on what is sent later.
LEMMA SameAccounts ==
  ASSUME sent' = sent, ReceiverStays
  PROVE  ReceiverOK'
  <1>1. Weights(sent)' = Weights(sent) /\ Entries' = Entries
    BY DEF Weights, Entries
  <1>2. EntryWeights' = EntryWeights
    BY <1>1 DEF EntryWeights
  <1>3. \A i : Commands(i)' = Commands(i)
    BY DEF Commands
  <1>4. HeldWeight(incomingReliableCommands)' = HeldWeight(incomingReliableCommands')
    BY <1>3 DEF HeldWeight, Pieces
  <1>5. Accounted(incomingReliableCommands', incomingUnreliableCommands', dispatchedCommands', totalWaitingData')
    BY DEF ReceiverStays, ReceiverIs
  <1>6. Accounted(incomingReliableCommands, incomingUnreliableCommands, dispatchedCommands, totalWaitingData)'
    BY <1>1, <1>2, <1>4, <1>5 DEF Accounted
  <1> QED BY <1>6 DEF ReceiverStays, ReceiverOK, ReceiverIs

-----------------------------------------------------------------------------
(* The actions.                                                            *)

\* What enet_peer_send appends to sent.
NewPacket(kind, count) ==
  [kind |-> kind,
   reliable |-> CASE kind = "reliable" -> outgoingReliableSequenceNumber + 1
                  [] kind = "unsequenced" -> 0
                  [] OTHER -> outgoingReliableSequenceNumber,
   unreliable |-> IF kind \in {"unreliable", "fragment"} THEN outgoingUnreliableSequenceNumber + 1 ELSE 0,
   group |-> IF kind = "unsequenced" THEN outgoingUnsequencedGroup + 1 ELSE 0,
   count |-> count]

\* The accounts are the same when there is a packet more.
LEMMA MoreSentSameAccounts ==
  ASSUME SentOK, SentOK', NEW x, sent' = Append(sent, x), ReceiverOK, UNCHANGED receiverVars
  PROVE  ReceiverOK'
  <1> DEFINE list == incomingUnreliableCommands
             queue == dispatchedCommands
             held == incomingReliableCommands
             C == DOMAIN sent
             D == DOMAIN (sent')
             v == Weights(sent)
             w == Weights(sent')
             G == Entries
             H == Entries'
             g == EntryWeights
             h == EntryWeights'
  <1>1. C \subseteq D /\ \A i \in C : sent'[i] = sent[i]
    <2>1. sent \in Seq(Packet) /\ sent' \in Seq(Packet)
      BY DEF SentOK
    <2>2. Len(sent) \in Nat /\ C = 1..Len(sent) /\ D = 1..Len(sent')
      BY <2>1, LenProperties
    <2>3. Len(sent') = Len(sent) + 1 /\ \A i \in 1..Len(sent) : sent'[i] = sent[i]
      BY <2>1
    <2> QED BY <2>2, <2>3
  <1>2. held \in SUBSET C /\ list \in Seq(G) /\ queue \in Seq(C)
    BY DEF ReceiverOK, ReceiverIs, Accounted
  <1>3. v \in [C -> Nat] /\ g \in [G -> Nat] /\ \A e \in G : e.packet \in C /\ g[e] = v[e.packet]
    BY WeightsAre
  <1>4. w \in [D -> Nat] /\ h \in [H -> Nat] /\ \A e \in H : e.packet \in D /\ h[e] = w[e.packet]
    <2>1. \A i \in DOMAIN sent : sent[i].count \in Nat
      BY SentIs DEF Packet
    <2>2. \A i \in D : sent'[i].count \in Nat
      <3>1. sent' \in Seq(Packet)
        BY DEF SentOK
      <3>2. \A i \in D : sent'[i] \in Packet
        BY <3>1, LenProperties, ElementOfSeq
      <3> QED BY <3>2 DEF Packet
    <2>3. H = [packet : D, missing : SUBSET Nat]
      BY DEF Entries
    <2>4. \A e \in H : e.packet \in D
      BY <2>3
    <2>5. h = [e \in H |-> sent'[e.packet].count] /\ w = [i \in D |-> sent'[i].count]
      BY DEF EntryWeights, Weights
    <2> HIDE DEF D, H, h, w
    <2> QED BY <2>2, <2>4, <2>5
  <1>5. \A i \in C : v[i] = w[i]
    BY <1>1 DEF Weights
  <1>6. G \subseteq H
    BY <1>1 DEF Entries
  <1>7. \A e \in G : g[e] = h[e]
    BY <1>3, <1>4, <1>5, <1>6
  <1>8. queue \in Seq(D) /\ list \in Seq(H)
    BY <1>1, <1>2, <1>6, SeqMonotonic
  <1> HIDE DEF list, queue, C, D, v, w, G, H, g, h
  <1>9. Load(v, queue) = Load(w, queue)
    <2>1. Len(queue) \in 0..Len(queue) /\ \A n \in 1..Len(queue) : queue[n] \in C
      BY <1>2, LenProperties, ElementOfSeq
    <2>2. Alike(v, queue, w, queue, Len(queue))
      BY <1>5, <2>1 DEF Alike
    <2>3. Matched(C, v, queue, D, w, queue)
      BY <1>2, <1>3, <1>4, <1>8, <2>2 DEF Matched
    <2> QED BY <2>3, LoadSame
  <1>10. Load(g, list) = Load(h, list)
    <2>1. Len(list) \in 0..Len(list) /\ \A n \in 1..Len(list) : list[n] \in G
      BY <1>2, LenProperties, ElementOfSeq
    <2>2. Alike(g, list, h, list, Len(list))
      BY <1>7, <2>1 DEF Alike
    <2>3. Matched(G, g, list, H, h, list)
      BY <1>2, <1>3, <1>4, <1>8, <2>2 DEF Matched
    <2> QED BY <2>3, LoadSame
  <1>11. HeldWeight(incomingReliableCommands)' = HeldWeight(incomingReliableCommands)
    <2>1. \A i \in held : Commands(i)' = Commands(i)
      BY <1>1, <1>2 DEF Commands, C
    <2>2. incomingReliableCommands' = held
      BY DEF receiverVars
    <2>3. Pieces(incomingReliableCommands)' = Pieces(incomingReliableCommands)
      BY <2>1, <2>2 DEF Pieces
    <2> QED BY <2>3 DEF HeldWeight
  <1>12. Accounted(incomingReliableCommands, incomingUnreliableCommands, dispatchedCommands, totalWaitingData)
    BY DEF ReceiverOK, ReceiverIs
  <1>13. HeldWeight(held) + Load(g, list) + Load(v, queue) <= totalWaitingData /\ totalWaitingData \in Nat
    BY <1>12 DEF Accounted, g, v, list, queue
  <1>14. HeldWeight(held) + Load(h, list) + Load(w, queue) <= totalWaitingData
    BY <1>9, <1>10, <1>13
  <1>15. /\ incomingReliableCommands' = held /\ incomingUnreliableCommands' = list /\ dispatchedCommands' = queue
         /\ totalWaitingData' = totalWaitingData
    BY DEF receiverVars, list, queue
  <1>16. held \in SUBSET D
    BY <1>1, <1>2
  <1>17. Accounted(incomingReliableCommands, incomingUnreliableCommands, dispatchedCommands, totalWaitingData)'
    <2>1. HeldWeight(incomingReliableCommands)' + Load(EntryWeights', incomingUnreliableCommands') + Load(Weights(sent'), dispatchedCommands')
            <= totalWaitingData'
      BY <1>11, <1>14, <1>15 DEF h, w
    <2>2. /\ incomingReliableCommands' \in SUBSET DOMAIN (sent') /\ incomingUnreliableCommands' \in Seq(Entries')
          /\ dispatchedCommands' \in Seq(DOMAIN (sent')) /\ totalWaitingData' \in Nat
      BY <1>8, <1>13, <1>15, <1>16 DEF D, H
    <2> QED BY <2>1, <2>2 DEF Accounted
  <1> QED BY <1>17 DEF ReceiverOK, ReceiverIs, receiverVars

\* What enet_peer_send changes, for the kind it chose.
LEMMA SendIs ==
  ASSUME NEW flag, NEW count, EnetPeerSend(flag, count)
  PROVE  LET kind == KindOf(flag, count)
             row == InARow(Len(sent) + 1, count)
         IN  /\ Len(sent) < MaxPackets
             /\ sent' = Append(sent, NewPacket(kind, count))
             /\ UNCHANGED transmitted /\ UNCHANGED receiverVars /\ UNCHANGED received
             /\ kind \in {"reliable", "unreliable", "unsequenced", "fragment"}
             /\ kind \in {"unreliable", "fragment"} => outgoingUnreliableSequenceNumber < MaxUnreliable
             /\ kind = "reliable" =>
                  /\ outgoingReliableSequenceNumber' = outgoingReliableSequenceNumber + count
                  /\ outgoingUnreliableSequenceNumber' = 0
                  /\ network' = network \cup {row[1]}
                  /\ outgoingUnsequencedGroup' = outgoingUnsequencedGroup /\ outgoingCommands' = outgoingCommands
             /\ kind # "reliable" =>
                  /\ outgoingUnsequencedGroup' \in {outgoingUnsequencedGroup, outgoingUnsequencedGroup + 1}
                  /\ outgoingUnreliableSequenceNumber' = outgoingUnreliableSequenceNumber
                     \/ (kind \in {"unreliable", "fragment"} /\ outgoingUnreliableSequenceNumber' = outgoingUnreliableSequenceNumber + 1)
                  /\ outgoingCommands' = outgoingCommands \o row
                  /\ outgoingReliableSequenceNumber' = outgoingReliableSequenceNumber /\ network' = network
  <1> DEFINE kind == KindOf(flag, count)
             row == InARow(Len(sent) + 1, count)
  <1>1. kind \in {"reliable", "unreliable", "unsequenced", "fragment"}
    BY DEF KindOf
  <1>2. kind \in {"unreliable", "fragment"} => outgoingUnreliableSequenceNumber < MaxUnreliable
    BY DEF KindOf
  <1>3. row = [f \in 1..count |-> [packet |-> Len(sent) + 1, fragment |-> f]]
    BY DEF InARow
  <1>4. /\ Len(sent) < MaxPackets
        /\ sent' = Append(sent, NewPacket(kind, count))
        /\ UNCHANGED transmitted /\ UNCHANGED receiverVars /\ UNCHANGED received
    BY DEF EnetPeerSend, NewPacket
  <1>5. kind = "reliable" =>
          /\ outgoingReliableSequenceNumber' = outgoingReliableSequenceNumber + count
          /\ outgoingUnreliableSequenceNumber' = 0
          /\ network' = network \cup {row[1]}
          /\ outgoingUnsequencedGroup' = outgoingUnsequencedGroup /\ outgoingCommands' = outgoingCommands
    BY <1>3 DEF EnetPeerSend
  <1>6. kind = "unsequenced" =>
          /\ outgoingUnsequencedGroup' = outgoingUnsequencedGroup + 1
          /\ outgoingCommands' = outgoingCommands \o row
          /\ outgoingReliableSequenceNumber' = outgoingReliableSequenceNumber
          /\ outgoingUnreliableSequenceNumber' = outgoingUnreliableSequenceNumber /\ network' = network
    BY <1>3 DEF EnetPeerSend
  <1>7. kind \in {"unreliable", "fragment"} =>
          /\ outgoingUnreliableSequenceNumber' = outgoingUnreliableSequenceNumber + 1
          /\ outgoingCommands' = outgoingCommands \o row
          /\ outgoingReliableSequenceNumber' = outgoingReliableSequenceNumber
          /\ outgoingUnsequencedGroup' = outgoingUnsequencedGroup /\ network' = network
    BY <1>3 DEF EnetPeerSend
  <1> HIDE DEF kind, row
  <1>8. kind # "reliable" =>
          /\ outgoingUnsequencedGroup' \in {outgoingUnsequencedGroup, outgoingUnsequencedGroup + 1}
          /\ outgoingUnreliableSequenceNumber' = outgoingUnreliableSequenceNumber
             \/ (kind \in {"unreliable", "fragment"} /\ outgoingUnreliableSequenceNumber' = outgoingUnreliableSequenceNumber + 1)
          /\ outgoingCommands' = outgoingCommands \o row
          /\ outgoingReliableSequenceNumber' = outgoingReliableSequenceNumber /\ network' = network
    BY <1>1, <1>6, <1>7
  <1> QED BY <1>1, <1>2, <1>4, <1>5, <1>8 DEF kind, row

LEMMA SendKeeps ==
  ASSUME IInv, NEW flag \in Flags, NEW count \in FragmentCounts, EnetPeerSend(flag, count)
  PROVE  IInv'
  <1> DEFINE kind == KindOf(flag, count)
             i == Len(sent) + 1
             x == NewPacket(kind, count)
             row == InARow(i, count)
  <1>1. /\ Len(sent) < MaxPackets /\ sent' = Append(sent, x)
        /\ transmitted' = transmitted /\ UNCHANGED receiverVars /\ received' = received
    BY SendIs
  <1>2. /\ kind \in {"reliable", "unreliable", "unsequenced", "fragment"}
        /\ kind \in {"unreliable", "fragment"} => outgoingUnreliableSequenceNumber < MaxUnreliable
    BY SendIs
  <1>3. kind = "reliable" =>
          /\ outgoingReliableSequenceNumber' = outgoingReliableSequenceNumber + count
          /\ outgoingUnreliableSequenceNumber' = 0
          /\ network' = network \cup {row[1]}
          /\ outgoingUnsequencedGroup' = outgoingUnsequencedGroup /\ outgoingCommands' = outgoingCommands
    BY SendIs
  <1>4. kind # "reliable" =>
          /\ outgoingUnsequencedGroup' \in {outgoingUnsequencedGroup, outgoingUnsequencedGroup + 1}
          /\ outgoingUnreliableSequenceNumber' = outgoingUnreliableSequenceNumber
             \/ (kind \in {"unreliable", "fragment"} /\ outgoingUnreliableSequenceNumber' = outgoingUnreliableSequenceNumber + 1)
          /\ outgoingCommands' = outgoingCommands \o row
          /\ outgoingReliableSequenceNumber' = outgoingReliableSequenceNumber /\ network' = network
    BY SendIs
  <1>5. /\ outgoingReliableSequenceNumber \in Nat /\ outgoingUnreliableSequenceNumber \in 0..MaxUnreliable
        /\ outgoingUnsequencedGroup \in Nat /\ count \in Nat \ {0} /\ MaxUnreliable \in Nat \ {0} /\ MaxPackets \in Nat
    BY IncomingAssumption DEF IInv, SenderOK
  <1>6. SentOK /\ sent \in Seq(Packet) /\ Len(sent) \in Nat /\ i \in 1..MaxPackets
    <2>1. SentOK /\ sent \in Seq(Packet)
      BY DEF IInv, SenderOK, SentOK
    <2>2. Len(sent) \in Nat
      BY <2>1, LenProperties
    <2>3. i \in 1..MaxPackets
      BY <1>1, <1>5, <2>2
    <2> QED BY <2>1, <2>2, <2>3
  <1> HIDE DEF kind
  <1>7. x \in Packet /\ x.unreliable <= MaxUnreliable /\ x.kind = kind /\ x.count = count
    <2> DEFINE a == x.reliable
               b == x.unreliable
               g == x.group
    <2>1. /\ a = (CASE kind = "reliable" -> outgoingReliableSequenceNumber + 1
                    [] kind = "unsequenced" -> 0
                    [] OTHER -> outgoingReliableSequenceNumber)
          /\ b = (IF kind \in {"unreliable", "fragment"} THEN outgoingUnreliableSequenceNumber + 1 ELSE 0)
          /\ g = (IF kind = "unsequenced" THEN outgoingUnsequencedGroup + 1 ELSE 0)
      BY DEF NewPacket
    <2>2. x = [kind |-> kind, reliable |-> a, unreliable |-> b, group |-> g, count |-> count]
      BY DEF NewPacket
    <2> HIDE DEF a, b, g, x
    <2>3. a \in Nat
      <3>1. outgoingReliableSequenceNumber + 1 \in Nat /\ 0 \in Nat
        BY <1>5
      <3> QED BY <1>5, <2>1, <3>1
    <2>4. b \in Nat /\ b <= MaxUnreliable
      <3>1. CASE kind \in {"unreliable", "fragment"}
        <4>1. b = outgoingUnreliableSequenceNumber + 1 /\ outgoingUnreliableSequenceNumber < MaxUnreliable
          BY <1>2, <2>1, <3>1
        <4> QED BY <1>5, <4>1
      <3>2. CASE kind \notin {"unreliable", "fragment"}
        <4>1. b = 0
          BY <2>1, <3>2
        <4> QED BY <1>5, <4>1
      <3> QED BY <3>1, <3>2
    <2>5. g \in Nat
      BY <1>5, <2>1
    <2> QED BY <1>2, <1>5, <2>2, <2>3, <2>4, <2>5 DEF Packet
  <1> HIDE DEF x
  <1>8. Len(sent') = i /\ sent' \in Seq(Packet) /\ DOMAIN (sent') = 1..i /\ DOMAIN sent = 1..(i - 1)
        /\ sent'[i] = x /\ \A j \in 1..(i - 1) : sent'[j] = sent[j]
    <2>1. Append(sent, x) \in Seq(Packet) /\ Len(Append(sent, x)) = Len(sent) + 1
          /\ Append(sent, x)[Len(sent) + 1] = x /\ \A j \in 1..Len(sent) : Append(sent, x)[j] = sent[j]
      BY <1>6, <1>7, AppendProperties
    <2>2. DOMAIN sent = 1..Len(sent) /\ i - 1 = Len(sent)
      BY <1>6, LenProperties
    <2>3. DOMAIN Append(sent, x) = 1..Len(Append(sent, x))
      BY <2>1, LenProperties
    <2> QED BY <1>1, <2>1, <2>2, <2>3
  <1>9. SentOK'
    <2>1. Len(sent') <= MaxPackets
      BY <1>6, <1>8
    <2>2. ASSUME NEW j \in DOMAIN (sent') PROVE sent'[j].unreliable <= MaxUnreliable
      <3>1. CASE j = i
        BY <1>7, <1>8, <3>1
      <3>2. CASE j # i
        <4>1. j \in 1..(i - 1) /\ j \in DOMAIN sent
          BY <1>6, <1>8, <3>2
        <4> QED BY <1>6, <1>8, <4>1 DEF SentOK
      <3> QED BY <3>1, <3>2
    <2> QED BY <1>8, <2>1, <2>2 DEF SentOK
  <1>10. InOrder(sent, outgoingCommands, transmitted) /\ WholeOrNone(sent, outgoingCommands, transmitted)
    BY DEF IInv, SenderOK
  <1>11. /\ kind = "reliable" => InOrder(sent', outgoingCommands, transmitted) /\ WholeOrNone(sent', outgoingCommands, transmitted)
         /\ kind # "reliable" => InOrder(sent', outgoingCommands \o row, transmitted) /\ WholeOrNone(sent', outgoingCommands \o row, transmitted)
    BY <1>1, <1>6, <1>7, <1>10, GrowKeeps
  <1>12. DOMAIN sent \subseteq DOMAIN (sent') /\ i \in DOMAIN (sent')
    BY <1>6, <1>8
  <1>13. network \in SUBSET Command /\ (\A c \in network : c.packet \in DOMAIN sent) /\ received \in Seq(DOMAIN sent)
    BY DEF IInv, NetworkOK
  <1>14. received' \in Seq(DOMAIN (sent'))
    BY <1>1, <1>12, <1>13, SeqMonotonic
  <1>15. ReceiverOK'
    BY <1>1, <1>6, <1>9, MoreSentSameAccounts DEF IInv
  <1>16. CASE kind = "reliable"
    <2>1. row[1] \in Command /\ row[1].packet = i
      <3>1. 1 \in 1..count /\ count \in Nat
        BY <1>5
      <3>2. row[1] = [packet |-> i, fragment |-> 1]
        BY <1>6, <3>1, InARowIs
      <3> QED BY <1>6, <3>2 DEF Command
    <2>2. NetworkOK'
      <3>1. network' = network \cup {row[1]}
        BY <1>3, <1>16
      <3> HIDE DEF row, i
      <3>2. \A c \in network' : c.packet \in DOMAIN (sent')
        BY <1>12, <1>13, <2>1, <3>1
      <3>3. network' \in SUBSET Command
        BY <1>13, <2>1, <3>1
      <3> QED BY <1>14, <3>2, <3>3 DEF NetworkOK
    <2>3. SenderOK'
      <3>1. outgoingReliableSequenceNumber' \in Nat /\ outgoingUnreliableSequenceNumber' \in 0..MaxUnreliable /\ outgoingUnsequencedGroup' \in Nat
        BY <1>3, <1>5, <1>16
      <3>2. outgoingCommands' = outgoingCommands
        BY <1>3, <1>16
      <3> QED BY <1>1, <1>9, <1>11, <1>16, <3>1, <3>2 DEF SenderOK
    <2> QED BY <1>15, <2>2, <2>3 DEF IInv
  <1>17. CASE kind # "reliable"
    <2>1. NetworkOK'
      <3>1. network' = network
        BY <1>4, <1>17
      <3> QED BY <1>12, <1>13, <1>14, <3>1 DEF NetworkOK
    <2>2. SenderOK'
      <3>1. outgoingReliableSequenceNumber' \in Nat /\ outgoingUnsequencedGroup' \in Nat
        BY <1>4, <1>5, <1>17
      <3>2. outgoingUnreliableSequenceNumber' \in 0..MaxUnreliable
        <4>1. CASE outgoingUnreliableSequenceNumber' = outgoingUnreliableSequenceNumber
          BY <1>5, <4>1
        <4>2. CASE kind \in {"unreliable", "fragment"} /\ outgoingUnreliableSequenceNumber' = outgoingUnreliableSequenceNumber + 1
          <5>1. outgoingUnreliableSequenceNumber < MaxUnreliable
            BY <1>2, <4>2
          <5> QED BY <1>5, <4>2, <5>1
        <4> QED BY <1>4, <1>17, <4>1, <4>2
      <3>3. outgoingCommands' = outgoingCommands \o row
        BY <1>4, <1>17
      <3> HIDE DEF row
      <3> QED BY <1>1, <1>9, <1>11, <1>17, <3>1, <3>2, <3>3 DEF SenderOK
    <2> QED BY <1>15, <2>1, <2>2 DEF IInv
  <1> QED BY <1>16, <1>17

\* Packets follow one another in the queue.
LEMMA PacketsFollow ==
  ASSUME NEW s, NEW out, NEW gone, InOrder(s, out, gone), NEW k \in 1..Len(out), NEW l \in 1..Len(out), k <= l
  PROVE  out[k].packet <= out[l].packet /\ out[k].packet \in Nat /\ out[l].packet \in Nat
  <1>1. out[k].packet \in Nat /\ out[l].packet \in Nat
    <2>1. out \in Seq(Command)
      BY DEF InOrder
    <2> QED BY <2>1, ElementOfSeq, CommandFields
  <1>2. k = l \/ k < l
    <2>1. out \in Seq(Command)
      BY DEF InOrder
    <2>2. k \in Nat /\ l \in Nat
      OBVIOUS
    <2> QED BY <2>2
  <1>3. CASE k = l
    BY <1>1, <1>3
  <1>4. CASE k < l
    <2>1. Before(out[k], out[l])
      BY <1>4 DEF InOrder
    <2> QED BY <1>1, <2>1 DEF Before
  <1> QED BY <1>2, <1>3, <1>4, <1>1

\* The drop ends between two packets.
LEMMA DropsToABoundary ==
  ASSUME SenderOK, outgoingCommands # <<>>
  PROVE  /\ DroppedCommands \in 1..Len(outgoingCommands)
         /\ \A k \in 1..DroppedCommands, m \in (DroppedCommands + 1)..Len(outgoingCommands) :
              outgoingCommands[k].packet # outgoingCommands[m].packet
  <1> DEFINE out == outgoingCommands
             N == Len(out)
             T == {n \in DOMAIN outgoingCommands :
                     \A k \in 1..n : Numbers(outgoingCommands[k]) = Numbers(outgoingCommands[1])}
             n == DroppedCommands
  <1>1. InOrder(sent, out, transmitted)
    BY DEF SenderOK
  <1>2. N \in Nat \ {0} /\ DOMAIN out = 1..N
    <2>1. out \in Seq(Command)
      BY <1>1 DEF InOrder
    <2> QED BY <2>1, LenProperties, EmptySeq
  <1>3. n = Max(T)
    BY DEF DroppedCommands
  <1>4. T \in SUBSET (0..N) /\ T # {}
    <2>1. 1 \in T
      <3>1. \A k \in 1..1 : k = 1
        OBVIOUS
      <3> QED BY <1>2, <3>1
    <2> QED BY <1>2, <2>1
  <1>5. n \in T /\ \A y \in T : y <= n
    <2> HIDE DEF T, n
    <2> QED BY <1>2, <1>3, <1>4, MaxIs
  <1>6. n \in 1..N /\ \A k \in 1..n : Numbers(out[k]) = Numbers(out[1])
    BY <1>2, <1>5
  <1> HIDE DEF n
  <1>7. ASSUME NEW k \in 1..n, NEW m \in (n + 1)..N, out[k].packet = out[m].packet PROVE FALSE
    <2>1. n + 1 \in 1..N /\ k \in 1..N /\ m \in 1..N /\ k <= n + 1 /\ n + 1 <= m
      BY <1>2, <1>6
    <2>2. out[k].packet <= out[n + 1].packet /\ out[n + 1].packet <= out[m].packet
          /\ out[k].packet \in Nat /\ out[n + 1].packet \in Nat
      <3> HIDE DEF out, N
      <3>1. 1..N = 1..Len(out)
        BY DEF N
      <3> QED BY <1>1, <2>1, <3>1, PacketsFollow
    <2>3. out[n + 1].packet = out[k].packet
      BY <1>7, <2>2
    <2>4. Numbers(out[n + 1]) = Numbers(out[1])
      BY <1>6, <2>3 DEF Numbers
    <2>5. \A j \in 1..(n + 1) : j \in 1..n \/ j = n + 1
      BY <1>2, <1>6
    <2>6. n + 1 \in T
      BY <1>2, <1>6, <2>1, <2>4, <2>5
    <2>7. n + 1 <= n /\ n \in Nat
      BY <1>5, <1>6, <2>6
    <2> QED BY <2>7
  <1> QED BY <1>6, <1>7 DEF n

LEMMA ThrottleKeeps ==
  ASSUME IInv, ThrottleOutgoing
  PROVE  IInv'
  <1> DEFINE out == outgoingCommands
             n == DroppedCommands
  <1>1. /\ out # <<>> /\ Head(out).fragment = 1 /\ outgoingCommands' = SubSeq(out, n + 1, Len(out))
        /\ sent' = sent /\ transmitted' = transmitted /\ network' = network /\ received' = received
        /\ UNCHANGED receiverVars
        /\ outgoingReliableSequenceNumber' = outgoingReliableSequenceNumber
        /\ outgoingUnreliableSequenceNumber' = outgoingUnreliableSequenceNumber
        /\ outgoingUnsequencedGroup' = outgoingUnsequencedGroup
    BY DEF ThrottleOutgoing
  <1>2. SenderOK /\ NetworkOK /\ ReceiverOK
    BY DEF IInv
  <1>3. InOrder(sent, out, transmitted) /\ WholeOrNone(sent, out, transmitted)
    BY <1>2 DEF SenderOK
  <1>4. n \in 1..Len(out) /\ \A k \in 1..n, m \in (n + 1)..Len(out) : out[k].packet # out[m].packet
    BY <1>1, <1>2, DropsToABoundary
  <1>5. out[1].fragment = 1
    <2>1. out \in Seq(Command)
      BY <1>3 DEF InOrder
    <2>2. Head(out) = out[1]
      BY <1>1, <2>1
    <2> QED BY <1>1, <2>2
  <1> HIDE DEF out, n
  <1>6. InOrder(sent, SubSeq(out, n + 1, Len(out)), transmitted) /\ WholeOrNone(sent, SubSeq(out, n + 1, Len(out)), transmitted)
    BY <1>3, <1>4, <1>5, DropKeeps
  <1>7. SenderOK'
    <2>1. SentOK'
      BY <1>1, <1>2 DEF SenderOK, SentOK
    <2> QED BY <1>1, <1>2, <1>6, <2>1 DEF SenderOK
  <1>8. NetworkOK'
    BY <1>1, <1>2 DEF NetworkOK
  <1>9. ReceiverOK'
    <2>1. ReceiverStays
      BY <1>1, <1>2, DiscardKeeps DEF Discard
    <2> QED BY <1>1, <2>1, SameAccounts
  <1> QED BY <1>7, <1>8, <1>9 DEF IInv

LEMMA OutgoingKeeps ==
  ASSUME IInv, SendOutgoing
  PROVE  IInv'
  <1> DEFINE out == outgoingCommands
  <1>1. /\ out # <<>> /\ outgoingCommands' = Tail(out) /\ transmitted' = transmitted \cup {Head(out)}
        /\ network' = network \cup {Head(out)}
        /\ sent' = sent /\ received' = received
        /\ UNCHANGED receiverVars
        /\ outgoingReliableSequenceNumber' = outgoingReliableSequenceNumber
        /\ outgoingUnreliableSequenceNumber' = outgoingUnreliableSequenceNumber
        /\ outgoingUnsequencedGroup' = outgoingUnsequencedGroup
    BY DEF SendOutgoing
  <1>2. SenderOK /\ NetworkOK /\ ReceiverOK
    BY DEF IInv
  <1>3. InOrder(sent, out, transmitted) /\ WholeOrNone(sent, out, transmitted)
    BY <1>2 DEF SenderOK
  <1> HIDE DEF out
  <1>4. /\ InOrder(sent, Tail(out), transmitted \cup {Head(out)}) /\ WholeOrNone(sent, Tail(out), transmitted \cup {Head(out)})
        /\ Head(out) \in Command /\ Head(out).packet \in DOMAIN sent
    BY <1>1, <1>3, MoveKeeps
  <1>5. SenderOK'
    <2>1. SentOK'
      BY <1>1, <1>2 DEF SenderOK, SentOK
    <2> QED BY <1>1, <1>2, <1>4, <2>1 DEF SenderOK
  <1>6. NetworkOK'
    BY <1>1, <1>2, <1>4 DEF NetworkOK
  <1>7. ReceiverOK'
    <2>1. ReceiverStays
      BY <1>1, <1>2, DiscardKeeps DEF Discard
    <2> QED BY <1>1, <2>1, SameAccounts
  <1> QED BY <1>5, <1>6, <1>7 DEF IInv

\* The sender is where it was.
LEMMA SenderSame ==
  ASSUME SenderOK, UNCHANGED senderVars
  PROVE  SenderOK'
  <1>1. /\ sent' = sent /\ transmitted' = transmitted /\ outgoingCommands' = outgoingCommands
        /\ outgoingReliableSequenceNumber' = outgoingReliableSequenceNumber
        /\ outgoingUnreliableSequenceNumber' = outgoingUnreliableSequenceNumber
        /\ outgoingUnsequencedGroup' = outgoingUnsequencedGroup
    BY DEF senderVars
  <1>2. SentOK'
    BY <1>1 DEF SenderOK, SentOK
  <1> QED BY <1>1, <1>2 DEF SenderOK

LEMMA ReceiveKeeps ==
  ASSUME IInv, NEW c \in network, NEW keep \in BOOLEAN, Receive(c, keep)
  PROVE  IInv'
  <1> DEFINE i == c.packet
  <1>1. SenderOK /\ NetworkOK /\ ReceiverOK /\ SentOK
    BY DEF IInv, SenderOK
  <1>2. i \in DOMAIN sent
    BY <1>1 DEF NetworkOK
  <1>3. \/ HandleSendReliable(i) \/ HandleSendUnreliable(i) \/ HandleSendUnsequenced(i)
        \/ HandleSendUnreliableFragment(i, c.fragment)
    BY DEF Receive
  <1>4. UNCHANGED senderVars /\ received' = received /\ network' \in SUBSET network
    BY DEF Receive
  <1> HIDE DEF i
  <1>5. ReceiverStays
    BY <1>1, <1>2, <1>3, ReliableKeeps, UnreliableKeeps, UnsequencedKeeps, FragmentKeeps
  <1>6. SenderOK' /\ sent' = sent
    BY <1>1, <1>4, SenderSame DEF senderVars
  <1>7. ReceiverOK'
    BY <1>5, <1>6, SameAccounts
  <1>8. NetworkOK'
    BY <1>1, <1>4, <1>6 DEF NetworkOK
  <1> QED BY <1>6, <1>7, <1>8 DEF IInv

LEMMA LoseKeeps ==
  ASSUME IInv, NEW c \in network, LoseCommand(c)
  PROVE  IInv'
  <1>1. SenderOK /\ NetworkOK /\ ReceiverOK
    BY DEF IInv
  <1>2. UNCHANGED senderVars /\ UNCHANGED receiverVars /\ received' = received /\ network' \in SUBSET network
    BY DEF LoseCommand
  <1>3. SenderOK' /\ sent' = sent
    BY <1>1, <1>2, SenderSame DEF senderVars
  <1>4. ReceiverOK'
    <2>1. ReceiverStays
      BY <1>1, <1>2, DiscardKeeps DEF Discard
    <2> QED BY <1>3, <2>1, SameAccounts
  <1>5. NetworkOK'
    BY <1>1, <1>2, <1>3 DEF NetworkOK
  <1> QED BY <1>3, <1>4, <1>5 DEF IInv

\* totalWaitingData is at least the weight of the packet that is received.
LEMMA PeerReceiveKeeps ==
  ASSUME IInv, EnetPeerReceive
  PROVE  IInv'
  <1> DEFINE held == incomingReliableCommands
             list == incomingUnreliableCommands
             queue == dispatchedCommands
             total == totalWaitingData
             k == sent[Head(queue)].count
  <1>1. SenderOK /\ NetworkOK /\ ReceiverOK /\ SentOK
    BY DEF IInv, SenderOK
  <1>2. /\ queue # <<>> /\ received' = Append(received, Head(queue)) /\ dispatchedCommands' = Tail(queue)
        /\ totalWaitingData' = total - k
        /\ UNCHANGED senderVars /\ network' = network
        /\ incomingReliableSequenceNumber' = incomingReliableSequenceNumber
        /\ incomingUnreliableSequenceNumber' = incomingUnreliableSequenceNumber
        /\ incomingUnsequencedGroup' = incomingUnsequencedGroup /\ unsequencedWindow' = unsequencedWindow
        /\ incomingReliableCommands' = held /\ incomingUnreliableCommands' = list
    BY DEF EnetPeerReceive
  <1>3. Accounted(held, list, queue, total)
    BY <1>1, ReceiverFields
  <1>4. held \in SUBSET DOMAIN sent /\ list \in Seq(Entries) /\ queue \in Seq(DOMAIN sent)
        /\ HeldWeight(held) + Load(EntryWeights, list) + Load(Weights(sent), queue) <= total
    BY <1>3 DEF Accounted
  <1>5. /\ Head(queue) \in DOMAIN sent /\ Tail(queue) \in Seq(DOMAIN sent)
        /\ Load(Weights(sent), queue) = k + Load(Weights(sent), Tail(queue))
        /\ Load(Weights(sent), Tail(queue)) \in Nat /\ k \in Nat
    <2> DEFINE D == DOMAIN sent
               w == Weights(sent)
               x == Head(queue)
    <2>1. w \in [D -> Nat] /\ queue \in Seq(D)
      BY <1>1, <1>4, WeightsAre
    <2> HIDE DEF D, w, queue, x
    <2>2. Head(queue) \in D /\ Tail(queue) \in Seq(D) /\ Load(w, queue) = w[Head(queue)] + Load(w, Tail(queue))
      BY <1>2, <2>1, LoadTail
    <2>3. Load(w, Tail(queue)) \in Nat
      BY <2>1, <2>2, LoadIs
    <2>4. w[Head(queue)] = sent[Head(queue)].count /\ w[Head(queue)] \in Nat
      BY <2>1, <2>2 DEF w, D, Weights
    <2> QED BY <2>2, <2>3, <2>4 DEF D, w, queue
  <1>6. HeldWeight(held) \in Nat /\ Load(EntryWeights, list) \in Nat /\ total \in Nat
    BY <1>1, <1>3, AccountedIs
  <1>7. HeldWeight(held) + Load(EntryWeights, list) + Load(Weights(sent), Tail(queue)) <= total - k /\ total - k \in Nat
    <2> DEFINE a == HeldWeight(held)
               b == Load(EntryWeights, list)
               d == Load(Weights(sent), queue)
               e == Load(Weights(sent), Tail(queue))
    <2>1. a \in Nat /\ b \in Nat /\ total \in Nat /\ e \in Nat /\ k \in Nat /\ d = k + e /\ a + b + d <= total
      BY <1>4, <1>5, <1>6
    <2> HIDE DEF a, b, d, e, k, total
    <2>2. a + b + e <= total - k /\ total - k \in Nat
      BY <2>1
    <2> QED BY <2>2 DEF a, b, e
  <1>8. Accounted(held, list, Tail(queue), total - k)
    BY <1>4, <1>5, <1>7 DEF Accounted
  <1> HIDE DEF held, list, queue, total, k
  <1>9. ReceiverStays
    <2>1. Accounted(incomingReliableCommands', incomingUnreliableCommands', dispatchedCommands', totalWaitingData')
      BY <1>2, <1>8
    <2> QED BY <1>1, <1>2, <2>1 DEF ReceiverOK, ReceiverStays, ReceiverIs
  <1>10. SenderOK' /\ sent' = sent
    BY <1>1, <1>2, SenderSame DEF senderVars
  <1>11. ReceiverOK'
    BY <1>9, <1>10, SameAccounts
  <1>12. NetworkOK'
    <2>1. received' \in Seq(DOMAIN sent)
      <3>1. received \in Seq(DOMAIN sent)
        BY <1>1 DEF NetworkOK
      <3> QED BY <1>2, <1>5, <3>1, AppendProperties
    <2> QED BY <1>1, <1>2, <1>10, <2>1 DEF NetworkOK
  <1> QED BY <1>10, <1>11, <1>12 DEF IInv

LEMMA StutterKeeps ==
  ASSUME IInv, UNCHANGED vars
  PROVE  IInv'
  <1>1. SenderOK /\ NetworkOK /\ ReceiverOK
    BY DEF IInv
  <1>2. UNCHANGED senderVars /\ UNCHANGED receiverVars /\ received' = received /\ network' = network
    BY DEF vars
  <1>3. SenderOK' /\ sent' = sent
    BY <1>1, <1>2, SenderSame DEF senderVars
  <1>4. ReceiverOK'
    <2>1. ReceiverStays
      BY <1>1, <1>2, DiscardKeeps DEF Discard
    <2> QED BY <1>3, <2>1, SameAccounts
  <1>5. NetworkOK'
    BY <1>1, <1>2, <1>3 DEF NetworkOK
  <1> QED BY <1>3, <1>4, <1>5 DEF IInv

-----------------------------------------------------------------------------
(* The theorems.                                                           *)

\* The invariant: every packet the receiver holds was counted when it was
\* queued, and what waits at the sender is in order, behind what it sent.
THEOREM IncomingInvariant == Spec => []IInv
  <1>1. Init => IInv
    BY InvariantInit
  <1>2. IInv /\ [Next]_vars => IInv'
    <2> SUFFICES ASSUME IInv, [Next]_vars PROVE IInv'
      OBVIOUS
    <2>1. CASE \E flag \in Flags, count \in FragmentCounts : EnetPeerSend(flag, count)
      BY <2>1, SendKeeps
    <2>2. CASE ThrottleOutgoing
      BY <2>2, ThrottleKeeps
    <2>3. CASE SendOutgoing
      BY <2>3, OutgoingKeeps
    <2>4. CASE \E c \in network, keep \in BOOLEAN : MayArrive(c) /\ Receive(c, keep)
      BY <2>4, ReceiveKeeps
    <2>5. CASE \E c \in network : LoseCommand(c)
      BY <2>5, LoseKeeps
    <2>6. CASE EnetPeerReceive
      BY <2>6, PeerReceiveKeeps
    <2>7. CASE UNCHANGED vars
      BY <2>7, StutterKeeps
    <2> QED BY <2>1, <2>2, <2>3, <2>4, <2>5, <2>6, <2>7 DEF Next
  <1> QED BY <1>1, <1>2, PTL DEF Spec

\* Every field keeps its type, whatever comes late, twice, or not at all; so
\* totalWaitingData, unsigned in the code, is never lowered below zero by
\* enet_peer_receive.
THEOREM IncomingTyped == Spec => []TypeOK
  <1>1. IInv => TypeOK
    BY InvariantTypes
  <1> QED BY <1>1, IncomingInvariant, PTL

\* The drop loop of enet_protocol_check_outgoing_commands lets go of whole
\* packets only: none of whose commands some were sent and others dropped.
THEOREM ThrottleAlwaysDropsWhole == Spec => []ThrottleDropsWhole
  <1>1. IInv => ThrottleDropsWhole
    BY ThrottleIsWhole DEF IInv, SenderOK
  <1> QED BY <1>1, IncomingInvariant, PTL

=============================================================================
