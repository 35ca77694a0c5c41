-------------------------- MODULE EnetStreamProofs --------------------------
(***************************************************************************)
(* The reliable stream is a FIFO queue per channel: EnetReliable           *)
(* implements ReliableStream, for every window layout, any number of       *)
(* channels, any limits and any network that loses, duplicates and         *)
(* reorders datagrams and forgets them within Lifetime.                    *)
(*                                                                         *)
(* The receiver knows positions only modulo SequenceSpace.  The proof      *)
(* keeps for every channel the position R[c] of the last command           *)
(* dispatched, next to the position H[c] of the last command sent of       *)
(* EnetReliableProofs, and shows that what arrives is close enough to      *)
(* R[c], on either side, for the comparisons of sequence numbers in        *)
(* queue_incoming_command, handle_send_fragment and queue_acknowledgement  *)
(* to be comparisons of positions.                                         *)
(***************************************************************************)
EXTENDS EnetReliableProofs

\* The packets are not so large that a late fragment can be taken for the
\* start of a packet to come: the distance from the start of a packet to the
\* position of the receiver when its last fragment arrives is at most Reach
\* and the packet's own length, and what lies FreeWindows - 1 windows and
\* more behind in the sequence space is old.
PacketsFit ==
  \A k \in FragmentCounts :
    Reach + k - 1 <= (ReliableWindows - FreeWindows + 1) * WindowSize

-----------------------------------------------------------------------------
(* What sequence numbers tell of positions.                                *)

\* Positions less than a sequence space after r: the laps of the sequence
\* space they and r are in, and how their sequence numbers compare.
LEMMA Laps ==
  ASSUME NEW n \in Nat, NEW r \in Nat
  PROVE  /\ r < n /\ n < r + SequenceSpace =>
              IF SequenceNumber(n) < SequenceNumber(r)
              THEN n - r = SequenceNumber(n) - SequenceNumber(r) + SequenceSpace
              ELSE n - r = SequenceNumber(n) - SequenceNumber(r)
         /\ n < r /\ r < n + SequenceSpace =>
              IF SequenceNumber(n) < SequenceNumber(r)
              THEN n - r = SequenceNumber(n) - SequenceNumber(r)
              ELSE n - r = SequenceNumber(n) - SequenceNumber(r) - SequenceSpace
  <1> DEFINE S == SequenceSpace
             s == SequenceNumber(n)
             t == SequenceNumber(r)
             a == n \div S
             b == r \div S
  <1>1. S \in Nat \ {0}
    BY SequenceSpaceType
  <1>2. a \in Int /\ s \in 0..(S - 1) /\ n = S * a + s
    BY <1>1, DivMod DEF SequenceNumber
  <1>3. b \in Int /\ t \in 0..(S - 1) /\ r = S * b + t
    BY <1>1, DivMod DEF SequenceNumber
  <1> HIDE DEF S, s, t, a, b
  <1>4. n - r = S * (a - b) + (s - t) /\ a - b \in Int
    BY <1>1, <1>2, <1>3, SMT
  <1>5. ASSUME a - b >= 2 PROVE S * (a - b) >= 2 * S
    BY <1>1, <1>2, <1>3, <1>5, SMT
  <1>6. ASSUME a - b <= -2 PROVE S * (a - b) <= -(2 * S)
    BY <1>1, <1>2, <1>3, <1>6, SMT
  <1>7. /\ a - b = 1 => S * (a - b) = S
        /\ a - b = 0 => S * (a - b) = 0
        /\ a - b = -1 => S * (a - b) = -S
        /\ S * (a - b) \in Int
    BY <1>1, <1>2, <1>3, SMT
  <1>8. \/ a - b >= 2 \/ a - b = 1 \/ a - b = 0 \/ a - b = -1 \/ a - b <= -2
    BY <1>4
  <1> DEFINE d == a - b
             D == S * d
  <1>9. /\ d \in Int /\ D \in Int /\ n - r = D + (s - t)
        /\ (d >= 2 => D >= 2 * S) /\ (d <= -2 => D <= -(2 * S))
        /\ (d = 1 => D = S) /\ (d = 0 => D = 0) /\ (d = -1 => D = -S)
        /\ (d >= 2 \/ d = 1 \/ d = 0 \/ d = -1 \/ d <= -2)
    BY <1>4, <1>5, <1>6, <1>7, <1>8
  <1> HIDE DEF d, D
  <1> SUFFICES
         /\ r < n /\ n < r + S => IF s < t THEN n - r = s - t + S ELSE n - r = s - t
         /\ n < r /\ r < n + S => IF s < t THEN n - r = s - t ELSE n - r = s - t - S
    BY DEF S, s, t
  <1> QED BY <1>1, <1>2, <1>3, <1>9, SMT

\* The relative window of a command to come, and of one already dispatched,
\* while both are less than a sequence space away.
LEMMA RelativeWindowIs ==
  ASSUME NEW n \in Nat, NEW r \in Nat
  PROVE  LET rel == RelativeWindow(SequenceNumber(n), SequenceNumber(r)) IN
         /\ r < n /\ n < r + SequenceSpace => rel = Window(n) - Window(r)
         /\ n < r /\ r < n + SequenceSpace => rel = Window(n) - Window(r) + ReliableWindows
         /\ n = r => rel = 0
  <1> DEFINE S == SequenceSpace
             s == SequenceNumber(n)
             t == SequenceNumber(r)
             RW == ReliableWindows
  <1>1. /\ RW \in Nat \ {0} /\ WindowSize \in Nat \ {0} /\ S \in Nat \ {0}
        /\ S = RW * WindowSize
    BY WindowAssumption, SequenceSpaceType DEF SequenceSpace
  <1>2. s \in 0..(S - 1) /\ t \in 0..(S - 1)
    BY SequenceNumberType
  <1>3. s \in Int /\ t \in Int
    BY <1>1, <1>2
  \* A difference of sequence numbers and laps gives one of windows.
  <1>4. ASSUME NEW e \in {-1, 0, 1}, n - r = s - t + S * e
        PROVE  Window(n) - Window(r) = Window(s) - Window(t) + RW * e
    <2> DEFINE a == n \div S
               b == r \div S
    <2>1. a \in Int /\ b \in Int /\ n = S * a + s /\ r = S * b + t
      <3>1. a \in Int /\ n = S * a + s
        BY SequenceSpaceType, DivMod DEF SequenceNumber
      <3>2. b \in Int /\ r = S * b + t
        BY SequenceSpaceType, DivMod DEF SequenceNumber
      <3> QED BY <3>1, <3>2
    <2>2. Window(s) \in Int /\ Window(t) \in Int /\ WindowSize * Window(s) <= s /\ s < WindowSize * Window(s) + WindowSize
          /\ WindowSize * Window(t) <= t /\ t < WindowSize * Window(t) + WindowSize
      BY <1>3, WindowBounds
    <2> HIDE DEF S, s, t, a, b, RW
    <2>3. S * (a - b - e) = 0
      BY <1>1, <1>3, <1>4, <2>1, SMT
    <2>4. a - b = e
      <3>1. a - b - e \in Int
        BY <2>1
      <3>2. ASSUME a - b - e >= 1 PROVE S * (a - b - e) >= S
        BY <1>1, <3>1, <3>2, SMT
      <3>3. ASSUME a - b - e <= -1 PROVE S * (a - b - e) <= -S
        BY <1>1, <3>1, <3>3, SMT
      <3> QED BY <1>1, <2>1, <2>3, <3>1, <3>2, <3>3
    <2>5. ASSUME NEW x \in Int, NEW y \in Int, NEW z \in Int, x = S * y + z,
                 Window(z) \in Int, WindowSize * Window(z) <= z, z < WindowSize * Window(z) + WindowSize
          PROVE  Window(x) = RW * y + Window(z)
      <3> DEFINE w == Window(z)
      <3> HIDE DEF w
      <3>1. w \in Int /\ WindowSize * w <= z /\ z < WindowSize * w + WindowSize
        BY <2>5 DEF w
      <3>2. WindowSize * (RW * y + w) = S * y + WindowSize * w /\ RW * y + w \in Int
        BY <1>1, <3>1, SMT
      <3>3. S * y \in Int /\ WindowSize * w \in Int
        BY <1>1, <3>1, SMT
      <3>4. WindowSize * (RW * y + w) <= x /\ x < WindowSize * (RW * y + w) + WindowSize
        BY <1>1, <2>5, <3>1, <3>2, <3>3
      <3>5. Window(x) = RW * y + w
        BY <3>2, <3>4, WindowIs
      <3> QED BY <3>5 DEF w
    <2>6. Window(n) = RW * a + Window(s) /\ Window(r) = RW * b + Window(t)
      BY <1>3, <2>1, <2>2, <2>5
    <2>7. RW * a = RW * b + RW * e /\ RW * a \in Int /\ RW * b \in Int /\ RW * e \in Int
      BY <1>1, <2>1, <2>4, SMT
    <2> QED BY <2>2, <2>6, <2>7
  <1>5. /\ S * 0 = 0 /\ S * 1 = S /\ S * (-1) = -S /\ RW * 0 = 0 /\ RW * 1 = RW /\ RW * (-1) = -RW
        /\ Window(s) \in Int /\ Window(t) \in Int
    <2> HIDE DEF S, s, t, RW
    <2> QED BY <1>1, <1>3, WindowBounds
  <1>6. RelativeWindow(s, t) = Window(s) + (IF s < t THEN RW ELSE 0) - Window(t)
    BY DEF RelativeWindow
  <1>7. ASSUME r < n, n < r + S
        PROVE  RelativeWindow(s, t) = Window(n) - Window(r)
    <2>1. IF s < t THEN n - r = s - t + S ELSE n - r = s - t
      BY <1>7, Laps
    <2> HIDE DEF S, s, t, RW
    <2>2. CASE s < t
      <3>1. n - r = s - t + S * 1
        BY <1>5, <2>1, <2>2
      <3>2. Window(n) - Window(r) = Window(s) - Window(t) + RW * 1
        BY <1>4, <3>1
      <3> QED BY <1>1, <1>5, <1>6, <2>2, <3>2
    <2>3. CASE ~(s < t)
      <3>1. n - r = s - t + S * 0
        BY <1>3, <1>5, <2>1, <2>3
      <3>2. Window(n) - Window(r) = Window(s) - Window(t) + RW * 0
        BY <1>4, <3>1
      <3> QED BY <1>1, <1>5, <1>6, <2>3, <3>2
    <2> QED BY <2>2, <2>3
  <1>8. ASSUME n < r, r < n + S
        PROVE  RelativeWindow(s, t) = Window(n) - Window(r) + RW
    <2>1. IF s < t THEN n - r = s - t ELSE n - r = s - t - S
      BY <1>8, Laps
    <2> HIDE DEF S, s, t, RW
    <2>2. CASE s < t
      <3>1. n - r = s - t + S * 0
        BY <1>3, <1>5, <2>1, <2>2
      <3>2. Window(n) - Window(r) = Window(s) - Window(t) + RW * 0
        BY <1>4, <3>1
      <3> QED BY <1>1, <1>5, <1>6, <2>2, <3>2
    <2>3. CASE ~(s < t)
      <3>1. n - r = s - t + S * (-1)
        BY <1>1, <1>3, <1>5, <2>1, <2>3
      <3>2. Window(n) - Window(r) = Window(s) - Window(t) + RW * (-1)
        BY <1>4, <3>1
      <3> QED BY <1>1, <1>5, <1>6, <2>3, <3>2
    <2> QED BY <2>2, <2>3
  <1>9. ASSUME n = r PROVE RelativeWindow(s, t) = 0
    <2>1. s = t
      BY <1>9
    <2> HIDE DEF S, s, t, RW
    <2> QED BY <1>3, <1>5, <1>6, <2>1
  <1> QED BY <1>7, <1>8, <1>9

\* The searches through incomingReliableCommands stop at the entries that
\* are not after the command, also where sequence numbers wrap.
LEMMA StopsAtIs ==
  ASSUME NEW n \in Nat, NEW x \in Nat, NEW r \in Nat, NEW e,
         r < n, n < r + SequenceSpace, r < x, x < r + SequenceSpace,
         e.seq = SequenceNumber(x)
  PROVE  StopsAt(e, SequenceNumber(n), SequenceNumber(r)) <=> x <= n
  <1>1. /\ SequenceNumber(n) \in Nat /\ SequenceNumber(x) \in Nat /\ SequenceNumber(r) \in Nat
        /\ SequenceNumber(n) < SequenceSpace /\ SequenceNumber(x) < SequenceSpace
        /\ SequenceNumber(r) < SequenceSpace /\ SequenceSpace \in Nat
    <2>1. \A k \in Nat : SequenceNumber(k) \in Nat /\ SequenceNumber(k) < SequenceSpace
      BY SequenceNumberType, SequenceSpaceType
    <2> QED BY <2>1, SequenceSpaceType
  <1>2. /\ IF SequenceNumber(n) < SequenceNumber(r)
           THEN n - r = SequenceNumber(n) - SequenceNumber(r) + SequenceSpace
           ELSE n - r = SequenceNumber(n) - SequenceNumber(r)
        /\ IF SequenceNumber(x) < SequenceNumber(r)
           THEN x - r = SequenceNumber(x) - SequenceNumber(r) + SequenceSpace
           ELSE x - r = SequenceNumber(x) - SequenceNumber(r)
    BY Laps
  <1> QED BY <1>1, <1>2 DEF StopsAt

\* Positions after r and less than a sequence space away have different
\* sequence numbers.
LEMMA SameSequenceNumber ==
  ASSUME NEW n \in Nat, NEW x \in Nat, SequenceNumber(n) = SequenceNumber(x),
         n < x + SequenceSpace, x < n + SequenceSpace
  PROVE  n = x
  <1>1. /\ n \in Int /\ x \in Int /\ SequenceSpace \in Nat \ {0}
        /\ n - x < SequenceSpace /\ x - n < SequenceSpace
    BY SequenceSpaceType
  <1>2. n % SequenceSpace = x % SequenceSpace
    BY DEF SequenceNumber
  <1> QED BY <1>1, <1>2, ModEqual, Zenon

-----------------------------------------------------------------------------
(* Packets, and the entries of incomingReliableCommands that assemble them. *)

\* The payload of a packet names its positions.
LEMMA PacketFields ==
  ASSUME NEW n \in Nat, NEW k \in Nat \ {0}
  PROVE  /\ Packet(n, k) \in Seq(Nat)
         /\ Len(Packet(n, k)) = k
         /\ \A j \in 1..k : Packet(n, k)[j] = n + j - 1
         /\ Packet(n, k)[1] = n
         /\ Packet(n, k)[k] = n + k - 1
  <1>1. \A j \in 1..k : n + j - 1 \in Nat
    OBVIOUS
  <1>2. Packet(n, k) = [j \in 1..k |-> n + j - 1]
    BY DEF Packet
  <1>3. /\ Packet(n, k) \in Seq(Nat) /\ Len(Packet(n, k)) = k
        /\ \A j \in 1..k : Packet(n, k)[j] = n + j - 1
    BY <1>1, <1>2
  <1>4. 1 \in 1..k /\ k \in 1..k /\ n + 1 - 1 = n
    OBVIOUS
  <1> QED BY <1>3, <1>4

\* The packet of k commands from position n on was sent on channel c and not
\* received.
Queued(c, n, k) == \E x \in 1..Len(pending[c]) : pending[c][x] = Packet(n, k)

\* The packets sent and not received follow one another.
PendingInv ==
  /\ \A c \in Channels : \A x \in 1..Len(pending[c]) :
       \E n \in Nat \ {0}, k \in FragmentCounts :
         pending[c][x] = Packet(n, k) /\ n + k - 1 <= outgoingReliableSequenceNumber[c]
  /\ \A c \in Channels : \A x, y \in 1..Len(pending[c]) :
       x < y => pending[c][x][Len(pending[c][x])] < pending[c][y][1]

\* Two packets of a channel that share a position are the same packet.
LEMMA SamePacket ==
  ASSUME PendingInv, AppType, NEW c \in Channels, NEW n \in Nat, NEW k \in Nat \ {0},
         NEW m \in Nat, NEW l \in Nat \ {0},
         Queued(c, n, k), Queued(c, m, l), n <= m, m <= n + k - 1
  PROVE  n = m /\ k = l
  <1>1. PICK x \in 1..Len(pending[c]) : pending[c][x] = Packet(n, k)
    BY DEF Queued
  <1>2. PICK y \in 1..Len(pending[c]) : pending[c][y] = Packet(m, l)
    BY DEF Queued
  <1>3. /\ Len(Packet(n, k)) = k /\ Packet(n, k)[1] = n /\ Packet(n, k)[k] = n + k - 1
        /\ Len(Packet(m, l)) = l /\ Packet(m, l)[1] = m /\ Packet(m, l)[l] = m + l - 1
    BY PacketFields
  <1>4. x \in Int /\ y \in Int
    <2>1. pending[c] \in Seq(Seq(Nat))
      BY DEF AppType
    <2>2. Len(pending[c]) \in Nat
      BY <2>1, LenProperties
    <2> QED BY <2>2
  <1>5. CASE x = y
    BY <1>1, <1>2, <1>3, <1>5
  <1>6. CASE x < y
    <2>1. pending[c][x][Len(pending[c][x])] < pending[c][y][1]
      BY <1>6 DEF PendingInv
    <2>2. n + k - 1 < m
      BY <1>1, <1>2, <1>3, <2>1
    <2> QED BY <2>2
  <1>7. CASE y < x
    <2>1. pending[c][y][Len(pending[c][y])] < pending[c][x][1]
      BY <1>7 DEF PendingInv
    <2>2. m + l - 1 < n
      BY <1>1, <1>2, <1>3, <2>1
    <2> QED BY <2>2
  <1> QED BY <1>4, <1>5, <1>6, <1>7

\* The position of the first command of the packet entry e assembles.
Base(e) ==
  CHOOSE n \in Nat : \E j \in 1..Len(e.data) : e.data[j] # 0 /\ n = e.data[j] - j + 1

\* Entry e assembles the packet from position n on, of commands up to h.
Assembles(e, n, h) ==
  /\ n \in Nat \ {0}
  /\ e.seq = SequenceNumber(n)
  /\ \A j \in 1..Len(e.data) : e.data[j] \in {0, n + j - 1} /\ e.data[j] <= h
  /\ \E j \in 1..Len(e.data) : e.data[j] # 0

\* The entries of list, of channel c, are packets of that channel after
\* position r, in the order they were sent.
ListOK(c, list, r, h) ==
  /\ \A i \in 1..Len(list) :
       /\ Assembles(list[i], Base(list[i]), h)
       /\ r < Base(list[i])
       /\ Len(list[i].data) \in FragmentCounts
       /\ Queued(c, Base(list[i]), Len(list[i].data))
  /\ \A i, j \in 1..Len(list) : i < j => Base(list[i]) < Base(list[j])

\* Some entry of list holds the payload of position n.
Contains(list, n) ==
  \E i \in 1..Len(list) : \E j \in 1..Len(list[i].data) : list[i].data[j] = n

\* Base finds the position an entry was made with.
LEMMA BaseIs ==
  ASSUME NEW e, NEW n, NEW h, Assembles(e, n, h), Len(e.data) \in Nat
  PROVE  Base(e) = n
  <1>1. PICK j \in 1..Len(e.data) : e.data[j] # 0
    BY DEF Assembles
  <1>2. n \in Nat /\ \A i \in 1..Len(e.data) : e.data[i] \in {0, n + i - 1}
    BY DEF Assembles
  <1>3. n = e.data[j] - j + 1
    BY <1>1, <1>2
  <1>4. \A x \in Nat : (\E i \in 1..Len(e.data) : e.data[i] # 0 /\ x = e.data[i] - i + 1) => x = n
    BY <1>2
  <1> QED BY <1>1, <1>2, <1>3, <1>4 DEF Base

\* The entries of a list are short of the last command sent.
LEMMA EntryFields ==
  ASSUME NEW c, NEW r \in Nat, NEW h \in Nat, NEW list, ListOK(c, list, r, h),
         NEW i \in 1..Len(list)
  PROVE  /\ Base(list[i]) \in Nat \ {0} /\ r < Base(list[i]) /\ Base(list[i]) <= h
         /\ list[i].seq = SequenceNumber(Base(list[i]))
         /\ Len(list[i].data) \in Nat \ {0}
         /\ Queued(c, Base(list[i]), Len(list[i].data))
         /\ Complete(list[i]) /\ list[i].data \in Seq(Nat) =>
              /\ list[i].data = Packet(Base(list[i]), Len(list[i].data))
              /\ Base(list[i]) + Len(list[i].data) - 1 <= h
  <1> DEFINE e == list[i]
             n == Base(e)
             k == Len(e.data)
  <1>1. Assembles(e, n, h) /\ r < n /\ k \in FragmentCounts /\ Queued(c, n, k)
    BY DEF ListOK
  <1>2. k \in Nat \ {0}
    BY <1>1, LimitAssumption
  <1> HIDE DEF e, n, k
  <1>3. n \in Nat \ {0} /\ e.seq = SequenceNumber(n)
    BY <1>1 DEF Assembles
  <1>4. /\ \A j \in 1..k : e.data[j] \in {0, n + j - 1} /\ e.data[j] <= h
        /\ \E j \in 1..k : e.data[j] # 0
    BY <1>1 DEF Assembles, k
  <1>5. n <= h
    BY <1>2, <1>3, <1>4
  <1>6. ASSUME Complete(e), e.data \in Seq(Nat)
        PROVE  e.data = Packet(n, k) /\ n + k - 1 <= h
    <2>1. DOMAIN e.data = 1..k /\ e.data = [j \in 1..k |-> e.data[j]]
      BY <1>6 DEF k
    <2>2. \A j \in 1..k : e.data[j] = n + j - 1
      BY <1>4, <1>6, <2>1 DEF Complete
    <2>3. e.data = [j \in 1..k |-> n + j - 1]
      BY <2>1, <2>2
    <2>4. k \in 1..k
      BY <1>2
    <2> QED BY <1>4, <2>2, <2>3, <2>4 DEF Packet
  <1> QED BY <1>1, <1>2, <1>3, <1>5, <1>6 DEF e, n, k

-----------------------------------------------------------------------------
(* What the receiver does to a list of entries.                            *)

\* Marked is list with position n, at most h, copied to its slot of entry p.
Marks(c, r, h, list, p, slot, n, marked) ==
  /\ list \in Seq(IncomingCommand) /\ ListOK(c, list, r, h)
  /\ p \in 1..Len(list) /\ slot \in 1..Len(list[p].data)
  /\ n \in Nat \ {0} /\ n = Base(list[p]) + slot - 1 /\ n <= h
  /\ marked = [list EXCEPT ![p].data[slot] = n]

\* The slots of a packet, one of them filled.
LEMMA CopiedInto ==
  ASSUME NEW L \in Nat, NEW d \in [1..L -> Nat], NEW slot \in 1..L, NEW n \in Nat
  PROVE  LET k == [d EXCEPT ![slot] = n]
         IN  Len(k) = L /\ k[slot] = n /\ \A j \in 1..L : j # slot => k[j] = d[j]
  <1> DEFINE k == [d EXCEPT ![slot] = n]
  <1>1. k \in [1..L -> Nat] /\ k[slot] = n /\ \A j \in 1..L : j # slot => k[j] = d[j]
    OBVIOUS
  <1> HIDE DEF k
  <1>2. k \in Seq(Nat) /\ DOMAIN k = 1..L
    BY <1>1
  <1>3. Len(k) = L
    BY <1>2, LengthIs
  <1> QED BY <1>1, <1>3 DEF k

\* Copying a fragment to its slot keeps the list and all it holds.
LEMMA MarkKeeps ==
  ASSUME NEW c, NEW r \in Nat, NEW h \in Nat, NEW list, NEW p, NEW slot, NEW n, NEW marked,
         Marks(c, r, h, list, p, slot, n, marked)
  PROVE  /\ ListOK(c, marked, r, h)
         /\ \A x \in Nat \ {0} : Contains(list, x) => Contains(marked, x)
         /\ Contains(marked, n)
         /\ marked \in Seq(IncomingCommand)
         /\ Len(marked) = Len(list)
         /\ \A i \in 1..Len(list) : Base(marked[i]) = Base(list[i]) /\ (i # p => marked[i] = list[i])
  <1> DEFINE e == list[p]
             f == marked[p]
             b == Base(e)
             L == Len(e.data)
  <1>0. /\ list \in Seq(IncomingCommand) /\ ListOK(c, list, r, h)
        /\ p \in 1..Len(list) /\ slot \in 1..L
        /\ n \in Nat \ {0} /\ n = b + slot - 1 /\ n <= h
        /\ marked = [list EXCEPT ![p].data[slot] = n]
    BY DEF Marks
  <1> USE <1>0
  <1>1. /\ Len(list) \in Nat /\ \A i \in 1..Len(list) : list[i] \in IncomingCommand
        /\ DOMAIN list = 1..Len(list)
    BY LenProperties, ElementOfSeq
  <1>2. e.data \in Seq(Nat) /\ L \in Nat /\ DOMAIN e.data = 1..L
        /\ e \in [seq : 0..(SequenceSpace - 1), data : Seq(Nat)]
    <2>1. e \in IncomingCommand
      BY <1>1
    <2>2. e.data \in Seq(Nat) /\ e \in [seq : 0..(SequenceSpace - 1), data : Seq(Nat)]
      BY <2>1 DEF IncomingCommand
    <2> QED BY <2>2, LenProperties
  <1>3. marked \in Seq(IncomingCommand)
    BY MarkType
  <1>4. /\ Len(marked) = Len(list)
        /\ \A i \in 1..Len(list) : i # p => marked[i] = list[i]
        /\ f = [e EXCEPT !.data = [e.data EXCEPT ![slot] = n]]
    BY <1>1
  <1>5. f.seq = e.seq /\ f.data = [e.data EXCEPT ![slot] = n]
    BY <1>2, <1>4
  <1> HIDE DEF f, e
  <1>6. /\ Len(f.data) = L
        /\ f.data[slot] = n
        /\ \A j \in 1..L : j # slot => f.data[j] = e.data[j]
    <2>1. e.data \in [1..L -> Nat] /\ L \in Nat
      BY <1>2, LenProperties
    <2> QED BY <1>5, <2>1, CopiedInto
  <1>7. /\ Assembles(e, b, h) /\ r < b /\ L \in FragmentCounts /\ Queued(c, b, L)
    BY DEF ListOK, e
  <1>8. Assembles(f, b, h)
    <2>1. \A j \in 1..L : f.data[j] \in {0, b + j - 1} /\ f.data[j] <= h
      BY <1>6, <1>7 DEF Assembles, e
    <2>2. slot \in 1..L /\ f.data[slot] # 0
      BY <1>6 DEF e
    <2> QED BY <1>5, <1>6, <1>7, <2>1, <2>2 DEF Assembles
  <1>9. Base(f) = b
    BY <1>2, <1>6, <1>8, BaseIs
  <1>10. \A i \in 1..Len(list) : Base(marked[i]) = Base(list[i]) /\ Len(marked[i].data) = Len(list[i].data)
    <2>1. ASSUME NEW i \in 1..Len(list)
          PROVE  Base(marked[i]) = Base(list[i]) /\ Len(marked[i].data) = Len(list[i].data)
      <3>1. CASE i = p
        BY <1>6, <1>9, <3>1 DEF e, f
      <3>2. CASE i # p
        BY <1>4, <3>2
      <3> QED BY <3>1, <3>2
    <2> QED BY <2>1
  <1>11. ListOK(c, marked, r, h)
    <2>1. ASSUME NEW i \in 1..Len(marked)
          PROVE  /\ Assembles(marked[i], Base(marked[i]), h)
                 /\ r < Base(marked[i])
                 /\ Len(marked[i].data) \in FragmentCounts
                 /\ Queued(c, Base(marked[i]), Len(marked[i].data))
      <3>1. CASE i = p
        BY <1>6, <1>7, <1>8, <1>9, <3>1 DEF f
      <3>2. CASE i # p
        BY <1>4, <3>2 DEF ListOK
      <3> QED BY <3>1, <3>2
    <2>2. ASSUME NEW i \in 1..Len(marked), NEW j \in 1..Len(marked), i < j
          PROVE  Base(marked[i]) < Base(marked[j])
      <3>1. i \in 1..Len(list) /\ j \in 1..Len(list)
        BY <1>4
      <3>2. Base(list[i]) < Base(list[j])
        BY <2>2, <3>1 DEF ListOK
      <3>3. Base(marked[i]) = Base(list[i]) /\ Base(marked[j]) = Base(list[j])
        BY <1>10, <3>1
      <3> QED BY <3>2, <3>3
    <2> QED BY <2>1, <2>2 DEF ListOK
  <1>12. Contains(marked, n)
    <2>1. p \in 1..Len(marked) /\ slot \in 1..Len(marked[p].data) /\ marked[p].data[slot] = n
      BY <1>4, <1>6 DEF f, e
    <2> QED BY <2>1 DEF Contains
  <1>13. ASSUME NEW x \in Nat \ {0}, Contains(list, x) PROVE Contains(marked, x)
    <2>1. PICK i \in 1..Len(list) : \E j \in 1..Len(list[i].data) : list[i].data[j] = x
      BY <1>13 DEF Contains
    <2>2. PICK j \in 1..Len(list[i].data) : list[i].data[j] = x
      BY <2>1
    <2>3. CASE i = p /\ j = slot
      <3>1. e.data[slot] \in {0, b + slot - 1}
        BY <1>7 DEF Assembles, e
      <3>2. x = n
        BY <2>2, <2>3, <3>1 DEF e
      <3> QED BY <1>12, <3>2
    <2>4. CASE ~(i = p /\ j = slot)
      <3>1. i \in 1..Len(marked) /\ j \in 1..Len(marked[i].data) /\ marked[i].data[j] = x
        BY <1>4, <1>6, <1>10, <2>2, <2>4 DEF e, f
      <3> QED BY <3>1 DEF Contains
    <2> QED BY <2>3, <2>4
  <1> QED BY <1>3, <1>4, <1>10, <1>11, <1>12, <1>13

\* The elements of a list with one inserted.
LEMMA InsertParts ==
  ASSUME NEW list \in Seq(IncomingCommand), NEW p \in 0..Len(list), NEW e \in IncomingCommand
  PROVE  /\ InsertAfter(list, p, e) \in Seq(IncomingCommand)
         /\ Len(InsertAfter(list, p, e)) = Len(list) + 1
         /\ \A i \in 1..p : InsertAfter(list, p, e)[i] = list[i]
         /\ InsertAfter(list, p, e)[p + 1] = e
         /\ \A i \in (p + 1)..Len(list) : InsertAfter(list, p, e)[i + 1] = list[i]
  <1> DEFINE before == SubSeq(list, 1, p)
             after == SubSeq(list, p + 1, Len(list))
             s == before \o <<e>>
  <1>1. Len(list) \in Nat /\ p \in Nat /\ p <= Len(list)
    <2>1. Len(list) \in Nat
      BY LenProperties
    <2> QED BY <2>1
  <1>2. /\ before \in Seq(IncomingCommand) /\ Len(before) = p
        /\ \A i \in 1..p : before[i] = list[i]
    <2>1. /\ before \in Seq(IncomingCommand)
          /\ Len(before) = IF 1 <= p THEN p - 1 + 1 ELSE 0
          /\ \A i \in 1..(p - 1 + 1) : before[i] = list[1 + i - 1]
      BY <1>1, SubSeqProperties, SubSeqType
    <2>2. \A i \in 1..p : 1 + i - 1 = i
      BY <1>1
    <2> HIDE DEF before
    <2> QED BY <1>1, <2>1, <2>2
  <1>3. /\ after \in Seq(IncomingCommand) /\ Len(after) = Len(list) - p
        /\ \A i \in (p + 1)..Len(list) : after[i - p] = list[i]
    <2>1. /\ after \in Seq(IncomingCommand)
          /\ Len(after) = IF p + 1 <= Len(list) THEN Len(list) - (p + 1) + 1 ELSE 0
          /\ \A i \in 1..(Len(list) - (p + 1) + 1) : after[i] = list[p + 1 + i - 1]
      BY <1>1, SubSeqProperties, SubSeqType
    <2> HIDE DEF after
    <2>2. ASSUME NEW i \in (p + 1)..Len(list) PROVE after[i - p] = list[i]
      <3>1. i - p \in 1..(Len(list) - (p + 1) + 1) /\ p + 1 + (i - p) - 1 = i
        BY <1>1
      <3> QED BY <2>1, <3>1
    <2> QED BY <1>1, <2>1, <2>2
  <1>4. /\ <<e>> \in Seq(IncomingCommand) /\ Len(<<e>>) = 1 /\ <<e>>[1] = e
    OBVIOUS
  <1> HIDE DEF before, after
  <1>5. /\ s \in Seq(IncomingCommand) /\ Len(s) = p + 1
        /\ \A i \in 1..p : s[i] = list[i]
        /\ s[p + 1] = e
    <2>1. 1 \in 1..Len(<<e>>)
      BY <1>4
    <2> QED BY <1>1, <1>2, <1>4, <2>1, ConcatParts
  <1> HIDE DEF s
  <1>6. InsertAfter(list, p, e) = s \o after
    BY DEF InsertAfter, s, before, after
  <1>7. /\ s \o after \in Seq(IncomingCommand) /\ Len(s \o after) = p + 1 + (Len(list) - p)
        /\ \A i \in 1..(p + 1) : (s \o after)[i] = s[i]
        /\ \A i \in 1..(Len(list) - p) : (s \o after)[p + 1 + i] = after[i]
    <2>1. s \in Seq(IncomingCommand) /\ after \in Seq(IncomingCommand)
      BY <1>3, <1>5
    <2>2. /\ s \o after \in Seq(IncomingCommand) /\ Len(s \o after) = Len(s) + Len(after)
          /\ \A i \in 1..Len(s) : (s \o after)[i] = s[i]
          /\ \A i \in 1..Len(after) : (s \o after)[Len(s) + i] = after[i]
      BY <2>1, ConcatParts, SMTT(30)
    <2>3. Len(s) = p + 1 /\ Len(after) = Len(list) - p
      BY <1>3, <1>5
    <2> QED BY <2>2, <2>3, Zenon
  <1>8. ASSUME NEW i \in (p + 1)..Len(list) PROVE (s \o after)[i + 1] = list[i]
    <2>1. i - p \in 1..(Len(list) - p) /\ p + 1 + (i - p) = i + 1
      BY <1>1
    <2> QED BY <1>3, <1>7, <2>1
  <1>9. \A i \in 1..p : i \in 1..(p + 1)
    BY <1>1
  <1>10. p + 1 \in 1..(p + 1) /\ p + 1 + (Len(list) - p) = Len(list) + 1
    BY <1>1
  <1> QED BY <1>5, <1>6, <1>7, <1>8, <1>9, <1>10

\* Inserting the entry of a new packet behind the entries before it.
LEMMA InsertKeeps ==
  ASSUME NEW c, NEW r \in Nat, NEW h \in Nat,
         NEW list \in Seq(IncomingCommand), ListOK(c, list, r, h),
         NEW p \in 0..Len(list), NEW e \in IncomingCommand, NEW n \in Nat \ {0},
         Assembles(e, n, h), r < n, Len(e.data) \in FragmentCounts, Queued(c, n, Len(e.data)),
         p # 0 => Base(list[p]) < n,
         \A j \in (p + 1)..Len(list) : n < Base(list[j])
  PROVE  /\ ListOK(c, InsertAfter(list, p, e), r, h)
         /\ InsertAfter(list, p, e) \in Seq(IncomingCommand)
         /\ \A x \in Nat \ {0} : Contains(list, x) => Contains(InsertAfter(list, p, e), x)
         /\ \A x \in Nat \ {0} :
              (\E j \in 1..Len(e.data) : e.data[j] = x) => Contains(InsertAfter(list, p, e), x)
  <1> DEFINE new == InsertAfter(list, p, e)
             L == Len(list)
  <1>1. L \in Nat /\ p \in Nat /\ p <= L
    <2>1. Len(list) \in Nat
      BY LenProperties
    <2> QED BY <2>1
  <1>2. /\ new \in Seq(IncomingCommand)
        /\ Len(new) = L + 1
        /\ \A i \in 1..p : new[i] = list[i]
        /\ new[p + 1] = e
        /\ \A i \in (p + 1)..L : new[i + 1] = list[i]
    <2> HIDE DEF new, L
    <2>1. InsertAfter(list, p, e) \in Seq(IncomingCommand)
      BY InsertParts
    <2>2. Len(InsertAfter(list, p, e)) = Len(list) + 1
      BY InsertParts
    <2>3. \A i \in 1..p : InsertAfter(list, p, e)[i] = list[i]
      BY InsertParts
    <2>4. InsertAfter(list, p, e)[p + 1] = e
      BY InsertParts
    <2>5. \A i \in (p + 1)..Len(list) : InsertAfter(list, p, e)[i + 1] = list[i]
      BY InsertParts
    <2> QED BY <2>1, <2>2, <2>3, <2>4, <2>5 DEF new, L
  <1> HIDE DEF new, L
  <1>3. Base(e) = n
    <2>1. Len(e.data) \in Nat
      BY LimitAssumption
    <2> QED BY <2>1, BaseIs
  \* Where the entries of the new list come from.
  <1>4. ASSUME NEW i \in 1..(L + 1)
        PROVE  \/ i = p + 1 /\ new[i] = e
               \/ i <= p /\ i \in 1..L /\ new[i] = list[i]
               \/ i > p + 1 /\ i - 1 \in (p + 1)..L /\ i - 1 \in 1..L /\ new[i] = list[i - 1]
    <2>1. CASE i <= p
      <3>1. i \in 1..p /\ i \in 1..L
        BY <1>1, <2>1
      <3> QED BY <1>2, <2>1, <3>1
    <2>2. CASE i = p + 1
      BY <1>2, <2>2
    <2>3. CASE i > p + 1
      <3>1. i - 1 \in (p + 1)..L /\ (i - 1) + 1 = i /\ i - 1 \in 1..L
        BY <1>1, <2>3
      <3> QED BY <1>2, <2>3, <3>1
    <2> QED BY <1>1, <2>1, <2>2, <2>3
  <1>5. ASSUME NEW i \in 1..L
        PROVE  \E j \in 1..(L + 1) : new[j] = list[i]
    <2>1. CASE i <= p
      <3>1. i \in 1..p /\ i \in 1..(L + 1)
        BY <1>1, <2>1
      <3> QED BY <1>2, <3>1
    <2>2. CASE ~(i <= p)
      <3>1. i \in (p + 1)..L /\ i + 1 \in 1..(L + 1)
        BY <1>1, <2>2
      <3> QED BY <1>2, <3>1
    <2> QED BY <2>1, <2>2
  <1>6. \A i \in 1..L : Base(list[i]) \in Nat
    BY EntryFields DEF L
  <1>7. \A i, j \in 1..L : i < j => Base(list[i]) < Base(list[j])
    BY DEF ListOK, L
  <1>8. \A i \in 1..L : i <= p => Base(list[i]) < n
    <2>1. ASSUME NEW i \in 1..L, i <= p PROVE Base(list[i]) < n
      <3>1. p \in 1..L /\ p # 0 /\ (i = p \/ i < p)
        BY <1>1, <2>1
      <3> QED BY <1>6, <1>7, <3>1
    <2> QED BY <2>1
  <1>9. \A i \in 1..L : i >= p + 1 => n < Base(list[i])
    <2>1. ASSUME NEW i \in 1..L, i >= p + 1 PROVE i \in (p + 1)..Len(list)
      BY <1>1, <2>1 DEF L
    <2> QED BY <2>1
  <1>10. ASSUME NEW i \in 1..(L + 1), NEW j \in 1..(L + 1), i < j
         PROVE  Base(new[i]) < Base(new[j])
    <2>1. CASE i <= p /\ j <= p
      BY <1>1, <1>4, <1>7, <1>10, <2>1
    <2>2. CASE i <= p /\ j = p + 1
      BY <1>1, <1>3, <1>4, <1>8, <2>2
    <2>3. CASE i <= p /\ j > p + 1
      <3>1. new[i] = list[i] /\ i \in 1..L /\ new[j] = list[j - 1] /\ j - 1 \in 1..L
        BY <1>1, <1>4, <2>3
      <3>2. i < j - 1
        BY <1>1, <2>3
      <3> QED BY <1>7, <3>1, <3>2
    <2>4. CASE i = p + 1 /\ j > p + 1
      <3>1. new[i] = e /\ new[j] = list[j - 1] /\ j - 1 \in 1..L /\ j - 1 >= p + 1
        BY <1>1, <1>4, <2>4
      <3> QED BY <1>3, <1>9, <3>1
    <2>5. CASE i > p + 1 /\ j > p + 1
      <3>1. new[i] = list[i - 1] /\ i - 1 \in 1..L /\ new[j] = list[j - 1] /\ j - 1 \in 1..L
        BY <1>1, <1>4, <2>5
      <3>2. i - 1 < j - 1
        BY <1>10
      <3> QED BY <1>7, <3>1, <3>2
    <2> QED BY <1>1, <1>10, <2>1, <2>2, <2>3, <2>4, <2>5
  <1>11. ListOK(c, new, r, h)
    <2>1. ASSUME NEW i \in 1..Len(new)
          PROVE  /\ Assembles(new[i], Base(new[i]), h)
                 /\ r < Base(new[i])
                 /\ Len(new[i].data) \in FragmentCounts
                 /\ Queued(c, Base(new[i]), Len(new[i].data))
      <3>1. new[i] = e \/ \E j \in 1..L : new[i] = list[j]
        BY <1>2, <1>4
      <3> QED BY <1>3, <3>1 DEF ListOK, L
    <2> QED BY <1>2, <1>10, <2>1 DEF ListOK
  <1>12. \A x \in Nat \ {0} : Contains(list, x) => Contains(new, x)
    BY <1>2, <1>5 DEF Contains, L
  <1>13. \A x \in Nat \ {0} : (\E j \in 1..Len(e.data) : e.data[j] = x) => Contains(new, x)
    <2>1. p + 1 \in 1..Len(new)
      BY <1>1, <1>2
    <2> QED BY <1>2, <2>1 DEF Contains
  <1> QED BY <1>2, <1>11, <1>12, <1>13 DEF new

\* The packets of a list do not overlap.
LEMMA ListDisjoint ==
  ASSUME PendingInv, AppType, NEW c \in Channels, NEW r \in Nat, NEW h \in Nat, NEW list,
         ListOK(c, list, r, h), NEW i \in 1..Len(list), NEW j \in 1..Len(list), i < j
  PROVE  Base(list[i]) + Len(list[i].data) <= Base(list[j])
  <1> DEFINE n == Base(list[i])
             k == Len(list[i].data)
             m == Base(list[j])
             l == Len(list[j].data)
  <1>1. /\ n \in Nat /\ k \in Nat \ {0} /\ Queued(c, n, k)
    BY EntryFields
  <1>2. m \in Nat /\ l \in Nat \ {0} /\ Queued(c, m, l)
    BY EntryFields
  <1>3. n < m
    BY DEF ListOK
  <1> HIDE DEF n, k, m, l
  <1>4. ~(m <= n + k - 1)
    <2> SUFFICES ASSUME m <= n + k - 1 PROVE FALSE
      OBVIOUS
    <2>1. n <= m
      BY <1>1, <1>2, <1>3
    <2>2. n = m
      BY <1>1, <1>2, <2>1, SamePacket
    <2> QED BY <1>1, <1>2, <1>3, <2>2
  <1>5. n + k <= m
    BY <1>1, <1>2, <1>4
  <1> QED BY <1>5 DEF n, k, m

\* The sequence number after the one of a position.
LEMMA NextSequenceNumber ==
  ASSUME NEW n \in Nat
  PROVE  /\ (SequenceNumber(n) + 1) % SequenceSpace = SequenceNumber(n + 1)
         /\ \A k \in Nat \ {0} :
              (SequenceNumber(n) + k - 1) % SequenceSpace = SequenceNumber(n + k - 1)
  <1>1. n \in Int /\ 1 \in Int /\ SequenceSpace \in Nat \ {0}
    BY SequenceSpaceType
  <1>2. ((n % SequenceSpace) + 1) % SequenceSpace = (n + 1) % SequenceSpace
    BY <1>1, ModShift, Zenon
  <1>3. ASSUME NEW k \in Nat \ {0}
        PROVE  ((n % SequenceSpace) + k - 1) % SequenceSpace = (n + k - 1) % SequenceSpace
    <2>1. k - 1 \in Int
      OBVIOUS
    <2>2. ((n % SequenceSpace) + (k - 1)) % SequenceSpace = (n + (k - 1)) % SequenceSpace
      BY <1>1, <2>1, ModShift, Zenon
    <2>3. n % SequenceSpace \in Int
      BY <1>1, DivMod
    <2>4. (n % SequenceSpace) + (k - 1) = (n % SequenceSpace) + k - 1 /\ n + (k - 1) = n + k - 1
      BY <1>1, <2>3
    <2> QED BY <2>2, <2>4
  <1> QED BY <1>2, <1>3 DEF SequenceNumber

\* The entries dispatched are the packets that follow position r.
LEMMA InOrderIs ==
  ASSUME PendingInv, AppType, NEW c \in Channels, NEW r \in Nat, NEW h \in Nat,
         NEW list \in Seq(IncomingCommand), ListOK(c, list, r, h), h < r + SequenceSpace,
         NEW k \in 1..Len(list)
  PROVE  InOrder(list, SequenceNumber(r), k) <=>
           \A i \in 1..k :
             /\ Complete(list[i])
             /\ Base(list[i]) = (IF i = 1 THEN r ELSE Base(list[i - 1]) + Len(list[i - 1].data) - 1) + 1
  <1>1. Len(list) \in Nat /\ \A i \in 1..k : i \in 1..Len(list)
    <2>1. Len(list) \in Nat
      BY LenProperties
    <2> QED BY <2>1
  <1>2. \A i \in 1..Len(list) : list[i].data \in Seq(Nat)
    <2>1. \A i \in 1..Len(list) : list[i] \in IncomingCommand
      BY ElementOfSeq
    <2> QED BY <2>1 DEF IncomingCommand
  \* The sequence number an entry has to have, and the position that means.
  <1>3. ASSUME NEW i \in 1..k, i # 1 => Complete(list[i - 1])
        PROVE  list[i].seq = ((IF i = 1 THEN SequenceNumber(r) ELSE LastSequenceNumber(list[i - 1])) + 1)
                                % SequenceSpace
               <=> Base(list[i]) = (IF i = 1 THEN r ELSE Base(list[i - 1]) + Len(list[i - 1].data) - 1) + 1
    <2> DEFINE b == Base(list[i])
               p == IF i = 1 THEN r ELSE Base(list[i - 1]) + Len(list[i - 1].data) - 1
               s == IF i = 1 THEN SequenceNumber(r) ELSE LastSequenceNumber(list[i - 1])
    <2>1. b \in Nat /\ r < b /\ b <= h /\ list[i].seq = SequenceNumber(b)
      BY <1>1, EntryFields
    <2>2. /\ p \in Nat /\ r <= p /\ p <= h /\ s = SequenceNumber(p)
      <3>1. CASE i = 1
        BY <2>1, <3>1
      <3>2. CASE i # 1
        <4> DEFINE n == Base(list[i - 1])
                   l == Len(list[i - 1].data)
        <4>1. i - 1 \in 1..Len(list)
          BY <1>1, <3>2
        <4>2. /\ n \in Nat /\ r < n /\ l \in Nat \ {0} /\ list[i - 1].seq = SequenceNumber(n)
          BY <4>1, EntryFields
        <4>3. n + l - 1 <= h
          BY <1>2, <1>3, <3>2, <4>1, EntryFields
        <4>4. s = (SequenceNumber(n) + l - 1) % SequenceSpace
          BY <3>2, <4>2 DEF LastSequenceNumber
        <4>5. s = SequenceNumber(n + l - 1)
          BY <4>2, <4>4, NextSequenceNumber
        <4>6. p = n + l - 1
          BY <3>2
        <4> HIDE DEF n, l, p, s
        <4> QED BY <4>2, <4>3, <4>5, <4>6
      <3> QED BY <3>1, <3>2
    <2> HIDE DEF b, p, s
    <2>3. (s + 1) % SequenceSpace = SequenceNumber(p + 1)
      BY <2>2, NextSequenceNumber
    <2>4. b < (p + 1) + SequenceSpace /\ p + 1 < b + SequenceSpace /\ p + 1 \in Nat
      BY <2>1, <2>2, SequenceSpaceType
    <2>5. SequenceNumber(b) = SequenceNumber(p + 1) <=> b = p + 1
      BY <2>1, <2>4, SameSequenceNumber
    <2>6. list[i].seq = (s + 1) % SequenceSpace <=> b = p + 1
      BY <2>1, <2>3, <2>5
    <2> QED BY <2>6 DEF b, p, s
  <1>4. ASSUME \A i \in 1..k : Complete(list[i]), NEW i \in 1..k
        PROVE  i # 1 => Complete(list[i - 1])
    <2>1. i # 1 => i - 1 \in 1..k
      BY <1>1
    <2> QED BY <1>4, <2>1
  <1> QED BY <1>3, <1>4 DEF InOrder

\* The head of a list waits for a packet before it, or for its own fragments.
HeadWaits(list, r) == list # <<>> => ~(Complete(list[1]) /\ Base(list[1]) = r + 1)

\* The entries new, of channel c, are the packets from r to q, in order.
Covers(c, new, r, q) ==
  /\ new \in Seq([ch : Channels, data : Seq(Nat)])
  /\ \A i \in 1..Len(new) :
       /\ new[i].ch = c
       /\ \E n \in Nat \ {0}, k \in FragmentCounts :
            new[i].data = Packet(n, k) /\ Queued(c, n, k) /\ r < n /\ n <= q
  /\ \A i, j \in 1..Len(new) : i < j => new[i].data[1] < new[j].data[1]
  /\ \A n \in Nat \ {0}, k \in FragmentCounts :
       Queued(c, n, k) /\ r < n /\ n <= q =>
         /\ n + k - 1 <= q
         /\ \E i \in 1..Len(new) : new[i] = [ch |-> c, data |-> Packet(n, k)]

\* The first k entries of list, all that follow position r without a gap, are
\* dispatched as new and leave rest; q is the last position dispatched.
Dispatches(c, r, list, k, q, rest, new) ==
  /\ k \in 0..Len(list)
  /\ InOrder(list, SequenceNumber(r), k)
  /\ k # Len(list) => ~InOrder(list, SequenceNumber(r), k + 1)
  /\ q = IF k = 0 THEN r ELSE Base(list[k]) + Len(list[k].data) - 1
  /\ rest = SubSeq(list, k + 1, Len(list))
  /\ new = [i \in 1..k |-> [ch |-> c, data |-> list[i].data]]

\* dispatch_incoming_reliable_commands takes exactly the packets that
\* follow r off the list.
LEMMA DispatchKeeps ==
  ASSUME PendingInv, AppType, NEW c \in Channels, NEW r \in Nat, NEW h \in Nat, r <= h,
         NEW list \in Seq(IncomingCommand), ListOK(c, list, r, h), h < r + SequenceSpace,
         NEW k, NEW q, NEW rest, NEW new, Dispatches(c, r, list, k, q, rest, new)
  PROVE  /\ q \in Nat /\ r <= q /\ q <= h
         /\ k # 0 => LastSequenceNumber(list[k]) = SequenceNumber(q)
         /\ rest \in Seq(IncomingCommand)
         /\ ListOK(c, rest, q, h)
         /\ HeadWaits(rest, q)
         /\ \A x \in Nat \ {0} : Contains(list, x) => x <= q \/ Contains(rest, x)
         /\ Covers(c, new, r, q)
  <1> DEFINE L == Len(list)
             b(i) == Base(list[i])
             l(i) == Len(list[i].data)
  <1>0. /\ k \in 0..Len(list)
        /\ InOrder(list, SequenceNumber(r), k)
        /\ k # Len(list) => ~InOrder(list, SequenceNumber(r), k + 1)
        /\ q = IF k = 0 THEN r ELSE Base(list[k]) + Len(list[k].data) - 1
        /\ rest = SubSeq(list, k + 1, Len(list))
        /\ new = [i \in 1..k |-> [ch |-> c, data |-> list[i].data]]
    BY DEF Dispatches
  <1> USE <1>0
  <1>1. L \in Nat /\ k \in Nat /\ k <= L /\ \A i \in 1..k : i \in 1..L
    <2>1. L \in Nat
      BY LenProperties
    <2> QED BY <2>1
  <1>2. \A i \in 1..L : list[i].data \in Seq(Nat)
    <2>1. \A i \in 1..L : list[i] \in IncomingCommand
      BY ElementOfSeq
    <2> QED BY <2>1 DEF IncomingCommand
  <1>3. \A i \in 1..L :
          /\ b(i) \in Nat \ {0} /\ r < b(i) /\ b(i) <= h
          /\ list[i].seq = SequenceNumber(b(i))
          /\ l(i) \in Nat \ {0} /\ l(i) \in FragmentCounts
          /\ Queued(c, b(i), l(i))
    <2>1. ASSUME NEW i \in 1..L
          PROVE  /\ Base(list[i]) \in Nat \ {0} /\ r < Base(list[i]) /\ Base(list[i]) <= h
                 /\ list[i].seq = SequenceNumber(Base(list[i]))
                 /\ Len(list[i].data) \in Nat \ {0}
                 /\ Queued(c, Base(list[i]), Len(list[i].data))
      BY EntryFields
    <2>2. ASSUME NEW i \in 1..L PROVE Len(list[i].data) \in FragmentCounts
      BY DEF ListOK
    <2> QED BY <2>1, <2>2
  <1>4. \A i, j \in 1..L : i < j => b(i) + l(i) <= b(j)
    BY ListDisjoint
  <1>5. \A i \in 1..k :
          /\ Complete(list[i])
          /\ b(i) = (IF i = 1 THEN r ELSE b(i - 1) + l(i - 1) - 1) + 1
    <2>1. CASE k = 0
      BY <2>1
    <2>2. CASE k # 0
      <3>1. k \in 1..L
        BY <1>1, <2>2
      <3> QED BY <3>1, InOrderIs
    <2> QED BY <2>1, <2>2
  <1>6. \A i \in 1..k : list[i].data = Packet(b(i), l(i)) /\ b(i) + l(i) - 1 <= h
    BY <1>1, <1>2, <1>5, EntryFields
  <1>7. /\ q \in Nat /\ r <= q /\ q <= h
        /\ \A i \in 1..k : b(i) + l(i) - 1 <= q
        /\ k # 0 => q = b(k) + l(k) - 1
    <2>1. CASE k = 0
      BY <2>1
    <2>2. CASE k # 0
      <3>1. k \in 1..k /\ k \in 1..L
        BY <1>1, <2>2
      <3>2. q = b(k) + l(k) - 1
        BY <2>2
      <3>3. b(k) \in Nat /\ l(k) \in Nat \ {0} /\ r < b(k) /\ b(k) + l(k) - 1 <= h
        BY <1>3, <1>6, <3>1
      <3> HIDE DEF b, l
      <3>4. ASSUME NEW i \in 1..k PROVE b(i) + l(i) - 1 <= q
        <4>1. CASE i = k
          BY <3>2, <3>3, <4>1
        <4>2. CASE i < k
          <5>1. b(i) + l(i) <= b(k) /\ b(i) \in Nat /\ l(i) \in Nat
            BY <1>1, <1>3, <1>4, <3>1, <4>2
          <5> QED BY <3>2, <3>3, <5>1
        <4> QED BY <1>1, <4>1, <4>2
      <3> QED BY <3>2, <3>3, <3>4
    <2> QED BY <2>1, <2>2
  <1>8. /\ rest \in Seq(IncomingCommand)
        /\ Len(rest) = L - k
        /\ \A j \in 1..(L - k) : rest[j] = list[k + j] /\ k + j \in 1..L
    <2>1. rest = SubSeq(list, k + 1, Len(list)) /\ k \in 0..Len(list)
      BY <1>1
    <2>2. /\ rest \in Seq(IncomingCommand)
          /\ Len(rest) = L - k
          /\ \A j \in 1..(L - k) : rest[j] = list[k + j]
      BY <2>1, TailElements
    <2> HIDE DEF L
    <2>3. ASSUME NEW j \in 1..(L - k) PROVE k + j \in 1..L
      BY <1>1
    <2> QED BY <2>2, <2>3
  <1> HIDE DEF L, b, l
  <1>9. ListOK(c, rest, q, h)
    <2>1. ASSUME NEW j \in 1..Len(rest)
          PROVE  /\ Assembles(rest[j], Base(rest[j]), h)
                 /\ q < Base(rest[j])
                 /\ Len(rest[j].data) \in FragmentCounts
                 /\ Queued(c, Base(rest[j]), Len(rest[j].data))
      <3>1. k + j \in 1..L /\ rest[j] = list[k + j]
        BY <1>8
      <3>2. /\ Assembles(rest[j], Base(rest[j]), h)
            /\ Len(rest[j].data) \in FragmentCounts
            /\ Queued(c, Base(rest[j]), Len(rest[j].data))
        BY <3>1 DEF ListOK, L
      <3>3. q < b(k + j)
        <4>1. b(k + j) \in Nat /\ r < b(k + j)
          BY <1>3, <3>1
        <4>2. CASE k = 0
          BY <4>1, <4>2
        <4>3. CASE k # 0
          <5>1. k \in 1..L /\ k < k + j
            <6>1. j \in 1..(L - k)
              BY <1>8
            <6> QED BY <1>1, <4>3, <6>1
          <5>2. b(k) + l(k) <= b(k + j) /\ b(k) \in Nat /\ l(k) \in Nat
            BY <1>3, <1>4, <3>1, <5>1
          <5> QED BY <1>7, <4>1, <4>3, <5>2
        <4> QED BY <4>2, <4>3
      <3> QED BY <3>1, <3>2, <3>3 DEF b
    <2>2. ASSUME NEW i \in 1..Len(rest), NEW j \in 1..Len(rest), i < j
          PROVE  Base(rest[i]) < Base(rest[j])
      <3>1. k + i \in 1..L /\ k + j \in 1..L /\ k + i < k + j
        BY <1>1, <1>8, <2>2
      <3>2. Base(list[k + i]) < Base(list[k + j])
        BY <3>1 DEF ListOK, L
      <3> QED BY <1>8, <3>2
    <2> QED BY <2>1, <2>2 DEF ListOK
  <1>10. HeadWaits(rest, q)
    <2> SUFFICES ASSUME rest # <<>>, Complete(rest[1]), Base(rest[1]) = q + 1 PROVE FALSE
      BY DEF HeadWaits
    <2>1. Len(rest) # 0
      BY <1>8, EmptySeq
    <2>2. k < L /\ rest[1] = list[k + 1] /\ k + 1 \in 1..L /\ k # L
      BY <1>1, <1>8, <2>1
    <2>3. Complete(list[k + 1]) /\ b(k + 1) = q + 1
      BY <2>2 DEF b
    <2>4. ASSUME NEW i \in 1..(k + 1)
          PROVE  /\ Complete(list[i])
                 /\ b(i) = (IF i = 1 THEN r ELSE b(i - 1) + l(i - 1) - 1) + 1
      <3>1. CASE i \in 1..k
        BY <1>5, <3>1
      <3>2. CASE i = k + 1 /\ k = 0
        BY <1>7, <2>3, <3>2
      <3>3. CASE i = k + 1 /\ k # 0
        <4>1. i # 1 /\ i - 1 = k
          BY <1>1, <3>3
        <4> QED BY <1>7, <2>3, <3>3, <4>1
      <3> QED BY <1>1, <3>1, <3>2, <3>3
    <2>5. \A i \in 1..(k + 1) :
            /\ Complete(list[i])
            /\ Base(list[i]) = (IF i = 1 THEN r ELSE Base(list[i - 1]) + Len(list[i - 1].data) - 1) + 1
      BY <2>4 DEF b, l
    <2>6. InOrder(list, SequenceNumber(r), k + 1)
      <3>1. k + 1 \in 1..Len(list)
        BY <2>2 DEF L
      <3> QED BY <2>5, <3>1, InOrderIs
    <2> QED BY <2>2, <2>6 DEF L
  <1>11. ASSUME NEW x \in Nat \ {0}, Contains(list, x)
         PROVE  x <= q \/ Contains(rest, x)
    <2>1. PICK i \in 1..L : \E j \in 1..Len(list[i].data) : list[i].data[j] = x
      BY <1>11 DEF Contains, L
    <2>2. PICK j \in 1..Len(list[i].data) : list[i].data[j] = x
      BY <2>1
    <2>3. CASE i \in 1..k
      <3>1. list[i].data = Packet(b(i), l(i)) /\ b(i) + l(i) - 1 <= q
        BY <1>6, <1>7, <2>3
      <3>2. b(i) \in Nat /\ l(i) \in Nat \ {0}
        BY <1>3
      <3>3. j \in 1..l(i)
        BY <2>2 DEF l
      <3>4. x = b(i) + j - 1
        <4>1. Packet(b(i), l(i))[j] = b(i) + j - 1
          BY <3>2, <3>3, PacketFields
        <4> QED BY <2>2, <3>1, <4>1
      <3> DEFINE u == b(i)
                 v == l(i)
      <3>5. /\ u \in Nat /\ v \in Nat /\ j \in 1..v /\ x = u + j - 1 /\ u + v - 1 <= q /\ q \in Nat
        BY <1>7, <3>1, <3>2, <3>3, <3>4
      <3> HIDE DEF u, v
      <3> QED BY <3>5
    <2>4. CASE i \notin 1..k
      <3>1. i - k \in 1..(L - k) /\ k + (i - k) = i
        BY <1>1, <2>4
      <3>2. i - k \in 1..Len(rest) /\ rest[i - k] = list[i]
        BY <1>8, <3>1
      <3> QED BY <2>2, <3>2 DEF Contains
    <2> QED BY <2>3, <2>4
  <1>12. /\ new \in Seq([ch : Channels, data : Seq(Nat)]) /\ Len(new) = k
         /\ \A i \in 1..k : new[i] = [ch |-> c, data |-> Packet(b(i), l(i))]
    <2>1. /\ \A i \in 1..k : [ch |-> c, data |-> list[i].data] \in [ch : Channels, data : Seq(Nat)]
      BY <1>1, <1>2
    <2>2. new \in Seq([ch : Channels, data : Seq(Nat)]) /\ Len(new) = k
      BY <1>1, <2>1
    <2>3. \A i \in 1..k : new[i] = [ch |-> c, data |-> list[i].data]
      OBVIOUS
    <2> QED BY <1>6, <2>2, <2>3
  <1>13. Covers(c, new, r, q)
    <2>1. ASSUME NEW i \in 1..Len(new)
          PROVE  /\ new[i].ch = c
                 /\ \E n \in Nat \ {0}, m \in FragmentCounts :
                      new[i].data = Packet(n, m) /\ Queued(c, n, m) /\ r < n /\ n <= q
      <3>1. i \in 1..k /\ i \in 1..L
        BY <1>1, <1>12
      <3>2. new[i].ch = c /\ new[i].data = Packet(b(i), l(i))
        BY <1>12, <3>1
      <3>3. /\ b(i) \in Nat \ {0} /\ l(i) \in FragmentCounts /\ l(i) \in Nat \ {0}
            /\ Queued(c, b(i), l(i)) /\ r < b(i)
            /\ b(i) + l(i) - 1 <= q
        BY <1>3, <1>7, <3>1
      <3>4. b(i) <= q
        BY <1>7, <3>3
      <3> QED BY <3>2, <3>3, <3>4
    <2>2. ASSUME NEW i \in 1..Len(new), NEW j \in 1..Len(new), i < j
          PROVE  new[i].data[1] < new[j].data[1]
      <3>1. i \in 1..k /\ j \in 1..k /\ i \in 1..L /\ j \in 1..L
        BY <1>1, <1>12
      <3>2. new[i].data = Packet(b(i), l(i)) /\ new[j].data = Packet(b(j), l(j))
        BY <1>12, <3>1
      <3>3. /\ b(i) \in Nat /\ l(i) \in Nat \ {0} /\ b(j) \in Nat /\ l(j) \in Nat \ {0}
            /\ b(i) + l(i) <= b(j)
        BY <1>3, <1>4, <2>2, <3>1
      <3>4. Packet(b(i), l(i))[1] = b(i) /\ Packet(b(j), l(j))[1] = b(j)
        BY <3>3, PacketFields
      <3>5. new[i].data[1] = b(i) /\ new[j].data[1] = b(j)
        BY <3>2, <3>4
      <3>6. b(i) < b(j)
        BY <3>3
      <3> QED BY <3>5, <3>6
    <2>3. ASSUME NEW n \in Nat \ {0}, NEW m \in FragmentCounts, Queued(c, n, m), r < n, n <= q
          PROVE  /\ n + m - 1 <= q
                 /\ \E i \in 1..Len(new) : new[i] = [ch |-> c, data |-> Packet(n, m)]
      <3> DEFINE T == {i \in 1..(k + 1) : i = k + 1 \/ n < b(i)}
      <3>1. k # 0
        BY <1>7, <2>3
      <3>2. PICK i \in T : \A j \in T : i <= j
        <4>1. T \in SUBSET Nat /\ k + 1 \in T
          BY <1>1
        <4> HIDE DEF T
        <4> QED BY <4>1, LeastNumber
      <3>3. 1 \notin T
        <4>1. 1 \in 1..k
          BY <1>1, <3>1
        <4>2. b(1) = r + 1
          BY <1>5, <4>1
        <4> QED BY <1>1, <2>3, <3>1, <4>2
      <3>4. i \in 1..(k + 1) /\ i # 1 /\ i - 1 \in 1..k
        BY <1>1, <3>2, <3>3
      <3> DEFINE o == i - 1
      <3>5. /\ o \in 1..k /\ o \in 1..L /\ b(o) <= n
        <4>1. o \notin T
          BY <3>2, <3>4
        <4>2. o \in 1..(k + 1) /\ o # k + 1 /\ o \in 1..L
          BY <1>1, <3>4
        <4>3. ~(n < b(o)) /\ b(o) \in Nat
          BY <1>3, <4>1, <4>2
        <4> QED BY <3>4, <4>2, <4>3
      <3>6. n < b(o) + l(o)
        <4>1. b(o) \in Nat /\ l(o) \in Nat
          BY <1>3, <3>5
        <4>2. CASE i = k + 1
          BY <1>1, <1>7, <2>3, <3>1, <4>1, <4>2
        <4>3. CASE i # k + 1
          <5>1. i \in 1..k /\ n < b(i)
            BY <1>1, <3>2, <4>3
          <5>2. b(i) = (b(o) + l(o) - 1) + 1
            BY <1>5, <3>4, <5>1
          <5> QED BY <4>1, <5>1, <5>2
        <4> QED BY <4>2, <4>3
      <3> HIDE DEF o
      <3>7. b(o) = n /\ l(o) = m
        <4>1. b(o) \in Nat /\ l(o) \in Nat \ {0} /\ Queued(c, b(o), l(o)) /\ m \in Nat \ {0}
          BY <1>3, <3>5, LimitAssumption
        <4>2. n <= b(o) + l(o) - 1
          BY <3>6, <4>1
        <4> QED BY <2>3, <3>5, <4>1, <4>2, SamePacket
      <3>8. n + m - 1 <= q
        BY <1>7, <3>5, <3>7
      <3>9. o \in 1..Len(new) /\ new[o] = [ch |-> c, data |-> Packet(n, m)]
        BY <1>12, <3>5, <3>7
      <3> QED BY <3>8, <3>9
    <2> QED BY <1>12, <2>1, <2>2, <2>3 DEF Covers
  <1>14. k # 0 => LastSequenceNumber(list[k]) = SequenceNumber(q)
    <2> SUFFICES ASSUME k # 0 PROVE LastSequenceNumber(list[k]) = SequenceNumber(q)
      OBVIOUS
    <2>1. k \in 1..L
      BY <1>1
    <2>2. b(k) \in Nat /\ l(k) \in Nat \ {0} /\ list[k].seq = SequenceNumber(b(k))
      BY <1>3, <2>1
    <2>3. LastSequenceNumber(list[k]) = (SequenceNumber(b(k)) + l(k) - 1) % SequenceSpace
      BY <2>2 DEF LastSequenceNumber, l
    <2>4. (SequenceNumber(b(k)) + l(k) - 1) % SequenceSpace = SequenceNumber(b(k) + l(k) - 1)
      BY <2>2, NextSequenceNumber
    <2> QED BY <1>7, <2>3, <2>4
  <1> QED BY <1>7, <1>8, <1>9, <1>10, <1>11, <1>13, <1>14

-----------------------------------------------------------------------------
(* The inductive invariant.  R[c] is the position of the last command of   *)
(* channel c that was dispatched; the code keeps its sequence number.      *)

\* The receiver is not behind by more than the windows the sender keeps free.
PositionInv(H, R) ==
  \A c \in Channels :
    /\ R[c] <= H[c]
    /\ incomingReliableSequenceNumber[c] = SequenceNumber(R[c])
    /\ Window(H[c]) <= Window(R[c]) + FreeWindows - 1

ListInv(H, R) ==
  \A c \in Channels :
    /\ ListOK(c, incomingReliableCommands[c], R[c], H[c])
    /\ HeadWaits(incomingReliableCommands[c], R[c])

\* The packets dispatched are the ones up to R[c] not yet received, in order.
DispatchedInv(R) ==
  /\ \A i \in 1..Len(dispatchedCommands) :
       \E n \in Nat \ {0}, k \in FragmentCounts :
         /\ dispatchedCommands[i].data = Packet(n, k)
         /\ Queued(dispatchedCommands[i].ch, n, k)
         /\ n <= R[dispatchedCommands[i].ch]
  /\ \A i, j \in 1..Len(dispatchedCommands) :
       i < j /\ dispatchedCommands[i].ch = dispatchedCommands[j].ch =>
         dispatchedCommands[i].data[1] < dispatchedCommands[j].data[1]
  /\ \A c \in Channels : \A n \in Nat \ {0}, k \in FragmentCounts :
       Queued(c, n, k) /\ n <= R[c] =>
         /\ n + k - 1 <= R[c]
         /\ \E i \in 1..Len(dispatchedCommands) :
              dispatchedCommands[i] = [ch |-> c, data |-> Packet(n, k)]

\* A command is part of a packet not dispatched yet, or of an old one.
CommandOK(m, R) ==
  /\ m.count \in FragmentCounts
  /\ 0 < m.start /\ m.start <= m.num /\ m.num <= m.start + m.count - 1
  /\ IF R[m.ch] < m.start THEN Queued(m.ch, m.start, m.count)
                          ELSE m.start + m.count - 1 <= R[m.ch]

CommandInv(R) ==
  /\ \A m \in Outstanding \cup dataNet : CommandOK(m, R)
  /\ \A i \in 1..Len(unsent) : CommandOK(unsent[i], R)

\* The receiver has position n, and may acknowledge it.
AcknowledgementOK(c, n, R) ==
  /\ n <= R[c] \/ Contains(incomingReliableCommands[c], n)
  /\ Window(n) <= Window(R[c]) + FreeWindows - 2

\* What is acknowledged, now or before, the receiver has.
HeldInv(H, R) ==
  /\ \A a \in ackNet \cup acknowledgements : AcknowledgementOK(a.ch, a.num, R)
  /\ \A c \in Channels : \A n \in Nat :
       n <= H[c] /\ ~Waits(c, n) => AcknowledgementOK(c, n, R)

DeliveryInv(H, R) ==
  /\ PositionInv(H, R)
  /\ ListInv(H, R)
  /\ DispatchedInv(R)
  /\ CommandInv(R)
  /\ HeldInv(H, R)

DeliveryTyped == Typed /\ AppType /\ PendingInv

\* A channel has less than a sequence space sent and not dispatched.
LEMMA SentFits ==
  ASSUME NEW h \in Nat, NEW r \in Nat, Window(h) <= Window(r) + FreeWindows - 1
  PROVE  h < r + SequenceSpace
  <1> DEFINE u == Window(h)
             v == Window(r)
  <1>1. /\ u \in Int /\ v \in Int /\ h < WindowSize * u + WindowSize /\ WindowSize * v <= r
        /\ u <= v + FreeWindows - 1
    BY WindowBounds
  <1>2. /\ WindowSize \in Nat \ {0} /\ FreeWindows \in Nat /\ ReliableWindows \in Nat
        /\ FreeWindows <= ReliableWindows
    BY WindowAssumption
  <1> HIDE DEF u, v
  <1>3. WindowSize * u <= WindowSize * (v + FreeWindows - 1)
    BY <1>1, <1>2, SMT
  <1>4. /\ WindowSize * (v + FreeWindows - 1) = WindowSize * v + WindowSize * FreeWindows - WindowSize
        /\ WindowSize * FreeWindows <= ReliableWindows * WindowSize
        /\ WindowSize * u \in Int /\ WindowSize * v \in Int /\ WindowSize * FreeWindows \in Int
        /\ ReliableWindows * WindowSize \in Int
    BY <1>1, <1>2, SMT
  <1> QED BY <1>1, <1>2, <1>3, <1>4, SMT DEF SequenceSpace

\* A command that was sent, seen from the receiver.
LEMMA CommandReceived ==
  ASSUME NEW H \in [Channels -> Nat], NEW R \in [Channels -> Nat],
         DeliveryTyped, StreamInv(H), DeliveryInv(H, R), NEW m \in dataNet
  PROVE  /\ m.ch \in Channels
         /\ m.num \in Nat \ {0} /\ m.start \in Nat \ {0} /\ m.count \in Nat \ {0}
         /\ m.count \in FragmentCounts
         /\ m.start <= m.num /\ m.num <= m.start + m.count - 1
         /\ m.num <= H[m.ch] /\ H[m.ch] <= m.num + Reach
         /\ R[m.ch] \in Nat /\ H[m.ch] \in Nat
         /\ R[m.ch] <= H[m.ch] /\ H[m.ch] < R[m.ch] + SequenceSpace
         /\ Window(m.num) <= Window(R[m.ch]) + FreeWindows - 1
         /\ incomingReliableSequenceNumber[m.ch] = SequenceNumber(R[m.ch])
         /\ IF R[m.ch] < m.start THEN Queued(m.ch, m.start, m.count)
                                 ELSE m.start + m.count - 1 <= R[m.ch]
  <1>1. m.ch \in Channels /\ m.num \in Nat /\ m.start \in Nat /\ m.count \in Nat
    BY DEF DeliveryTyped, Typed, NetType, Command
  <1>2. CommandOK(m, R)
    BY DEF DeliveryInv, CommandInv
  <1>3. m.num <= H[m.ch] /\ H[m.ch] <= m.num + Reach
    BY DEF StreamInv, DataRecent
  <1>4. /\ R[m.ch] <= H[m.ch] /\ incomingReliableSequenceNumber[m.ch] = SequenceNumber(R[m.ch])
        /\ Window(H[m.ch]) <= Window(R[m.ch]) + FreeWindows - 1
        /\ H[m.ch] \in Nat /\ R[m.ch] \in Nat
    BY <1>1 DEF DeliveryInv, PositionInv
  <1>5. H[m.ch] < R[m.ch] + SequenceSpace
    BY <1>4, SentFits
  <1>6. Window(m.num) <= Window(R[m.ch]) + FreeWindows - 1
    <2>1. m.num \in Int /\ H[m.ch] \in Int /\ R[m.ch] \in Int
      BY <1>1, <1>4
    <2>2. Window(m.num) <= Window(H[m.ch]) /\ Window(m.num) \in Int /\ Window(H[m.ch]) \in Int
          /\ Window(R[m.ch]) \in Int
      BY <1>3, <2>1, WindowBounds
    <2> QED BY <1>4, <2>2, WindowAssumption
  <1>7. m.num \in Nat \ {0} /\ m.start \in Nat \ {0} /\ m.count \in Nat \ {0}
    BY <1>1, <1>2, LimitAssumption DEF CommandOK
  <1> QED BY <1>1, <1>2, <1>3, <1>4, <1>5, <1>6, <1>7 DEF CommandOK

-----------------------------------------------------------------------------
(* The steps that leave the received packets alone.                        *)

\* Nothing new is sent and nothing stored; what is acknowledged is held.
LEMMA NothingReceived ==
  ASSUME NEW H \in [Channels -> Nat], NEW R \in [Channels -> Nat],
         DeliveryTyped, DeliveryInv(H, R),
         UNCHANGED <<incomingReliableSequenceNumber, incomingReliableCommands,
                     dispatchedCommands, pending, unsent>>,
         Outstanding' \subseteq Outstanding,
         \A m \in Outstanding \ Outstanding' : AcknowledgementOK(m.ch, m.num, R),
         dataNet' \subseteq dataNet \cup Outstanding,
         \A a \in ackNet' \cup acknowledgements' :
           a \in ackNet \cup acknowledgements \/ AcknowledgementOK(a.ch, a.num, R)
  PROVE  DeliveryInv(H, R)'
  <1>1. \A c, n, k : Queued(c, n, k)' <=> Queued(c, n, k)
    BY DEF Queued
  <1>2. PositionInv(H, R)'
    BY DEF DeliveryInv, PositionInv
  <1>3. ListInv(H, R)'
    BY <1>1 DEF DeliveryInv, ListInv, ListOK
  <1>4. DispatchedInv(R)'
    BY <1>1 DEF DeliveryInv, DispatchedInv
  <1>5. \A m : CommandOK(m, R)' <=> CommandOK(m, R)
    BY <1>1 DEF CommandOK
  <1>6. CommandInv(R)'
    BY <1>5 DEF DeliveryInv, CommandInv
  <1>7. \A c, n : AcknowledgementOK(c, n, R)' <=> AcknowledgementOK(c, n, R)
    BY DEF AcknowledgementOK
  <1>8. HeldInv(H, R)'
    <2>1. \A a \in ackNet' \cup acknowledgements' : AcknowledgementOK(a.ch, a.num, R)'
      BY <1>7 DEF DeliveryInv, HeldInv
    <2>2. ASSUME NEW c \in Channels, NEW n \in Nat, n <= H[c], ~Waits(c, n)'
          PROVE  AcknowledgementOK(c, n, R)'
      <3>1. CASE Waits(c, n)
        <4>1. PICK m \in Outstanding : m.ch = c /\ m.num = n
          BY <3>1 DEF Waits
        <4>2. m \notin Outstanding'
          BY <2>2, <4>1 DEF Waits
        <4> QED BY <1>7, <4>1, <4>2
      <3>2. CASE ~Waits(c, n)
        BY <1>7, <2>2, <3>2 DEF DeliveryInv, HeldInv
      <3> QED BY <3>1, <3>2
    <2> QED BY <2>1, <2>2 DEF HeldInv
  <1> QED BY <1>2, <1>3, <1>4, <1>6, <1>8 DEF DeliveryInv

\* An acknowledged command leaves the sender, and the receiver has it.
LEMMA HandleAcknowledgeDelivery ==
  ASSUME NEW H \in [Channels -> Nat], NEW R \in [Channels -> Nat],
         DeliveryTyped, StreamInv(H), DeliveryInv(H, R),
         NEW a \in ackNet, NEW net \in SUBSET ackNet, HandleAcknowledge(a, net)
  PROVE  DeliveryInv(H, R)'
  <1>1. /\ UNCHANGED <<incomingReliableSequenceNumber, incomingReliableCommands,
                       dispatchedCommands, pending, unsent, acknowledgements, dataNet>>
        /\ ackNet' \subseteq ackNet
    BY DEF HandleAcknowledge, receiverVars, appVars
  <1>2. /\ Outstanding' \subseteq Outstanding
        /\ \A m \in Outstanding \ Outstanding' : m.ch = a.ch /\ m.num = a.num
    <2>1. CASE FindSentReliableCommand(a) = {} /\ UNCHANGED <<resend, sentReliableCommands>>
      BY <2>1 DEF Outstanding
    <2>2. CASE \E m \in FindSentReliableCommand(a) : RemoveSentReliableCommand(m)
      <3>1. PICK m \in FindSentReliableCommand(a) : RemoveSentReliableCommand(m)
        BY <2>2
      <3>2. m.ch = a.ch /\ m.num = a.num
        BY MatchFromInv DEF DeliveryTyped
      <3>3. /\ sentReliableCommands' = sentReliableCommands \ {m}
            /\ resend' = resend \/ resend' = resend \ {m}
        BY <3>1 DEF RemoveSentReliableCommand
      <3> QED BY <3>2, <3>3 DEF Outstanding
    <2> QED BY <2>1, <2>2 DEF HandleAcknowledge
  <1>3. AcknowledgementOK(a.ch, a.num, R)
    BY DEF DeliveryInv, HeldInv
  <1> QED BY <1>1, <1>2, <1>3, NothingReceived

\* enet_peer_send adds a packet behind all that is on its way.
LEMMA EnetPeerSendDelivery ==
  ASSUME NEW H \in [Channels -> Nat], NEW R \in [Channels -> Nat],
         DeliveryTyped, StreamInv(H), DeliveryInv(H, R),
         NEW c \in Channels, NEW k \in FragmentCounts, EnetPeerSend(c, k)
  PROVE  DeliveryInv(H, R)' /\ PendingInv'
  <1> DEFINE top == outgoingReliableSequenceNumber[c]
             packet == Packet(top + 1, k)
             P == pending[c]
             new == PacketCommands(c, top + 1, k)
  <1>1. /\ top \in Nat /\ k \in Nat \ {0} /\ R[c] \in Nat /\ H[c] \in Nat
        /\ R[c] <= H[c] /\ H[c] <= top
    BY LimitAssumption, CommandFields
       DEF DeliveryTyped, Typed, SenderInv, StreamInv, SentUpTo, DeliveryInv, PositionInv
  <1>2. /\ pending' = [pending EXCEPT ![c] = Append(P, packet)]
        /\ outgoingReliableSequenceNumber' = [outgoingReliableSequenceNumber EXCEPT ![c] = top + k]
        /\ unsent' = unsent \o new
        /\ UNCHANGED <<incomingReliableSequenceNumber, incomingReliableCommands,
                       dispatchedCommands, acknowledgements, ackNet, dataNet>>
        /\ Outstanding' = Outstanding
    BY DEF EnetPeerSend, receiverVars, netVars, Outstanding
  <1>3. /\ pending \in [Channels -> Seq(Seq(Nat))]
        /\ \A d \in Channels : Len(pending[d]) \in Nat
        /\ P \in Seq(Seq(Nat)) /\ Len(P) \in Nat
    <2>1. pending \in [Channels -> Seq(Seq(Nat))]
      BY DEF DeliveryTyped, AppType
    <2> QED BY <2>1, LenProperties
  <1>4. /\ packet \in Seq(Nat) /\ Len(packet) = k /\ packet[1] = top + 1 /\ packet[k] = top + k
    <2>1. top + 1 \in Nat /\ (top + 1) + k - 1 = top + k
      BY <1>1
    <2> QED BY <1>1, <2>1, PacketFields
  <1>5. /\ new \in Seq(Command) /\ Len(new) = k
        /\ \A i \in 1..k : new[i] = [ch |-> c, num |-> (top + 1) + i - 1, start |-> top + 1, count |-> k]
    BY <1>1 DEF PacketCommands, Command
  <1> HIDE DEF packet, P, new, top
  <1>6. /\ Len(Append(P, packet)) = Len(P) + 1
        /\ Append(P, packet)[Len(P) + 1] = packet
        /\ \A x \in 1..Len(P) : Append(P, packet)[x] = P[x]
    <2>1. P \in Seq(Seq(Nat)) /\ packet \in Seq(Nat)
      BY <1>3, <1>4
    <2>2. \A x \in 1..(Len(P) + 1) :
            Append(P, packet)[x] = IF x <= Len(P) THEN P[x] ELSE packet
      BY <2>1, AppendProperties
    <2>3. Len(P) + 1 \in 1..(Len(P) + 1) /\ ~(Len(P) + 1 <= Len(P))
          /\ \A x \in 1..Len(P) : x \in 1..(Len(P) + 1) /\ x <= Len(P)
      BY <1>3
    <2> QED BY <2>1, <2>2, <2>3, AppendProperties
  <1>7. /\ Len(pending'[c]) = Len(P) + 1
        /\ pending'[c][Len(P) + 1] = packet
        /\ \A x \in 1..Len(P) : pending'[c][x] = P[x]
        /\ \A d \in Channels \ {c} : pending'[d] = pending[d]
    <2>1. pending'[c] = Append(P, packet) /\ \A d \in Channels \ {c} : pending'[d] = pending[d]
      BY <1>2, <1>3
    <2> QED BY <1>6, <2>1
  <1>8. ASSUME NEW d \in Channels, NEW n, NEW l, Queued(d, n, l)
        PROVE  Queued(d, n, l)'
    <2>1. PICK x \in 1..Len(pending[d]) : pending[d][x] = Packet(n, l)
      BY <1>8 DEF Queued
    <2>2. CASE d = c
      <3>1. x \in 1..Len(P) /\ P[x] = Packet(n, l)
        BY <2>1, <2>2 DEF P
      <3>2. x \in 1..(Len(P) + 1)
        BY <1>3, <3>1
      <3>3. x \in 1..Len(pending'[c]) /\ pending'[c][x] = Packet(n, l)
        BY <1>7, <3>1, <3>2
      <3> QED BY <2>2, <3>3 DEF Queued
    <2>3. CASE d # c
      BY <1>7, <2>1, <2>3 DEF Queued
    <2> QED BY <2>2, <2>3
  <1>9. ASSUME NEW d \in Channels, NEW n \in Nat \ {0}, NEW l \in FragmentCounts, Queued(d, n, l)',
               n <= R[d]
        PROVE  Queued(d, n, l)
    <2>1. PICK x \in 1..Len(pending'[d]) : pending'[d][x] = Packet(n, l)
      BY <1>9 DEF Queued
    <2>2. CASE d = c
      <3>1. CASE x = Len(P) + 1
        <4>1. Packet(n, l) = packet
          BY <1>7, <2>1, <2>2, <3>1
        <4>2. Packet(n, l)[1] = n
          BY LimitAssumption, PacketFields
        <4> QED BY <1>1, <1>4, <1>9, <2>2, <4>1, <4>2
      <3>2. CASE x # Len(P) + 1
        <4>1. x \in 1..Len(P)
          BY <1>3, <1>7, <2>2, <3>2
        <4> QED BY <1>7, <2>1, <2>2, <4>1 DEF Queued, P
      <3> QED BY <3>1, <3>2
    <2>3. CASE d # c
      BY <1>7, <2>1, <2>3 DEF Queued
    <2> QED BY <2>2, <2>3
  <1>10. PositionInv(H, R)'
    BY <1>2 DEF DeliveryInv, PositionInv
  <1>11. ListInv(H, R)'
    <2>1. ASSUME NEW d \in Channels PROVE ListOK(d, incomingReliableCommands[d], R[d], H[d])'
      <3>1. ListOK(d, incomingReliableCommands[d], R[d], H[d])
        BY DEF DeliveryInv, ListInv
      <3> QED BY <1>2, <1>8, <3>1 DEF ListOK
    <2>2. \A d \in Channels : HeadWaits(incomingReliableCommands[d], R[d])'
      BY <1>2 DEF DeliveryInv, ListInv
    <2> QED BY <2>1, <2>2 DEF ListInv
  <1>12. DispatchedInv(R)'
    <2>1. DispatchedInv(R)
      BY DEF DeliveryInv
    <2>2. ASSUME NEW i \in 1..Len(dispatchedCommands')
          PROVE  \E n \in Nat \ {0}, l \in FragmentCounts :
                   /\ dispatchedCommands'[i].data = Packet(n, l)
                   /\ Queued(dispatchedCommands[i].ch, n, l)'
                   /\ n <= R[dispatchedCommands'[i].ch]
      <3>1. dispatchedCommands[i].ch \in Channels
        <4>1. dispatchedCommands \in Seq([ch : Channels, data : Seq(Nat)])
          BY DEF DeliveryTyped, Typed, ReceiverType
        <4>2. dispatchedCommands[i] \in [ch : Channels, data : Seq(Nat)]
          BY <1>2, <4>1, ElementOfSeq
        <4> QED BY <4>2
      <3>2. PICK n \in Nat \ {0}, l \in FragmentCounts :
                   /\ dispatchedCommands[i].data = Packet(n, l)
                   /\ Queued(dispatchedCommands[i].ch, n, l)
                   /\ n <= R[dispatchedCommands[i].ch]
        BY <1>2, <2>1 DEF DispatchedInv
      <3>3. PICK d \in Channels : d = dispatchedCommands[i].ch
        BY <3>1
      <3>4. Queued(d, n, l)'
        BY <1>8, <3>2, <3>3
      <3>5. d = dispatchedCommands'[i].ch
        BY <1>2, <3>3
      <3>6. Queued(dispatchedCommands[i].ch, n, l)'
        BY <3>4, <3>5 DEF Queued
      <3> QED BY <1>2, <3>2, <3>6
    <2>3. ASSUME NEW d \in Channels, NEW n \in Nat \ {0}, NEW l \in FragmentCounts,
                 Queued(d, n, l)', n <= R[d]
          PROVE  /\ n + l - 1 <= R[d]
                 /\ \E i \in 1..Len(dispatchedCommands') :
                      dispatchedCommands'[i] = [ch |-> d, data |-> Packet(n, l)]
      BY <1>2, <1>9, <2>1, <2>3 DEF DispatchedInv
    <2>4. \A i, j \in 1..Len(dispatchedCommands') :
            i < j /\ dispatchedCommands'[i].ch = dispatchedCommands'[j].ch =>
              dispatchedCommands'[i].data[1] < dispatchedCommands'[j].data[1]
      BY <1>2, <2>1 DEF DispatchedInv
    <2> QED BY <2>2, <2>3, <2>4 DEF DispatchedInv, Queued
  <1>13. ASSUME NEW m, m.ch \in Channels, CommandOK(m, R) PROVE CommandOK(m, R)'
    BY <1>8, <1>13 DEF CommandOK
  <1>14. CommandInv(R)'
    <2>1. ASSUME NEW m \in Outstanding' \cup dataNet' PROVE CommandOK(m, R)'
      <3>1. m.ch \in Channels /\ CommandOK(m, R)
        BY <1>2, CommandFields DEF DeliveryTyped, Typed, SenderInv, NetType, Command, DeliveryInv, CommandInv
      <3> QED BY <1>13, <3>1
    <2>2. ASSUME NEW i \in 1..Len(unsent') PROVE CommandOK(unsent[i], R)'
      <3>1. unsent \in Seq(Command) /\ Len(unsent) \in Nat
        BY CommandFields DEF DeliveryTyped, Typed, SenderInv, SenderType
      <3>2. /\ Len(unsent') = Len(unsent) + k
            /\ \A j \in 1..Len(unsent) : unsent'[j] = unsent[j]
            /\ \A j \in 1..k : unsent'[Len(unsent) + j] = new[j]
        <4>1. new \in Seq(Command) /\ unsent \in Seq(Command)
          BY <1>5, <3>1
        <4>2. /\ Len(unsent \o new) = Len(unsent) + Len(new)
              /\ \A j \in 1..Len(unsent) : (unsent \o new)[j] = unsent[j]
              /\ \A j \in 1..Len(new) : (unsent \o new)[Len(unsent) + j] = new[j]
          BY <4>1, ConcatParts, SMTT(30)
        <4> QED BY <1>2, <1>5, <4>2
      <3>3. CASE i \in 1..Len(unsent)
        <4>1. CommandOK(unsent[i], R) /\ unsent[i].ch \in Channels /\ unsent'[i] = unsent[i]
          BY <3>2, <3>3, CommandFields DEF DeliveryTyped, Typed, SenderInv, DeliveryInv, CommandInv
        <4>2. PICK m : m = unsent[i]
          OBVIOUS
        <4>3. CommandOK(m, R)'
          BY <1>13, <4>1, <4>2
        <4> QED BY <4>1, <4>2, <4>3
      <3>4. CASE i \notin 1..Len(unsent)
        <4> DEFINE j == i - Len(unsent)
        <4>1. j \in 1..k /\ Len(unsent) + j = i
          BY <1>1, <3>1, <3>2, <3>4
        <4>2. unsent'[i] = new[j]
          BY <3>2, <4>1
        <4> HIDE DEF j
        <4>3. unsent'[i] = [ch |-> c, num |-> (top + 1) + j - 1, start |-> top + 1, count |-> k]
          BY <1>5, <4>1, <4>2
        <4>4. /\ unsent'[i].ch = c /\ unsent'[i].num = (top + 1) + j - 1
              /\ unsent'[i].start = top + 1 /\ unsent'[i].count = k
          BY <4>3
        <4>5. /\ 0 < top + 1 /\ top + 1 <= (top + 1) + j - 1
              /\ (top + 1) + j - 1 <= (top + 1) + k - 1 /\ R[c] < top + 1
          BY <1>1, <4>1
        <4>6. \E x \in 1..Len(pending'[c]) : pending'[c][x] = Packet(top + 1, k)
          <5>1. Len(P) + 1 \in 1..Len(pending'[c])
            BY <1>3, <1>7
          <5>2. pending'[c][Len(P) + 1] = Packet(top + 1, k)
            BY <1>7 DEF packet
          <5> QED BY <5>1, <5>2
        <4> QED BY <4>4, <4>5, <4>6 DEF CommandOK, Queued
      <3> QED BY <3>3, <3>4
    <2> QED BY <2>1, <2>2 DEF CommandInv
  <1>15. HeldInv(H, R)'
    <2>1. \A d, n : AcknowledgementOK(d, n, R)' <=> AcknowledgementOK(d, n, R)
      BY <1>2 DEF AcknowledgementOK
    <2>2. \A d, n : Waits(d, n)' <=> Waits(d, n)
      BY <1>2 DEF Waits
    <2> QED BY <1>2, <2>1, <2>2 DEF DeliveryInv, HeldInv
  <1>16. PendingInv'
    <2>1. ASSUME NEW d \in Channels, NEW x \in 1..Len(pending'[d])
          PROVE  \E n \in Nat \ {0}, l \in FragmentCounts :
                   /\ pending'[d][x] = Packet(n, l)
                   /\ n + l - 1 <= outgoingReliableSequenceNumber'[d]
      <3>1. \A e \in Channels : /\ outgoingReliableSequenceNumber[e] \in Nat
                                /\ outgoingReliableSequenceNumber'[e] = IF e = c THEN top + k
                                     ELSE outgoingReliableSequenceNumber[e]
        BY <1>2 DEF DeliveryTyped, Typed, SenderInv, SenderType
      <3>2. CASE d = c /\ x = Len(P) + 1
        <4>1. pending'[d][x] = Packet(top + 1, k) /\ top + 1 \in Nat \ {0}
              /\ (top + 1) + k - 1 <= outgoingReliableSequenceNumber'[d]
          BY <1>1, <1>7, <3>1, <3>2 DEF packet
        <4> QED BY <4>1
      <3>3. CASE ~(d = c /\ x = Len(P) + 1)
        <4>1. x \in 1..Len(pending[d]) /\ pending'[d][x] = pending[d][x]
          <5>1. CASE d = c
            <6>1. x \in 1..Len(P)
              BY <1>3, <1>7, <3>3, <5>1
            <6> QED BY <1>7, <5>1, <6>1 DEF P
          <5>2. CASE d # c
            BY <1>7, <5>2
          <5> QED BY <5>1, <5>2
        <4>2. PICK n \in Nat \ {0}, l \in FragmentCounts :
                pending[d][x] = Packet(n, l) /\ n + l - 1 <= outgoingReliableSequenceNumber[d]
          BY <4>1 DEF DeliveryTyped, PendingInv
        <4>3. n + l - 1 <= outgoingReliableSequenceNumber'[d]
          <5>1. l \in Nat
            BY LimitAssumption
          <5> QED BY <1>1, <3>1, <4>2, <5>1 DEF top
        <4> QED BY <4>1, <4>2, <4>3
      <3> QED BY <3>2, <3>3
    <2>2. ASSUME NEW d \in Channels, NEW x \in 1..Len(pending'[d]), NEW y \in 1..Len(pending'[d]), x < y
          PROVE  pending'[d][x][Len(pending'[d][x])] < pending'[d][y][1]
      <3>1. CASE d = c /\ y = Len(P) + 1
        <4>1. x \in 1..Len(P) /\ pending'[d][x] = P[x] /\ x \in 1..Len(pending[c])
          <5>1. x \in 1..Len(P)
            BY <1>3, <1>7, <2>2, <3>1
          <5> QED BY <1>7, <3>1, <5>1 DEF P
        <4>2. PICK n \in Nat \ {0}, l \in FragmentCounts :
                pending[c][x] = Packet(n, l) /\ n + l - 1 <= outgoingReliableSequenceNumber[c]
          BY <4>1 DEF DeliveryTyped, PendingInv
        <4>3. l \in Nat \ {0} /\ Len(Packet(n, l)) = l /\ Packet(n, l)[l] = n + l - 1
          BY LimitAssumption, PacketFields
        <4>4. pending'[d][x] = Packet(n, l) /\ n + l - 1 <= top
          BY <4>1, <4>2 DEF P, top
        <4>5. pending'[d][y][1] = top + 1
          BY <1>4, <1>7, <3>1
        <4>6. pending'[d][x][Len(pending'[d][x])] = n + l - 1
          BY <4>3, <4>4
        <4> QED BY <1>1, <4>3, <4>4, <4>5, <4>6
      <3>2. CASE ~(d = c /\ y = Len(P) + 1)
        <4>1. /\ x \in 1..Len(pending[d]) /\ pending'[d][x] = pending[d][x]
              /\ y \in 1..Len(pending[d]) /\ pending'[d][y] = pending[d][y]
          <5>1. CASE d = c
            <6>1. x \in 1..Len(P) /\ y \in 1..Len(P)
              BY <1>3, <1>7, <2>2, <3>2, <5>1
            <6> QED BY <1>7, <5>1, <6>1 DEF P
          <5>2. CASE d # c
            BY <1>7, <5>2
          <5> QED BY <5>1, <5>2
        <4> QED BY <2>2, <4>1 DEF DeliveryTyped, PendingInv
      <3> QED BY <3>1, <3>2
    <2> QED BY <2>1, <2>2 DEF PendingInv
  <1> QED BY <1>10, <1>11, <1>12, <1>14, <1>15, <1>16 DEF DeliveryInv

\* A command is sent for the first time only into a window the receiver
\* accepts: one of the window before it was acknowledged, so it was held.
LEMMA FirstSendDelivery ==
  ASSUME NEW H \in [Channels -> Nat], NEW R \in [Channels -> Nat],
         DeliveryTyped, StreamInv(H), DeliveryInv(H, R), FirstSend,
         NEW G, G = [H EXCEPT ![Head(unsent).ch] = Head(unsent).num]
  PROVE  DeliveryInv(G, R)'
  <1> DEFINE m == Head(unsent)
             c == m.ch
             n == m.num
  <1>1. /\ m \in Command /\ c \in Channels /\ n = H[c] + 1 /\ n \in Nat
        /\ Outstanding' = Outstanding \cup {m}
        /\ Len(unsent') = Len(unsent) - 1 /\ Len(unsent) \in Nat \ {0} /\ m = unsent[1]
        /\ \A i \in 1..Len(unsent') : unsent'[i] = unsent[i + 1]
    BY FirstSendCommand DEF DeliveryTyped, StreamInv, Command
  <1>2. /\ ~WindowBlocked(c, SequenceNumber(n))
        /\ dataNet' = Transmit(Alive(dataNet, c, n), {m})
        /\ ackNet' = Alive(ackNet, c, n)
        /\ UNCHANGED <<incomingReliableSequenceNumber, incomingReliableCommands,
                       dispatchedCommands, acknowledgements, pending>>
    BY DEF FirstSend, receiverVars, appVars
  <1> HIDE DEF m, c, n
  <1>3. /\ \A d \in Channels : H[d] \in Nat /\ G[d] \in Nat /\ H[d] <= G[d] /\ R[d] \in Nat
        /\ G[c] = n
        /\ \A d \in Channels \ {c} : G[d] = H[d]
    BY <1>1 DEF m, n, c
  <1>4. \A d \in Channels : /\ R[d] <= H[d]
                            /\ incomingReliableSequenceNumber[d] = SequenceNumber(R[d])
                            /\ Window(H[d]) <= Window(R[d]) + FreeWindows - 1
    BY DEF DeliveryInv, PositionInv
  <1>5. Window(n) <= Window(R[c]) + FreeWindows - 1
    <2>1. H[c] \in Nat /\ R[c] \in Nat /\ n = H[c] + 1
      BY <1>1, <1>3
    <2>2. Window(n) = IF n % WindowSize = 0 THEN Window(H[c]) + 1 ELSE Window(H[c])
      BY <2>1, NextPosition
    <2>3. CASE n % WindowSize # 0
      BY <1>1, <1>4, <2>2, <2>3
    <2>4. CASE n % WindowSize = 0
      <3>1. n > 0 /\ Typed
        BY <2>1 DEF DeliveryTyped
      <3>2. PICK p \in Int : Window(p) = Window(n) - 1 /\ ~Waits(c, p)
        BY <1>1, <1>2, <2>4, <3>1, WindowNotBlocked
      <3>3. /\ Window(p) \in Int /\ Window(n) \in Nat
            /\ (n <= p => Window(n) <= Window(p))
            /\ p < WindowSize * Window(p) + WindowSize
        BY <1>1, WindowBounds, WindowOfPosition
      <3>4. p < n
        BY <1>1, <3>2, <3>3
      <3>5. p \in Nat
        <4>1. Window(p) = Window(H[c]) /\ Window(H[c]) \in Nat
          BY <2>1, <2>2, <2>4, <3>2, WindowOfPosition
        <4>2. WindowSize \in Nat /\ WindowSize * Window(p) \in Nat /\ WindowSize * Window(p) <= p
          BY <4>1, WindowAssumption, WindowBounds
        <4> QED BY <4>2
      <3>6. AcknowledgementOK(c, p, R)
        <4>1. p <= H[c]
          BY <2>1, <3>4, <3>5
        <4> QED BY <1>1, <3>2, <3>5, <4>1 DEF DeliveryInv, HeldInv
      <3>7. Window(p) <= Window(R[c]) + FreeWindows - 2 /\ Window(R[c]) \in Nat
        BY <2>1, <3>6, WindowOfPosition DEF AcknowledgementOK
      <3> QED BY <3>2, <3>3, <3>7, WindowAssumption
    <2> QED BY <2>3, <2>4
  <1>6. PositionInv(G, R)'
    <2>1. ASSUME NEW d \in Channels
          PROVE  /\ R[d] <= G[d]
                 /\ incomingReliableSequenceNumber'[d] = SequenceNumber(R[d])
                 /\ Window(G[d]) <= Window(R[d]) + FreeWindows - 1
      <3>1. R[d] <= G[d]
        BY <1>3, <1>4
      <3>2. CASE d = c
        BY <1>2, <1>3, <1>4, <1>5, <3>1, <3>2
      <3>3. CASE d # c
        BY <1>2, <1>3, <1>4, <3>1, <3>3
      <3> QED BY <3>2, <3>3
    <2> QED BY <2>1 DEF PositionInv
  <1>7. \A d, x, k : Queued(d, x, k)' <=> Queued(d, x, k)
    BY <1>2 DEF Queued
  <1>8. ListInv(G, R)'
    <2>1. ASSUME NEW d \in Channels PROVE ListOK(d, incomingReliableCommands[d], R[d], G[d])'
      <3> DEFINE list == incomingReliableCommands[d]
      <3>1. ListOK(d, list, R[d], H[d]) /\ list \in Seq(IncomingCommand)
        BY DEF DeliveryInv, ListInv, DeliveryTyped, Typed, ReceiverType
      <3>2. H[d] <= G[d] /\ H[d] \in Nat /\ G[d] \in Nat
        BY <1>3
      <3>3. ASSUME NEW i \in 1..Len(list) PROVE Assembles(list[i], Base(list[i]), G[d])
        <4>1. Assembles(list[i], Base(list[i]), H[d])
          BY <3>1 DEF ListOK
        <4>2. list[i].data \in Seq(Nat)
          <5>1. list[i] \in IncomingCommand
            BY <3>1, ElementOfSeq
          <5> QED BY <5>1 DEF IncomingCommand
        <4>3. \A j \in 1..Len(list[i].data) : list[i].data[j] \in Nat
          BY <4>2
        <4>4. \A j \in 1..Len(list[i].data) : list[i].data[j] <= G[d]
          <5>1. \A j \in 1..Len(list[i].data) : list[i].data[j] <= H[d]
            BY <4>1 DEF Assembles
          <5> QED BY <3>2, <4>3, <5>1
        <4> QED BY <4>1, <4>4 DEF Assembles
      <3>4. ListOK(d, list, R[d], G[d])
        BY <3>1, <3>3 DEF ListOK
      <3>5. list' = list
        BY <1>2
      <3> HIDE DEF list
      <3>6. ListOK(d, list, R[d], G[d])'
        BY <1>7, <3>4, <3>5 DEF ListOK
      <3> QED BY <3>6 DEF list
    <2>2. \A d \in Channels : HeadWaits(incomingReliableCommands[d], R[d])'
      BY <1>2 DEF DeliveryInv, ListInv
    <2> QED BY <2>1, <2>2 DEF ListInv
  <1>9. DispatchedInv(R)'
    BY <1>2, <1>7 DEF DeliveryInv, DispatchedInv
  <1>10. CommandInv(R)'
    <2>1. \A x : CommandOK(x, R)' <=> CommandOK(x, R)
      BY <1>7 DEF CommandOK
    <2>2. CommandOK(m, R)
      <3>1. 1 \in 1..Len(unsent)
        BY <1>1
      <3> QED BY <1>1, <3>1 DEF DeliveryInv, CommandInv
    <2>3. \A x \in Outstanding' \cup dataNet' : x \in Outstanding \cup dataNet \/ x = m
      BY <1>1, <1>2 DEF Transmit, Alive
    <2>4. \A x \in Outstanding' \cup dataNet' : CommandOK(x, R)'
      BY <2>1, <2>2, <2>3 DEF DeliveryInv, CommandInv
    <2>5. ASSUME NEW i \in 1..Len(unsent') PROVE CommandOK(unsent[i], R)'
      <3>1. i + 1 \in 1..Len(unsent) /\ unsent'[i] = unsent[i + 1]
        BY <1>1
      <3>2. PICK x : x = unsent[i + 1]
        OBVIOUS
      <3>3. CommandOK(x, R)
        BY <3>1, <3>2 DEF DeliveryInv, CommandInv
      <3>4. CommandOK(x, R)'
        BY <2>1, <3>3
      <3>5. x = unsent'[i]
        BY <3>1, <3>2
      <3> QED BY <3>4, <3>5
    <2> QED BY <2>4, <2>5 DEF CommandInv
  <1>11. HeldInv(G, R)'
    <2>1. \A d, x : AcknowledgementOK(d, x, R)' <=> AcknowledgementOK(d, x, R)
      BY <1>2 DEF AcknowledgementOK
    <2>2. \A a \in ackNet' \cup acknowledgements' : AcknowledgementOK(a.ch, a.num, R)'
      BY <1>2, <2>1 DEF Alive, DeliveryInv, HeldInv
    <2>3. ASSUME NEW d \in Channels, NEW x \in Nat, x <= G[d], ~Waits(d, x)'
          PROVE  AcknowledgementOK(d, x, R)'
      <3>1. ~Waits(d, x) /\ ~(d = c /\ x = n)
        BY <1>1, <2>3 DEF Waits, c, n
      <3>2. x <= H[d]
        <4>1. CASE d = c
          <5>1. H[c] \in Nat /\ n = H[c] + 1 /\ x <= n /\ x # n
            BY <1>1, <1>3, <2>3, <3>1, <4>1
          <5> QED BY <4>1, <5>1
        <4>2. CASE d # c
          BY <1>3, <2>3, <4>2
        <4> QED BY <4>1, <4>2
      <3> QED BY <2>1, <3>1, <3>2 DEF DeliveryInv, HeldInv
    <2> QED BY <2>2, <2>3 DEF HeldInv
  <1> QED BY <1>6, <1>8, <1>9, <1>10, <1>11 DEF DeliveryInv

\* The packet enet_peer_receive hands over is the first one its channel has
\* on its way.
LEMMA HeadIsFirst ==
  ASSUME NEW H \in [Channels -> Nat], NEW R \in [Channels -> Nat],
         DeliveryTyped, DeliveryInv(H, R), dispatchedCommands # <<>>
  PROVE  LET e == Head(dispatchedCommands) IN
         /\ e.ch \in Channels
         /\ e = dispatchedCommands[1] /\ 1 \in 1..Len(dispatchedCommands)
         /\ pending[e.ch] \in Seq(Seq(Nat)) /\ 1 \in 1..Len(pending[e.ch])
         /\ e.data = pending[e.ch][1]
  <1> DEFINE e == Head(dispatchedCommands)
             E == [ch : Channels, data : Seq(Nat)]
             c == e.ch
  <1>1. /\ e \in E /\ e = dispatchedCommands[1] /\ 1 \in 1..Len(dispatchedCommands)
        /\ dispatchedCommands \in Seq(E) /\ Len(dispatchedCommands) \in Nat
    <2>1. dispatchedCommands \in Seq(E)
      BY DEF DeliveryTyped, Typed, ReceiverType
    <2> HIDE DEF E
    <2>2. Len(dispatchedCommands) \in Nat /\ Len(dispatchedCommands) # 0
      BY <2>1, EmptySeq, LenProperties
    <2>3. 1 \in 1..Len(dispatchedCommands)
      BY <2>2
    <2>4. e \in E /\ e = dispatchedCommands[1]
      BY <2>1, HeadTailProperties
    <2> QED BY <2>1, <2>2, <2>3, <2>4
  <1>2. c \in Channels
    BY <1>1
  <1> HIDE DEF e
  <1>3. PICK n \in Nat \ {0}, k \in FragmentCounts :
          e.data = Packet(n, k) /\ Queued(c, n, k) /\ n <= R[c]
    BY <1>1 DEF DeliveryInv, DispatchedInv
  <1>4. PICK x \in 1..Len(pending[c]) : pending[c][x] = Packet(n, k)
    BY <1>3 DEF Queued
  <1>5. pending[c] \in Seq(Seq(Nat)) /\ Len(pending[c]) \in Nat /\ 1 \in 1..Len(pending[c])
    <2>1. pending[c] \in Seq(Seq(Nat))
      BY <1>2 DEF DeliveryTyped, AppType
    <2>2. Len(pending[c]) \in Nat
      BY <2>1, LenProperties
    <2> QED BY <1>4, <2>1, <2>2
  <1>6. k \in Nat \ {0} /\ Packet(n, k)[1] = n /\ R[c] \in Nat
    BY <1>2, LimitAssumption, PacketFields
  <1>7. x = 1
    <2> SUFFICES ASSUME x # 1 PROVE FALSE
      OBVIOUS
    <2>1. PICK m \in Nat \ {0}, l \in FragmentCounts : pending[c][1] = Packet(m, l)
      <3>1. \A d \in Channels : \A y \in 1..Len(pending[d]) :
              \E m \in Nat \ {0}, l \in FragmentCounts : pending[d][y] = Packet(m, l)
        BY DEF DeliveryTyped, PendingInv
      <3> QED BY <1>2, <1>5, <3>1, Zenon
    <2>2. /\ l \in Nat \ {0} /\ Packet(m, l)[1] = m
          /\ Len(Packet(m, l)) = l /\ Packet(m, l)[l] = m + l - 1
      BY LimitAssumption, PacketFields
    <2>3. 1 < x
      BY <1>5
    <2>4. pending[c][1][Len(pending[c][1])] < pending[c][x][1]
      BY <1>2, <1>5, <2>3 DEF DeliveryTyped, PendingInv
    <2>5. m + l - 1 < n
      BY <1>4, <1>6, <2>1, <2>2, <2>4
    <2>6. m < n /\ m <= R[c]
      BY <1>3, <1>6, <2>2, <2>5
    <2>7. Queued(c, m, l)
      BY <1>5, <2>1 DEF Queued
    <2>8. PICK i \in 1..Len(dispatchedCommands) :
            dispatchedCommands[i] = [ch |-> c, data |-> Packet(m, l)]
      BY <1>2, <2>6, <2>7 DEF DeliveryInv, DispatchedInv
    <2>9. dispatchedCommands[i].ch = c /\ dispatchedCommands[i].data = Packet(m, l)
      BY <2>8
    <2>10. i # 1
      BY <1>1, <1>3, <1>6, <2>2, <2>6, <2>9
    <2>11. 1 < i
      BY <1>1, <2>10
    <2>12. dispatchedCommands[1].data[1] < dispatchedCommands[i].data[1]
      BY <1>1, <2>9, <2>11 DEF DeliveryInv, DispatchedInv
    <2>13. n < m
      BY <1>1, <1>3, <1>6, <2>2, <2>9, <2>12
    <2> QED BY <2>6, <2>13
  <1> QED BY <1>1, <1>2, <1>3, <1>4, <1>5, <1>7 DEF e

\* enet_peer_receive takes the packet off both lists.
LEMMA EnetPeerReceiveDelivery ==
  ASSUME NEW H \in [Channels -> Nat], NEW R \in [Channels -> Nat],
         DeliveryTyped, DeliveryInv(H, R), EnetPeerReceive
  PROVE  /\ DeliveryInv(H, R)' /\ PendingInv'
         /\ LET c == Head(dispatchedCommands).ch IN
            /\ c \in Channels /\ pending[c] # <<>>
            /\ delivered' = [delivered EXCEPT ![c] = Head(pending[c])]
            /\ pending' = [pending EXCEPT ![c] = Tail(pending[c])]
  <1> DEFINE e == Head(dispatchedCommands)
             c == e.ch
             P == pending[c]
             E == [ch : Channels, data : Seq(Nat)]
  <1>1. /\ c \in Channels
        /\ e = dispatchedCommands[1] /\ 1 \in 1..Len(dispatchedCommands)
        /\ P \in Seq(Seq(Nat)) /\ 1 \in 1..Len(P)
        /\ e.data = P[1]
    <2>1. dispatchedCommands # <<>>
      BY DEF EnetPeerReceive
    <2> QED BY <2>1, HeadIsFirst
  <1>2. /\ dispatchedCommands' = Tail(dispatchedCommands)
        /\ delivered' = [delivered EXCEPT ![c] = e.data]
        /\ pending' = [pending EXCEPT ![c] = IF P = <<>> THEN P ELSE Tail(P)]
        /\ UNCHANGED <<outgoingReliableSequenceNumber, unsent, incomingReliableSequenceNumber,
                       incomingReliableCommands, acknowledgements, ackNet, dataNet>>
        /\ Outstanding' = Outstanding
    BY DEF EnetPeerReceive, senderVars, netVars, Outstanding
  <1>3. /\ Len(P) \in Nat /\ P # <<>> /\ Head(P) = P[1]
        /\ Len(Tail(P)) = Len(P) - 1
        /\ \A x \in 1..Len(Tail(P)) : Tail(P)[x] = P[x + 1]
    <2>1. Len(P) \in Nat
      BY <1>1, LenProperties
    <2>2. P # <<>>
      BY <1>1, <2>1, EmptySeq
    <2> HIDE DEF P
    <2>3. /\ Len(Tail(P)) = Len(P) - 1
          /\ \A x \in 1..Len(Tail(P)) : Tail(P)[x] = P[x + 1]
      BY <1>1, <2>2, HeadTailProperties
    <2> QED BY <2>1, <2>2, <2>3, <1>1, HeadTailProperties
  <1>4. pending \in [Channels -> Seq(Seq(Nat))]
    BY DEF DeliveryTyped, AppType
  <1>5. pending' = [pending EXCEPT ![c] = Tail(P)] /\ delivered' = [delivered EXCEPT ![c] = Head(P)]
    BY <1>1, <1>2, <1>3
  <1>6. /\ pending'[c] = Tail(P) /\ \A d \in Channels \ {c} : pending'[d] = pending[d]
        /\ Len(pending'[c]) = Len(P) - 1
        /\ \A x \in 1..Len(pending'[c]) : pending'[c][x] = P[x + 1] /\ x + 1 \in 1..Len(P)
    <2>1. pending'[c] = Tail(P) /\ \A d \in Channels \ {c} : pending'[d] = pending[d]
      BY <1>1, <1>4, <1>5
    <2>2. \A x \in 1..(Len(P) - 1) : x + 1 \in 1..Len(P)
      BY <1>3
    <2> HIDE DEF P, c
    <2> QED BY <1>3, <2>1, <2>2
  <1>7. /\ dispatchedCommands \in Seq(E) /\ Len(dispatchedCommands) \in Nat
        /\ Len(dispatchedCommands') = Len(dispatchedCommands) - 1
        /\ \A i \in 1..Len(dispatchedCommands') :
             dispatchedCommands'[i] = dispatchedCommands[i + 1] /\ i + 1 \in 1..Len(dispatchedCommands)
    <2>1. dispatchedCommands \in Seq(E) /\ dispatchedCommands # <<>>
      BY DEF DeliveryTyped, Typed, ReceiverType, EnetPeerReceive
    <2> HIDE DEF E, e, P, c
    <2>2. Len(dispatchedCommands) \in Nat
      BY <2>1, LenProperties
    <2>3. /\ Len(dispatchedCommands') = Len(dispatchedCommands) - 1
          /\ \A i \in 1..Len(dispatchedCommands') : dispatchedCommands'[i] = dispatchedCommands[i + 1]
      BY <1>2, <2>1, HeadTailProperties
    <2>4. \A i \in 1..(Len(dispatchedCommands) - 1) : i + 1 \in 1..Len(dispatchedCommands)
      BY <2>2
    <2> QED BY <2>1, <2>2, <2>3, <2>4
  <1>8. \A i \in 1..Len(dispatchedCommands) : dispatchedCommands[i].ch \in Channels
    <2>1. \A i \in 1..Len(dispatchedCommands) : dispatchedCommands[i] \in E
      <3> HIDE DEF E
      <3> QED BY <1>7, ElementOfSeq
    <2> QED BY <2>1
  <1> HIDE DEF P, c, e, E
  <1>9. PICK first \in Nat \ {0}, count \in FragmentCounts :
          /\ e.data = Packet(first, count)
          /\ first <= R[c]
    BY <1>1 DEF DeliveryInv, DispatchedInv, c
  <1>10. /\ count \in Nat \ {0} /\ R[c] \in Nat
         /\ Packet(first, count)[1] = first /\ Len(Packet(first, count)) = count
         /\ Packet(first, count)[count] = first + count - 1
    BY <1>1, LimitAssumption, PacketFields
  <1>11. ASSUME NEW d \in Channels, NEW n, NEW k, Queued(d, n, k)' PROVE Queued(d, n, k)
    <2>1. PICK x \in 1..Len(pending'[d]) : pending'[d][x] = Packet(n, k)
      BY <1>11 DEF Queued
    <2>2. CASE d = c
      <3>1. x + 1 \in 1..Len(P) /\ P[x + 1] = Packet(n, k)
        BY <1>6, <2>1, <2>2
      <3> QED BY <2>2, <3>1 DEF Queued, P
    <2>3. CASE d # c
      BY <1>6, <2>1, <2>3 DEF Queued
    <2> QED BY <2>2, <2>3
  <1>12. ASSUME NEW d \in Channels, NEW n \in Nat \ {0}, NEW k \in FragmentCounts,
                Queued(d, n, k), ~(d = c /\ n = first)
         PROVE  Queued(d, n, k)'
    <2>1. PICK x \in 1..Len(pending[d]) : pending[d][x] = Packet(n, k)
      BY <1>12 DEF Queued
    <2>2. CASE d = c
      <3>1. x \in 1..Len(P) /\ P[x] = Packet(n, k)
        BY <2>1, <2>2 DEF P
      <3>2. x # 1
        <4>1. Packet(n, k)[1] = n
          BY LimitAssumption, PacketFields
        <4> QED BY <1>1, <1>9, <1>10, <1>12, <2>2, <3>1, <4>1
      <3>3. x - 1 \in 1..(Len(P) - 1) /\ (x - 1) + 1 = x
        BY <1>3, <3>1, <3>2
      <3>4. x - 1 \in 1..Len(pending'[c]) /\ pending'[c][x - 1] = Packet(n, k)
        BY <1>6, <3>1, <3>3
      <3> QED BY <2>2, <3>4 DEF Queued
    <2>3. CASE d # c
      BY <1>6, <2>1, <2>3 DEF Queued
    <2> QED BY <2>2, <2>3
  \* The packet received is not one of those left.
  <1>13. ASSUME NEW d \in Channels, d = c, NEW n \in Nat \ {0}, NEW k \in FragmentCounts,
                Queued(d, n, k)'
         PROVE  n # first
    <2>1. PICK x \in 1..Len(pending'[c]) : pending'[c][x] = Packet(n, k)
      BY <1>13 DEF Queued
    <2>2. P[x + 1] = Packet(n, k) /\ x + 1 \in 1..Len(P) /\ 1 < x + 1
      <3>1. x \in 1..(Len(P) - 1)
        BY <1>6
      <3>2. 1 < x + 1
        BY <1>3, <3>1
      <3> QED BY <1>6, <2>1, <3>2
    <2>3. P[1][Len(P[1])] < P[x + 1][1]
      <3>1. PendingInv
        BY DEF DeliveryTyped
      <3> QED BY <1>1, <2>2, <3>1 DEF PendingInv, P
    <2>4. Packet(n, k)[1] = n
      BY LimitAssumption, PacketFields
    <2>5. first + count - 1 < n
      BY <1>1, <1>9, <1>10, <2>2, <2>3, <2>4
    <2> QED BY <1>10, <2>5
  <1>14. PositionInv(H, R)'
    BY <1>2 DEF DeliveryInv, PositionInv
  <1>15. ListInv(H, R)'
    <2>1. ASSUME NEW d \in Channels PROVE ListOK(d, incomingReliableCommands[d], R[d], H[d])'
      <3> DEFINE list == incomingReliableCommands[d]
      <3>1. ListOK(d, list, R[d], H[d]) /\ list' = list /\ H[d] \in Nat /\ R[d] \in Nat
        BY <1>2 DEF DeliveryInv, ListInv
      <3> HIDE DEF list
      <3>2. ASSUME NEW i \in 1..Len(list)
            PROVE  \E x \in 1..Len(pending'[d]) : pending'[d][x] = Packet(Base(list[i]), Len(list[i].data))
        <4>1. /\ Base(list[i]) \in Nat \ {0} /\ R[d] < Base(list[i])
              /\ Queued(d, Base(list[i]), Len(list[i].data))
          BY <3>1, EntryFields
        <4>2. Len(list[i].data) \in FragmentCounts
          BY <3>1 DEF ListOK
        <4>3. PICK n \in Nat \ {0} : n = Base(list[i])
          BY <4>1
        <4>4. PICK k \in FragmentCounts : k = Len(list[i].data)
          BY <4>2
        <4>5. ~(d = c /\ n = first)
          BY <1>9, <1>10, <4>1, <4>3
        <4>6. Queued(d, n, k)'
          BY <1>12, <4>1, <4>3, <4>4, <4>5
        <4> QED BY <4>3, <4>4, <4>6 DEF Queued
      <3>3. ListOK(d, list, R[d], H[d])'
        BY <3>1, <3>2 DEF ListOK, Queued
      <3> QED BY <3>3 DEF list
    <2>2. \A d \in Channels : HeadWaits(incomingReliableCommands[d], R[d])'
      BY <1>2 DEF DeliveryInv, ListInv
    <2> QED BY <2>1, <2>2 DEF ListInv
  <1>16. DispatchedInv(R)'
    <2>1. DispatchedInv(R)
      BY DEF DeliveryInv
    <2>2. ASSUME NEW i \in 1..Len(dispatchedCommands')
          PROVE  \E n \in Nat \ {0}, k \in FragmentCounts :
                   /\ dispatchedCommands'[i].data = Packet(n, k)
                   /\ Queued(dispatchedCommands[i].ch, n, k)'
                   /\ n <= R[dispatchedCommands'[i].ch]
      <3>1. dispatchedCommands'[i] = dispatchedCommands[i + 1] /\ i + 1 \in 1..Len(dispatchedCommands)
        BY <1>7
      <3>2. PICK d \in Channels : d = dispatchedCommands[i + 1].ch
        BY <1>8, <3>1
      <3>3. PICK n \in Nat \ {0}, k \in FragmentCounts :
              /\ dispatchedCommands[i + 1].data = Packet(n, k) /\ Queued(d, n, k) /\ n <= R[d]
        BY <2>1, <3>1, <3>2 DEF DispatchedInv
      <3>4. ~(d = c /\ n = first)
        <4> SUFFICES ASSUME d = c PROVE n # first
          OBVIOUS
        <4>1. 1 < i + 1
          <5>1. i \in 1..(Len(dispatchedCommands) - 1)
            BY <1>7
          <5> QED BY <1>7, <5>1
        <4>2. dispatchedCommands[1].data[1] < dispatchedCommands[i + 1].data[1]
          BY <1>1, <2>1, <3>1, <3>2, <4>1 DEF DispatchedInv, c
        <4>3. Packet(n, k)[1] = n
          BY LimitAssumption, PacketFields
        <4> QED BY <1>1, <1>9, <1>10, <3>3, <4>2, <4>3
      <3>5. Queued(d, n, k)'
        BY <1>12, <3>3, <3>4
      <3>6. d = dispatchedCommands'[i].ch
        BY <3>1, <3>2
      <3>7. Queued(dispatchedCommands[i].ch, n, k)'
        BY <3>5, <3>6 DEF Queued
      <3>8. dispatchedCommands'[i].data = Packet(n, k) /\ n <= R[dispatchedCommands'[i].ch]
        BY <3>1, <3>3, <3>6
      <3> QED BY <3>7, <3>8
    <2>3. ASSUME NEW i \in 1..Len(dispatchedCommands'), NEW j \in 1..Len(dispatchedCommands'), i < j,
                 dispatchedCommands'[i].ch = dispatchedCommands'[j].ch
          PROVE  dispatchedCommands'[i].data[1] < dispatchedCommands'[j].data[1]
      <3>1. /\ dispatchedCommands'[i] = dispatchedCommands[i + 1] /\ i + 1 \in 1..Len(dispatchedCommands)
            /\ dispatchedCommands'[j] = dispatchedCommands[j + 1] /\ j + 1 \in 1..Len(dispatchedCommands)
        BY <1>7
      <3>2. i + 1 < j + 1
        <4>1. i \in 1..(Len(dispatchedCommands) - 1) /\ j \in 1..(Len(dispatchedCommands) - 1)
          BY <1>7
        <4> QED BY <1>7, <2>3, <4>1
      <3> QED BY <2>1, <2>3, <3>1, <3>2 DEF DispatchedInv
    <2>4. ASSUME NEW d \in Channels, NEW n \in Nat \ {0}, NEW k \in FragmentCounts,
                 Queued(d, n, k)', n <= R[d]
          PROVE  /\ n + k - 1 <= R[d]
                 /\ \E i \in 1..Len(dispatchedCommands') :
                      dispatchedCommands'[i] = [ch |-> d, data |-> Packet(n, k)]
      <3>1. Queued(d, n, k)
        BY <1>11, <2>4
      <3>2. PICK i \in 1..Len(dispatchedCommands) :
              dispatchedCommands[i] = [ch |-> d, data |-> Packet(n, k)]
        BY <2>1, <2>4, <3>1 DEF DispatchedInv
      <3>3. i # 1
        <4> SUFFICES ASSUME i = 1 PROVE FALSE
          OBVIOUS
        <4>1. e.ch = d /\ e.data = Packet(n, k)
          BY <1>1, <3>2
        <4>2. d = c
          BY <4>1 DEF c
        <4>3. n # first
          BY <1>13, <2>4, <4>2
        <4>4. Packet(n, k)[1] = n
          BY LimitAssumption, PacketFields
        <4> QED BY <1>9, <1>10, <4>1, <4>3, <4>4
      <3>4. i - 1 \in 1..Len(dispatchedCommands') /\ (i - 1) + 1 = i
        <4>1. i - 1 \in 1..(Len(dispatchedCommands) - 1) /\ (i - 1) + 1 = i
          BY <1>7, <3>3
        <4> QED BY <1>7, <4>1
      <3>5. dispatchedCommands'[i - 1] = [ch |-> d, data |-> Packet(n, k)]
        BY <1>7, <3>2, <3>4
      <3>6. n + k - 1 <= R[d]
        BY <2>1, <2>4, <3>1 DEF DispatchedInv
      <3> QED BY <3>4, <3>5, <3>6
    <2> QED BY <2>2, <2>3, <2>4 DEF DispatchedInv, Queued
  <1>17. ASSUME NEW m \in Command, CommandOK(m, R) PROVE CommandOK(m, R)'
    <2>1. m.ch \in Channels /\ m.start \in Nat /\ R[m.ch] \in Nat
      BY DEF Command
    <2>2. CASE R[m.ch] < m.start
      <3>1. ~(m.ch = c /\ m.start = first) /\ m.start \in Nat \ {0} /\ m.count \in FragmentCounts
        BY <1>9, <1>10, <1>17, <2>1, <2>2 DEF CommandOK
      <3>2. Queued(m.ch, m.start, m.count)
        BY <1>17, <2>2 DEF CommandOK
      <3>3. Queued(m.ch, m.start, m.count)'
        BY <1>12, <2>1, <3>1, <3>2
      <3> QED BY <1>17, <2>2, <3>3 DEF CommandOK
    <2>3. CASE ~(R[m.ch] < m.start)
      BY <1>17, <2>3 DEF CommandOK
    <2> QED BY <2>2, <2>3
  <1>18. CommandInv(R)'
    <2>1. ASSUME NEW m \in Outstanding' \cup dataNet' PROVE CommandOK(m, R)'
      <3>1. m \in Command /\ CommandOK(m, R)
        BY <1>2 DEF DeliveryTyped, Typed, SenderInv, SenderType, Outstanding, NetType,
                    DeliveryInv, CommandInv
      <3> QED BY <1>17, <3>1
    <2>2. ASSUME NEW i \in 1..Len(unsent') PROVE CommandOK(unsent[i], R)'
      <3>1. unsent' = unsent /\ unsent \in Seq(Command)
        BY <1>2 DEF DeliveryTyped, Typed, SenderInv, SenderType
      <3>2. unsent[i] \in Command
        <4> HIDE DEF Command
        <4> QED BY <3>1, ElementOfSeq
      <3>3. PICK m \in Command : m = unsent[i]
        BY <3>2
      <3>4. CommandOK(m, R)
        BY <3>1, <3>3 DEF DeliveryInv, CommandInv
      <3>5. CommandOK(m, R)'
        BY <1>17, <3>4
      <3> QED BY <3>1, <3>3, <3>5
    <2> QED BY <2>1, <2>2 DEF CommandInv
  <1>19. HeldInv(H, R)'
    <2>1. \A d, n : AcknowledgementOK(d, n, R)' <=> AcknowledgementOK(d, n, R)
      BY <1>2 DEF AcknowledgementOK
    <2>2. \A d, n : Waits(d, n)' <=> Waits(d, n)
      BY <1>2 DEF Waits
    <2> QED BY <1>2, <2>1, <2>2 DEF DeliveryInv, HeldInv
  <1>20. PendingInv'
    <2>1. PendingInv
      BY DEF DeliveryTyped
    <2>2. ASSUME NEW d \in Channels, NEW x \in 1..Len(pending'[d])
          PROVE  \E y \in 1..Len(pending[d]) :
                   pending'[d][x] = pending[d][y] /\ (IF d = c THEN y = x + 1 ELSE y = x)
      BY <1>6 DEF P
    <2>3. ASSUME NEW d \in Channels, NEW x \in 1..Len(pending'[d])
          PROVE  \E n \in Nat \ {0}, k \in FragmentCounts :
                   pending'[d][x] = Packet(n, k) /\ n + k - 1 <= outgoingReliableSequenceNumber'[d]
      <3>1. PICK y \in 1..Len(pending[d]) : pending'[d][x] = pending[d][y]
        BY <2>2
      <3> QED BY <1>2, <2>1, <3>1 DEF PendingInv
    <2>4. ASSUME NEW d \in Channels, NEW x \in 1..Len(pending'[d]), NEW y \in 1..Len(pending'[d]), x < y
          PROVE  pending'[d][x][Len(pending'[d][x])] < pending'[d][y][1]
      <3>1. PICK u \in 1..Len(pending[d]) :
              pending'[d][x] = pending[d][u] /\ (IF d = c THEN u = x + 1 ELSE u = x)
        BY <2>2
      <3>2. PICK v \in 1..Len(pending[d]) :
              pending'[d][y] = pending[d][v] /\ (IF d = c THEN v = y + 1 ELSE v = y)
        BY <2>2
      <3>3. u < v
        <4>1. x \in Int /\ y \in Int
          <5>1. Len(pending'[d]) \in Nat
            BY <1>3, <1>4, <1>6, LenProperties
          <5> QED BY <5>1
        <4> QED BY <2>4, <3>1, <3>2, <4>1
      <3> QED BY <2>1, <3>1, <3>2, <3>3 DEF PendingInv
    <2> QED BY <2>3, <2>4 DEF PendingInv
  <1> QED BY <1>1, <1>3, <1>5, <1>14, <1>15, <1>16, <1>18, <1>19, <1>20 DEF DeliveryInv, c, e, P

-----------------------------------------------------------------------------
(* The arrival of a command.                                               *)

\* queue_acknowledgement acknowledges no position of the last window the
\* sender may use.
LEMMA NotWithheld ==
  ASSUME NEW n \in Nat, NEW r \in Nat, n < r + SequenceSpace,
         Window(n) <= Window(r) + FreeWindows - 1,
         ~WithholdsAcknowledgement(SequenceNumber(n), SequenceNumber(r))
  PROVE  Window(n) <= Window(r) + FreeWindows - 2
  <1>1. /\ Window(n) \in Nat /\ Window(r) \in Nat /\ FreeWindows \in Nat /\ 2 < FreeWindows
        /\ (n <= r => Window(n) <= Window(r))
    BY WindowOfPosition, WindowBounds, WindowAssumption
  <1>2. CASE n <= r
    BY <1>1, <1>2
  <1>3. CASE r < n
    <2>1. RelativeWindow(SequenceNumber(n), SequenceNumber(r)) = Window(n) - Window(r)
      BY <1>3, RelativeWindowIs
    <2>2. Window(n) - Window(r) # FreeWindows - 1
      BY <2>1 DEF WithholdsAcknowledgement
    <2> QED BY <1>1, <2>2
  <1> QED BY <1>2, <1>3

\* A command was stored, and the packets up to q were dispatched.
LEMMA ReceiverStep ==
  ASSUME NEW H \in [Channels -> Nat], NEW R \in [Channels -> Nat],
         DeliveryTyped, StreamInv(H), DeliveryInv(H, R), NEW m \in dataNet,
         NEW q \in Nat, R[m.ch] <= q, q <= H[m.ch],
         NEW rest \in Seq(IncomingCommand), NEW new,
         incomingReliableCommands' = [incomingReliableCommands EXCEPT ![m.ch] = rest],
         \A d \in Channels : incomingReliableSequenceNumber'[d] =
           IF d = m.ch THEN SequenceNumber(q) ELSE incomingReliableSequenceNumber[d],
         dispatchedCommands' = dispatchedCommands \o new,
         ListOK(m.ch, rest, q, H[m.ch]), HeadWaits(rest, q),
         \A x \in Nat \ {0} :
           Contains(incomingReliableCommands[m.ch], x) => x <= q \/ Contains(rest, x),
         m.num <= q \/ Contains(rest, m.num),
         Covers(m.ch, new, R[m.ch], q),
         QueueAcknowledgement(m), dataNet' \subseteq dataNet,
         UNCHANGED <<senderVars, ackNet, appVars>>
  PROVE  \E Q \in [Channels -> Nat] : DeliveryInv(H, Q)'
  <1> DEFINE c == m.ch
  <1>1. /\ c \in Channels /\ m.num \in Nat \ {0}
        /\ m.num <= H[c] /\ R[c] \in Nat /\ H[c] \in Nat /\ R[c] <= H[c]
        /\ Window(m.num) <= Window(R[c]) + FreeWindows - 1
        /\ H[c] < R[c] + SequenceSpace
    BY CommandReceived
  <1>2. /\ UNCHANGED <<unsent, pending, ackNet>> /\ Outstanding' = Outstanding
    BY DEF senderVars, appVars, Outstanding
  <1> HIDE DEF c
  <1>3. PICK Q : Q = [R EXCEPT ![c] = q]
    OBVIOUS
  <1>4. /\ Q \in [Channels -> Nat] /\ Q[c] = q /\ \A d \in Channels \ {c} : Q[d] = R[d]
        /\ \A d \in Channels : Q[d] \in Nat /\ R[d] \in Nat /\ R[d] <= Q[d]
    BY <1>1, <1>3 DEF c
  <1>5. /\ incomingReliableCommands'[c] = rest
        /\ \A d \in Channels \ {c} : incomingReliableCommands'[d] = incomingReliableCommands[d]
    BY <1>1 DEF c, DeliveryTyped, Typed, ReceiverType
  <1>6. \A d \in Channels : Window(R[d]) \in Nat /\ Window(Q[d]) \in Nat /\ Window(R[d]) <= Window(Q[d])
    <2>1. ASSUME NEW d \in Channels
          PROVE  Window(R[d]) \in Nat /\ Window(Q[d]) \in Nat /\ Window(R[d]) <= Window(Q[d])
      <3>1. Q[d] \in Nat /\ R[d] \in Nat /\ R[d] <= Q[d]
        BY <1>4
      <3>2. Window(R[d]) \in Nat /\ Window(Q[d]) \in Nat
        BY <3>1, WindowOfPosition
      <3>3. R[d] \in Int /\ Q[d] \in Int
        BY <3>1
      <3> QED BY <3>1, <3>2, <3>3, WindowBounds
    <2> QED BY <2>1
  <1>7. PositionInv(H, Q)'
    <2>1. ASSUME NEW d \in Channels
          PROVE  /\ Q[d] <= H[d]
                 /\ incomingReliableSequenceNumber'[d] = SequenceNumber(Q[d])
                 /\ Window(H[d]) <= Window(Q[d]) + FreeWindows - 1
      <3>1. /\ R[d] <= H[d]
            /\ incomingReliableSequenceNumber[d] = SequenceNumber(R[d])
            /\ Window(H[d]) <= Window(R[d]) + FreeWindows - 1
            /\ Window(H[d]) \in Nat
        BY WindowOfPosition DEF DeliveryInv, PositionInv
      <3>2. Window(H[d]) <= Window(Q[d]) + FreeWindows - 1
        BY <1>6, <3>1, WindowAssumption
      <3>3. CASE d = c
        BY <1>4, <3>2, <3>3 DEF c
      <3>4. CASE d # c
        BY <1>4, <3>1, <3>2, <3>4 DEF c
      <3> QED BY <3>3, <3>4
    <2> QED BY <2>1 DEF PositionInv
  <1>8. \A d, n, k : Queued(d, n, k)' <=> Queued(d, n, k)
    BY <1>2 DEF Queued
  <1>9. ListInv(H, Q)'
    <2>1. ASSUME NEW d \in Channels
          PROVE  /\ ListOK(d, incomingReliableCommands[d], Q[d], H[d])'
                 /\ HeadWaits(incomingReliableCommands[d], Q[d])'
      <3>1. PICK list : list = incomingReliableCommands'[d]
        OBVIOUS
      <3>2. ListOK(d, list, Q[d], H[d]) /\ HeadWaits(list, Q[d])
        <4>1. CASE d = c
          BY <1>4, <1>5, <3>1, <4>1 DEF c
        <4>2. CASE d # c
          BY <1>4, <1>5, <3>1, <4>2 DEF DeliveryInv, ListInv
        <4> QED BY <4>1, <4>2
      <3>3. ListOK(d, list, Q[d], H[d])'
        BY <1>8, <3>2 DEF ListOK
      <3> QED BY <3>1, <3>2, <3>3
    <2> QED BY <2>1 DEF ListInv
  <1>10. DispatchedInv(Q)'
    <2> DEFINE D == Len(dispatchedCommands)
    <2>1. /\ dispatchedCommands \in Seq([ch : Channels, data : Seq(Nat)])
          /\ new \in Seq([ch : Channels, data : Seq(Nat)])
      BY DEF DeliveryTyped, Typed, ReceiverType, Covers
    <2>2. /\ Len(dispatchedCommands \o new) = Len(dispatchedCommands) + Len(new)
          /\ \A i \in 1..Len(dispatchedCommands) : (dispatchedCommands \o new)[i] = dispatchedCommands[i]
          /\ \A i \in 1..Len(new) : (dispatchedCommands \o new)[Len(dispatchedCommands) + i] = new[i]
      BY <2>1, ConcatParts, SMTT(30)
    <2>3. D \in Nat /\ Len(new) \in Nat
      BY <2>1, LenProperties
    <2>4. /\ Len(dispatchedCommands') = D + Len(new)
          /\ \A i \in 1..D : dispatchedCommands'[i] = dispatchedCommands[i]
          /\ \A i \in 1..Len(new) : dispatchedCommands'[D + i] = new[i]
      BY <2>2
    <2> HIDE DEF D
    \* An entry is an old one or a new one.
    <2>5. ASSUME NEW i \in 1..Len(dispatchedCommands')
          PROVE  \/ i \in 1..D /\ dispatchedCommands'[i] = dispatchedCommands[i]
                 \/ i - D \in 1..Len(new) /\ dispatchedCommands'[i] = new[i - D]
      <3>1. CASE i \in 1..D
        BY <2>4, <3>1
      <3>2. CASE i \notin 1..D
        <4>1. i - D \in 1..Len(new) /\ D + (i - D) = i
          BY <2>3, <2>4, <3>2
        <4> QED BY <2>4, <4>1
      <3> QED BY <3>1, <3>2
    <2>6. /\ \A i \in 1..D :
               \E n \in Nat \ {0}, k \in FragmentCounts :
                 /\ dispatchedCommands[i].data = Packet(n, k)
                 /\ Queued(dispatchedCommands[i].ch, n, k)
                 /\ n <= R[dispatchedCommands[i].ch]
          /\ \A i \in 1..D : dispatchedCommands[i].ch \in Channels
      <3>1. \A i \in 1..D : dispatchedCommands[i] \in [ch : Channels, data : Seq(Nat)]
        BY <2>1, ElementOfSeq DEF D
      <3> QED BY <3>1 DEF DeliveryInv, DispatchedInv, D
    <2>7. \A i \in 1..Len(new) :
            /\ new[i].ch = c
            /\ \E n \in Nat \ {0}, k \in FragmentCounts :
                 new[i].data = Packet(n, k) /\ Queued(c, n, k) /\ R[c] < n /\ n <= q
      BY DEF Covers, c
    <2>8. ASSUME NEW i \in 1..Len(dispatchedCommands')
          PROVE  \E n \in Nat \ {0}, k \in FragmentCounts :
                   /\ dispatchedCommands'[i].data = Packet(n, k)
                   /\ Queued(dispatchedCommands[i].ch, n, k)'
                   /\ n <= Q[dispatchedCommands'[i].ch]
      <3>1. PICK d \in Channels, n \in Nat \ {0}, k \in FragmentCounts :
              /\ d = dispatchedCommands'[i].ch
              /\ dispatchedCommands'[i].data = Packet(n, k) /\ Queued(d, n, k) /\ n <= Q[d]
        <4>1. CASE i \in 1..D /\ dispatchedCommands'[i] = dispatchedCommands[i]
          <5>1. PICK d \in Channels : d = dispatchedCommands[i].ch
            BY <2>6, <4>1
          <5>2. PICK n \in Nat \ {0}, k \in FragmentCounts :
                  dispatchedCommands[i].data = Packet(n, k) /\ Queued(d, n, k) /\ n <= R[d]
            BY <2>6, <4>1, <5>1
          <5>3. n <= Q[d]
            BY <1>4, <5>2
          <5> QED BY <4>1, <5>1, <5>2, <5>3
        <4>2. CASE i - D \in 1..Len(new) /\ dispatchedCommands'[i] = new[i - D]
          BY <1>1, <1>4, <2>7, <4>2
        <4> QED BY <2>5, <4>1, <4>2
      <3>2. Queued(d, n, k)'
        BY <1>8, <3>1
      <3>3. Queued(dispatchedCommands[i].ch, n, k)'
        BY <3>1, <3>2 DEF Queued
      <3> QED BY <3>1, <3>3
    <2>9. ASSUME NEW i \in 1..Len(dispatchedCommands'), NEW j \in 1..Len(dispatchedCommands'), i < j,
                 dispatchedCommands'[i].ch = dispatchedCommands'[j].ch
          PROVE  dispatchedCommands'[i].data[1] < dispatchedCommands'[j].data[1]
      <3>1. CASE j \in 1..D
        <4>1. i \in 1..D
          BY <2>3, <2>4, <2>9, <3>1
        <4> QED BY <2>4, <2>9, <3>1, <4>1 DEF DeliveryInv, DispatchedInv, D
      <3>2. CASE j \notin 1..D /\ i \in 1..D
        <4>1. j - D \in 1..Len(new) /\ dispatchedCommands'[j] = new[j - D] /\ dispatchedCommands'[i] = dispatchedCommands[i]
          BY <2>4, <2>5, <3>2
        <4>2. PICK n \in Nat \ {0}, k \in FragmentCounts : new[j - D].data = Packet(n, k) /\ R[c] < n
          BY <2>7, <4>1
        <4>3. dispatchedCommands[i].ch = c
          BY <2>7, <2>9, <4>1
        <4>4. PICK x \in Nat \ {0}, l \in FragmentCounts : dispatchedCommands[i].data = Packet(x, l) /\ x <= R[c]
          BY <2>6, <3>2, <4>3
        <4>5. Packet(n, k)[1] = n /\ Packet(x, l)[1] = x
          BY LimitAssumption, PacketFields
        <4> QED BY <1>1, <4>1, <4>2, <4>4, <4>5
      <3>3. CASE j \notin 1..D /\ i \notin 1..D
        <4>1. /\ i - D \in 1..Len(new) /\ dispatchedCommands'[i] = new[i - D]
              /\ j - D \in 1..Len(new) /\ dispatchedCommands'[j] = new[j - D]
          BY <2>5, <3>3
        <4>2. i - D < j - D
          <5>1. i \in Nat /\ j \in Nat
            BY <2>3, <2>4
          <5> QED BY <2>3, <2>9, <5>1
        <4> QED BY <4>1, <4>2 DEF Covers
      <3> QED BY <3>1, <3>2, <3>3
    <2>10. ASSUME NEW d \in Channels, NEW n \in Nat \ {0}, NEW k \in FragmentCounts,
                  Queued(d, n, k)', n <= Q[d]
           PROVE  /\ n + k - 1 <= Q[d]
                  /\ \E i \in 1..Len(dispatchedCommands') :
                       dispatchedCommands'[i] = [ch |-> d, data |-> Packet(n, k)]
      <3>1. Queued(d, n, k) /\ k \in Nat
        BY <1>8, <2>10, LimitAssumption
      <3>2. CASE n <= R[d]
        <4>1. PICK i \in 1..D : dispatchedCommands[i] = [ch |-> d, data |-> Packet(n, k)]
          BY <3>1, <3>2 DEF DeliveryInv, DispatchedInv, D
        <4>2. n + k - 1 <= R[d]
          BY <3>1, <3>2 DEF DeliveryInv, DispatchedInv
        <4>3. i \in 1..Len(dispatchedCommands')
          BY <2>3, <2>4
        <4>4. n + k - 1 <= Q[d]
          BY <1>4, <3>1, <4>2
        <4> QED BY <2>4, <4>1, <4>3, <4>4
      <3>3. CASE ~(n <= R[d])
        <4>1. d = c /\ R[c] < n /\ n <= q
          BY <1>4, <2>10, <3>3
        <4>2. /\ n + k - 1 <= q
              /\ \E i \in 1..Len(new) : new[i] = [ch |-> d, data |-> Packet(n, k)]
          BY <3>1, <4>1 DEF Covers, c
        <4>3. PICK i \in 1..Len(new) : new[i] = [ch |-> d, data |-> Packet(n, k)]
          BY <4>2
        <4>4. D + i \in 1..Len(dispatchedCommands') /\ dispatchedCommands'[D + i] = new[i]
          <5>1. dispatchedCommands'[D + i] = new[i]
            BY <2>4
          <5>2. D + i \in 1..(D + Len(new))
            BY <2>3
          <5> QED BY <2>4, <5>1, <5>2
        <4>5. n + k - 1 <= Q[d]
          <5>1. Q[d] = q
            BY <1>4, <4>1
          <5> QED BY <4>2, <5>1
        <4>6. dispatchedCommands'[D + i] = [ch |-> d, data |-> Packet(n, k)]
          BY <4>3, <4>4
        <4> QED BY <4>4, <4>5, <4>6
      <3> QED BY <3>2, <3>3
    <2> QED BY <2>8, <2>9, <2>10 DEF DispatchedInv, Queued
  <1>11. CommandInv(Q)'
    <2>1. ASSUME NEW x \in Command, CommandOK(x, R) PROVE CommandOK(x, Q)'
      <3>1. /\ x.ch \in Channels /\ x.start \in Nat /\ x.num \in Nat /\ x.count \in Nat
            /\ R[x.ch] \in Nat /\ Q[x.ch] \in Nat /\ R[x.ch] <= Q[x.ch]
        BY <1>4 DEF Command
      <3>2. CASE Q[x.ch] < x.start
        <4>1. Queued(x.ch, x.start, x.count)
          BY <2>1, <3>1, <3>2 DEF CommandOK
        <4> QED BY <1>8, <2>1, <3>2, <4>1 DEF CommandOK
      <3>3. CASE ~(Q[x.ch] < x.start) /\ R[x.ch] < x.start
        <4>1. Queued(x.ch, x.start, x.count) /\ x.start \in Nat \ {0} /\ x.count \in FragmentCounts
          BY <2>1, <3>1, <3>3 DEF CommandOK
        <4>2. x.ch = c /\ x.start <= q /\ R[c] < x.start
          BY <1>4, <3>1, <3>3
        <4>3. x.start + x.count - 1 <= q
          BY <4>1, <4>2 DEF Covers, c
        <4> QED BY <1>4, <2>1, <3>3, <4>2, <4>3 DEF CommandOK
      <3>4. CASE ~(R[x.ch] < x.start)
        <4>1. x.start + x.count - 1 <= R[x.ch]
          BY <2>1, <3>4 DEF CommandOK
        <4>2. x.start + x.count - 1 <= Q[x.ch] /\ ~(Q[x.ch] < x.start)
          BY <3>1, <3>4, <4>1
        <4> QED BY <2>1, <4>2 DEF CommandOK
      <3> QED BY <3>2, <3>3, <3>4
    <2>2. ASSUME NEW x \in Outstanding' \cup dataNet' PROVE CommandOK(x, Q)'
      <3>1. x \in Command /\ CommandOK(x, R)
        BY <1>2 DEF DeliveryTyped, Typed, SenderInv, SenderType, Outstanding, NetType,
                    DeliveryInv, CommandInv
      <3> QED BY <2>1, <3>1
    <2>3. ASSUME NEW i \in 1..Len(unsent') PROVE CommandOK(unsent[i], Q)'
      <3>1. unsent' = unsent /\ unsent \in Seq(Command)
        BY <1>2 DEF DeliveryTyped, Typed, SenderInv, SenderType
      <3>2. unsent[i] \in Command
        <4> HIDE DEF Command
        <4> QED BY <3>1, ElementOfSeq
      <3>3. PICK x \in Command : x = unsent[i]
        BY <3>2
      <3>4. CommandOK(x, R)
        BY <3>1, <3>3 DEF DeliveryInv, CommandInv
      <3>5. CommandOK(x, Q)'
        BY <2>1, <3>4
      <3> QED BY <3>1, <3>3, <3>5
    <2> QED BY <2>2, <2>3 DEF CommandInv
  <1>12. ASSUME NEW d \in Channels, NEW n \in Nat, AcknowledgementOK(d, n, R)
         PROVE  AcknowledgementOK(d, n, Q)'
    <2>1. Window(n) <= Window(Q[d]) + FreeWindows - 2
      <3>1. Window(n) \in Nat /\ Window(n) <= Window(R[d]) + FreeWindows - 2
        BY <1>12, WindowOfPosition DEF AcknowledgementOK
      <3> QED BY <1>6, <3>1, WindowAssumption
    <2>2. n <= Q[d] \/ Contains(incomingReliableCommands'[d], n)
      <3>1. CASE n <= R[d]
        BY <1>4, <3>1
      <3>2. CASE ~(n <= R[d])
        <4>1. Contains(incomingReliableCommands[d], n) /\ n \in Nat \ {0}
          BY <1>4, <1>12, <3>2 DEF AcknowledgementOK
        <4>2. CASE d = c
          BY <1>4, <1>5, <4>1, <4>2 DEF c
        <4>3. CASE d # c
          BY <1>5, <4>1, <4>3
        <4> QED BY <4>2, <4>3
      <3> QED BY <3>1, <3>2
    <2> QED BY <2>1, <2>2 DEF AcknowledgementOK
  <1>13. ASSUME [ch |-> c, num |-> m.num] \in acknowledgements',
                [ch |-> c, num |-> m.num] \notin acknowledgements
         PROVE  AcknowledgementOK(c, m.num, Q)'
    <2>1. ~WithholdsAcknowledgement(SequenceNumber(m.num), SequenceNumber(q))
      BY <1>1, <1>13 DEF QueueAcknowledgement, c
    <2>2. Window(m.num) <= Window(q) + FreeWindows - 1
      <3>1. Window(m.num) \in Nat /\ Window(R[c]) <= Window(q) /\ Window(q) \in Nat /\ Window(R[c]) \in Nat
        BY <1>1, <1>4, <1>6, WindowOfPosition
      <3> QED BY <1>1, <3>1, WindowAssumption
    <2>3. m.num < q + SequenceSpace
      BY <1>1, SequenceSpaceType DEF c
    <2>4. Window(m.num) <= Window(q) + FreeWindows - 2
      BY <1>1, <2>1, <2>2, <2>3, NotWithheld
    <2>5. m.num <= Q[c] \/ Contains(incomingReliableCommands'[c], m.num)
      BY <1>4, <1>5
    <2> QED BY <1>4, <2>4, <2>5 DEF AcknowledgementOK
  <1>14. HeldInv(H, Q)'
    <2>1. ASSUME NEW a \in ackNet' \cup acknowledgements' PROVE AcknowledgementOK(a.ch, a.num, Q)'
      <3>1. CASE a \in ackNet \cup acknowledgements
        <4>1. a.ch \in Channels /\ a.num \in Nat
          BY <3>1 DEF DeliveryTyped, Typed, NetType, ReceiverType, Acknowledgement
        <4>2. AcknowledgementOK(a.ch, a.num, R)
          BY <3>1 DEF DeliveryInv, HeldInv
        <4> QED BY <1>12, <4>1, <4>2
      <3>2. CASE a \notin ackNet \cup acknowledgements
        <4>1. a = [ch |-> c, num |-> m.num] /\ a \in acknowledgements' /\ a \notin acknowledgements
          BY <1>2, <3>2 DEF QueueAcknowledgement, c
        <4>2. AcknowledgementOK(c, m.num, Q)'
          BY <1>13, <4>1
        <4> QED BY <4>1, <4>2
      <3> QED BY <3>1, <3>2
    <2>2. ASSUME NEW d \in Channels, NEW n \in Nat, n <= H[d], ~Waits(d, n)'
          PROVE  AcknowledgementOK(d, n, Q)'
      <3>1. ~Waits(d, n)
        BY <1>2, <2>2 DEF Waits
      <3>2. AcknowledgementOK(d, n, R)
        BY <2>2, <3>1 DEF DeliveryInv, HeldInv
      <3> QED BY <1>12, <3>2
    <2> QED BY <2>1, <2>2 DEF HeldInv
  <1> QED BY <1>4, <1>7, <1>9, <1>10, <1>11, <1>14 DEF DeliveryInv

\* A command of a packet dispatched before the last one is outside the
\* receive window, so it is discarded.
LEMMA OldIsDiscarded ==
  ASSUME PacketsFit, NEW H \in [Channels -> Nat], NEW R \in [Channels -> Nat],
         DeliveryTyped, StreamInv(H), DeliveryInv(H, R), NEW m \in dataNet, m.start < R[m.ch]
  PROVE  ~InReceiveWindow(SequenceNumber(m.start), SequenceNumber(R[m.ch]))
  <1> DEFINE s == m.start
             r == R[m.ch]
             k == ReliableWindows - FreeWindows + 1
             u == Window(s)
             v == Window(r)
  <1>1. /\ s \in Nat /\ r \in Nat /\ s < r /\ m.num \in Nat /\ m.count \in FragmentCounts /\ m.count \in Nat
        /\ H[m.ch] \in Nat /\ r <= H[m.ch] /\ H[m.ch] <= m.num + Reach /\ m.num <= s + m.count - 1
    BY CommandReceived
  <1>2. /\ ReliableWindows \in Nat /\ FreeWindows \in Nat /\ WindowSize \in Nat \ {0}
        /\ k \in Nat /\ k < ReliableWindows /\ Reach \in Nat
    BY WindowAssumption, ReachFits
  <1>3. /\ WindowSize * k \in Nat /\ WindowSize * k < SequenceSpace
        /\ k * WindowSize = WindowSize * k
    <2> HIDE DEF k
    <2>1. WindowSize * k + WindowSize <= ReliableWindows * WindowSize
      <3>1. WindowSize * (k + 1) <= WindowSize * ReliableWindows
        BY <1>2, SMT
      <3>2. WindowSize * (k + 1) = WindowSize * k + WindowSize
            /\ WindowSize * ReliableWindows = ReliableWindows * WindowSize
        BY <1>2, SMT
      <3> QED BY <3>1, <3>2
    <2> QED BY <1>2, <2>1, SMT DEF SequenceSpace
  <1>4. r - s <= WindowSize * k
    <2>1. Reach + m.count - 1 <= k * WindowSize
      BY <1>1 DEF PacketsFit
    <2> HIDE DEF s, r, k
    <2> QED BY <1>1, <1>2, <1>3, <2>1
  <1>5. r < s + SequenceSpace
    <2> HIDE DEF s, r, k
    <2> QED BY <1>1, <1>3, <1>4, SequenceSpaceType
  <1>6. RelativeWindow(SequenceNumber(s), SequenceNumber(r)) = u - v + ReliableWindows
    BY <1>1, <1>5, RelativeWindowIs
  <1>7. /\ u \in Int /\ v \in Int /\ s < WindowSize * u + WindowSize /\ WindowSize * v <= r
    BY <1>1, WindowBounds
  <1> HIDE DEF s, r, u, v
  <1>8. v - u <= k
    <2> HIDE DEF k
    <2> SUFFICES ASSUME v >= u + k + 1 PROVE FALSE
      BY <1>2, <1>7
    <2>1. WindowSize * v >= WindowSize * (u + k + 1)
      BY <1>2, <1>7, SMT
    <2>2. /\ WindowSize * (u + k + 1) = WindowSize * u + WindowSize * k + WindowSize
          /\ WindowSize * u \in Int /\ WindowSize * v \in Int
      BY <1>2, <1>7, SMT
    <2> QED BY <1>1, <1>2, <1>3, <1>4, <1>7, <2>1, <2>2
  <1>9. u - v + ReliableWindows >= FreeWindows - 1
    BY <1>2, <1>7, <1>8
  <1>10. ~(RelativeWindow(SequenceNumber(s), SequenceNumber(r)) < FreeWindows - 1)
    BY <1>2, <1>6, <1>7, <1>9
  <1> QED BY <1>10 DEF InReceiveWindow, s, r

\* The command was stored in list, which is dispatched as far as it can be.
LEMMA DispatchStep ==
  ASSUME NEW H \in [Channels -> Nat], NEW R \in [Channels -> Nat],
         DeliveryTyped, StreamInv(H), DeliveryInv(H, R), NEW m \in dataNet,
         NEW list \in Seq(IncomingCommand), ListOK(m.ch, list, R[m.ch], H[m.ch]),
         \A x \in Nat \ {0} : Contains(incomingReliableCommands[m.ch], x) => Contains(list, x),
         Contains(list, m.num),
         DispatchIncomingReliableCommands(m.ch, list),
         QueueAcknowledgement(m), dataNet' \subseteq dataNet,
         UNCHANGED <<senderVars, ackNet, appVars>>
  PROVE  \E Q \in [Channels -> Nat] : DeliveryInv(H, Q)'
  <1> DEFINE c == m.ch
             r == R[c]
  <1>1. /\ c \in Channels /\ m.num \in Nat \ {0} /\ r \in Nat /\ H[c] \in Nat /\ r <= H[c]
        /\ H[c] < r + SequenceSpace
        /\ incomingReliableSequenceNumber[c] = SequenceNumber(r)
    BY CommandReceived
  <1>2. PICK k \in 0..Len(list) :
          /\ InOrder(list, incomingReliableSequenceNumber[c], k)
          /\ k # Len(list) => ~InOrder(list, incomingReliableSequenceNumber[c], k + 1)
          /\ incomingReliableCommands' =
               [incomingReliableCommands EXCEPT ![c] = SubSeq(list, k + 1, Len(list))]
          /\ incomingReliableSequenceNumber' =
               IF k = 0 THEN incomingReliableSequenceNumber
               ELSE [incomingReliableSequenceNumber EXCEPT ![c] = LastSequenceNumber(list[k])]
          /\ dispatchedCommands' = Dispatch(c, list, k)
    BY DEF DispatchIncomingReliableCommands
  <1>3. PICK q : q = (IF k = 0 THEN r ELSE Base(list[k]) + Len(list[k].data) - 1)
    OBVIOUS
  <1>4. PICK rest : rest = SubSeq(list, k + 1, Len(list))
    OBVIOUS
  <1>5. PICK new : new = [i \in 1..k |-> [ch |-> c, data |-> list[i].data]]
    OBVIOUS
  <1> HIDE DEF c, r
  <1>6. /\ q \in Nat /\ r <= q /\ q <= H[c]
        /\ k # 0 => LastSequenceNumber(list[k]) = SequenceNumber(q)
        /\ rest \in Seq(IncomingCommand)
        /\ ListOK(c, rest, q, H[c])
        /\ HeadWaits(rest, q)
        /\ \A x \in Nat \ {0} : Contains(list, x) => x <= q \/ Contains(rest, x)
        /\ Covers(c, new, r, q)
    <2>1. /\ PendingInv /\ AppType
          /\ ListOK(c, list, r, H[c])
          /\ InOrder(list, SequenceNumber(r), k)
          /\ k # Len(list) => ~InOrder(list, SequenceNumber(r), k + 1)
      BY <1>1, <1>2 DEF DeliveryTyped, c, r
    <2>2. Dispatches(c, r, list, k, q, rest, new)
      BY <1>3, <1>4, <1>5, <2>1 DEF Dispatches
    <2> QED BY <1>1, <2>1, <2>2, DispatchKeeps
  <1>7. \A d \in Channels : incomingReliableSequenceNumber'[d] =
           IF d = c THEN SequenceNumber(q) ELSE incomingReliableSequenceNumber[d]
    <2>1. incomingReliableSequenceNumber \in [Channels -> 0..(SequenceSpace - 1)]
      BY DEF DeliveryTyped, Typed, ReceiverType
    <2>2. CASE k = 0
      BY <1>1, <1>2, <1>3, <2>2
    <2>3. CASE k # 0
      BY <1>1, <1>2, <1>6, <2>1, <2>3
    <2> QED BY <2>2, <2>3
  <1>8. dispatchedCommands' = dispatchedCommands \o new
    BY <1>2, <1>5 DEF Dispatch
  <1>9. /\ \A x \in Nat \ {0} : Contains(incomingReliableCommands[c], x) => x <= q \/ Contains(rest, x)
        /\ m.num <= q \/ Contains(rest, m.num)
    BY <1>1, <1>6 DEF c
  <1>10. incomingReliableCommands' = [incomingReliableCommands EXCEPT ![c] = rest]
    BY <1>2, <1>4
  <1> QED BY <1>6, <1>7, <1>8, <1>9, <1>10, ReceiverStep DEF c, r

\* The entry the search finds assembles the packet of the command.
LEMMA FoundEntry ==
  ASSUME PendingInv, AppType, NEW c \in Channels, NEW r \in Nat, NEW h \in Nat, NEW list,
         ListOK(c, list, r, h), h < r + SequenceSpace, Len(list) \in Nat,
         NEW n \in Nat \ {0}, NEW k \in Nat \ {0}, r < n, n <= h, Queued(c, n, k),
         NEW p \in 0..Len(list), Found(list, SequenceNumber(n), p)
  PROVE  p \in 1..Len(list) /\ Base(list[p]) = n /\ Len(list[p].data) = k
  <1>1. p \in 1..Len(list) /\ list[p].seq = SequenceNumber(n)
    BY DEF Found
  <1> DEFINE b == Base(list[p])
             l == Len(list[p].data)
  <1>2. /\ b \in Nat /\ r < b /\ b <= h /\ list[p].seq = SequenceNumber(b)
        /\ l \in Nat \ {0} /\ Queued(c, b, l)
    BY <1>1, EntryFields
  <1> HIDE DEF b, l
  <1>3. n < b + SequenceSpace /\ b < n + SequenceSpace
    BY <1>2, SequenceSpaceType
  <1>4. b = n
    BY <1>1, <1>2, <1>3, SameSequenceNumber
  <1>5. l = k
    <2>1. n <= n + k - 1 /\ n \in Nat
      OBVIOUS
    <2> QED BY <1>2, <1>4, <2>1, SamePacket
  <1> QED BY <1>1, <1>4, <1>5 DEF b, l

\* What was received before is acknowledged again.
LEMMA AcknowledgedAgain ==
  ASSUME NEW H \in [Channels -> Nat], NEW R \in [Channels -> Nat],
         DeliveryTyped, StreamInv(H), DeliveryInv(H, R), NEW m \in dataNet,
         UNCHANGED <<incomingReliableSequenceNumber, incomingReliableCommands, dispatchedCommands>>,
         m.num <= R[m.ch] \/ Contains(incomingReliableCommands[m.ch], m.num),
         QueueAcknowledgement(m), dataNet' \subseteq dataNet,
         UNCHANGED <<senderVars, ackNet, appVars>>
  PROVE  DeliveryInv(H, R)'
  <1>1. /\ m.ch \in Channels /\ m.num \in Nat /\ R[m.ch] \in Nat /\ H[m.ch] \in Nat
        /\ m.num <= H[m.ch] /\ H[m.ch] < R[m.ch] + SequenceSpace
        /\ Window(m.num) <= Window(R[m.ch]) + FreeWindows - 1
        /\ incomingReliableSequenceNumber[m.ch] = SequenceNumber(R[m.ch])
    BY CommandReceived
  <1>2. Outstanding' = Outstanding /\ UNCHANGED <<unsent, pending>>
    BY DEF senderVars, appVars, Outstanding
  <1>3. ASSUME NEW a \in ackNet' \cup acknowledgements', a \notin ackNet \cup acknowledgements
        PROVE  AcknowledgementOK(a.ch, a.num, R)
    <2>1. /\ a = [ch |-> m.ch, num |-> m.num]
          /\ ~WithholdsAcknowledgement(SequenceNumber(m.num), SequenceNumber(R[m.ch]))
      BY <1>1, <1>3 DEF QueueAcknowledgement
    <2>2. m.num < R[m.ch] + SequenceSpace
      BY <1>1, SequenceSpaceType
    <2>3. Window(m.num) <= Window(R[m.ch]) + FreeWindows - 2
      BY <1>1, <2>1, <2>2, NotWithheld
    <2> QED BY <2>1, <2>3 DEF AcknowledgementOK
  <1> QED BY <1>2, <1>3, NothingReceived

\* A command outside the receive window is old, and acknowledged as such, or
\* new, and its acknowledgement is withheld.
LEMMA DiscardCommandDelivery ==
  ASSUME NEW H \in [Channels -> Nat], NEW R \in [Channels -> Nat],
         DeliveryTyped, StreamInv(H), DeliveryInv(H, R), NEW m \in dataNet,
         DiscardCommand(m), dataNet' \subseteq dataNet,
         UNCHANGED <<senderVars, ackNet, appVars>>
  PROVE  DeliveryInv(H, R)'
  <1> DEFINE n == m.num
             s == m.start
             r == R[m.ch]
  <1>1. /\ m.ch \in Channels /\ n \in Nat /\ s \in Nat /\ s <= n /\ n <= s + m.count - 1
        /\ m.count \in Nat
        /\ r \in Nat /\ H[m.ch] \in Nat /\ n <= H[m.ch] /\ H[m.ch] < r + SequenceSpace
        /\ Window(n) <= Window(r) + FreeWindows - 1
        /\ incomingReliableSequenceNumber[m.ch] = SequenceNumber(r)
        /\ IF r < s THEN Queued(m.ch, s, m.count) ELSE s + m.count - 1 <= r
    BY CommandReceived
  <1>2. /\ ~InReceiveWindow(SequenceNumber(s), SequenceNumber(r))
        /\ UNCHANGED <<incomingReliableSequenceNumber, incomingReliableCommands, dispatchedCommands>>
        /\ QueueAcknowledgement(m)
    BY <1>1 DEF DiscardCommand
  <1>3. CASE n <= r
    BY <1>2, <1>3, AcknowledgedAgain
  <1>4. CASE ~(n <= r)
    <2>1. r < s /\ r < n
      <3> HIDE DEF n, s, r
      <3> QED BY <1>1, <1>4
    <2>2. s < r + SequenceSpace /\ n < r + SequenceSpace
      <3> HIDE DEF n, s, r
      <3> QED BY <1>1, SequenceSpaceType
    <2>3. RelativeWindow(SequenceNumber(s), SequenceNumber(r)) = Window(s) - Window(r)
      BY <1>1, <2>1, <2>2, RelativeWindowIs
    <2>4. RelativeWindow(SequenceNumber(n), SequenceNumber(r)) = Window(n) - Window(r)
      BY <1>1, <2>1, <2>2, RelativeWindowIs
    <2>5. Window(s) \in Nat /\ Window(n) \in Nat /\ Window(r) \in Nat /\ Window(s) <= Window(n)
      BY <1>1, WindowOfPosition, WindowBounds
    <2>6. Window(s) - Window(r) >= FreeWindows - 1
      BY <1>2, <2>3, <2>5, WindowAssumption DEF InReceiveWindow
    <2>7. Window(n) - Window(r) = FreeWindows - 1
      <3> HIDE DEF n, s, r
      <3> QED BY <1>1, <2>5, <2>6, WindowAssumption
    <2>8. WithholdsAcknowledgement(SequenceNumber(n), SequenceNumber(r))
      BY <2>4, <2>7 DEF WithholdsAcknowledgement
    <2>9. acknowledgements' = acknowledgements
      BY <1>1, <1>2, <2>8 DEF QueueAcknowledgement
    <2>10. Outstanding' = Outstanding /\ UNCHANGED <<unsent, pending>>
      BY DEF senderVars, appVars, Outstanding
    <2> QED BY <1>2, <2>9, <2>10, NothingReceived
  <1> QED BY <1>3, <1>4

\* What is known of a command inside the receive window: its packet starts at
\* R or later, and the receiver compares sequence numbers as positions.
LEMMA CommandInWindow ==
  ASSUME PacketsFit, NEW H \in [Channels -> Nat], NEW R \in [Channels -> Nat],
         DeliveryTyped, StreamInv(H), DeliveryInv(H, R), NEW m \in dataNet,
         InReceiveWindow(SequenceNumber(m.start), incomingReliableSequenceNumber[m.ch])
  PROVE  /\ R[m.ch] <= m.start
         /\ R[m.ch] = m.start => m.count = 1 /\ m.num = m.start
         /\ SequenceNumber(m.start) = incomingReliableSequenceNumber[m.ch] => R[m.ch] = m.start
         /\ R[m.ch] < m.start => Queued(m.ch, m.start, m.count)
         /\ m.start <= H[m.ch]
         /\ incomingReliableCommands[m.ch] \in Seq(IncomingCommand)
         /\ Len(incomingReliableCommands[m.ch]) \in Nat
         /\ ListOK(m.ch, incomingReliableCommands[m.ch], R[m.ch], H[m.ch])
         /\ HeadWaits(incomingReliableCommands[m.ch], R[m.ch])
  <1> DEFINE c == m.ch
             s == m.start
             r == R[c]
  <1>1. /\ c \in Channels /\ m.num \in Nat /\ s \in Nat /\ m.count \in Nat \ {0}
        /\ s <= m.num /\ m.num <= s + m.count - 1
        /\ r \in Nat /\ H[c] \in Nat /\ m.num <= H[c] /\ H[c] < r + SequenceSpace
        /\ incomingReliableSequenceNumber[c] = SequenceNumber(r)
        /\ IF r < s THEN Queued(c, s, m.count) ELSE s + m.count - 1 <= r
    BY CommandReceived
  <1>2. r <= s
    <2> SUFFICES ASSUME s < r PROVE FALSE
      BY <1>1
    <2> QED BY <1>1, OldIsDiscarded
  <1>3. s <= H[c]
    BY <1>1
  <1>4. ASSUME r = s PROVE m.count = 1 /\ m.num = s
    <2> HIDE DEF r, s
    <2> QED BY <1>1, <1>4
  <1>5. ASSUME SequenceNumber(s) = incomingReliableSequenceNumber[c] PROVE r = s
    <2>1. SequenceNumber(s) = SequenceNumber(r)
      BY <1>1, <1>5
    <2> HIDE DEF r, s, c
    <2>2. s < r + SequenceSpace /\ r < s + SequenceSpace
      BY <1>1, <1>2, <1>3, SequenceSpaceType
    <2>3. s = r
      BY <1>1, <2>1, <2>2, SameSequenceNumber
    <2> QED BY <2>3
  <1>6. incomingReliableCommands[c] \in Seq(IncomingCommand)
    BY <1>1 DEF DeliveryTyped, Typed, ReceiverType
  <1>7. Len(incomingReliableCommands[c]) \in Nat
    BY <1>6, LenProperties
  <1>8. /\ ListOK(c, incomingReliableCommands[c], r, H[c])
        /\ HeadWaits(incomingReliableCommands[c], r)
    BY <1>1 DEF DeliveryInv, ListInv
  <1> QED BY <1>1, <1>2, <1>3, <1>4, <1>5, <1>6, <1>7, <1>8

\* The slot of a fragment in the packet the search finds.
LEMMA FoundFragment ==
  ASSUME PacketsFit, NEW H \in [Channels -> Nat], NEW R \in [Channels -> Nat],
         DeliveryTyped, StreamInv(H), DeliveryInv(H, R), NEW m \in dataNet,
         InReceiveWindow(SequenceNumber(m.start), incomingReliableSequenceNumber[m.ch]),
         R[m.ch] < m.start,
         NEW p \in 0..Len(incomingReliableCommands[m.ch]),
         Found(incomingReliableCommands[m.ch], SequenceNumber(m.start), p)
  PROVE  LET e == incomingReliableCommands[m.ch][p]
             slot == m.num - m.start + 1
         IN /\ p \in 1..Len(incomingReliableCommands[m.ch])
            /\ Base(e) = m.start /\ Len(e.data) = m.count
            /\ slot \in 1..Len(e.data)
            /\ m.num = Base(e) + slot - 1
            /\ e.data[slot] # 0 => Contains(incomingReliableCommands[m.ch], m.num)
  <1> DEFINE c == m.ch
             list == incomingReliableCommands[c]
             e == list[p]
             slot == m.num - m.start + 1
  <1>1. /\ c \in Channels /\ R[c] \in Nat /\ H[c] \in Nat /\ H[c] < R[c] + SequenceSpace
        /\ m.start \in Nat \ {0} /\ m.count \in Nat \ {0} /\ m.num \in Nat
        /\ m.start <= m.num /\ m.num <= m.start + m.count - 1
    BY CommandReceived
  <1>2. /\ Queued(c, m.start, m.count) /\ m.start <= H[c]
        /\ Len(list) \in Nat /\ ListOK(c, list, R[c], H[c])
    BY CommandInWindow
  <1>3. p \in 1..Len(list) /\ Base(e) = m.start /\ Len(e.data) = m.count
    <2> HIDE DEF c, list
    <2>1. PendingInv /\ AppType
      BY DEF DeliveryTyped
    <2>2. Found(list, SequenceNumber(m.start), p) /\ p \in 0..Len(list) /\ R[c] < m.start
      BY DEF c, list
    <2> QED BY <1>1, <1>2, <2>1, <2>2, FoundEntry
  <1>4. slot \in 1..m.count /\ m.num = m.start + slot - 1
    <2>1. \A n, s, k \in Nat : s <= n /\ n <= s + k - 1 =>
            n - s + 1 \in 1..k /\ n = s + (n - s + 1) - 1
      OBVIOUS
    <2>2. m.num \in Nat /\ m.start \in Nat /\ m.count \in Nat
      BY <1>1
    <2> QED BY <1>1, <2>1, <2>2
  <1>5. ASSUME e.data[slot] # 0 PROVE Contains(list, m.num)
    <2>1. Assembles(e, m.start, H[c])
      BY <1>2, <1>3 DEF ListOK
    <2>2. e.data[slot] = m.num
      BY <1>3, <1>4, <1>5, <2>1 DEF Assembles
    <2> QED BY <1>3, <1>4, <2>2 DEF Contains
  <1> QED BY <1>3, <1>4, <1>5

\* A packet received twice is acknowledged again.
LEMMA DiscardDuplicateDelivery ==
  ASSUME PacketsFit, NEW H \in [Channels -> Nat], NEW R \in [Channels -> Nat],
         DeliveryTyped, StreamInv(H), DeliveryInv(H, R), NEW m \in dataNet,
         InReceiveWindow(SequenceNumber(m.start), incomingReliableSequenceNumber[m.ch]),
         NEW p \in 0..Len(incomingReliableCommands[m.ch]),
         DiscardDuplicate(m, p), dataNet' \subseteq dataNet,
         UNCHANGED <<senderVars, ackNet, appVars>>
  PROVE  DeliveryInv(H, R)'
  <1> DEFINE c == m.ch
             list == incomingReliableCommands[c]
  <1>1. /\ m.num \in Nat /\ m.start \in Nat /\ R[c] \in Nat
        /\ m.start <= m.num /\ m.num <= m.start + m.count - 1
    BY CommandReceived
  <1>2. /\ m.count = 1
        /\ UNCHANGED <<incomingReliableSequenceNumber, incomingReliableCommands, dispatchedCommands>>
        /\ QueueAcknowledgement(m)
        /\ \/ SequenceNumber(m.num) = incomingReliableSequenceNumber[c]
           \/ Found(list, SequenceNumber(m.num), p)
    BY DEF DiscardDuplicate
  <1>3. m.num = m.start
    BY <1>1, <1>2
  <1>4. m.num <= R[c] \/ Contains(list, m.num)
    <2>1. CASE R[c] = m.start
      BY <1>1, <1>3, <2>1
    <2>2. CASE R[c] # m.start
      <3>1. R[c] < m.start
        <4>1. R[c] <= m.start
          BY CommandInWindow
        <4> QED BY <1>1, <2>2, <4>1
      <3>2. SequenceNumber(m.start) # incomingReliableSequenceNumber[c]
        BY <2>2, CommandInWindow
      <3>3. Found(list, SequenceNumber(m.start), p)
        BY <1>2, <1>3, <3>2
      <3>4. /\ p \in 1..Len(list) /\ Base(list[p]) = m.start /\ Len(list[p].data) = m.count
            /\ ListOK(c, list, R[c], H[c])
        BY <3>1, <3>3, FoundFragment, CommandInWindow
      <3>5. Assembles(list[p], m.start, H[c])
        BY <3>4 DEF ListOK
      <3>6. PICK j \in 1..Len(list[p].data) : list[p].data[j] # 0
        BY <3>5 DEF Assembles
      <3>7. j = 1 /\ list[p].data[j] \in {0, m.start + j - 1}
        BY <1>2, <3>4, <3>5, <3>6 DEF Assembles
      <3>8. list[p].data[j] = m.num
        BY <1>1, <1>3, <3>6, <3>7
      <3> QED BY <3>4, <3>8 DEF Contains
    <2> QED BY <2>1, <2>2
  <1> QED BY <1>2, <1>4, AcknowledgedAgain

\* A fragment of a packet being assembled: known, the last one missing, or
\* one of several.
LEMMA MarkFragmentDelivery ==
  ASSUME PacketsFit, NEW H \in [Channels -> Nat], NEW R \in [Channels -> Nat],
         DeliveryTyped, StreamInv(H), DeliveryInv(H, R), NEW m \in dataNet,
         InReceiveWindow(SequenceNumber(m.start), incomingReliableSequenceNumber[m.ch]),
         NEW p \in 0..Len(incomingReliableCommands[m.ch]),
         MarkFragment(m, p), dataNet' \subseteq dataNet,
         UNCHANGED <<senderVars, ackNet, appVars>>
  PROVE  \E Q \in [Channels -> Nat] : DeliveryInv(H, Q)'
  <1> DEFINE c == m.ch
             list == incomingReliableCommands[c]
             slot == m.num - m.start + 1
  <1>1. /\ c \in Channels /\ m.num \in Nat \ {0} /\ R[c] \in Nat /\ H[c] \in Nat
        /\ R[c] <= H[c] /\ m.num <= H[c]
        /\ incomingReliableSequenceNumber[c] = SequenceNumber(R[c])
    BY CommandReceived
  <1>2. PICK marked : marked = [list EXCEPT ![p].data[slot] = m.num]
    OBVIOUS
  <1>3. /\ m.count > 1
        /\ Found(list, SequenceNumber(m.start), p)
        /\ IF list[p].data[slot] # 0
           THEN UNCHANGED <<incomingReliableSequenceNumber, incomingReliableCommands,
                            dispatchedCommands>>
           ELSE IF Complete(marked[p])
                THEN DispatchIncomingReliableCommands(c, marked)
                ELSE /\ incomingReliableCommands' =
                          [incomingReliableCommands EXCEPT ![c] = marked]
                     /\ UNCHANGED <<incomingReliableSequenceNumber, dispatchedCommands>>
        /\ QueueAcknowledgement(m)
    BY <1>2 DEF MarkFragment
  <1>4. R[c] < m.start
    <2>1. R[c] <= m.start /\ (R[c] = m.start => m.count = 1)
      BY CommandInWindow
    <2>2. R[c] # m.start
      BY <1>3, <2>1
    <2>3. m.start \in Nat
      BY CommandReceived
    <2> QED BY <1>1, <2>1, <2>2, <2>3
  <1>5. /\ list \in Seq(IncomingCommand)
        /\ ListOK(c, list, R[c], H[c]) /\ HeadWaits(list, R[c])
    BY CommandInWindow
  <1>6. /\ p \in 1..Len(list) /\ slot \in 1..Len(list[p].data)
        /\ m.num = Base(list[p]) + slot - 1
        /\ list[p].data[slot] # 0 => Contains(list, m.num)
    BY <1>3, <1>4, FoundFragment
  <1>7. /\ ListOK(c, marked, R[c], H[c])
        /\ \A x \in Nat \ {0} : Contains(list, x) => Contains(marked, x)
        /\ Contains(marked, m.num)
        /\ marked \in Seq(IncomingCommand)
        /\ \A i \in 1..Len(list) : i # p => marked[i] = list[i]
    <2> HIDE DEF c, list, slot
    <2>1. R[c] \in Nat /\ H[c] \in Nat /\ m.num \in Nat \ {0} /\ m.num <= H[c]
      BY <1>1
    <2>2. /\ list \in Seq(IncomingCommand) /\ ListOK(c, list, R[c], H[c])
          /\ p \in 1..Len(list) /\ slot \in 1..Len(list[p].data)
          /\ m.num = Base(list[p]) + slot - 1
      BY <1>5, <1>6
    <2>3. Marks(c, R[c], H[c], list, p, slot, m.num, marked)
      BY <1>2, <2>1, <2>2 DEF Marks
    <2>4. ListOK(c, marked, R[c], H[c]) /\ Contains(marked, m.num)
      BY <2>1, <2>3, MarkKeeps
    <2>5. \A x \in Nat \ {0} : Contains(list, x) => Contains(marked, x)
      BY <2>1, <2>3, MarkKeeps
    <2>6. marked \in Seq(IncomingCommand)
      BY <2>1, <2>3, MarkKeeps
    <2>7. \A i \in 1..Len(list) : i # p => marked[i] = list[i]
      BY <1>2, <2>2
    <2> QED BY <2>4, <2>5, <2>6, <2>7
  <1>8. CASE list[p].data[slot] # 0
    <2>1. DeliveryInv(H, R)'
      BY <1>3, <1>6, <1>8, AcknowledgedAgain
    <2> QED BY <2>1
  <1>9. CASE list[p].data[slot] = 0 /\ Complete(marked[p])
    <2>1. DispatchIncomingReliableCommands(c, marked)
      BY <1>3, <1>9
    <2> QED BY <1>3, <1>7, <2>1, DispatchStep
  <1>10. CASE list[p].data[slot] = 0 /\ ~Complete(marked[p])
    <2>1. /\ incomingReliableCommands' = [incomingReliableCommands EXCEPT ![c] = marked]
          /\ UNCHANGED <<incomingReliableSequenceNumber, dispatchedCommands>>
      BY <1>3, <1>10
    <2>2. HeadWaits(marked, R[c])
      <3>1. CASE p = 1
        BY <1>10, <3>1 DEF HeadWaits
      <3>2. CASE p # 1
        <4>1. Len(list) \in Nat /\ 1 \in 1..Len(list) /\ marked[1] = list[1] /\ list # <<>>
          <5>1. Len(list) \in Nat
            BY CommandInWindow
          <5>2. 1 \in 1..Len(list) /\ list # <<>>
            BY <1>6, <5>1
          <5> QED BY <1>7, <3>2, <5>1, <5>2
        <4> QED BY <1>5, <4>1 DEF HeadWaits
      <3> QED BY <3>1, <3>2
    <2>3. PICK new : new = <<>>
      OBVIOUS
    <2>4. dispatchedCommands' = dispatchedCommands \o new
      <3>1. dispatchedCommands \in Seq([ch : Channels, data : Seq(Nat)])
        BY DEF DeliveryTyped, Typed, ReceiverType
      <3> QED BY <2>1, <2>3, <3>1
    <2>5. Covers(c, new, R[c], R[c])
      <3>1. \A n \in Nat : ~(R[c] < n /\ n <= R[c])
        BY <1>1
      <3>2. new \in Seq([ch : Channels, data : Seq(Nat)]) /\ Len(new) = 0
        BY <2>3
      <3>3. 1..Len(new) = {}
        BY <3>2
      <3> QED BY <3>1, <3>2, <3>3 DEF Covers
    <2>6. \A d \in Channels : incomingReliableSequenceNumber'[d] =
            IF d = c THEN SequenceNumber(R[c]) ELSE incomingReliableSequenceNumber[d]
      BY <1>1, <2>1
    <2>7. /\ R[c] \in Nat /\ R[c] <= R[c] /\ R[c] <= H[c]
      BY <1>1
    <2>8. /\ \A x \in Nat \ {0} : Contains(list, x) => x <= R[c] \/ Contains(marked, x)
          /\ m.num <= R[c] \/ Contains(marked, m.num)
      BY <1>7, Zenon
    <2> QED BY <1>3, <1>7, <2>1, <2>2, <2>4, <2>5, <2>6, <2>7, <2>8, ReceiverStep
  <1> QED BY <1>8, <1>9, <1>10

\* The entry queue_incoming_command makes for the command at position n of a
\* packet of k commands from position s on.
Entry(s, n, k) ==
  [seq |-> SequenceNumber(s), data |-> [i \in 1..k |-> IF i = n - s + 1 THEN n ELSE 0]]

\* Entry e is made for a command of a packet of commands up to h.
Makes(s, n, k, h, e) ==
  /\ s \in Nat \ {0} /\ n \in Nat \ {0} /\ k \in Nat \ {0} /\ h \in Nat
  /\ s <= n /\ n <= s + k - 1 /\ n <= h
  /\ e = Entry(s, n, k)

\* It assembles that packet and has that command.
LEMMA NewEntry ==
  ASSUME NEW s, NEW n, NEW k, NEW h, NEW e, Makes(s, n, k, h, e)
  PROVE  /\ e \in IncomingCommand /\ Len(e.data) = k /\ Assembles(e, s, h)
         /\ \E j \in 1..Len(e.data) : e.data[j] = n
  <1>0. /\ s \in Nat \ {0} /\ n \in Nat \ {0} /\ k \in Nat \ {0} /\ h \in Nat
        /\ s <= n /\ n <= s + k - 1 /\ n <= h
        /\ e = Entry(s, n, k)
    BY DEF Makes
  <1> USE <1>0
  <1>1. SequenceNumber(s) \in 0..(SequenceSpace - 1)
    BY SequenceNumberType
  <1>2. PICK data : data = [i \in 1..k |-> IF i = n - s + 1 THEN n ELSE 0]
    OBVIOUS
  <1>3. data \in Seq(Nat) /\ Len(data) = k
    BY <1>2
  <1>4. \A j \in 1..k : data[j] = IF j = n - s + 1 THEN n ELSE 0
    BY <1>2
  <1>5. e = [seq |-> SequenceNumber(s), data |-> data]
    BY <1>2 DEF Entry
  <1>6. e \in IncomingCommand /\ e.data = data /\ e.seq = SequenceNumber(s)
    BY <1>1, <1>3, <1>5 DEF IncomingCommand
  <1>7. n - s + 1 \in 1..k /\ data[n - s + 1] = n
    BY <1>4
  <1>8. ASSUME NEW j \in 1..k PROVE data[j] \in {0, s + j - 1} /\ data[j] <= h
    <2>1. CASE j = n - s + 1
      BY <1>7, <2>1
    <2>2. CASE j # n - s + 1
      BY <1>4, <2>2
    <2> QED BY <2>1, <2>2
  <1>9. \E j \in 1..k : data[j] = n /\ data[j] # 0
    BY <1>7
  <1> QED BY <1>3, <1>6, <1>8, <1>9 DEF Assembles

\* A packet the receiver does not have is put where its position belongs.
LEMMA QueueIncomingCommandDelivery ==
  ASSUME PacketsFit, NEW H \in [Channels -> Nat], NEW R \in [Channels -> Nat],
         DeliveryTyped, StreamInv(H), DeliveryInv(H, R), NEW m \in dataNet,
         InReceiveWindow(SequenceNumber(m.start), incomingReliableSequenceNumber[m.ch]),
         NEW p \in 0..Len(incomingReliableCommands[m.ch]),
         SearchStopsAt(incomingReliableCommands[m.ch], SequenceNumber(m.start),
                       incomingReliableSequenceNumber[m.ch], p),
         QueueIncomingCommand(m, p), dataNet' \subseteq dataNet,
         UNCHANGED <<senderVars, ackNet, appVars>>
  PROVE  \E Q \in [Channels -> Nat] : DeliveryInv(H, Q)'
  <1> DEFINE c == m.ch
             list == incomingReliableCommands[c]
             s == m.start
             r == R[c]
  <1>1. /\ c \in Channels /\ m.num \in Nat \ {0} /\ s \in Nat \ {0} /\ m.count \in Nat \ {0}
        /\ m.count \in FragmentCounts
        /\ r \in Nat /\ H[c] \in Nat /\ r <= H[c] /\ m.num <= H[c] /\ H[c] < r + SequenceSpace
        /\ s <= m.num /\ m.num <= s + m.count - 1
        /\ incomingReliableSequenceNumber[c] = SequenceNumber(r)
    BY CommandReceived
  <1>2. PICK e : e = Entry(s, m.num, m.count)
    OBVIOUS
  <1>3. /\ SequenceNumber(s) # incomingReliableSequenceNumber[c]
        /\ ~Found(list, SequenceNumber(s), p)
        /\ DispatchIncomingReliableCommands(c, InsertAfter(list, p, e))
        /\ QueueAcknowledgement(m)
    BY <1>2 DEF QueueIncomingCommand, Entry
  <1>4. /\ list \in Seq(IncomingCommand) /\ Len(list) \in Nat
        /\ ListOK(c, list, r, H[c]) /\ s <= H[c] /\ r <= s
        /\ r < s => Queued(c, s, m.count)
    BY CommandInWindow
  <1>5. r < s
    <2>1. r # s
      BY <1>1, <1>3
    <2> QED BY <1>1, <1>4, <2>1
  <1>6. /\ e \in IncomingCommand /\ Len(e.data) = m.count /\ Assembles(e, s, H[c])
        /\ \E j \in 1..Len(e.data) : e.data[j] = m.num
    <2>1. PICK n \in Nat \ {0} : n = m.num
      BY <1>1
    <2>2. PICK k \in Nat \ {0} : k = m.count
      BY <1>1
    <2>3. e = Entry(s, n, k)
      BY <1>2, <2>1, <2>2
    <2> HIDE DEF c, list, s, r
    <2>4. n <= H[c] /\ s <= n /\ n <= s + k - 1 /\ s \in Nat \ {0} /\ H[c] \in Nat
      BY <1>1, <2>1, <2>2
    <2>5. Makes(s, n, k, H[c], e)
      BY <2>1, <2>2, <2>3, <2>4 DEF Makes
    <2>6. e \in IncomingCommand /\ Len(e.data) = k /\ Assembles(e, s, H[c])
      BY <2>5, NewEntry
    <2>7. \E j \in 1..Len(e.data) : e.data[j] = n
      BY <2>5, NewEntry
    <2> QED BY <2>1, <2>2, <2>6, <2>7
  <1>7. ASSUME NEW i \in 1..Len(list)
        PROVE  /\ Base(list[i]) \in Nat /\ r < Base(list[i])
               /\ list[i].seq = SequenceNumber(Base(list[i]))
               /\ StopsAt(list[i], SequenceNumber(s), SequenceNumber(r)) <=> Base(list[i]) <= s
    <2> HIDE DEF c, list, s, r
    <2>1. /\ Base(list[i]) \in Nat /\ r < Base(list[i]) /\ Base(list[i]) <= H[c]
          /\ list[i].seq = SequenceNumber(Base(list[i]))
      BY <1>1, <1>4, <1>7, EntryFields
    <2>2. s < r + SequenceSpace /\ Base(list[i]) < r + SequenceSpace
      <3>1. \A x, y, h, z \in Int : x <= h /\ h < y + z => x < y + z
        OBVIOUS
      <3>2. s <= H[c] /\ s \in Int
        BY <1>1, <1>4
      <3>3. Base(list[i]) <= H[c] /\ Base(list[i]) \in Int
        BY <2>1
      <3>4. H[c] < r + SequenceSpace /\ H[c] \in Int /\ r \in Int /\ SequenceSpace \in Int
        BY <1>1, SequenceSpaceType
      <3> QED BY <3>1, <3>2, <3>3, <3>4
    <2>3. StopsAt(list[i], SequenceNumber(s), SequenceNumber(r)) <=> Base(list[i]) <= s
      BY <1>1, <1>5, <2>1, <2>2, StopsAtIs
    <2> QED BY <2>1, <2>3
  <1>8. p # 0 => Base(list[p]) < s
    <2> SUFFICES ASSUME p # 0 PROVE Base(list[p]) < s
      OBVIOUS
    <2>1. p \in 1..Len(list)
      BY <1>4
    <2>2. Base(list[p]) <= s
      BY <1>1, <1>7, <2>1 DEF SearchStopsAt
    <2>3. Base(list[p]) # s
      BY <1>3, <1>7, <2>1 DEF Found
    <2>4. Base(list[p]) \in Nat
      BY <1>7, <2>1
    <2> QED BY <1>1, <2>2, <2>3, <2>4
  <1>9. \A j \in (p + 1)..Len(list) : s < Base(list[j])
    <2> SUFFICES ASSUME NEW j \in (p + 1)..Len(list) PROVE s < Base(list[j])
      OBVIOUS
    <2>1. j \in 1..Len(list)
      BY <1>4
    <2>2. ~StopsAt(list[j], SequenceNumber(s), SequenceNumber(r))
      BY <1>1 DEF SearchStopsAt
    <2>3. ~(Base(list[j]) <= s) /\ Base(list[j]) \in Nat
      BY <1>7, <2>1, <2>2
    <2> QED BY <1>1, <2>3
  <1>10. PICK new : new = InsertAfter(list, p, e)
    OBVIOUS
  <1>11. /\ ListOK(c, new, r, H[c]) /\ new \in Seq(IncomingCommand)
         /\ \A x \in Nat \ {0} : Contains(list, x) => Contains(new, x)
         /\ Contains(new, m.num)
    <2> HIDE DEF c, list, s, r
    <2>1. /\ Len(e.data) \in FragmentCounts /\ Queued(c, s, Len(e.data)) /\ e \in IncomingCommand
          /\ p \in 0..Len(list)
      BY <1>1, <1>4, <1>5, <1>6 DEF c, list, s, r
    <2>2. /\ ListOK(c, InsertAfter(list, p, e), r, H[c])
          /\ InsertAfter(list, p, e) \in Seq(IncomingCommand)
          /\ \A x \in Nat \ {0} : Contains(list, x) => Contains(InsertAfter(list, p, e), x)
          /\ \A x \in Nat \ {0} :
               (\E j \in 1..Len(e.data) : e.data[j] = x) => Contains(InsertAfter(list, p, e), x)
      BY <1>1, <1>4, <1>5, <1>6, <1>8, <1>9, <2>1, InsertKeeps
    <2> QED BY <1>1, <1>6, <1>10, <2>2
  <1>12. DispatchIncomingReliableCommands(c, new)
    BY <1>3, <1>10
  <1> QED BY <1>3, <1>11, <1>12, DispatchStep

\* A command arrives: whatever becomes of it, the receiver is left with what
\* the invariant says of some positions Q.
LEMMA HandleDataDelivery ==
  ASSUME PacketsFit, NEW H \in [Channels -> Nat], NEW R \in [Channels -> Nat],
         DeliveryTyped, StreamInv(H), DeliveryInv(H, R), NEW m \in dataNet,
         NEW net \in SUBSET dataNet, HandleIncomingCommand(m, net)
  PROVE  \E Q \in [Channels -> Nat] : DeliveryInv(H, Q)'
  <1> DEFINE list == incomingReliableCommands[m.ch]
  <1>1. dataNet' \subseteq dataNet /\ UNCHANGED <<senderVars, ackNet, appVars>>
    BY DEF HandleIncomingCommand
  <1>2. CASE DiscardCommand(m)
    <2>1. DeliveryInv(H, R)'
      BY <1>1, <1>2, DiscardCommandDelivery
    <2> QED BY <2>1
  <1>3. CASE ~DiscardCommand(m)
    <2>1. InReceiveWindow(SequenceNumber(m.start), incomingReliableSequenceNumber[m.ch])
      BY <1>3 DEF HandleIncomingCommand
    <2>2. PICK p \in 0..Len(list) :
            /\ SearchStopsAt(list, SequenceNumber(m.start), incomingReliableSequenceNumber[m.ch], p)
            /\ \/ DiscardDuplicate(m, p)
               \/ MarkFragment(m, p)
               \/ QueueIncomingCommand(m, p)
               \/ RefuseCommand(m, p)
      BY <1>3 DEF HandleIncomingCommand
    <2>3. CASE DiscardDuplicate(m, p)
      <3>1. DeliveryInv(H, R)'
        BY <1>1, <2>1, <2>3, DiscardDuplicateDelivery
      <3> QED BY <3>1
    <2>4. CASE MarkFragment(m, p)
      BY <1>1, <2>1, <2>4, MarkFragmentDelivery
    <2>5. CASE QueueIncomingCommand(m, p)
      BY <1>1, <2>1, <2>2, <2>5, QueueIncomingCommandDelivery
    <2>6. CASE RefuseCommand(m, p)
      <3>1. UNCHANGED receiverVars
        BY <2>6 DEF RefuseCommand
      <3>2. Outstanding' = Outstanding /\ UNCHANGED <<unsent, pending>>
        BY <1>1 DEF senderVars, appVars, Outstanding
      <3>3. DeliveryInv(H, R)'
        BY <1>1, <3>1, <3>2, NothingReceived DEF receiverVars
      <3> QED BY <3>3
    <2> QED BY <2>2, <2>3, <2>4, <2>5, <2>6
  <1> QED BY <1>2, <1>3

-----------------------------------------------------------------------------
(* The steps together.                                                     *)

StreamDelivered ==
  /\ DeliveryTyped
  /\ \E H \in [Channels -> Nat], R \in [Channels -> Nat] : StreamInv(H) /\ DeliveryInv(H, R)

\* At the start every channel has dispatched what it has sent.
LEMMA InitDelivery ==
  ASSUME Init
  PROVE  StreamDelivered
  <1>1. Typed /\ \E H \in [Channels -> Nat] : StreamInv(H)
    BY InitStream DEF AcknowledgementInv
  <1>2. PICK H \in [Channels -> Nat] : StreamInv(H)
    BY <1>1
  <1>3. /\ Outstanding = {} /\ unsent = <<>> /\ dataNet = {} /\ ackNet = {} /\ acknowledgements = {}
        /\ dispatchedCommands = <<>>
        /\ \A c \in Channels :
             /\ outgoingReliableSequenceNumber[c] = StartPosition
             /\ pending[c] = <<>>
             /\ incomingReliableCommands[c] = <<>>
             /\ incomingReliableSequenceNumber[c] = SequenceNumber(StartPosition)
    BY DEF Init, Outstanding
  <1>4. 1..Len(<<>>) = {}
    OBVIOUS
  <1>5. AppType /\ PendingInv
    <2>1. AppType
      BY DEF Init, AppType
    <2> QED BY <1>3, <1>4, <2>1 DEF PendingInv
  <1>6. \A c \in Channels : H[c] = StartPosition
    <2> SUFFICES ASSUME NEW c \in Channels PROVE H[c] = StartPosition
      OBVIOUS
    <2>1. /\ H[c] \in Nat /\ H[c] <= StartPosition
          /\ \A n \in (H[c] + 1)..StartPosition :
               \E i \in 1..Len(unsent) : unsent[i].ch = c /\ unsent[i].num = n
      BY <1>2, <1>3 DEF StreamInv, SentUpTo
    <2>2. (H[c] + 1)..StartPosition = {}
      BY <1>3, <1>4, <2>1
    <2>3. StartPosition \in Nat
      BY LimitAssumption
    <2> QED BY <2>1, <2>2, <2>3
  <1>7. StartPosition \in Nat /\ FreeWindows \in Nat /\ 2 < FreeWindows
        /\ Window(StartPosition) \in Nat
    BY LimitAssumption, WindowAssumption, WindowOfPosition
  <1>8. \A c, n, k : c \in Channels => ~Queued(c, n, k)
    BY <1>3, <1>4 DEF Queued
  <1>9. PositionInv(H, H)
    BY <1>3, <1>6, <1>7 DEF PositionInv
  <1>10. ListInv(H, H)
    BY <1>3, <1>4 DEF ListInv, ListOK, HeadWaits
  <1>11. DispatchedInv(H)
    BY <1>3, <1>4, <1>8 DEF DispatchedInv
  <1>12. CommandInv(H)
    BY <1>3, <1>4 DEF CommandInv
  <1>13. HeldInv(H, H)
    <2> SUFFICES ASSUME NEW c \in Channels, NEW n \in Nat, n <= H[c]
                 PROVE  AcknowledgementOK(c, n, H)
      BY <1>3 DEF HeldInv
    <2>1. n <= StartPosition
      BY <1>6
    <2>2. Window(n) \in Nat /\ Window(n) <= Window(StartPosition)
      BY <1>7, <2>1, WindowOfPosition, WindowBounds
    <2>3. Window(n) <= Window(StartPosition) + FreeWindows - 2
      BY <1>7, <2>2
    <2> QED BY <1>6, <2>1, <2>3 DEF AcknowledgementOK
  <1>14. DeliveryInv(H, H)
    BY <1>9, <1>10, <1>11, <1>12, <1>13 DEF DeliveryInv
  <1> QED BY <1>1, <1>2, <1>5, <1>14 DEF DeliveryTyped, StreamDelivered

\* Every step keeps the invariant.
LEMMA NextDelivery ==
  ASSUME PacketsFit, StreamDelivered, [Next]_vars
  PROVE  StreamDelivered'
  <1>1. PICK H \in [Channels -> Nat], R \in [Channels -> Nat] :
          StreamInv(H) /\ DeliveryInv(H, R)
    BY DEF StreamDelivered
  <1>2. DeliveryTyped
    BY DEF StreamDelivered
  <1>3. Typed' /\ AppType'
    <2>1. SenderType
      BY <1>2 DEF DeliveryTyped, Typed, SenderInv
    <2> QED BY <1>2, <2>1, NextTyped, NextApp DEF DeliveryTyped, Typed
  <1>4. PICK G \in [Channels -> Nat] :
          /\ StreamInv(G)'
          /\ IF FirstSend THEN G = [H EXCEPT ![Head(unsent).ch] = Head(unsent).num]
                          ELSE G = H
    BY <1>1, <1>2, NextStream DEF DeliveryTyped
  <1> SUFFICES PendingInv' /\ \E Q \in [Channels -> Nat] : DeliveryInv(G, Q)'
    BY <1>3, <1>4 DEF StreamDelivered, DeliveryTyped
  <1>5. ASSUME UNCHANGED <<pending, outgoingReliableSequenceNumber>> PROVE PendingInv'
    BY <1>2, <1>5 DEF DeliveryTyped, PendingInv
  <1>6. CASE FirstSend
    <2>1. DeliveryInv(G, R)'
      BY <1>1, <1>2, <1>4, <1>6, FirstSendDelivery
    <2>2. UNCHANGED <<pending, outgoingReliableSequenceNumber>>
      BY <1>6 DEF FirstSend, appVars
    <2> QED BY <1>5, <2>1, <2>2
  <1>7. SUFFICES ASSUME ~FirstSend
                 PROVE  PendingInv' /\ \E Q \in [Channels -> Nat] : DeliveryInv(H, Q)'
    BY <1>4, <1>6
  <1>8. ASSUME NEW c \in Channels, NEW k \in FragmentCounts, EnetPeerSend(c, k)
        PROVE  PendingInv' /\ DeliveryInv(H, R)'
    BY <1>1, <1>2, <1>8, EnetPeerSendDelivery
  <1>9. CASE HandleAck
    <2>1. PICK a \in ackNet : \E net \in {ackNet, ackNet \ {a}} : HandleAcknowledge(a, net)
      BY <1>9 DEF HandleAck
    <2>2. PICK net \in SUBSET ackNet : HandleAcknowledge(a, net)
      BY <2>1
    <2>3. DeliveryInv(H, R)'
      BY <1>1, <1>2, <2>2, HandleAcknowledgeDelivery
    <2>4. UNCHANGED <<pending, outgoingReliableSequenceNumber>>
      BY <2>2 DEF HandleAcknowledge, appVars
    <2> QED BY <1>5, <2>3, <2>4
  <1>10. CASE HandleData
    <2>1. PICK m \in dataNet : \E net \in {dataNet, dataNet \ {m}} : HandleIncomingCommand(m, net)
      BY <1>10 DEF HandleData
    <2>2. PICK net \in SUBSET dataNet : HandleIncomingCommand(m, net)
      BY <2>1
    <2>3. \E Q \in [Channels -> Nat] : DeliveryInv(H, Q)'
      BY <1>1, <1>2, <2>2, HandleDataDelivery
    <2>4. UNCHANGED <<pending, outgoingReliableSequenceNumber>>
      BY <2>2 DEF HandleIncomingCommand, senderVars, appVars
    <2> QED BY <1>5, <2>3, <2>4
  <1>11. CASE EnetPeerReceive
    <2>1. DeliveryInv(H, R)' /\ PendingInv'
      BY <1>1, <1>2, <1>11, EnetPeerReceiveDelivery
    <2> QED BY <2>1
  <1>12. CASE \/ \E m \in resend : Resend(m)
              \/ \E T \in SUBSET sentReliableCommands : CheckTimeouts(T)
              \/ SendAcknowledgements \/ LoseData \/ LoseAcknowledgement
              \/ UNCHANGED vars
    <2>1. UNCHANGED <<incomingReliableSequenceNumber, incomingReliableCommands,
                      dispatchedCommands, pending, unsent, outgoingReliableSequenceNumber>>
      BY <1>12 DEF Resend, CheckTimeouts, SendAcknowledgements, LoseData, LoseAcknowledgement,
                   vars, senderVars, receiverVars, appVars
    <2>2. /\ Outstanding' = Outstanding
          /\ dataNet' \subseteq dataNet \cup Outstanding
          /\ ackNet' \cup acknowledgements' \subseteq ackNet \cup acknowledgements
      <3>1. ASSUME NEW m \in resend, Resend(m)
            PROVE  /\ Outstanding' = Outstanding
                   /\ dataNet' \subseteq dataNet \cup Outstanding
                   /\ UNCHANGED <<ackNet, acknowledgements>>
        BY <3>1 DEF Resend, Transmit, Outstanding, receiverVars
      <3>2. ASSUME NEW T \in SUBSET sentReliableCommands, CheckTimeouts(T)
            PROVE  Outstanding' = Outstanding /\ UNCHANGED <<dataNet, ackNet, acknowledgements>>
        BY <3>2 DEF CheckTimeouts, Outstanding, receiverVars, netVars
      <3>3. ASSUME SendAcknowledgements
            PROVE  /\ Outstanding' = Outstanding /\ dataNet' = dataNet
                   /\ ackNet' \cup acknowledgements' \subseteq ackNet \cup acknowledgements
        BY <3>3 DEF SendAcknowledgements, Transmit, Outstanding, senderVars
      <3>4. ASSUME LoseData \/ LoseAcknowledgement \/ UNCHANGED vars
            PROVE  /\ Outstanding' = Outstanding /\ dataNet' \subseteq dataNet
                   /\ ackNet' \subseteq ackNet /\ acknowledgements' = acknowledgements
        BY <3>4 DEF LoseData, LoseAcknowledgement, vars, senderVars, receiverVars, netVars, Outstanding
      <3> QED BY <1>12, <3>1, <3>2, <3>3, <3>4
    <2>3. DeliveryInv(H, R)'
      BY <1>1, <1>2, <2>1, <2>2, NothingReceived
    <2> QED BY <1>5, <2>1, <2>3
  <1> QED BY <1>7, <1>8, <1>9, <1>10, <1>11, <1>12 DEF Next

\* For every channel there are positions H[c], of the last command sent, and
\* R[c], of the last command dispatched, that explain the whole state.
THEOREM StreamInvariant == PacketsFit => (Spec => []StreamDelivered)
  <1>1. PacketsFit /\ StreamDelivered /\ [Next]_vars => StreamDelivered'
    BY NextDelivery
  <1>2. Init => StreamDelivered
    BY InitDelivery
  <1>3. ASSUME PacketsFit PROVE Spec => []StreamDelivered
    <2>1. StreamDelivered /\ [Next]_vars => StreamDelivered'
      BY <1>1, <1>3
    <2> QED BY <1>2, <2>1, PTL DEF Spec
  <1> QED BY <1>3

-----------------------------------------------------------------------------
(* What the invariant says of the code.                                    *)

\* A command that has been acknowledged is still held by the receiver or has been
\* handed to the application: what the sender forgets is not lost.
LEMMA HeldFromInv ==
  ASSUME StreamDelivered
  PROVE  AcknowledgedIsHeld
  <1>1. PICK H \in [Channels -> Nat], R \in [Channels -> Nat] :
          StreamInv(H) /\ DeliveryInv(H, R)
    BY DEF StreamDelivered
  <1>2. PendingInv /\ AppType
    BY DEF StreamDelivered, DeliveryTyped
  <1> SUFFICES ASSUME NEW c \in Channels, NEW i \in DOMAIN pending[c],
                      NEW j \in DOMAIN pending[c][i]
               PROVE  LET n == pending[c][i][j] IN
                      \/ Holds(c, n)
                      \/ \E m \in Outstanding : m.ch = c /\ m.num = n
                      \/ \E k \in DOMAIN unsent : unsent[k].ch = c /\ unsent[k].num = n
    BY DEF AcknowledgedIsHeld
  <1>3. i \in 1..Len(pending[c])
    <2>1. pending[c] \in Seq(Seq(Nat))
      BY <1>2 DEF AppType
    <2> QED BY <2>1, LenProperties
  <1>4. PICK a \in Nat \ {0}, k \in FragmentCounts :
          pending[c][i] = Packet(a, k) /\ a + k - 1 <= outgoingReliableSequenceNumber[c]
    BY <1>2, <1>3 DEF PendingInv
  <1>5. k \in Nat \ {0} /\ Queued(c, a, k)
    BY <1>3, <1>4, LimitAssumption DEF Queued
  <1>6. /\ Packet(a, k) \in Seq(Nat) /\ Len(Packet(a, k)) = k
        /\ \A x \in 1..k : Packet(a, k)[x] = a + x - 1
    BY <1>5, PacketFields
  <1>7. j \in 1..k
    BY <1>4, <1>6, LenProperties
  <1>8. PICK n \in Nat : n = a + j - 1
    BY <1>7
  <1>9. /\ pending[c][i][j] = n /\ Packet(a, k)[j] = n
        /\ n \in Nat \ {0} /\ a <= n /\ n <= outgoingReliableSequenceNumber[c]
        /\ outgoingReliableSequenceNumber[c] \in Nat
    <2>1. outgoingReliableSequenceNumber[c] \in Nat
      BY DEF StreamDelivered, DeliveryTyped, Typed, SenderInv, SenderType
    <2> QED BY <1>4, <1>5, <1>6, <1>7, <1>8, <2>1
  <1>10. CASE ~(n <= H[c])
    <2>1. /\ H[c] \in Nat
          /\ \A x \in (H[c] + 1)..outgoingReliableSequenceNumber[c] :
               \E y \in 1..Len(unsent) : unsent[y].ch = c /\ unsent[y].num = x
      BY <1>1 DEF StreamInv, SentUpTo
    <2>2. n \in (H[c] + 1)..outgoingReliableSequenceNumber[c]
      BY <1>9, <1>10, <2>1
    <2>3. DOMAIN unsent = 1..Len(unsent)
      <3>1. unsent \in Seq(Command)
        BY DEF StreamDelivered, DeliveryTyped, Typed, SenderInv, SenderType
      <3> QED BY <3>1, LenProperties
    <2> QED BY <1>9, <2>1, <2>2, <2>3
  <1>11. CASE Waits(c, n)
    BY <1>9, <1>11 DEF Waits
  <1>12. CASE n <= H[c] /\ ~Waits(c, n)
    <2>1. n <= R[c] \/ Contains(incomingReliableCommands[c], n)
      BY <1>1, <1>12 DEF DeliveryInv, HeldInv, AcknowledgementOK
    <2>2. CASE n <= R[c]
      <3>1. R[c] \in Nat /\ a <= R[c]
        BY <1>9, <2>2
      <3>2. PICK x \in 1..Len(dispatchedCommands) :
              dispatchedCommands[x] = [ch |-> c, data |-> Packet(a, k)]
        BY <1>1, <1>5, <3>1 DEF DeliveryInv, DispatchedInv
      <3>3. DOMAIN dispatchedCommands = 1..Len(dispatchedCommands)
        <4>1. dispatchedCommands \in Seq([ch : Channels, data : Seq(Nat)])
          BY DEF StreamDelivered, DeliveryTyped, Typed, ReceiverType
        <4> QED BY <4>1, LenProperties
      <3>4. /\ dispatchedCommands[x].ch = c /\ dispatchedCommands[x].data = Packet(a, k)
            /\ j \in DOMAIN Packet(a, k)
        BY <1>6, <1>7, <3>2, LenProperties
      <3> QED BY <1>9, <3>2, <3>3, <3>4 DEF Holds
    <2>3. CASE Contains(incomingReliableCommands[c], n)
      <3>1. PICK x \in 1..Len(incomingReliableCommands[c]) :
              \E y \in 1..Len(incomingReliableCommands[c][x].data) :
                incomingReliableCommands[c][x].data[y] = n
        BY <2>3 DEF Contains
      <3>2. incomingReliableCommands[c] \in Seq(IncomingCommand)
        BY DEF StreamDelivered, DeliveryTyped, Typed, ReceiverType
      <3>3. /\ DOMAIN incomingReliableCommands[c] = 1..Len(incomingReliableCommands[c])
            /\ incomingReliableCommands[c][x] \in IncomingCommand
        BY <3>2, LenProperties, ElementOfSeq
      <3>4. DOMAIN incomingReliableCommands[c][x].data = 1..Len(incomingReliableCommands[c][x].data)
        BY <3>3, LenProperties DEF IncomingCommand
      <3> QED BY <1>9, <3>1, <3>3, <3>4 DEF Holds
    <2> QED BY <2>1, <2>2, <2>3
  <1> QED BY <1>10, <1>11, <1>12

\* How far ahead of the last position dispatched a position is.
LEMMA AheadIs ==
  ASSUME NEW c \in Channels, NEW n \in Nat, NEW r \in Nat, r < n, n < r + SequenceSpace,
         incomingReliableSequenceNumber[c] = SequenceNumber(r)
  PROVE  Ahead(c, SequenceNumber(n)) = n - r - 1
  <1> DEFINE s == SequenceNumber(n)
             t == SequenceNumber(r)
             S == SequenceSpace
             d == s - t - 1
  <1>1. IF s < t THEN n - r = s - t + S ELSE n - r = s - t
    BY Laps
  <1>2. s \in Int /\ t \in Int /\ S \in Nat \ {0}
    BY SequenceNumberType, SequenceSpaceType
  <1>3. n - r - 1 \in 0..(S - 1)
    BY <1>2
  <1> HIDE DEF s, t, S
  <1>4. d = S * 0 + (n - r - 1) \/ d = S * (-1) + (n - r - 1)
    BY <1>1, <1>2
  <1>5. \A q \in Int : d = S * q + (n - r - 1) => d % S = n - r - 1
    <2> HIDE DEF d
    <2> SUFFICES ASSUME NEW q \in Int, d = S * q + (n - r - 1) PROVE d % S = n - r - 1
      OBVIOUS
    <2>1. PICK x \in Int : x = n - r - 1
      OBVIOUS
    <2>2. d \in Int /\ x \in 0..(S - 1) /\ d = S * q + x
      BY <1>2, <1>3, <2>1
    <2>3. d % S = x
      BY <1>2, <2>2, DivUnique, Zenon
    <2> QED BY <2>1, <2>3
  <1>6. d % S = n - r - 1
    BY <1>4, <1>5
  <1> QED BY <1>6 DEF Ahead, s, t, S

\* The incoming reliable commands of a channel are in the order in which they were
\* sent, also where the 16-bit numbers wrap (peer.c, enet_peer_queue_incoming_command).
LEMMA SortedFromInv ==
  ASSUME StreamDelivered
  PROVE  IncomingSorted
  <1>1. PICK H \in [Channels -> Nat], R \in [Channels -> Nat] :
          StreamInv(H) /\ DeliveryInv(H, R)
    BY DEF StreamDelivered
  <1>2. PendingInv /\ AppType
    BY DEF StreamDelivered, DeliveryTyped
  <1> SUFFICES ASSUME NEW c \in Channels
               PROVE  LET list == incomingReliableCommands[c] IN
                      /\ \A i, j \in DOMAIN list : i < j =>
                           Ahead(c, list[i].seq) + Len(list[i].data) <= Ahead(c, list[j].seq)
                      /\ list # <<>> => ~InOrder(list, incomingReliableSequenceNumber[c], 1)
    BY DEF IncomingSorted
  <1> DEFINE list == incomingReliableCommands[c]
  <1>3. /\ R[c] \in Nat /\ H[c] \in Nat /\ R[c] <= H[c]
        /\ incomingReliableSequenceNumber[c] = SequenceNumber(R[c])
        /\ Window(H[c]) <= Window(R[c]) + FreeWindows - 1
        /\ ListOK(c, list, R[c], H[c]) /\ HeadWaits(list, R[c])
    BY <1>1 DEF DeliveryInv, PositionInv, ListInv
  <1>4. H[c] < R[c] + SequenceSpace
    BY <1>3, SentFits
  <1>5. list \in Seq(IncomingCommand) /\ Len(list) \in Nat /\ DOMAIN list = 1..Len(list)
    <2>1. list \in Seq(IncomingCommand)
      BY DEF StreamDelivered, DeliveryTyped, Typed, ReceiverType
    <2> QED BY <2>1, LenProperties
  <1> HIDE DEF list
  <1>6. ASSUME NEW i \in 1..Len(list)
        PROVE  /\ Ahead(c, list[i].seq) = Base(list[i]) - R[c] - 1
               /\ Base(list[i]) \in Nat /\ Len(list[i].data) \in Nat
    <2>1. /\ R[c] < Base(list[i]) /\ Base(list[i]) <= H[c]
          /\ list[i].seq = SequenceNumber(Base(list[i]))
          /\ Base(list[i]) \in Nat \ {0} /\ Len(list[i].data) \in Nat \ {0}
      <3>1. R[c] \in Nat /\ H[c] \in Nat /\ ListOK(c, list, R[c], H[c])
        BY <1>3
      <3>2. R[c] < Base(list[i]) /\ Base(list[i]) <= H[c] /\ Base(list[i]) \in Nat \ {0}
        BY <3>1, EntryFields
      <3>3. list[i].seq = SequenceNumber(Base(list[i]))
        BY <3>1, EntryFields
      <3>4. Len(list[i].data) \in Nat \ {0}
        BY <3>1, EntryFields
      <3> QED BY <3>2, <3>3, <3>4
    <2>2. Base(list[i]) < R[c] + SequenceSpace
      BY <1>3, <1>4, <2>1, SequenceSpaceType
    <2>3. PICK n \in Nat : n = Base(list[i])
      BY <2>1
    <2>4. Ahead(c, SequenceNumber(n)) = n - R[c] - 1
      BY <1>3, <2>1, <2>2, <2>3, AheadIs
    <2> QED BY <2>1, <2>3, <2>4
  <1>7. ASSUME NEW i \in DOMAIN list, NEW j \in DOMAIN list, i < j
        PROVE  Ahead(c, list[i].seq) + Len(list[i].data) <= Ahead(c, list[j].seq)
    <2>1. Base(list[i]) + Len(list[i].data) <= Base(list[j])
      BY <1>2, <1>3, <1>5, <1>7, ListDisjoint
    <2> QED BY <1>3, <1>5, <1>6, <2>1
  <1>8. ASSUME list # <<>> PROVE ~InOrder(list, incomingReliableSequenceNumber[c], 1)
    <2>1. 1 \in 1..Len(list)
      BY <1>5, <1>8
    <2>2. InOrder(list, SequenceNumber(R[c]), 1) <=>
            \A i \in 1..1 :
              /\ Complete(list[i])
              /\ Base(list[i]) =
                   (IF i = 1 THEN R[c] ELSE Base(list[i - 1]) + Len(list[i - 1].data) - 1) + 1
      BY <1>2, <1>3, <1>4, <1>5, <2>1, InOrderIs
    <2>3. ~(Complete(list[1]) /\ Base(list[1]) = R[c] + 1)
      BY <1>3, <1>8 DEF HeadWaits
    <2> QED BY <1>3, <2>2, <2>3
  <1> QED BY <1>7, <1>8 DEF list

\* A step of the code is a step of the queue, or changes nothing of it.
LEMMA StreamStep ==
  ASSUME StreamDelivered, [Next]_vars
  PROVE  [Stream!Next]_(Stream!vars)
  <1>1. ASSUME UNCHANGED appVars PROVE UNCHANGED Stream!vars
    BY <1>1 DEF appVars, Stream!vars
  <1>2. ASSUME NEW c \in Channels, NEW k \in FragmentCounts, EnetPeerSend(c, k)
        PROVE  Stream!Next
    <2> DEFINE first == outgoingReliableSequenceNumber[c] + 1
               p == Packet(first, k)
    <2>1. first \in 1..MaxSequence
      <3>1. outgoingReliableSequenceNumber[c] \in Nat
        BY DEF StreamDelivered, DeliveryTyped, Typed, SenderInv, SenderType
      <3>2. k \in Nat \ {0} /\ MaxSequence \in Nat
        BY LimitAssumption
      <3>3. outgoingReliableSequenceNumber[c] + k <= MaxSequence
        BY <1>2 DEF EnetPeerSend
      <3> QED BY <3>1, <3>2, <3>3
    <2>2. p \in {Packet(n, j) : n \in 1..MaxSequence, j \in FragmentCounts}
      BY <2>1
    <2>3. Stream!Send(c, p)
      BY <1>2 DEF Stream!Send, EnetPeerSend
    <2> QED BY <2>2, <2>3 DEF Stream!Next
  <1>3. ASSUME EnetPeerReceive PROVE Stream!Next
    <2>1. PICK H \in [Channels -> Nat], R \in [Channels -> Nat] : DeliveryInv(H, R)
      BY DEF StreamDelivered
    <2>2. PICK c \in Channels :
            /\ pending[c] # <<>>
            /\ delivered' = [delivered EXCEPT ![c] = Head(pending[c])]
            /\ pending' = [pending EXCEPT ![c] = Tail(pending[c])]
      BY <1>3, <2>1, EnetPeerReceiveDelivery DEF StreamDelivered
    <2>3. Stream!Deliver(c)
      BY <2>2 DEF Stream!Deliver
    <2> QED BY <2>3 DEF Stream!Next
  <1>4. ASSUME Next, ~EnetPeerReceive,
               ~\E c \in Channels, k \in FragmentCounts : EnetPeerSend(c, k)
        PROVE  UNCHANGED appVars
    BY <1>4 DEF Next, appVars, Resend, FirstSend, CheckTimeouts, HandleAck, HandleAcknowledge,
                HandleData, HandleIncomingCommand, SendAcknowledgements, LoseData,
                LoseAcknowledgement
  <1> QED BY <1>1, <1>2, <1>3, <1>4 DEF vars

\* The sender forgets a command (remove_sent_reliable_command) only when the
\* receiver has its payload or has delivered it, whatever the network lost,
\* repeated or delayed.
THEOREM AcknowledgedAlwaysHeld == PacketsFit => (Spec => []AcknowledgedIsHeld)
  <1>1. StreamDelivered => AcknowledgedIsHeld
    BY HeldFromInv
  <1>2. ASSUME PacketsFit PROVE Spec => []AcknowledgedIsHeld
    <2>1. Spec => []StreamDelivered
      BY <1>2, StreamInvariant
    <2> QED BY <1>1, <2>1, PTL
  <1> QED BY <1>2

\* incomingReliableCommands stays sorted by position, without overlaps, over
\* the wrap of the sequence numbers, and enet_peer_receive is never left
\* waiting for a packet at its head that could be dispatched.
THEOREM IncomingAlwaysSorted == PacketsFit => (Spec => []IncomingSorted)
  <1>1. StreamDelivered => IncomingSorted
    BY SortedFromInv
  <1>2. ASSUME PacketsFit PROVE Spec => []IncomingSorted
    <2>1. Spec => []StreamDelivered
      BY <1>2, StreamInvariant
    <2> QED BY <1>1, <2>1, PTL
  <1> QED BY <1>2

\* The reliable stream implements a FIFO queue per channel: what
\* enet_peer_receive returns is what enet_peer_send was given, whole, once
\* and in order.
THEOREM StreamImplementsFIFO == PacketsFit => (Spec => StreamIsFIFO)
  <1>1. Init => Stream!Init
    BY DEF Init, Stream!Init
  <1>2. StreamDelivered /\ [Next]_vars => [Stream!Next]_(Stream!vars)
    BY StreamStep
  <1>3. ASSUME PacketsFit PROVE Spec => StreamIsFIFO
    <2>1. Spec => []StreamDelivered
      BY <1>3, StreamInvariant
    <2> QED BY <1>1, <1>2, <2>1, PTL DEF Spec, StreamIsFIFO, Stream!Spec
  <1> QED BY <1>3

=============================================================================
