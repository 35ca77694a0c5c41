------------------------- MODULE EnetReliableProofs -------------------------
(***************************************************************************)
(* What is proved of EnetReliable for all values of its constants.         *)
(***************************************************************************)
EXTENDS EnetReliable, EnetArithmetic, FiniteSetTheorems, SequenceTheorems, TLAPS

-----------------------------------------------------------------------------
(* Sequence numbers and windows.                                           *)

\* The sequence space is not empty, so the modulo operations are defined.
LEMMA SequenceSpaceType == SequenceSpace \in Nat /\ SequenceSpace > 0
  BY WindowAssumption, SMT DEF SequenceSpace

\* A sequence number fits in its 16 bits, whatever the position.
LEMMA SequenceNumberType ==
  ASSUME NEW n \in Nat
  PROVE  SequenceNumber(n) \in 0..(SequenceSpace - 1)
  BY SequenceSpaceType, SMT DEF SequenceNumber

\* The window of a sequence number is an index of reliableWindows.
LEMMA WindowType ==
  ASSUME NEW s \in 0..(SequenceSpace - 1)
  PROVE  Window(s) \in 0..(ReliableWindows - 1)
  BY WindowAssumption, SMT DEF Window, SequenceSpace

-----------------------------------------------------------------------------
(* The inductive invariant of the sender.  WindowAccounting alone is not   *)
(* inductive: FirstSend adds one to a count, which is right only when the  *)
(* command is not outstanding already, and remove_sent_reliable_command    *)
(* takes one off, which is right only when the command is in one of the    *)
(* two lists and not in both.                                              *)

\* Commands are queued, sent and resent in the order of their positions: an
\* unsent command is behind everything of its channel that was sent.
CommandsOrdered ==
  /\ \A i \in 1..Len(unsent) : unsent[i].num <= outgoingReliableSequenceNumber[unsent[i].ch]
  /\ \A m \in Outstanding : m.num <= outgoingReliableSequenceNumber[m.ch]
  /\ \A i, j \in 1..Len(unsent) :
       i < j /\ unsent[i].ch = unsent[j].ch => unsent[i].num < unsent[j].num
  /\ \A m \in Outstanding, i \in 1..Len(unsent) :
       m.ch = unsent[i].ch => m.num < unsent[i].num

ListsDisjoint ==
  /\ IsFiniteSet(sentReliableCommands)
  /\ IsFiniteSet(resend)
  /\ sentReliableCommands \cap resend = {}

SenderInv ==
  /\ SenderType
  /\ ListsDisjoint
  /\ CommandsOrdered
  /\ WindowAccounting
  /\ OutstandingBounded

\* The fields of the commands in the sender's lists.
LEMMA CommandFields ==
  ASSUME SenderType
  PROVE  /\ \A d \in Channels : outgoingReliableSequenceNumber[d] \in Nat
         /\ \A i \in 1..Len(unsent) : unsent[i].ch \in Channels /\ unsent[i].num \in Nat
         /\ \A m \in Outstanding : m.ch \in Channels /\ m.num \in Nat
         /\ Len(unsent) \in Nat
  <1>1. \A m \in Command : m.ch \in Channels /\ m.num \in Nat
    BY DEF Command
  <1>2. \A i \in 1..Len(unsent) : unsent[i] \in Command
    <2>1. unsent \in Seq(Command)
      BY DEF SenderType
    <2> HIDE DEF Command
    <2> QED BY <2>1, ElementOfSeq
  <1>3. \A m \in Outstanding : m \in Command
    BY DEF SenderType, Outstanding
  <1>4. Len(unsent) \in Nat
    BY LenProperties DEF SenderType
  <1> QED BY <1>1, <1>2, <1>3, <1>4 DEF SenderType

\* There are finitely many outstanding commands.
LEMMA OutstandingFinite ==
  ASSUME ListsDisjoint
  PROVE  /\ IsFiniteSet(Outstanding)
         /\ \A c, w : IsFiniteSet(InWindow(c, w))
  <1>1. IsFiniteSet(Outstanding)
    BY FS_Union DEF ListsDisjoint, Outstanding
  <1>2. ASSUME NEW c, NEW w PROVE IsFiniteSet(InWindow(c, w))
    <2>1. InWindow(c, w) \subseteq Outstanding
      BY DEF InWindow
    <2> QED BY <1>1, <2>1, FS_Subset
  <1> QED BY <1>1, <1>2

\* The initial state has no commands, so every count is 0.
LEMMA InitSender == Init => SenderInv
  <1> SUFFICES ASSUME Init PROVE SenderInv
    OBVIOUS
  <1>1. SenderType
    BY LimitAssumption, WindowAssumption DEF Init, SenderType
  <1>2. ListsDisjoint
    BY FS_EmptySet DEF Init, ListsDisjoint
  <1>3. Outstanding = {} /\ \A c, w : InWindow(c, w) = {}
    BY DEF Init, Outstanding, InWindow
  <1>4. CommandsOrdered
    BY <1>3 DEF Init, CommandsOrdered
  <1>5. WindowAccounting
    BY <1>3, FS_EmptySet DEF Init, WindowAccounting, WindowsCounted, TransitCounted
  <1>6. OutstandingBounded
    BY <1>3, FS_EmptySet, LimitAssumption DEF OutstandingBounded
  <1> QED BY <1>1, <1>2, <1>4, <1>5, <1>6 DEF SenderInv

\* enet_peer_send only appends commands with new positions.
LEMMA EnetPeerSendSender ==
  ASSUME SenderInv, NEW c \in Channels, NEW k \in FragmentCounts, EnetPeerSend(c, k)
  PROVE  SenderInv'
  <1> DEFINE first == outgoingReliableSequenceNumber[c] + 1
             new == PacketCommands(c, first, k)
  <1>1. k \in Nat /\ k > 0 /\ first \in Nat
    BY LimitAssumption DEF SenderInv, SenderType
  <1>2. new \in Seq(Command) /\ Len(new) = k
        /\ \A i \in 1..k : new[i].ch = c /\ new[i].num = first + i - 1
    BY <1>1 DEF PacketCommands, Command
  <1>3. unsent \in Seq(Command)
    BY DEF SenderInv, SenderType
  <1>4. unsent' = unsent \o new
        /\ outgoingReliableSequenceNumber' = [outgoingReliableSequenceNumber EXCEPT ![c] = @ + k]
    BY DEF EnetPeerSend
  <1>5. /\ unsent' \in Seq(Command)
        /\ Len(unsent') = Len(unsent) + k
        /\ \A i \in 1..Len(unsent) : unsent'[i] = unsent[i]
        /\ \A i \in (Len(unsent) + 1)..(Len(unsent) + k) :
             /\ unsent'[i].ch = c
             /\ unsent'[i].num = first + (i - Len(unsent)) - 1
    <2> HIDE DEF new, first
    <2>1. /\ unsent \o new \in Seq(Command)
          /\ Len(unsent \o new) = Len(unsent) + k
          /\ \A i \in 1..Len(unsent) : (unsent \o new)[i] = unsent[i]
          /\ \A i \in 1..k : (unsent \o new)[Len(unsent) + i] = new[i]
      BY <1>2, <1>3, ConcatProperties
    <2>2. ASSUME NEW i \in (Len(unsent) + 1)..(Len(unsent) + k)
          PROVE  unsent'[i].ch = c /\ unsent'[i].num = first + (i - Len(unsent)) - 1
      <3>1. i - Len(unsent) \in 1..k /\ Len(unsent) + (i - Len(unsent)) = i
        BY <1>1, <1>3
      <3> QED BY <1>2, <1>4, <2>1, <3>1
    <2> QED BY <1>4, <2>1, <2>2
  <1>6. UNCHANGED <<resend, sentReliableCommands, reliableWindows,
                    usedReliableWindows, reliableDataInTransit>>
    BY DEF EnetPeerSend
  <1>7. SenderType'
    BY <1>1, <1>4, <1>5, <1>6 DEF SenderInv, SenderType
  <1>8. ListsDisjoint' /\ WindowAccounting' /\ OutstandingBounded' /\ Outstanding' = Outstanding
    BY <1>6 DEF SenderInv, ListsDisjoint, WindowAccounting, WindowsCounted,
                TransitCounted, OutstandingBounded, InWindow, Outstanding
  <1>9. CommandsOrdered'
    <2> HIDE DEF new
    <2>1. /\ \A d \in Channels : outgoingReliableSequenceNumber[d] \in Nat
          /\ \A i \in 1..Len(unsent) : unsent[i].ch \in Channels /\ unsent[i].num \in Nat
          /\ \A m \in Outstanding : m.ch \in Channels /\ m.num \in Nat
          /\ Len(unsent) \in Nat
      BY CommandFields DEF SenderInv
    <2>2. /\ \A d \in Channels : outgoingReliableSequenceNumber[d] <= outgoingReliableSequenceNumber'[d]
          /\ \A d \in Channels : outgoingReliableSequenceNumber'[d] \in Nat
          /\ outgoingReliableSequenceNumber'[c] = outgoingReliableSequenceNumber[c] + k
      BY <1>1, <1>4, <2>1 DEF SenderInv, SenderType
    <2>3. /\ \A i \in 1..Len(unsent) : unsent[i].num <= outgoingReliableSequenceNumber[unsent[i].ch]
          /\ \A m \in Outstanding : m.num <= outgoingReliableSequenceNumber[m.ch]
          /\ \A i, j \in 1..Len(unsent) :
               i < j /\ unsent[i].ch = unsent[j].ch => unsent[i].num < unsent[j].num
          /\ \A m \in Outstanding, i \in 1..Len(unsent) :
               m.ch = unsent[i].ch => m.num < unsent[i].num
      BY DEF SenderInv, CommandsOrdered
    <2>4. ASSUME NEW i \in 1..Len(unsent'), i \notin 1..Len(unsent)
          PROVE  /\ i - Len(unsent) \in 1..k
                 /\ unsent'[i].ch = c
                 /\ unsent'[i].num = outgoingReliableSequenceNumber[c] + (i - Len(unsent))
      <3>1. Len(unsent) \in Nat /\ k \in Nat /\ Len(unsent') = Len(unsent) + k
        BY <1>1, <1>5, <2>1
      <3>2. i \in (Len(unsent) + 1)..(Len(unsent) + k) /\ i - Len(unsent) \in 1..k
        BY <2>4, <3>1
      <3>3. unsent'[i].ch = c /\ unsent'[i].num = first + (i - Len(unsent)) - 1
        BY <1>5, <3>2
      <3>4. outgoingReliableSequenceNumber[c] \in Nat /\ i - Len(unsent) \in Nat
        BY <2>1, <3>2
      <3>5. first + (i - Len(unsent)) - 1
              = outgoingReliableSequenceNumber[c] + (i - Len(unsent))
        BY <3>4
      <3> QED BY <3>2, <3>3, <3>5
    <2>5. ASSUME NEW i \in 1..Len(unsent')
          PROVE  unsent'[i].num <= outgoingReliableSequenceNumber'[unsent'[i].ch]
      <3>1. CASE i \in 1..Len(unsent)
        <4>1. unsent'[i] = unsent[i]
          BY <1>5, <3>1
        <4>2. unsent[i].ch \in Channels /\ unsent[i].num \in Nat
              /\ unsent[i].num <= outgoingReliableSequenceNumber[unsent[i].ch]
          BY <2>1, <2>3, <3>1
        <4> QED BY <2>1, <2>2, <4>1, <4>2
      <3>2. CASE i \notin 1..Len(unsent)
        <4>1. i - Len(unsent) <= k
          BY <1>1, <2>1, <2>4, <3>2
        <4>2. unsent'[i].ch = c
              /\ unsent'[i].num = outgoingReliableSequenceNumber[c] + (i - Len(unsent))
          BY <2>4, <3>2
        <4>3. outgoingReliableSequenceNumber[c] \in Nat /\ k \in Nat /\ i - Len(unsent) \in Int
          BY <1>1, <2>1
        <4>4. outgoingReliableSequenceNumber[c] + (i - Len(unsent))
                <= outgoingReliableSequenceNumber[c] + k
          BY <4>1, <4>3
        <4> QED BY <2>2, <4>2, <4>4
      <3> QED BY <3>1, <3>2
    <2>6. ASSUME NEW m \in Outstanding'
          PROVE  m.num <= outgoingReliableSequenceNumber'[m.ch]
      BY <1>8, <2>1, <2>2, <2>3
    <2>7. ASSUME NEW i \in 1..Len(unsent'), NEW j \in 1..Len(unsent'),
                 i < j, unsent'[i].ch = unsent'[j].ch
          PROVE  unsent'[i].num < unsent'[j].num
      <3>1. CASE j \in 1..Len(unsent)
        BY <1>5, <2>1, <2>3, <2>7, <3>1
      <3>2. CASE j \notin 1..Len(unsent) /\ i \in 1..Len(unsent)
        <4>1. unsent'[i] = unsent[i] /\ unsent[i].num \in Nat
              /\ unsent[i].num <= outgoingReliableSequenceNumber[unsent[i].ch]
          BY <1>5, <2>1, <2>3, <3>2
        <4> QED BY <2>1, <2>4, <2>7, <3>2, <4>1
      <3>3. CASE i \notin 1..Len(unsent) /\ j \notin 1..Len(unsent)
        <4>1. /\ unsent'[i].num = outgoingReliableSequenceNumber[c] + (i - Len(unsent))
              /\ unsent'[j].num = outgoingReliableSequenceNumber[c] + (j - Len(unsent))
          BY <2>4, <3>3
        <4>2. outgoingReliableSequenceNumber[c] \in Nat /\ i \in Int /\ j \in Int
          BY <1>1, <1>5, <2>1
        <4> QED BY <2>1, <2>7, <4>1, <4>2
      <3>4. i \in 1..Len(unsent) \/ j \notin 1..Len(unsent)
        BY <1>1, <1>5, <2>1, <2>7
      <3> QED BY <3>1, <3>2, <3>3, <3>4
    <2>8. ASSUME NEW m \in Outstanding', NEW i \in 1..Len(unsent'), m.ch = unsent'[i].ch
          PROVE  m.num < unsent'[i].num
      <3>1. CASE i \in 1..Len(unsent)
        BY <1>5, <1>8, <2>3, <2>8, <3>1
      <3>2. CASE i \notin 1..Len(unsent)
        <4>1. m.num \in Nat /\ m.num <= outgoingReliableSequenceNumber[c]
          BY <1>8, <2>1, <2>3, <2>4, <2>8, <3>2
        <4> QED BY <2>1, <2>4, <3>2, <4>1
      <3> QED BY <3>1, <3>2
    <2> QED BY <2>5, <2>6, <2>7, <2>8 DEF CommandsOrdered
  <1> QED BY <1>7, <1>8, <1>9 DEF SenderInv

-----------------------------------------------------------------------------
(* The counts of a window when a command enters it or leaves it.           *)

\* The window of a command is an index of reliableWindows.
LEMMA CommandWindow ==
  ASSUME NEW n \in Nat
  PROVE  Window(SequenceNumber(n)) \in 0..(ReliableWindows - 1)
  BY SequenceNumberType, WindowType

\* The first transmission of a command adds one to the count of its window.
LEMMA EnterWindow ==
  ASSUME SenderType, ListsDisjoint, WindowsCounted,
         NEW d \in Channels, NEW w \in 0..(ReliableWindows - 1),
         NEW m, m \notin Outstanding, m.ch = d, Window(SequenceNumber(m.num)) = w,
         Outstanding' = Outstanding \cup {m},
         usedReliableWindows' = [usedReliableWindows EXCEPT ![d] = @ \cup {w}],
         reliableWindows' = [reliableWindows EXCEPT ![d][w] = @ + 1]
  PROVE  /\ WindowsCounted'
         /\ reliableWindows' \in [Channels -> [0..(ReliableWindows - 1) -> Nat]]
         /\ usedReliableWindows' \in [Channels -> SUBSET (0..(ReliableWindows - 1))]
  <1>1. /\ usedReliableWindows' = [usedReliableWindows EXCEPT ![d] = @ \cup {w}]
        /\ reliableWindows' = [reliableWindows EXCEPT ![d][w] = @ + 1]
    OBVIOUS
  <1>2. reliableWindows \in [Channels -> [0..(ReliableWindows - 1) -> Nat]]
    BY DEF SenderType
  <1>3. usedReliableWindows \in [Channels -> SUBSET (0..(ReliableWindows - 1))]
    BY DEF SenderType
  <1>3b. reliableWindows[d] \in [0..(ReliableWindows - 1) -> Nat] /\ reliableWindows[d][w] \in Nat
    <2>1. reliableWindows[d] \in [0..(ReliableWindows - 1) -> Nat]
      BY <1>2
    <2> QED BY <2>1
  <1>4. \A c, v : InWindow(c, v)' =
          IF c = d /\ v = w THEN InWindow(c, v) \cup {m} ELSE InWindow(c, v)
    BY DEF InWindow
  <1>5. \A c, v : m \notin InWindow(c, v)
    BY DEF InWindow
  <1>6. ASSUME NEW c \in Channels, NEW v \in 0..(ReliableWindows - 1)
        PROVE  /\ reliableWindows'[c][v] = Cardinality(InWindow(c, v)')
               /\ v \in usedReliableWindows'[c] <=> InWindow(c, v)' # {}
    <2>1. /\ reliableWindows[c][v] = Cardinality(InWindow(c, v))
          /\ v \in usedReliableWindows[c] <=> InWindow(c, v) # {}
      BY DEF WindowsCounted
    <2>2. CASE c = d /\ v = w
      <3>1. Cardinality(InWindow(c, v) \cup {m}) = Cardinality(InWindow(c, v)) + 1
        BY <1>5, OutstandingFinite, FS_AddElement
      <3>2. InWindow(c, v)' = InWindow(c, v) \cup {m}
        BY <1>4, <2>2
      <3>3. reliableWindows'[c][v] = reliableWindows[c][v] + 1
        BY <1>1, <1>2, <1>3b, <2>2
      <3>4. v \in usedReliableWindows'[c]
        BY <1>1, <1>2, <1>3, <2>2
      <3> QED BY <2>1, <3>1, <3>2, <3>3, <3>4, Zenon
    <2>3. CASE ~(c = d /\ v = w)
      <3>1. InWindow(c, v)' = InWindow(c, v)
        BY <1>4, <2>3
      <3>2. reliableWindows'[c][v] = reliableWindows[c][v]
        BY <1>1, <1>2, <1>3, <2>3
      <3>3. v \in usedReliableWindows'[c] <=> v \in usedReliableWindows[c]
        BY <1>1, <1>2, <1>3, <2>3
      <3> QED BY <2>1, <3>1, <3>2, <3>3
    <2> QED BY <2>2, <2>3
  <1>7. WindowsCounted'
    BY <1>6 DEF WindowsCounted
  <1>8. reliableWindows' \in [Channels -> [0..(ReliableWindows - 1) -> Nat]]
    <2>1. reliableWindows[d][w] + 1 \in Nat
      BY <1>3b
    <2> QED BY <1>1, <1>2, <2>1
  <1>9. usedReliableWindows' \in [Channels -> SUBSET (0..(ReliableWindows - 1))]
    BY <1>1, <1>3
  <1> QED BY <1>7, <1>8, <1>9

\* remove_sent_reliable_command takes one off the count of the window and
\* clears its bit when the count reaches 0.
LEMMA LeaveWindow ==
  ASSUME SenderType, ListsDisjoint, WindowsCounted,
         NEW m \in Outstanding, RemoveSentReliableCommand(m)
  PROVE  /\ WindowsCounted'
         /\ Outstanding' = Outstanding \ {m}
         /\ reliableWindows' \in [Channels -> [0..(ReliableWindows - 1) -> Nat]]
         /\ usedReliableWindows' \in [Channels -> SUBSET (0..(ReliableWindows - 1))]
  <1> DEFINE w == Window(SequenceNumber(m.num))
             n == reliableWindows[m.ch][w]
  <1>1. /\ m.ch \in Channels
        /\ w \in 0..(ReliableWindows - 1)
    BY CommandFields, CommandWindow
  <1>2. Outstanding' = Outstanding \ {m}
    BY DEF RemoveSentReliableCommand, Outstanding, ListsDisjoint
  <1>3. \A c, v : InWindow(c, v)' =
          IF c = m.ch /\ v = w THEN InWindow(c, v) \ {m} ELSE InWindow(c, v)
    BY <1>2 DEF InWindow
  <1>4. m \in InWindow(m.ch, w)
    BY DEF InWindow
  <1>5. /\ n = Cardinality(InWindow(m.ch, w))
        /\ n \in Nat /\ n > 0
    <2>1. n = Cardinality(InWindow(m.ch, w)) /\ IsFiniteSet(InWindow(m.ch, w))
      BY <1>1, OutstandingFinite DEF WindowsCounted
    <2> HIDE DEF n
    <2> QED BY <1>4, <2>1, FS_CardinalityType, FS_EmptySet
  <1>6. /\ reliableWindows' = [reliableWindows EXCEPT ![m.ch][w] = n - 1]
        /\ usedReliableWindows' =
             IF n = 1 THEN [usedReliableWindows EXCEPT ![m.ch] = @ \ {w}] ELSE usedReliableWindows
    BY <1>5 DEF RemoveSentReliableCommand, ClearWindow
  <1>7. /\ reliableWindows \in [Channels -> [0..(ReliableWindows - 1) -> Nat]]
        /\ usedReliableWindows \in [Channels -> SUBSET (0..(ReliableWindows - 1))]
    BY DEF SenderType
  <1>8. /\ Cardinality(InWindow(m.ch, w) \ {m}) = n - 1
        /\ (InWindow(m.ch, w) \ {m} = {}) <=> n = 1
    <2>1. /\ IsFiniteSet(InWindow(m.ch, w) \ {m})
          /\ Cardinality(InWindow(m.ch, w) \ {m}) = n - 1
      BY <1>4, <1>5, OutstandingFinite, FS_RemoveElement
    <2> HIDE DEF n, w
    <2> QED BY <1>5, <2>1, FS_EmptySet
  <1> HIDE DEF w, n
  <1>9. ASSUME NEW c \in Channels, NEW v \in 0..(ReliableWindows - 1)
        PROVE  /\ reliableWindows'[c][v] = Cardinality(InWindow(c, v)')
               /\ v \in usedReliableWindows'[c] <=> InWindow(c, v)' # {}
    <2>1. /\ reliableWindows[c][v] = Cardinality(InWindow(c, v))
          /\ v \in usedReliableWindows[c] <=> InWindow(c, v) # {}
      BY DEF WindowsCounted
    <2>2. CASE c = m.ch /\ v = w
      <3>1. InWindow(c, v)' = InWindow(m.ch, w) \ {m}
        BY <1>3, <2>2
      <3>2. reliableWindows'[c][v] = n - 1
        BY <1>1, <1>6, <1>7, <2>2
      <3>3. v \in usedReliableWindows'[c] <=> n # 1
        BY <1>1, <1>4, <1>6, <1>7, <2>1, <2>2
      <3> QED BY <1>8, <3>1, <3>2, <3>3
    <2>3. CASE ~(c = m.ch /\ v = w)
      <3>1. InWindow(c, v)' = InWindow(c, v)
        BY <1>3, <2>3
      <3>2. reliableWindows'[c][v] = reliableWindows[c][v]
        BY <1>1, <1>6, <1>7, <2>3
      <3>3. v \in usedReliableWindows'[c] <=> v \in usedReliableWindows[c]
        BY <1>1, <1>6, <1>7, <2>3
      <3> QED BY <2>1, <3>1, <3>2, <3>3
    <2> QED BY <2>2, <2>3
  <1>10. WindowsCounted'
    BY <1>9 DEF WindowsCounted
  <1> QED BY <1>1, <1>2, <1>5, <1>6, <1>7, <1>10

-----------------------------------------------------------------------------
(* One lemma per step of the sender.                                       *)

\* A command sent again moves from one list to the other.
LEMMA ResendSender ==
  ASSUME SenderInv, NEW m \in resend, Resend(m)
  PROVE  SenderInv'
  <1>1. /\ resend' = resend \ {m}
        /\ sentReliableCommands' = sentReliableCommands \cup {m}
        /\ reliableDataInTransit' = reliableDataInTransit + 1
        /\ UNCHANGED <<outgoingReliableSequenceNumber, unsent, reliableWindows,
                       usedReliableWindows>>
    BY DEF Resend
  <1>2. Outstanding' = Outstanding
    BY <1>1 DEF Outstanding
  <1>3. SenderType'
    BY <1>1 DEF SenderInv, SenderType
  <1>4. ListsDisjoint' /\ Cardinality(sentReliableCommands') = Cardinality(sentReliableCommands) + 1
    <2>1. IsFiniteSet(sentReliableCommands) /\ IsFiniteSet(resend) /\ m \notin sentReliableCommands
      BY DEF SenderInv, ListsDisjoint
    <2> QED BY <1>1, <2>1, FS_AddElement, FS_RemoveElement DEF SenderInv, ListsDisjoint
  <1>5. TransitCounted'
    BY <1>1, <1>4 DEF SenderInv, WindowAccounting, TransitCounted
  <1>6. WindowsCounted'
    BY <1>1, <1>2 DEF SenderInv, WindowAccounting, WindowsCounted, InWindow
  <1>7. CommandsOrdered'
    BY <1>1, <1>2 DEF SenderInv, CommandsOrdered
  <1>8. OutstandingBounded'
    BY <1>2 DEF SenderInv, OutstandingBounded
  <1> QED BY <1>3, <1>4, <1>5, <1>6, <1>7, <1>8 DEF SenderInv, WindowAccounting

\* A command sent for the first time was not outstanding: every outstanding
\* command of its channel has a smaller position.  No command waits to be
\* resent, so what is in transit is all that is outstanding.
LEMMA FirstSendSender ==
  ASSUME SenderInv, FirstSend
  PROVE  SenderInv'
  <1> DEFINE m == Head(unsent)
             w == Window(SequenceNumber(m.num))
  <1>1. /\ unsent # <<>>
        /\ resend = {} /\ resend' = {}
        /\ reliableDataInTransit + 1 <= MaxInTransit
        /\ unsent' = Tail(unsent)
        /\ usedReliableWindows' = [usedReliableWindows EXCEPT ![m.ch] = @ \cup {w}]
        /\ reliableWindows' = [reliableWindows EXCEPT ![m.ch][w] = @ + 1]
        /\ sentReliableCommands' = sentReliableCommands \cup {m}
        /\ reliableDataInTransit' = reliableDataInTransit + 1
        /\ outgoingReliableSequenceNumber' = outgoingReliableSequenceNumber
    BY DEF FirstSend, FitsInTransit
  <1>2. /\ unsent \in Seq(Command)
        /\ Len(unsent) \in Nat \ {0}
        /\ m = unsent[1]
        /\ m \in Command
        /\ unsent' \in Seq(Command)
        /\ Len(unsent') = Len(unsent) - 1
        /\ \A i \in 1..Len(unsent') : unsent'[i] = unsent[i + 1]
    <2>1. unsent \in Seq(Command)
      BY DEF SenderInv, SenderType
    <2>2. /\ Head(unsent) \in Command
          /\ Tail(unsent) \in Seq(Command)
          /\ Len(Tail(unsent)) = Len(unsent) - 1
          /\ \A i \in 1..Len(Tail(unsent)) : Tail(unsent)[i] = unsent[i + 1]
      BY <1>1, <2>1, HeadTailProperties
    <2>3. Len(unsent) \in Nat \ {0} /\ Head(unsent) = unsent[1]
      BY <1>1, <2>1, EmptySeq, LenProperties
    <2> QED BY <1>1, <2>1, <2>2, <2>3
  <1>3. m.ch \in Channels /\ m.num \in Nat /\ w \in 0..(ReliableWindows - 1)
    <2>1. m.ch \in Channels /\ m.num \in Nat
      BY <1>2 DEF Command
    <2> QED BY <2>1, CommandWindow
  <1> HIDE DEF m, w
  <1>4. /\ Outstanding = sentReliableCommands
        /\ Outstanding' = Outstanding \cup {m}
    BY <1>1 DEF Outstanding
  <1>5. m \notin Outstanding
    <2>1. \A x \in Outstanding : x.ch = m.ch => x.num < m.num
      BY <1>2 DEF SenderInv, CommandsOrdered
    <2> QED BY <1>3, <2>1
  <1>6. /\ ListsDisjoint'
        /\ Cardinality(sentReliableCommands') = Cardinality(sentReliableCommands) + 1
    <2>1. IsFiniteSet(sentReliableCommands)
      BY DEF SenderInv, ListsDisjoint
    <2>2. m \notin sentReliableCommands
      BY <1>4, <1>5
    <2> QED BY <1>1, <2>1, <2>2, FS_AddElement, FS_EmptySet DEF ListsDisjoint
  <1>7. TransitCounted'
    BY <1>1, <1>6 DEF SenderInv, WindowAccounting, TransitCounted
  <1>8. /\ WindowsCounted'
        /\ reliableWindows' \in [Channels -> [0..(ReliableWindows - 1) -> Nat]]
        /\ usedReliableWindows' \in [Channels -> SUBSET (0..(ReliableWindows - 1))]
    BY <1>1, <1>3, <1>4, <1>5, EnterWindow DEF SenderInv, WindowAccounting, w
  <1>9. SenderType'
    BY <1>1, <1>2, <1>8 DEF SenderInv, SenderType
  <1>10. OutstandingBounded'
    BY <1>1, <1>4, <1>6 DEF SenderInv, WindowAccounting, TransitCounted, OutstandingBounded
  <1>11. CommandsOrdered'
    <2>1. /\ \A i \in 1..Len(unsent) : unsent[i].num <= outgoingReliableSequenceNumber[unsent[i].ch]
          /\ \A x \in Outstanding : x.num <= outgoingReliableSequenceNumber[x.ch]
          /\ \A i, j \in 1..Len(unsent) :
               i < j /\ unsent[i].ch = unsent[j].ch => unsent[i].num < unsent[j].num
          /\ \A x \in Outstanding, i \in 1..Len(unsent) :
               x.ch = unsent[i].ch => x.num < unsent[i].num
      BY DEF SenderInv, CommandsOrdered
    <2>2. ASSUME NEW i \in 1..Len(unsent')
          PROVE  i + 1 \in 1..Len(unsent) /\ 1 \in 1..Len(unsent) /\ 1 < i + 1
      BY <1>2
    <2>3. \A i \in 1..Len(unsent') :
            unsent'[i].num <= outgoingReliableSequenceNumber'[unsent'[i].ch]
      BY <1>1, <1>2, <2>1, <2>2
    <2>4. \A x \in Outstanding' : x.num <= outgoingReliableSequenceNumber'[x.ch]
      BY <1>1, <1>2, <1>4, <2>1
    <2>5. ASSUME NEW i \in 1..Len(unsent'), NEW j \in 1..Len(unsent'),
                 i < j, unsent'[i].ch = unsent'[j].ch
          PROVE  unsent'[i].num < unsent'[j].num
      BY <1>2, <2>1, <2>2, <2>5
    <2>6. ASSUME NEW x \in Outstanding', NEW i \in 1..Len(unsent'), x.ch = unsent'[i].ch
          PROVE  x.num < unsent'[i].num
      BY <1>2, <1>4, <2>1, <2>2, <2>6
    <2> QED BY <2>3, <2>4, <2>5, <2>6 DEF CommandsOrdered
  <1> QED BY <1>6, <1>7, <1>8, <1>9, <1>10, <1>11 DEF SenderInv, WindowAccounting

\* Commands that time out stay outstanding; the data in transit shrinks by
\* as many commands as leave the list.
LEMMA CheckTimeoutsSender ==
  ASSUME SenderInv, NEW T \in SUBSET sentReliableCommands, CheckTimeouts(T)
  PROVE  SenderInv'
  <1>1. /\ resend' = resend \cup T
        /\ sentReliableCommands' = sentReliableCommands \ T
        /\ reliableDataInTransit' = reliableDataInTransit - Cardinality(T)
        /\ UNCHANGED <<outgoingReliableSequenceNumber, unsent, reliableWindows,
                       usedReliableWindows>>
    BY DEF CheckTimeouts
  <1>2. Outstanding' = Outstanding
    BY <1>1 DEF Outstanding
  <1>3. IsFiniteSet(sentReliableCommands) /\ IsFiniteSet(T)
        /\ sentReliableCommands \cap T = T
    BY FS_Subset DEF SenderInv, ListsDisjoint
  <1>4. /\ IsFiniteSet(sentReliableCommands')
        /\ Cardinality(sentReliableCommands') =
             Cardinality(sentReliableCommands) - Cardinality(T)
        /\ Cardinality(sentReliableCommands') \in Nat
    <2>1. /\ IsFiniteSet(sentReliableCommands \ T)
          /\ Cardinality(sentReliableCommands \ T) =
               Cardinality(sentReliableCommands) - Cardinality(sentReliableCommands \cap T)
      BY <1>3, FS_Difference
    <2>2. Cardinality(sentReliableCommands \ T) \in Nat
      BY <2>1, FS_CardinalityType
    <2> QED BY <1>1, <1>3, <2>1, <2>2, Zenon
  <1>5. TransitCounted' /\ reliableDataInTransit' \in Nat
    BY <1>1, <1>4 DEF SenderInv, WindowAccounting, TransitCounted
  <1>6. ListsDisjoint'
    BY <1>1, <1>3, <1>4, FS_Union DEF SenderInv, ListsDisjoint
  <1>7. SenderType'
    BY <1>1, <1>5 DEF SenderInv, SenderType
  <1>8. WindowsCounted'
    BY <1>1, <1>2 DEF SenderInv, WindowAccounting, WindowsCounted, InWindow
  <1>9. CommandsOrdered' /\ OutstandingBounded'
    BY <1>1, <1>2 DEF SenderInv, CommandsOrdered, OutstandingBounded
  <1> QED BY <1>5, <1>6, <1>7, <1>8, <1>9 DEF SenderInv, WindowAccounting

\* An acknowledgement takes at most one command off, from either list.
LEMMA HandleAcknowledgeSender ==
  ASSUME SenderInv, NEW a \in ackNet, NEW net, HandleAcknowledge(a, net)
  PROVE  SenderInv'
  <1>1. UNCHANGED <<outgoingReliableSequenceNumber, unsent>>
    BY DEF HandleAcknowledge
  <1>2. CASE UNCHANGED <<resend, sentReliableCommands, reliableWindows,
                         usedReliableWindows, reliableDataInTransit>>
    BY <1>1, <1>2 DEF SenderInv, SenderType, ListsDisjoint, CommandsOrdered,
                      WindowAccounting, WindowsCounted, TransitCounted,
                      OutstandingBounded, InWindow, Outstanding
  <1>3. ASSUME NEW m \in FindSentReliableCommand(a), RemoveSentReliableCommand(m)
        PROVE  SenderInv'
    <2>1. m \in Outstanding
      BY DEF FindSentReliableCommand, Outstanding
    <2>2. /\ WindowsCounted'
          /\ Outstanding' = Outstanding \ {m}
          /\ reliableWindows' \in [Channels -> [0..(ReliableWindows - 1) -> Nat]]
          /\ usedReliableWindows' \in [Channels -> SUBSET (0..(ReliableWindows - 1))]
      BY <1>3, <2>1, LeaveWindow DEF SenderInv, WindowAccounting
    <2>3. /\ sentReliableCommands' = sentReliableCommands \ {m}
          /\ resend' = IF m \in sentReliableCommands THEN resend ELSE resend \ {m}
          /\ reliableDataInTransit' =
               reliableDataInTransit - (IF m \in sentReliableCommands THEN 1 ELSE 0)
      BY <1>3 DEF RemoveSentReliableCommand, LeavesTransit
    <2>4. /\ IsFiniteSet(sentReliableCommands')
          /\ IsFiniteSet(resend')
          /\ Cardinality(sentReliableCommands') =
               Cardinality(sentReliableCommands) - (IF m \in sentReliableCommands THEN 1 ELSE 0)
          /\ Cardinality(sentReliableCommands') \in Nat
      <3>1. IsFiniteSet(sentReliableCommands) /\ IsFiniteSet(resend)
        BY DEF SenderInv, ListsDisjoint
      <3>2. Cardinality(sentReliableCommands) \in Nat
        BY <3>1, FS_CardinalityType
      <3>3. IsFiniteSet(resend') /\ IsFiniteSet(sentReliableCommands')
        BY <2>3, <3>1, FS_RemoveElement
      <3>4. Cardinality(sentReliableCommands') \in Nat
        BY <3>3, FS_CardinalityType
      <3>5. Cardinality(sentReliableCommands \ {m}) =
              IF m \in sentReliableCommands THEN Cardinality(sentReliableCommands) - 1
                                            ELSE Cardinality(sentReliableCommands)
        BY <3>1, FS_RemoveElement
      <3> QED BY <2>3, <3>2, <3>3, <3>4, <3>5
    <2>5. ListsDisjoint'
      BY <2>3, <2>4 DEF SenderInv, ListsDisjoint
    <2>6. TransitCounted' /\ reliableDataInTransit' \in Nat
      BY <2>3, <2>4 DEF SenderInv, WindowAccounting, TransitCounted
    <2>7. SenderType'
      BY <1>1, <2>2, <2>3, <2>6 DEF SenderInv, SenderType
    <2>8. CommandsOrdered'
      BY <1>1, <2>2 DEF SenderInv, CommandsOrdered
    <2>9. OutstandingBounded'
      <3>1. IsFiniteSet(Outstanding) /\ Outstanding' \in SUBSET Outstanding
        BY <2>2, OutstandingFinite DEF SenderInv
      <3>2. /\ Cardinality(Outstanding') <= Cardinality(Outstanding)
            /\ Cardinality(Outstanding) \in Nat /\ Cardinality(Outstanding') \in Nat
        BY <3>1, FS_Subset, FS_CardinalityType
      <3> QED BY <3>2, LimitAssumption DEF SenderInv, OutstandingBounded
    <2> QED BY <2>2, <2>5, <2>6, <2>7, <2>8, <2>9 DEF SenderInv, WindowAccounting
  <1> QED BY <1>2, <1>3 DEF HandleAcknowledge

-----------------------------------------------------------------------------
(* The steps together.                                                     *)

\* No other step touches the sender.
LEMMA OtherSender ==
  ASSUME SenderInv, UNCHANGED senderVars
  PROVE  SenderInv'
  BY DEF SenderInv, senderVars, SenderType, ListsDisjoint, CommandsOrdered,
         WindowAccounting, WindowsCounted, TransitCounted, OutstandingBounded,
         InWindow, Outstanding

\* Every step of the two peers and of the network keeps the sender's invariant.
LEMMA NextSender == SenderInv /\ [Next]_vars => SenderInv'
  <1> SUFFICES ASSUME SenderInv, [Next]_vars PROVE SenderInv'
    OBVIOUS
  <1>1. ASSUME NEW c \in Channels, NEW k \in FragmentCounts, EnetPeerSend(c, k)
        PROVE  SenderInv'
    BY <1>1, EnetPeerSendSender
  <1>2. ASSUME NEW m \in resend, Resend(m) PROVE SenderInv'
    BY <1>2, ResendSender
  <1>3. CASE FirstSend
    BY <1>3, FirstSendSender
  <1>4. ASSUME NEW T \in SUBSET sentReliableCommands, CheckTimeouts(T) PROVE SenderInv'
    BY <1>4, CheckTimeoutsSender
  <1>5. CASE HandleAck
    BY <1>5, HandleAcknowledgeSender DEF HandleAck
  <1>6. CASE HandleData
    BY <1>6, OtherSender DEF HandleData, HandleIncomingCommand
  <1>7. CASE SendAcknowledgements
    BY <1>7, OtherSender DEF SendAcknowledgements
  <1>8. CASE EnetPeerReceive
    BY <1>8, OtherSender DEF EnetPeerReceive
  <1>9. CASE LoseData
    BY <1>9, OtherSender DEF LoseData
  <1>10. CASE LoseAcknowledgement
    BY <1>10, OtherSender DEF LoseAcknowledgement
  <1>11. CASE UNCHANGED vars
    BY <1>11, OtherSender DEF vars
  <1> QED BY <1>1, <1>2, <1>3, <1>4, <1>5, <1>6, <1>7, <1>8, <1>9, <1>10, <1>11 DEF Next

\* The sender's lists stay apart and in order, and its windows count what is in
\* transit (protocol.c, enet_protocol_send_reliable_outgoing_commands).
THEOREM SenderInvariant == Spec => []SenderInv
  <1>1. Init => SenderInv
    BY InitSender
  <1>2. SenderInv /\ [Next]_vars => SenderInv'
    BY NextSender
  <1> QED BY <1>1, <1>2, PTL DEF Spec

\* The counters of check_outgoing_commands, check_timeouts and
\* remove_sent_reliable_command always agree with the lists they summarise,
\* for any window layout, any limits and any network.
THEOREM WindowAccountingCorrect == Spec => []WindowAccounting
  <1>1. SenderInv => WindowAccounting
    BY DEF SenderInv
  <1> QED BY <1>1, SenderInvariant, PTL

\* However commands time out and are sent again, no more than MaxInTransit
\* of them are ever unacknowledged.
THEOREM OutstandingIsBounded == Spec => []OutstandingBounded
  <1>1. SenderInv => OutstandingBounded
    BY DEF SenderInv
  <1> QED BY <1>1, SenderInvariant, PTL

-----------------------------------------------------------------------------
(* Type correctness of the receiver, the network and the applications.     *)

\* A sequence from its element k + 1 on, and up to its element k.
LEMMA SubSeqType ==
  ASSUME NEW S, NEW list \in Seq(S), NEW k \in 0..Len(list)
  PROVE  /\ SubSeq(list, 1, k) \in Seq(S)
         /\ SubSeq(list, k + 1, Len(list)) \in Seq(S)
  <1>1. Len(list) \in Nat
    BY LenProperties
  <1>2. SubSeq(list, 1, k) \in Seq(S)
    BY <1>1, SubSeqProperties
  <1>3. SubSeq(list, k + 1, Len(list)) \in Seq(S)
    BY <1>1, SubSeqProperties
  <1> QED BY <1>2, <1>3

\* Inserting an entry keeps a list of entries.
LEMMA InsertType ==
  ASSUME NEW S, NEW list \in Seq(S), NEW p \in 0..Len(list), NEW e \in S
  PROVE  InsertAfter(list, p, e) \in Seq(S)
  <1>1. /\ SubSeq(list, 1, p) \in Seq(S)
        /\ SubSeq(list, p + 1, Len(list)) \in Seq(S)
    BY SubSeqType
  <1>2. <<e>> \in Seq(S)
    OBVIOUS
  <1> QED BY <1>1, <1>2, ConcatProperties DEF InsertAfter

\* Marking a fragment keeps a list of entries.
LEMMA MarkType ==
  ASSUME NEW list \in Seq(IncomingCommand), NEW p \in 1..Len(list),
         NEW slot, NEW n \in Nat
  PROVE  [list EXCEPT ![p].data[slot] = n] \in Seq(IncomingCommand)
  <1>1. list[p] \in IncomingCommand
    BY ElementOfSeq
  <1>2. [list[p].data EXCEPT ![slot] = n] \in Seq(Nat)
    <2>1. list[p].data \in Seq(Nat)
      BY <1>1 DEF IncomingCommand
    <2>2. list[p].data \in [1..Len(list[p].data) -> Nat] /\ Len(list[p].data) \in Nat
      BY <2>1, LenProperties
    <2>3. [list[p].data EXCEPT ![slot] = n] \in [1..Len(list[p].data) -> Nat]
      BY <2>2
    <2> QED BY <2>2, <2>3
  <1>3. [list[p] EXCEPT !.data = [list[p].data EXCEPT ![slot] = n]] \in IncomingCommand
    BY <1>1, <1>2 DEF IncomingCommand
  <1>4. list \in [1..Len(list) -> IncomingCommand] /\ Len(list) \in Nat
    BY LenProperties
  <1>5. [list EXCEPT ![p].data[slot] = n]
          = [list EXCEPT ![p] = [list[p] EXCEPT !.data = [list[p].data EXCEPT ![slot] = n]]]
    OBVIOUS
  <1>6. [list EXCEPT ![p].data[slot] = n] \in [1..Len(list) -> IncomingCommand]
    BY <1>3, <1>4, <1>5
  <1> QED BY <1>4, <1>6

\* The sequence number a packet ends with fits in its 16 bits.
LEMMA LastSequenceNumberType ==
  ASSUME NEW e \in IncomingCommand
  PROVE  LastSequenceNumber(e) \in 0..(SequenceSpace - 1)
  <1>1. e.seq \in Int /\ Len(e.data) \in Int
    <2>1. e.data \in Seq(Nat) /\ e.seq \in 0..(SequenceSpace - 1)
      BY DEF IncomingCommand
    <2> QED BY <2>1, LenProperties, SequenceSpaceType
  <1> QED BY <1>1, SequenceSpaceType, SMT DEF LastSequenceNumber

\* dispatch_incoming_reliable_commands moves entries from list to list.
LEMMA DispatchType ==
  ASSUME ReceiverType, NEW c \in Channels, NEW list \in Seq(IncomingCommand),
         DispatchIncomingReliableCommands(c, list)
  PROVE  /\ incomingReliableSequenceNumber' \in [Channels -> 0..(SequenceSpace - 1)]
         /\ incomingReliableCommands' \in [Channels -> Seq(IncomingCommand)]
         /\ dispatchedCommands' \in Seq([ch : Channels, data : Seq(Nat)])
  <1>1. PICK k \in 0..Len(list) :
          /\ incomingReliableCommands' =
               [incomingReliableCommands EXCEPT ![c] = SubSeq(list, k + 1, Len(list))]
          /\ incomingReliableSequenceNumber' =
               IF k = 0 THEN incomingReliableSequenceNumber
               ELSE [incomingReliableSequenceNumber EXCEPT ![c] = LastSequenceNumber(list[k])]
          /\ dispatchedCommands' = Dispatch(c, list, k)
    BY DEF DispatchIncomingReliableCommands
  <1>2. Len(list) \in Nat /\ \A i \in 1..Len(list) : list[i] \in IncomingCommand
    BY LenProperties, ElementOfSeq
  <1>3. incomingReliableCommands' \in [Channels -> Seq(IncomingCommand)]
    BY <1>1, SubSeqType DEF ReceiverType
  <1>4. incomingReliableSequenceNumber' \in [Channels -> 0..(SequenceSpace - 1)]
    <2>1. CASE k = 0
      BY <1>1, <2>1 DEF ReceiverType
    <2>2. CASE k # 0
      <3>1. LastSequenceNumber(list[k]) \in 0..(SequenceSpace - 1)
        BY <1>2, <2>2, LastSequenceNumberType
      <3> QED BY <1>1, <2>2, <3>1 DEF ReceiverType
    <2> QED BY <2>1, <2>2
  <1>5. dispatchedCommands' \in Seq([ch : Channels, data : Seq(Nat)])
    <2> DEFINE E == [ch : Channels, data : Seq(Nat)]
               moved == [i \in 1..k |-> [ch |-> c, data |-> list[i].data]]
    <2>1. ASSUME NEW i \in 1..k PROVE [ch |-> c, data |-> list[i].data] \in E
      <3>1. list[i] \in IncomingCommand
        BY <1>2
      <3>2. list[i].data \in Seq(Nat)
        BY <3>1 DEF IncomingCommand
      <3> QED BY <3>2
    <2>2. moved \in Seq(E)
      <3> HIDE DEF E
      <3>1. k \in Nat
        BY <1>2
      <3>2. moved \in [1..k -> E]
        BY <2>1
      <3> QED BY <3>1, <3>2
    <2>3. dispatchedCommands \in Seq(E)
      BY DEF ReceiverType
    <2>4. dispatchedCommands' = dispatchedCommands \o moved
      BY <1>1 DEF Dispatch
    <2> HIDE DEF E, moved
    <2>5. dispatchedCommands' \in Seq(E)
      BY <2>2, <2>3, <2>4, ConcatProperties
    <2> QED BY <2>5 DEF E
  <1> QED BY <1>3, <1>4, <1>5

\* Every step of the receiver keeps its types.
LEMMA HandleDataReceiver ==
  ASSUME ReceiverType, NetType, NEW m \in dataNet, NEW net, HandleIncomingCommand(m, net)
  PROVE  ReceiverType'
  <1>1. /\ m.ch \in Channels /\ m.num \in Nat /\ m.start \in Nat /\ m.count \in Nat
        /\ incomingReliableCommands[m.ch] \in Seq(IncomingCommand)
    <2>1. m.ch \in Channels /\ m.num \in Nat /\ m.start \in Nat /\ m.count \in Nat
      BY DEF NetType, Command
    <2> QED BY <2>1 DEF ReceiverType
  <1> DEFINE list == incomingReliableCommands[m.ch]
  <1>2. QueueAcknowledgement(m) => acknowledgements' \subseteq Acknowledgement
    <2>1. [ch |-> m.ch, num |-> m.num] \in Acknowledgement
      BY <1>1 DEF Acknowledgement
    <2> QED BY <2>1 DEF QueueAcknowledgement, ReceiverType
  <1>3. CASE DiscardCommand(m)
    BY <1>2, <1>3 DEF DiscardCommand, ReceiverType
  <1>4. ASSUME NEW p \in 0..Len(list), DiscardDuplicate(m, p)
        PROVE  ReceiverType'
    BY <1>2, <1>4 DEF DiscardDuplicate, ReceiverType
  <1>5. ASSUME NEW p \in 0..Len(list), MarkFragment(m, p)
        PROVE  ReceiverType'
    <2> DEFINE slot == m.num - m.start + 1
               marked == [list EXCEPT ![p].data[slot] = m.num]
    <2>1. p \in 1..Len(list)
      <3>1. p # 0 /\ Len(list) \in Nat
        BY <1>1, <1>5, LenProperties DEF MarkFragment, Found
      <3> QED BY <3>1
    <2>2. marked \in Seq(IncomingCommand)
      BY <1>1, <2>1, MarkType
    <2>3. totalWaitingData' = totalWaitingData /\ acknowledgements' \subseteq Acknowledgement
      BY <1>2, <1>5 DEF MarkFragment
    <2>4. \/ UNCHANGED <<incomingReliableSequenceNumber, incomingReliableCommands,
                         dispatchedCommands>>
          \/ DispatchIncomingReliableCommands(m.ch, marked)
          \/ /\ incomingReliableCommands' = [incomingReliableCommands EXCEPT ![m.ch] = marked]
             /\ UNCHANGED <<incomingReliableSequenceNumber, dispatchedCommands>>
      BY <1>5 DEF MarkFragment
    <2> HIDE DEF marked, list
    <2>5. CASE DispatchIncomingReliableCommands(m.ch, marked)
      BY <1>1, <2>2, <2>3, <2>5, DispatchType DEF ReceiverType
    <2> QED BY <1>1, <2>2, <2>3, <2>4, <2>5 DEF ReceiverType
  <1>6. ASSUME NEW p \in 0..Len(list), QueueIncomingCommand(m, p)
        PROVE  ReceiverType'
    <2> DEFINE e == [seq |-> SequenceNumber(m.start),
                     data |-> [i \in 1..m.count |->
                                 IF i = m.num - m.start + 1 THEN m.num ELSE 0]]
    <2>1. e \in IncomingCommand
      <3>1. [i \in 1..m.count |-> IF i = m.num - m.start + 1 THEN m.num ELSE 0] \in Seq(Nat)
        BY <1>1
      <3> QED BY <1>1, <3>1, SequenceNumberType DEF IncomingCommand
    <2>2. InsertAfter(list, p, e) \in Seq(IncomingCommand)
      <3> HIDE DEF e
      <3> QED BY <1>1, <2>1, InsertType
    <2>3. /\ totalWaitingData' = totalWaitingData + m.count
          /\ DispatchIncomingReliableCommands(m.ch, InsertAfter(list, p, e))
          /\ acknowledgements' \subseteq Acknowledgement
      BY <1>2, <1>6 DEF QueueIncomingCommand, DataLength
    <2> HIDE DEF e, list
    <2>4. totalWaitingData' \in Int
      BY <1>1, <2>3 DEF ReceiverType
    <2> QED BY <1>1, <2>2, <2>3, <2>4, DispatchType DEF ReceiverType
  <1>7. ASSUME NEW p \in 0..Len(list), RefuseCommand(m, p)
        PROVE  ReceiverType'
    BY <1>7 DEF RefuseCommand, receiverVars, ReceiverType
  <1> QED BY <1>3, <1>4, <1>5, <1>6, <1>7 DEF HandleIncomingCommand

\* Every step keeps the types of what the receiver holds.
LEMMA NextReceiver ==
  ASSUME ReceiverType, NetType, [Next]_vars
  PROVE  ReceiverType'
  <1>1. CASE UNCHANGED receiverVars
    BY <1>1 DEF ReceiverType, receiverVars
  <1>2. CASE HandleData
    BY <1>2, HandleDataReceiver DEF HandleData
  <1>3. CASE SendAcknowledgements
    BY <1>3 DEF SendAcknowledgements, ReceiverType
  <1>4. CASE EnetPeerReceive
    <2> DEFINE E == [ch : Channels, data : Seq(Nat)]
    <2>1. dispatchedCommands \in Seq(E) /\ dispatchedCommands # <<>>
      BY <1>4 DEF EnetPeerReceive, ReceiverType
    <2>2. Head(dispatchedCommands) \in E /\ Tail(dispatchedCommands) \in Seq(E)
      <3> HIDE DEF E
      <3> QED BY <2>1, HeadTailProperties
    <2>3. Head(dispatchedCommands).data \in Seq(Nat)
      BY <2>2
    <2>4. Len(Head(dispatchedCommands).data) \in Nat
      BY <2>3, LenProperties
    <2> QED BY <1>4, <2>2, <2>4 DEF EnetPeerReceive, ReceiverType
  <1> QED BY <1>1, <1>2, <1>3, <1>4 DEF Next, vars, EnetPeerSend, Resend, FirstSend,
       CheckTimeouts, HandleAck, HandleAcknowledge, LoseData, LoseAcknowledgement

\* The network carries what it was given.
LEMMA TransmitType ==
  ASSUME NEW S, NEW net \in SUBSET S, NEW msgs \in SUBSET S, NEW c, NEW n
  PROVE  Transmit(net, msgs) \subseteq S /\ Alive(net, c, n) \subseteq S
  BY DEF Transmit, Alive

\* Every step keeps the types of what is on the network.
LEMMA NextNet ==
  ASSUME SenderType, ReceiverType, NetType, [Next]_vars
  PROVE  NetType'
  <1>1. CASE UNCHANGED netVars
    BY <1>1 DEF NetType, netVars
  <1>2. ASSUME NEW m \in resend, Resend(m) PROVE NetType'
    <2>1. m \in Command
      BY DEF SenderType
    <2> QED BY <1>2, <2>1, TransmitType DEF Resend, NetType
  <1>3. CASE FirstSend
    <2>1. unsent \in Seq(Command) /\ unsent # <<>>
      BY <1>3 DEF FirstSend, SenderType
    <2>2. Head(unsent) \in Command
      BY <2>1, HeadTailProperties
    <2>3. /\ dataNet' = Transmit(Alive(dataNet, Head(unsent).ch, Head(unsent).num), {Head(unsent)})
          /\ ackNet' = Alive(ackNet, Head(unsent).ch, Head(unsent).num)
      BY <1>3 DEF FirstSend
    <2>4. ackNet' \subseteq Acknowledgement
      BY <2>3 DEF NetType, Alive
    <2>5. dataNet' \subseteq Command
      BY <2>2, <2>3 DEF NetType, Alive, Transmit
    <2> QED BY <2>4, <2>5 DEF NetType
  <1>4. CASE HandleAck
    BY <1>4 DEF HandleAck, HandleAcknowledge, NetType
  <1>5. CASE HandleData
    BY <1>5 DEF HandleData, HandleIncomingCommand, NetType
  <1>6. CASE SendAcknowledgements
    BY <1>6 DEF SendAcknowledgements, NetType, ReceiverType, Transmit
  <1>7. CASE LoseData \/ LoseAcknowledgement
    BY <1>7 DEF LoseData, LoseAcknowledgement, NetType
  <1> QED BY <1>1, <1>2, <1>3, <1>4, <1>5, <1>6, <1>7
       DEF Next, vars, netVars, EnetPeerSend, CheckTimeouts, EnetPeerReceive

\* Every step keeps the types of what the applications have sent and received.
LEMMA NextApp ==
  ASSUME SenderType, ReceiverType, AppType, [Next]_vars
  PROVE  AppType'
  <1>1. CASE UNCHANGED appVars
    BY <1>1 DEF AppType, appVars
  <1>2. ASSUME NEW c \in Channels, NEW k \in FragmentCounts, EnetPeerSend(c, k)
        PROVE  AppType'
    <2> DEFINE first == outgoingReliableSequenceNumber[c] + 1
    <2>1. k \in Nat /\ first \in Nat
      BY LimitAssumption DEF SenderType
    <2>2. Packet(first, k) \in Seq(Nat)
      <3> HIDE DEF first
      <3>1. \A i \in 1..k : first + i - 1 \in Nat
        BY <2>1
      <3> QED BY <2>1, <3>1 DEF Packet
    <2>3. pending' = [pending EXCEPT ![c] = Append(@, Packet(first, k))]
          /\ delivered' = delivered
      BY <1>2 DEF EnetPeerSend
    <2>4. pending[c] \in Seq(Seq(Nat))
      BY DEF AppType
    <2> HIDE DEF first
    <2>5. Append(pending[c], Packet(first, k)) \in Seq(Seq(Nat))
      BY <2>2, <2>4, AppendProperties
    <2> QED BY <2>3, <2>5 DEF AppType
  <1>3. CASE EnetPeerReceive
    <2> DEFINE E == [ch : Channels, data : Seq(Nat)]
               e == Head(dispatchedCommands)
    <2>1. dispatchedCommands \in Seq(E) /\ dispatchedCommands # <<>>
      BY <1>3 DEF EnetPeerReceive, ReceiverType
    <2>2. e \in E
      <3> HIDE DEF E
      <3> QED BY <2>1, HeadTailProperties
    <2>3. e.ch \in Channels /\ e.data \in Seq(Nat)
      BY <2>2
    <2>4. /\ delivered' = [delivered EXCEPT ![e.ch] = e.data]
          /\ pending' = [pending EXCEPT ![e.ch] = IF @ = <<>> THEN @ ELSE Tail(@)]
      BY <1>3 DEF EnetPeerReceive
    <2> HIDE DEF e
    <2>5. pending[e.ch] \in Seq(Seq(Nat))
      BY <2>3 DEF AppType
    <2>6. (IF pending[e.ch] = <<>> THEN pending[e.ch] ELSE Tail(pending[e.ch])) \in Seq(Seq(Nat))
      BY <2>5, HeadTailProperties
    <2> QED BY <2>3, <2>4, <2>6 DEF AppType
  <1> QED BY <1>1, <1>2, <1>3 DEF Next, vars, appVars, Resend, FirstSend, CheckTimeouts,
       HandleAck, HandleAcknowledge, HandleData, HandleIncomingCommand,
       SendAcknowledgements, LoseData, LoseAcknowledgement

\* Sequence numbers and windows stay in the range of their fields, the
\* unsigned counter of data in transit never goes below 0, and the lists
\* hold nothing but well formed entries.
THEOREM TypeCorrect == Spec => []TypeOK
  <1> DEFINE Inv == SenderInv /\ ReceiverType /\ NetType /\ AppType
  <1>1. Init => Inv
    <2> SUFFICES ASSUME Init PROVE Inv
      OBVIOUS
    <2>1. SequenceNumber(StartPosition) \in 0..(SequenceSpace - 1)
      BY SequenceNumberType, LimitAssumption
    <2>2. ReceiverType /\ NetType /\ AppType
      BY <2>1 DEF Init, ReceiverType, NetType, AppType
    <2> QED BY <2>2, InitSender
  <1>2. Inv /\ [Next]_vars => Inv'
    <2> SUFFICES ASSUME Inv, [Next]_vars PROVE Inv'
      OBVIOUS
    <2>1. SenderType
      BY DEF SenderInv
    <2> QED BY <2>1, NextSender, NextReceiver, NextNet, NextApp
  <1>3. Inv => TypeOK
    BY DEF SenderInv, TypeOK
  <1> QED BY <1>1, <1>2, <1>3, PTL DEF Spec

-----------------------------------------------------------------------------
(* totalWaitingData is what the lists of the receiver hold.                *)

\* What can be in one of the lists, and how much it weighs.
Held == IncomingCommand \cup [ch : Channels, data : Seq(Nat)]

DataOf == [e \in Held |-> Len(e.data)]

LEMMA DataOfIs ==
  /\ DataOf \in [Held -> Nat]
  /\ \A e \in Held : e.data \in Seq(Nat) /\ Len(e.data) \in Nat /\ DataOf[e] = Len(e.data)
  <1>1. ASSUME NEW e \in Held PROVE e.data \in Seq(Nat)
    BY DEF Held, IncomingCommand
  <1>2. ASSUME NEW e \in Held PROVE Len(e.data) \in Nat
    BY <1>1, LenProperties
  <1> QED BY <1>1, <1>2 DEF DataOf

LEMMA HeldLists ==
  /\ \A list \in Seq(IncomingCommand) : list \in Seq(Held)
  /\ \A list \in Seq([ch : Channels, data : Seq(Nat)]) : list \in Seq(Held)
  <1>1. ASSUME NEW S, S \subseteq Held, NEW list \in Seq(S) PROVE list \in Seq(Held)
    <2>1. Len(list) \in Nat /\ list \in [1..Len(list) -> S]
      BY LenProperties
    <2>2. list \in [1..Len(list) -> Held]
      BY <1>1, <2>1
    <2> QED BY <2>1, <2>2
  <1>2. IncomingCommand \subseteq Held /\ [ch : Channels, data : Seq(Nat)] \subseteq Held
    BY DEF Held
  <1> QED BY <1>1, <1>2

LEMMA LengthIs ==
  ASSUME NEW S, NEW q \in Seq(S), NEW n \in Nat, DOMAIN q = 1..n
  PROVE  Len(q) = n
  <1>1. Len(q) \in Nat /\ 1..Len(q) = 1..n
    BY LenProperties
  <1>2. ASSUME Len(q) < n PROVE FALSE
    <2>1. n \in 1..n /\ n \notin 1..Len(q)
      BY <1>1, <1>2
    <2> QED BY <1>1, <2>1
  <1>3. ASSUME n < Len(q) PROVE FALSE
    <2>1. Len(q) \in 1..Len(q) /\ Len(q) \notin 1..n
      BY <1>1, <1>3
    <2> QED BY <1>1, <2>1
  <1> QED BY <1>1, <1>2, <1>3

\* Lengths is the weight of EnetArithmetic.
LEMMA LengthsIs ==
  ASSUME NEW list \in Seq(Held)
  PROVE  Lengths(list) = Load(DataOf, list) /\ Lengths(list) \in Nat
  <1> DEFINE N == Len(list)
             Is(g) == g = [i \in 0..N |-> IF i = 0 THEN 0 ELSE g[i - 1] + Len(list[i].data)]
             h == CHOOSE g : Is(g)
  <1>1. N \in Nat /\ \A n \in 1..N : list[n] \in Held
    BY LenProperties, ElementOfSeq
  <1>2. PICK g : Running(g, DataOf, list) /\ Load(DataOf, list) = g[N] /\ Load(DataOf, list) \in Nat
    BY DataOfIs, LoadIs
  <1>3. \A n \in 1..N : g[n] = g[n - 1] + Len(list[n].data)
    BY <1>1, <1>2, DataOfIs DEF Running
  <1>4. g = [i \in 0..N |-> g[i]] /\ g[0] = 0
    BY <1>2 DEF Running
  <1>5. Is(g)
    <2>1. ASSUME NEW i \in 0..N
          PROVE  g[i] = IF i = 0 THEN 0 ELSE g[i - 1] + Len(list[i].data)
      <3>1. i = 0 \/ i \in 1..N
        BY <1>1
      <3> QED BY <1>3, <1>4, <3>1
    <2> QED BY <1>4, <2>1
  <1>6. Is(h)
    <2> HIDE DEF Is
    <2> QED BY <1>5
  <1>7. \A i \in 0..N : h[i] = IF i = 0 THEN 0 ELSE h[i - 1] + Len(list[i].data)
    BY <1>6
  <1>8. h[N] = g[N]
    <2> DEFINE T == {i \in 0..N : h[i] = g[i]}
    <2> HIDE DEF h, N
    <2>1. 0 \in T
      <3>1. 0 \in 0..N
        BY <1>1
      <3> QED BY <1>4, <1>7, <3>1
    <2>2. ASSUME NEW n \in 1..N, n - 1 \in T PROVE n \in T
      <3>1. n \in 0..N /\ n # 0 /\ h[n - 1] = g[n - 1]
        BY <1>1, <2>2
      <3> QED BY <1>3, <1>7, <3>1
    <2> HIDE DEF T
    <2>3. N \in T
      <3>1. \A n \in 0..N : n \in T
        BY <1>1, <2>1, <2>2, UpTo
      <3> QED BY <1>1, <3>1
    <2> QED BY <2>3 DEF T
  <1>9. Lengths(list) = h[N]
    BY DEF Lengths
  <1> HIDE DEF h, N
  <1> QED BY <1>2, <1>8, <1>9

\* The two parts of a list.
LEMMA LengthsParts ==
  ASSUME NEW list \in Seq(Held), NEW k \in 0..Len(list)
  PROVE  LET p == SubSeq(list, 1, k)
             q == SubSeq(list, k + 1, Len(list))
         IN  p \in Seq(Held) /\ q \in Seq(Held) /\ Lengths(list) = Lengths(p) + Lengths(q)
  <1> DEFINE p == SubSeq(list, 1, k)
             q == SubSeq(list, k + 1, Len(list))
  <1>1. p \in Seq(Held) /\ q \in Seq(Held)
    BY SubSeqType
  <1>2. p \o q = list
    <2>1. 1 \in 1..(Len(list) + 1) /\ k \in (1 - 1)..Len(list) /\ Len(list) \in k..Len(list)
      BY LenProperties
    <2>2. SubSeq(list, 1, k) \o SubSeq(list, k + 1, Len(list)) = SubSeq(list, 1, Len(list))
      BY <2>1, ConcatAdjacentSubSeq
    <2> QED BY <2>2, SubSeqFull
  <1> HIDE DEF p, q
  <1>3. Load(DataOf, list) = Load(DataOf, p) + Load(DataOf, q)
    BY <1>1, <1>2, DataOfIs, LoadConcat
  <1>4. /\ Lengths(list) = Load(DataOf, list)
        /\ Lengths(p) = Load(DataOf, p)
        /\ Lengths(q) = Load(DataOf, q)
    BY <1>1, LengthsIs
  <1> QED BY <1>1, <1>3, <1>4 DEF p, q

LEMMA LengthsConcat ==
  ASSUME NEW p \in Seq(Held), NEW q \in Seq(Held)
  PROVE  Lengths(p \o q) = Lengths(p) + Lengths(q)
  <1>1. p \o q \in Seq(Held) /\ Load(DataOf, p \o q) = Load(DataOf, p) + Load(DataOf, q)
    BY DataOfIs, LoadConcat
  <1> DEFINE r == p \o q
  <1>2. Lengths(r) = Load(DataOf, r)
    <2> HIDE DEF r
    <2>1. r \in Seq(Held)
      BY <1>1 DEF r
    <2> QED BY <2>1, LengthsIs
  <1> QED BY <1>1, <1>2, LengthsIs

\* A packet more.
LEMMA LengthsInsert ==
  ASSUME NEW list \in Seq(Held), NEW p \in 0..Len(list), NEW e \in Held
  PROVE  Lengths(InsertAfter(list, p, e)) = Lengths(list) + Len(e.data)
  <1> DEFINE a == SubSeq(list, 1, p)
             b == SubSeq(list, p + 1, Len(list))
             o == <<e>>
  <1>1. a \in Seq(Held) /\ b \in Seq(Held) /\ Lengths(list) = Lengths(a) + Lengths(b)
    BY LengthsParts
  <1>2. o \in Seq(Held) /\ Lengths(o) = Len(e.data) /\ Len(e.data) \in Nat
    <2>1. o \in Seq(Held) /\ Load(DataOf, o) = DataOf[e]
      BY DataOfIs, LoadOne
    <2>2. Lengths(o) = Load(DataOf, o)
      <3> HIDE DEF o
      <3> QED BY <2>1, LengthsIs
    <2> QED BY <2>1, <2>2, DataOfIs
  <1>3. InsertAfter(list, p, e) = (a \o o) \o b
    BY DEF InsertAfter
  <1> HIDE DEF a, b, o
  <1>4. a \o o \in Seq(Held)
    BY <1>1, <1>2, ConcatProperties
  <1>5. Lengths(a \o o) = Lengths(a) + Lengths(o)
    BY <1>1, <1>2, LengthsConcat
  <1>6. Lengths((a \o o) \o b) = Lengths(a \o o) + Lengths(b)
    BY <1>1, <1>4, LengthsConcat
  <1>7. Lengths(a) \in Nat /\ Lengths(b) \in Nat
    BY <1>1, LengthsIs
  <1>8. Lengths((a \o o) \o b) = Lengths(list) + Len(e.data)
    BY <1>1, <1>2, <1>5, <1>6, <1>7
  <1> QED BY <1>3, <1>8

\* Lists whose packets are as long, one by one.
LEMMA LengthsSame ==
  ASSUME NEW p \in Seq(Held), NEW q \in Seq(Held), Len(p) = Len(q),
         \A i \in 1..Len(q) : Len(p[i].data) = Len(q[i].data)
  PROVE  Lengths(p) = Lengths(q)
  <1>1. Len(q) \in Nat /\ (\A i \in 1..Len(q) : q[i] \in Held) /\ \A i \in 1..Len(p) : p[i] \in Held
    BY LenProperties, ElementOfSeq
  <1>2. \A i \in 1..Len(q) : DataOf[p[i]] = DataOf[q[i]]
    BY <1>1, DataOfIs
  <1>3. Matched(Held, DataOf, p, Held, DataOf, q)
    BY <1>1, <1>2, DataOfIs DEF Matched, Alike
  <1>4. Load(DataOf, p) = Load(DataOf, q)
    BY <1>3, LoadSame
  <1> QED BY <1>4, LengthsIs

Copied(list, p, slot, n) == [list EXCEPT ![p].data[slot] = n]

\* A fragment that is copied makes its packet no longer.
LEMMA LengthsMark ==
  ASSUME NEW list \in Seq(IncomingCommand), NEW p \in 1..Len(list), NEW slot, NEW n \in Nat
  PROVE  Lengths(Copied(list, p, slot, n)) = Lengths(list)
  <1> DEFINE marked == [list EXCEPT ![p].data[slot] = n]
  <1>1. marked \in Seq(IncomingCommand)
    BY MarkType
  <1>2. Len(list) \in Nat /\ list \in [1..Len(list) -> IncomingCommand]
    BY LenProperties
  <1>3. Len(marked) = Len(list)
    <2>1. DOMAIN marked = 1..Len(list)
      BY <1>2
    <2> HIDE DEF marked
    <2> QED BY <1>1, <1>2, <2>1, LengthIs
  <1>4. ASSUME NEW i \in 1..Len(list) PROVE Len(marked[i].data) = Len(list[i].data)
    <2>1. CASE i # p
      BY <1>2, <2>1
    <2>2. CASE i = p
      <3> DEFINE d == list[p].data
                 e == [d EXCEPT ![slot] = n]
      <3>1. d \in Seq(Nat)
        BY <1>2 DEF IncomingCommand
      <3>2. Len(d) \in Nat /\ d \in [1..Len(d) -> Nat]
        BY <3>1, LenProperties
      <3>3. e \in [1..Len(d) -> Nat]
        BY <3>2
      <3>4. Len(e) = Len(d)
        <4> DEFINE k == Len(d)
        <4>1. k \in Nat /\ e \in [1..k -> Nat]
          BY <3>2, <3>3
        <4> HIDE DEF d, e, k
        <4>2. e \in Seq(Nat) /\ DOMAIN e = 1..k
          BY <4>1
        <4>3. Len(e) = k
          BY <4>1, <4>2, LengthIs
        <4> QED BY <4>3 DEF k
      <3>5. marked[p].data = e
        <4>1. list[p] \in IncomingCommand
          BY <1>2
        <4>2. list[p] = [seq |-> list[p].seq, data |-> list[p].data]
          BY <4>1 DEF IncomingCommand
        <4>3. marked[p] = [list[p] EXCEPT !.data = e]
          BY <1>2
        <4> QED BY <4>2, <4>3
      <3> QED BY <2>2, <3>4, <3>5
    <2> QED BY <2>1, <2>2
  <1>5. marked \in Seq(Held) /\ list \in Seq(Held)
    BY <1>1, HeldLists
  <1> HIDE DEF marked
  <1>6. Lengths(marked) = Lengths(list)
    BY <1>3, <1>4, <1>5, LengthsSame
  <1>7. Copied(list, p, slot, n) = marked
    BY DEF marked, Copied
  <1> QED BY <1>6, <1>7

\* What is dispatched leaves one list for the other.
LEMMA LengthsDispatched ==
  ASSUME ReceiverType, NEW c \in Channels, NEW list \in Seq(IncomingCommand),
         DispatchIncomingReliableCommands(c, list)
  PROVE  \E rest \in Seq(IncomingCommand) :
           /\ incomingReliableCommands' = [incomingReliableCommands EXCEPT ![c] = rest]
           /\ Lengths(rest) + Lengths(dispatchedCommands') = Lengths(list) + Lengths(dispatchedCommands)
  <1>1. PICK k \in 0..Len(list) :
          /\ incomingReliableCommands' =
               [incomingReliableCommands EXCEPT ![c] = SubSeq(list, k + 1, Len(list))]
          /\ dispatchedCommands' = Dispatch(c, list, k)
    BY DEF DispatchIncomingReliableCommands
  <1> DEFINE first == SubSeq(list, 1, k)
             rest == SubSeq(list, k + 1, Len(list))
             E == [ch : Channels, data : Seq(Nat)]
             moved == [i \in 1..k |-> [ch |-> c, data |-> list[i].data]]
  <1>2. Len(list) \in Nat /\ k \in Nat /\ \A i \in 1..Len(list) : list[i] \in IncomingCommand
    BY LenProperties, ElementOfSeq
  <1>3. list \in Seq(Held) /\ dispatchedCommands \in Seq(Held) /\ rest \in Seq(IncomingCommand)
    BY HeldLists, SubSeqType DEF ReceiverType
  <1>4. first \in Seq(Held) /\ rest \in Seq(Held) /\ Lengths(list) = Lengths(first) + Lengths(rest)
    BY <1>3, LengthsParts
  <1>5. moved \in Seq(E) /\ Len(moved) = k /\ \A i \in 1..k : moved[i].data = list[i].data
    <2>1. ASSUME NEW i \in 1..k PROVE [ch |-> c, data |-> list[i].data] \in E
      <3>1. i \in 1..Len(list)
        BY <1>2
      <3>2. list[i].data \in Seq(Nat)
        BY <1>2, <3>1 DEF IncomingCommand
      <3> QED BY <3>2
    <2>2. \A i \in 1..k : moved[i].data = list[i].data
      OBVIOUS
    <2> HIDE DEF E
    <2>3. moved \in [1..k -> E]
      BY <2>1
    <2> HIDE DEF moved
    <2>4. moved \in Seq(E) /\ DOMAIN moved = 1..k
      BY <1>2, <2>3
    <2>5. Len(moved) = k
      BY <1>2, <2>4, LengthIs
    <2> QED BY <2>2, <2>4, <2>5
  <1>6. moved \in Seq(Held)
    BY <1>5, HeldLists
  <1>7. Len(first) = k /\ \A i \in 1..k : first[i] = list[i]
    <2>1. \A i \in 1..k : list[i] \in IncomingCommand
      BY <1>2
    <2> QED BY <1>2, <2>1, SubSeqProperties
  <1>8. dispatchedCommands' = dispatchedCommands \o moved
    BY <1>1 DEF Dispatch
  <1>9. incomingReliableCommands' = [incomingReliableCommands EXCEPT ![c] = rest]
    BY <1>1
  <1> HIDE DEF first, rest, moved, E
  <1>10. Lengths(moved) = Lengths(first)
    BY <1>4, <1>5, <1>6, <1>7, LengthsSame
  <1>11. Lengths(dispatchedCommands') = Lengths(dispatchedCommands) + Lengths(moved)
    BY <1>3, <1>6, <1>8, LengthsConcat
  <1>12. /\ Lengths(dispatchedCommands) \in Nat /\ Lengths(moved) \in Nat
         /\ Lengths(first) \in Nat /\ Lengths(rest) \in Nat
    BY <1>3, <1>4, <1>6, LengthsIs
  <1>13. Lengths(rest) + Lengths(dispatchedCommands') = Lengths(list) + Lengths(dispatchedCommands)
    BY <1>4, <1>10, <1>11, <1>12
  <1> QED BY <1>3, <1>9, <1>13

\* When the list of a channel changes, what waits changes with its length.
LEMMA WaitingChanges ==
  ASSUME NEW lists \in [Channels -> Seq(IncomingCommand)], NEW c \in Channels,
         NEW rest \in Seq(IncomingCommand), IsFiniteSet(WaitingIn(lists))
  PROVE  LET new == [lists EXCEPT ![c] = rest]
         IN  /\ IsFiniteSet(WaitingIn(new))
             /\ Cardinality(WaitingIn(new)) + Lengths(lists[c])
                  = Cardinality(WaitingIn(lists)) + Lengths(rest)
  <1> DEFINE new == [lists EXCEPT ![c] = rest]
             A == {c} \X (1..Lengths(lists[c]))
             B == {c} \X (1..Lengths(rest))
             R == UNION {{d} \X (1..Lengths(lists[d])) : d \in Channels \ {c}}
             V == WaitingIn(lists)
             W == WaitingIn(new)
  <1>1. lists[c] \in Seq(Held) /\ rest \in Seq(Held)
    BY HeldLists
  <1>2. Lengths(lists[c]) \in Nat /\ Lengths(rest) \in Nat
    BY <1>1, LengthsIs
  <1>3. V = R \cup A /\ R \cap A = {}
    BY DEF WaitingIn
  <1>4. W = R \cup B /\ R \cap B = {}
    <2>1. new[c] = rest /\ \A d \in Channels \ {c} : new[d] = lists[d]
      OBVIOUS
    <2> HIDE DEF new
    <2>2. WaitingIn(new) = (UNION {{d} \X (1..Lengths(new[d])) : d \in Channels \ {c}})
                             \cup ({c} \X (1..Lengths(new[c])))
      BY DEF WaitingIn
    <2>3. {{d} \X (1..Lengths(new[d])) : d \in Channels \ {c}}
            = {{d} \X (1..Lengths(lists[d])) : d \in Channels \ {c}}
      BY <2>1
    <2>4. R \cap B = {}
      OBVIOUS
    <2> QED BY <2>1, <2>2, <2>3, <2>4
  <1>5. ASSUME NEW n \in Nat
        PROVE  IsFiniteSet({c} \X (1..n)) /\ Cardinality({c} \X (1..n)) = n
    <2>1. IsFiniteSet({c}) /\ Cardinality({c}) = 1
      BY FS_Singleton
    <2>2. IsFiniteSet(1..n) /\ Cardinality(1..n) = n
      <3>1. 1 \in Int /\ n \in Int
        OBVIOUS
      <3>2. IsFiniteSet(1..n) /\ Cardinality(1..n) = IF 1 > n THEN 0 ELSE n - 1 + 1
        BY <3>1, FS_Interval
      <3> QED BY <3>2
    <2>3. IsFiniteSet({c} \X (1..n)) /\ Cardinality({c} \X (1..n)) = Cardinality({c}) * Cardinality(1..n)
      BY <2>1, <2>2, FS_Product
    <2> QED BY <2>1, <2>2, <2>3
  <1>6. /\ IsFiniteSet(A) /\ Cardinality(A) = Lengths(lists[c])
        /\ IsFiniteSet(B) /\ Cardinality(B) = Lengths(rest)
    BY <1>2, <1>5
  <1>7. IsFiniteSet(V)
    OBVIOUS
  <1> HIDE DEF A, B, R, V, W, new
  <1>8. IsFiniteSet(R)
    <2>1. R \subseteq V
      BY <1>3
    <2> QED BY <1>7, <2>1, FS_Subset
  <1>9. Cardinality(R) \in Nat
    BY <1>8, FS_CardinalityType
  <1>10. /\ Cardinality(V) = Cardinality(R) + Cardinality(A)
         /\ IsFiniteSet(W) /\ Cardinality(W) = Cardinality(R) + Cardinality(B)
    <2>1. ASSUME NEW S, IsFiniteSet(S), Cardinality(S) \in Nat, R \cap S = {}
          PROVE  IsFiniteSet(R \cup S) /\ Cardinality(R \cup S) = Cardinality(R) + Cardinality(S)
      <3>1. IsFiniteSet(R \cup S) /\ Cardinality(R \cup S) = Cardinality(R) + Cardinality(S) - Cardinality({})
        BY <1>8, <2>1, FS_Union
      <3> QED BY <1>9, <2>1, <3>1, FS_EmptySet
    <2> QED BY <1>2, <1>3, <1>4, <1>6, <2>1
  <1>12. Cardinality(W) + Lengths(lists[c]) = Cardinality(V) + Lengths(rest)
    BY <1>2, <1>6, <1>9, <1>10
  <1> QED BY <1>10, <1>12 DEF V, W, new

\* The invariant: the sum is one of finitely many things.
WaitingInv == IsFiniteSet(WaitingIn(incomingReliableCommands)) /\ WaitingAccounting

LEMMA InitWaiting == Init => WaitingInv
  <1> SUFFICES ASSUME Init PROVE WaitingInv
    OBVIOUS
  <1>1. <<>> \in Seq(Held) /\ Load(DataOf, <<>>) = 0
    BY DataOfIs, LoadEmpty
  <1>2. Lengths(<<>>) = 0
    BY <1>1, LengthsIs
  <1>3. incomingReliableCommands = [c \in Channels |-> <<>>] /\ dispatchedCommands = <<>> /\ totalWaitingData = 0
    BY DEF Init
  <1>4. WaitingIn(incomingReliableCommands) = {}
    <2>1. \A c \in Channels : 1..Lengths(incomingReliableCommands[c]) = {}
      BY <1>2, <1>3
    <2> QED BY <2>1 DEF WaitingIn
  <1>5. IsFiniteSet({}) /\ Cardinality({}) = 0
    BY FS_EmptySet
  <1>6. Lengths(dispatchedCommands) = 0 /\ Cardinality(WaitingIn(incomingReliableCommands)) = 0
    BY <1>2, <1>3, <1>4, <1>5
  <1>7. totalWaitingData = Lengths(dispatchedCommands) + Cardinality(WaitingIn(incomingReliableCommands))
    BY <1>3, <1>6
  <1> QED BY <1>4, <1>5, <1>7 DEF WaitingInv, WaitingAccounting

\* A list that is dispatched from weighs as much more as is added to the counter.
LEMMA DispatchWaiting ==
  ASSUME WaitingInv, ReceiverType, NEW c \in Channels, NEW list \in Seq(IncomingCommand),
         DispatchIncomingReliableCommands(c, list), NEW more \in Nat,
         Lengths(list) = Lengths(incomingReliableCommands[c]) + more,
         totalWaitingData' = totalWaitingData + more
  PROVE  WaitingInv'
  <1> DEFINE lists == incomingReliableCommands
             V == WaitingIn(lists)
  <1>1. PICK rest \in Seq(IncomingCommand) :
           /\ incomingReliableCommands' = [lists EXCEPT ![c] = rest]
           /\ Lengths(rest) + Lengths(dispatchedCommands') = Lengths(list) + Lengths(dispatchedCommands)
    BY LengthsDispatched
  <1> DEFINE W == WaitingIn([lists EXCEPT ![c] = rest])
  <1>2. lists \in [Channels -> Seq(IncomingCommand)] /\ lists[c] \in Seq(IncomingCommand)
    BY DEF ReceiverType
  <1>3. IsFiniteSet(V) /\ totalWaitingData = Lengths(dispatchedCommands) + Cardinality(V)
    BY DEF WaitingInv, WaitingAccounting
  <1>4. IsFiniteSet(W) /\ Cardinality(W) + Lengths(lists[c]) = Cardinality(V) + Lengths(rest)
    BY <1>2, <1>3, WaitingChanges
  <1>5. dispatchedCommands' \in Seq([ch : Channels, data : Seq(Nat)])
    BY DispatchType
  <1>6. /\ Lengths(rest) \in Nat /\ Lengths(lists[c]) \in Nat
        /\ Lengths(dispatchedCommands) \in Nat /\ Lengths(dispatchedCommands') \in Nat
    <2>1. /\ rest \in Seq(Held) /\ lists[c] \in Seq(Held)
          /\ dispatchedCommands \in Seq(Held) /\ dispatchedCommands' \in Seq(Held)
      BY <1>2, <1>5, HeldLists DEF ReceiverType
    <2>2. ASSUME NEW q, q \in Seq(Held) PROVE Lengths(q) \in Nat
      BY <2>2, LengthsIs
    <2> QED BY <2>1, <2>2
  <1>7. W = WaitingIn(incomingReliableCommands')
    BY <1>1
  <1>8. Cardinality(V) \in Nat /\ Cardinality(W) \in Nat
    BY <1>3, <1>4, FS_CardinalityType
  <1> HIDE DEF V, W, lists
  <1>9. totalWaitingData' = Lengths(dispatchedCommands') + Cardinality(W)
    <2> DEFINE r == Lengths(rest)
               o == Lengths(lists[c])
               d == Lengths(dispatchedCommands)
               e == Lengths(dispatchedCommands')
               v == Cardinality(V)
               w == Cardinality(W)
    <2>1. r \in Nat /\ o \in Nat /\ d \in Nat /\ e \in Nat /\ v \in Nat /\ w \in Nat
      BY <1>6, <1>8
    <2>2. r + e = (o + more) + d
      <3>1. Lengths(list) = o + more
        BY DEF lists
      <3> QED BY <1>1, <3>1
    <2>3. w + o = v + r
      BY <1>4
    <2>4. totalWaitingData' = (d + v) + more
      BY <1>3
    <2> HIDE DEF r, o, d, e, v, w
    <2>5. totalWaitingData' = e + w
      BY <2>1, <2>2, <2>3, <2>4
    <2> QED BY <2>5 DEF e, w
  <1> QED BY <1>4, <1>7, <1>9 DEF WaitingInv, WaitingAccounting

\* The handlers of the commands that arrive.
LEMMA HandleDataWaiting ==
  ASSUME WaitingInv, ReceiverType, NetType, NEW m \in dataNet, NEW net, HandleIncomingCommand(m, net)
  PROVE  WaitingInv'
  <1> DEFINE list == incomingReliableCommands[m.ch]
  <1>1. /\ m.ch \in Channels /\ m.num \in Nat /\ m.start \in Nat /\ m.count \in Nat
        /\ list \in Seq(IncomingCommand) /\ list \in Seq(Held)
    <2>1. m.ch \in Channels /\ m.num \in Nat /\ m.start \in Nat /\ m.count \in Nat
      BY DEF NetType, Command
    <2>2. list \in Seq(IncomingCommand)
      BY <2>1 DEF ReceiverType
    <2> QED BY <2>1, <2>2, HeldLists
  <1>2. ASSUME UNCHANGED <<incomingReliableCommands, dispatchedCommands, totalWaitingData>>
        PROVE  WaitingInv'
    BY <1>2 DEF WaitingInv, WaitingAccounting
  <1>3. CASE DiscardCommand(m)
    BY <1>2, <1>3 DEF DiscardCommand
  <1>4. ASSUME NEW p \in 0..Len(list), DiscardDuplicate(m, p)
        PROVE  WaitingInv'
    BY <1>2, <1>4 DEF DiscardDuplicate
  <1>5. ASSUME NEW p \in 0..Len(list), MarkFragment(m, p)
        PROVE  WaitingInv'
    <2> DEFINE slot == m.num - m.start + 1
               marked == [list EXCEPT ![p].data[slot] = m.num]
    <2>1. p \in 1..Len(list)
      <3>1. p # 0 /\ Len(list) \in Nat
        BY <1>1, <1>5, LenProperties DEF MarkFragment, Found
      <3> QED BY <3>1
    <2>2. marked \in Seq(IncomingCommand) /\ Lengths(marked) = Lengths(list)
      <3> HIDE DEF list, slot
      <3>1. marked \in Seq(IncomingCommand)
        BY <1>1, <2>1, MarkType
      <3>2. Lengths(marked) = Lengths(list)
        <4>1. marked = Copied(list, p, slot, m.num)
          BY DEF Copied
        <4> HIDE DEF marked
        <4> QED BY <1>1, <2>1, <4>1, LengthsMark
      <3> QED BY <3>1, <3>2
    <2>3. /\ totalWaitingData' = totalWaitingData
          /\ \/ UNCHANGED <<incomingReliableCommands, dispatchedCommands>>
             \/ DispatchIncomingReliableCommands(m.ch, marked)
             \/ /\ incomingReliableCommands' = [incomingReliableCommands EXCEPT ![m.ch] = marked]
                /\ UNCHANGED dispatchedCommands
      BY <1>5 DEF MarkFragment
    <2>4. Lengths(list) \in Nat
      BY <1>1, LengthsIs
    <2> HIDE DEF marked
    <2>5. CASE DispatchIncomingReliableCommands(m.ch, marked)
      <3>1. Lengths(marked) = Lengths(list) + 0 /\ totalWaitingData' = totalWaitingData + 0
        BY <2>2, <2>3, <2>4 DEF ReceiverType
      <3> QED BY <1>1, <2>2, <2>5, <3>1, DispatchWaiting
    <2>6. CASE /\ incomingReliableCommands' = [incomingReliableCommands EXCEPT ![m.ch] = marked]
               /\ UNCHANGED dispatchedCommands
      <3> DEFINE V == WaitingIn(incomingReliableCommands)
                 W == WaitingIn([incomingReliableCommands EXCEPT ![m.ch] = marked])
      <3>1. IsFiniteSet(V) /\ totalWaitingData = Lengths(dispatchedCommands) + Cardinality(V)
        BY DEF WaitingInv, WaitingAccounting
      <3>2. IsFiniteSet(W) /\ Cardinality(W) + Lengths(list) = Cardinality(V) + Lengths(marked)
        BY <1>1, <2>2, <3>1, WaitingChanges DEF ReceiverType
      <3>3. Cardinality(V) \in Nat /\ Cardinality(W) \in Nat
        BY <3>1, <3>2, FS_CardinalityType
      <3>4. W = WaitingIn(incomingReliableCommands')
        BY <2>6
      <3> HIDE DEF V, W, list
      <3>5. Cardinality(W) = Cardinality(V)
        BY <2>2, <2>4, <3>2, <3>3
      <3> QED BY <2>3, <2>6, <3>1, <3>2, <3>4, <3>5 DEF WaitingInv, WaitingAccounting
    <2> QED BY <1>2, <2>3, <2>5, <2>6
  <1>6. ASSUME NEW p \in 0..Len(list), QueueIncomingCommand(m, p)
        PROVE  WaitingInv'
    <2> DEFINE data == [i \in 1..m.count |-> IF i = m.num - m.start + 1 THEN m.num ELSE 0]
               e == [seq |-> SequenceNumber(m.start), data |-> data]
    <2>1. data \in Seq(Nat) /\ Len(data) = m.count
      <3>1. data \in [1..m.count -> Nat]
        BY <1>1
      <3> HIDE DEF data
      <3>2. data \in Seq(Nat) /\ DOMAIN data = 1..m.count
        BY <1>1, <3>1
      <3> QED BY <1>1, <3>2, LengthIs
    <2>2. /\ totalWaitingData' = totalWaitingData + m.count
          /\ DispatchIncomingReliableCommands(m.ch, InsertAfter(list, p, e))
      BY <1>6 DEF QueueIncomingCommand, DataLength
    <2> HIDE DEF data
    <2>3. e \in IncomingCommand /\ Len(e.data) = m.count
      BY <1>1, <2>1, SequenceNumberType DEF IncomingCommand
    <2> HIDE DEF e
    <2> DEFINE new == InsertAfter(list, p, e)
    <2>4. e \in Held
      BY <2>3 DEF Held
    <2>5. new \in Seq(IncomingCommand) /\ Lengths(new) = Lengths(list) + m.count
      BY <1>1, <2>3, <2>4, InsertType, LengthsInsert
    <2> HIDE DEF new
    <2> QED BY <1>1, <2>2, <2>5, DispatchWaiting DEF new
  <1>7. ASSUME NEW p \in 0..Len(list), RefuseCommand(m, p)
        PROVE  WaitingInv'
    BY <1>2, <1>7 DEF RefuseCommand, receiverVars
  <1> QED BY <1>3, <1>4, <1>5, <1>6, <1>7 DEF HandleIncomingCommand

\* Every step.
LEMMA NextWaiting ==
  ASSUME WaitingInv, ReceiverType, NetType, [Next]_vars
  PROVE  WaitingInv'
  <1>1. CASE UNCHANGED <<incomingReliableCommands, dispatchedCommands, totalWaitingData>>
    BY <1>1 DEF WaitingInv, WaitingAccounting
  <1>2. CASE HandleData
    BY <1>2, HandleDataWaiting DEF HandleData
  <1>3. CASE EnetPeerReceive
    <2> DEFINE E == [ch : Channels, data : Seq(Nat)]
               q == dispatchedCommands
               V == WaitingIn(incomingReliableCommands)
    <2>1. q \in Seq(E) /\ q # <<>>
      BY <1>3 DEF EnetPeerReceive, ReceiverType
    <2>2. q \in Seq(Held)
      BY <2>1, HeldLists
    <2>3. /\ dispatchedCommands' = Tail(q)
          /\ totalWaitingData' = totalWaitingData - Len(Head(q).data)
          /\ incomingReliableCommands' = incomingReliableCommands
      BY <1>3 DEF EnetPeerReceive
    <2>4. IsFiniteSet(V) /\ totalWaitingData = Lengths(q) + Cardinality(V)
      BY DEF WaitingInv, WaitingAccounting
    <2> HIDE DEF E, q
    <2>5. /\ Head(q) \in Held /\ Tail(q) \in Seq(Held)
          /\ Load(DataOf, q) = DataOf[Head(q)] + Load(DataOf, Tail(q))
      BY <2>1, <2>2, DataOfIs, LoadTail
    <2>6. Lengths(q) = Load(DataOf, q) /\ Lengths(Tail(q)) = Load(DataOf, Tail(q)) /\ Lengths(Tail(q)) \in Nat
      BY <2>2, <2>5, LengthsIs
    <2>7. DataOf[Head(q)] = Len(Head(q).data) /\ Len(Head(q).data) \in Nat
      BY <2>5, DataOfIs
    <2>8. Cardinality(V) \in Nat
      BY <2>4, FS_CardinalityType
    <2>9. totalWaitingData' = Lengths(Tail(q)) + Cardinality(V)
      <3>1. ASSUME NEW h \in Nat, NEW t \in Nat, NEW v \in Nat PROVE ((h + t) + v) - h = t + v
        OBVIOUS
      <3>2. Lengths(q) = Len(Head(q).data) + Lengths(Tail(q))
        BY <2>5, <2>6, <2>7
      <3> QED BY <2>3, <2>4, <2>6, <2>7, <2>8, <3>1, <3>2
    <2> QED BY <2>3, <2>4, <2>9 DEF WaitingInv, WaitingAccounting
  <1> QED BY <1>1, <1>2, <1>3 DEF Next, vars, EnetPeerSend, Resend, FirstSend, CheckTimeouts,
       HandleAck, HandleAcknowledge, SendAcknowledgements, LoseData, LoseAcknowledgement, receiverVars

\* What queue_incoming_command adds to totalWaitingData for a packet is what
\* enet_peer_receive subtracts when the application takes it, and nothing of it
\* is added twice or forgotten in between, however the fragments arrive; so the
\* unsigned counter never passes zero.
THEOREM WaitingAlwaysAccounted == Spec => []WaitingAccounting
  <1>1. Init => WaitingInv
    BY InitWaiting
  <1>2. TypeOK /\ WaitingInv /\ [Next]_vars => WaitingInv'
    BY NextWaiting DEF TypeOK
  <1>3. WaitingInv => WaitingAccounting
    BY DEF WaitingInv
  <1> QED BY <1>1, <1>2, <1>3, TypeCorrect, PTL DEF Spec

-----------------------------------------------------------------------------
(* An acknowledgement is for the command it was sent for: the proof that   *)
(* AcknowledgementsMatch holds for every window layout, any number of      *)
(* channels and any network that forgets a datagram within Lifetime.       *)
(*                                                                         *)
(* Sequence numbers are kept modulo SequenceSpace, so the proof bounds how *)
(* far behind the last command sent anything can be that still matters:    *)
(* an outstanding command by the windows check_outgoing_commands keeps     *)
(* free, an acknowledgement by the window it wants to see acknowledged in  *)
(* part before it enters the next one.                                     *)

-----------------------------------------------------------------------------
(* Positions and their windows.  Window(n) of a position n counts windows  *)
(* from the start of the stream, not modulo ReliableWindows.               *)

\* The window of a sequence number is the window of the position modulo
\* ReliableWindows, and both start at the same positions.
LEMMA WindowOfPosition ==
  ASSUME NEW n \in Nat
  PROVE  /\ Window(SequenceNumber(n)) = Window(n) % ReliableWindows
         /\ SequenceNumber(n) % WindowSize = n % WindowSize
         /\ Window(n) \in Nat
  <1>1. ReliableWindows \in Nat \ {0} /\ WindowSize \in Nat \ {0}
    BY WindowAssumption
  <1>2. Window(n) \in Nat
    BY <1>1, DivNat DEF Window
  <1>3. n \in Int
    OBVIOUS
  <1>4. /\ (n % (ReliableWindows * WindowSize)) \div WindowSize
             = (n \div WindowSize) % ReliableWindows
        /\ (n % (ReliableWindows * WindowSize)) % WindowSize = n % WindowSize
    BY <1>1, <1>3, DivOfMod, Zenon
  <1> QED BY <1>2, <1>4, Zenon DEF Window, SequenceNumber, SequenceSpace

\* Where the window of a position begins and ends.
LEMMA WindowBounds ==
  ASSUME NEW n \in Int
  PROVE  /\ Window(n) \in Int
         /\ WindowSize * Window(n) <= n
         /\ n < WindowSize * Window(n) + WindowSize
         /\ \A m \in Int : n <= m => Window(n) <= Window(m)
  <1>1. WindowSize \in Nat \ {0}
    BY WindowAssumption
  <1> QED BY <1>1, DivMod, DivMonotone DEF Window

\* A position between the bounds of a window is in it.
LEMMA WindowIs ==
  ASSUME NEW n \in Int, NEW u \in Int, WindowSize * u <= n, n < WindowSize * u + WindowSize
  PROVE  Window(n) = u
  <1> DEFINE a == WindowSize * u
  <1>1. WindowSize \in Nat \ {0} /\ a \in Int
    BY WindowAssumption
  <1>2. n - a \in 0..(WindowSize - 1) /\ n = a + (n - a)
    <2> HIDE DEF a
    <2>1. a <= n /\ n < a + WindowSize
      BY DEF a
    <2> QED BY <1>1, <2>1
  <1> QED BY <1>1, <1>2, DivUnique DEF Window

\* The position after n is in the same window or begins the next one.
LEMMA NextPosition ==
  ASSUME NEW n \in Nat
  PROVE  Window(n + 1) = IF (n + 1) % WindowSize = 0 THEN Window(n) + 1 ELSE Window(n)
  <1> DEFINE q == Window(n + 1)
             r == (n + 1) % WindowSize
  <1>1. WindowSize \in Nat \ {0}
    BY WindowAssumption
  <1>2. q \in Int /\ r \in 0..(WindowSize - 1) /\ n + 1 = WindowSize * q + r
    BY <1>1, DivMod DEF Window
  <1> HIDE DEF q, r
  <1>3. CASE r = 0
    <2>1. n = WindowSize * (q - 1) + (WindowSize - 1)
      BY <1>1, <1>2, <1>3, SMT
    <2>2. Window(n) = q - 1
      BY <1>1, <1>2, <2>1, DivUnique DEF Window
    <2> QED BY <1>2, <1>3, <2>2 DEF q, r
  <1>4. CASE r # 0
    <2>1. n = WindowSize * q + (r - 1) /\ r - 1 \in 0..(WindowSize - 1)
      BY <1>1, <1>2, <1>4, SMT
    <2>2. Window(n) = q
      BY <1>1, <1>2, <2>1, DivUnique DEF Window
    <2> QED BY <1>4, <2>2 DEF q, r
  <1> QED BY <1>3, <1>4

\* The elements of a concatenation.
LEMMA ConcatParts ==
  ASSUME NEW S, NEW s \in Seq(S), NEW t \in Seq(S)
  PROVE  /\ s \o t \in Seq(S)
         /\ Len(s \o t) = Len(s) + Len(t)
         /\ \A i \in 1..Len(s) : (s \o t)[i] = s[i]
         /\ \A i \in 1..Len(t) : (s \o t)[Len(s) + i] = t[i]
  <1>1. Len(s) \in Nat /\ Len(t) \in Nat
    BY LenProperties
  <1>2. ASSUME NEW i \in 1..Len(t) PROVE (s \o t)[Len(s) + i] = t[i]
    <2>1. Len(s) + i \in 1..(Len(s) + Len(t)) /\ ~(Len(s) + i <= Len(s)) /\ Len(s) + i - Len(s) = i
      BY <1>1
    <2> QED BY <2>1, ConcatProperties
  <1>3. \A i \in 1..Len(s) : (s \o t)[i] = s[i]
    BY <1>1, ConcatProperties
  <1> QED BY <1>2, <1>3, ConcatProperties

-----------------------------------------------------------------------------
(* The inductive invariant.  H[c] is the position of the last command of   *)
(* channel c that was sent; the code does not keep it.                     *)

\* How far behind H[c] an outstanding command can be.
Span == WindowSize * (ReliableWindows - FreeWindows - 1) - 1

\* How far behind H[c] a command can be in flight.
Reach == IF Lifetime >= Span THEN Lifetime ELSE Span

\* Position n of channel c was sent and not acknowledged.
Waits(c, n) == \E m \in Outstanding : m.ch = c /\ m.num = n

\* The commands of c up to H[c] were sent; the ones after it are unsent,
\* without a gap.
SentUpTo(H) ==
  /\ \A c \in Channels : H[c] <= outgoingReliableSequenceNumber[c]
  /\ \A m \in Outstanding : m.num <= H[m.ch]
  /\ \A i \in 1..Len(unsent) : H[unsent[i].ch] < unsent[i].num
  /\ \A c \in Channels : \A n \in (H[c] + 1)..outgoingReliableSequenceNumber[c] :
       \E i \in 1..Len(unsent) : unsent[i].ch = c /\ unsent[i].num = n

\* Some command of the window before the current one is not outstanding.
WindowOpen(H) ==
  \A c \in Channels :
    \E p \in Int : Window(p) = Window(H[c]) - 1 /\ ~Waits(c, p)

\* The windows of the outstanding commands are close together.
OutstandingRecent(H) ==
  \A m \in Outstanding :
    Window(H[m.ch]) - Window(m.num) <= ReliableWindows - FreeWindows - 2

DataRecent(H) ==
  \A m \in dataNet : m.num <= H[m.ch] /\ H[m.ch] <= m.num + Reach

\* While an acknowledgement waits to be sent, so do all that come after it:
\* the sender cannot have seen one for a command it sent since.
QueuedRecent(H) ==
  \A a \in acknowledgements :
    /\ a.num <= H[a.ch]
    /\ \A n \in (a.num + Reach + 1)..H[a.ch] :
         /\ Waits(a.ch, n)
         /\ \A b \in ackNet : ~(b.ch = a.ch /\ b.num = n)

AcknowledgementsRecent(H) ==
  \A a \in ackNet :
    /\ a.num <= H[a.ch]
    /\ H[a.ch] <= a.num + Reach + 2 * WindowSize - 1

StreamInv(H) ==
  /\ SentUpTo(H)
  /\ WindowOpen(H)
  /\ OutstandingRecent(H)
  /\ DataRecent(H)
  /\ QueuedRecent(H)
  /\ AcknowledgementsRecent(H)

\* The types the steps of the invariant lean on.
Typed == SenderInv /\ ReceiverType /\ NetType

AcknowledgementInv == Typed /\ \E H \in [Channels -> Nat] : StreamInv(H)

-----------------------------------------------------------------------------
(* What the invariant gives.                                               *)

\* The constants leave room for every command that is still in flight.
LEMMA ReachFits ==
  /\ Span \in Nat /\ Reach \in Nat /\ Span <= Reach
  /\ Span < SequenceSpace
  /\ Reach + 2 * WindowSize <= SequenceSpace
  <1> DEFINE k == ReliableWindows - FreeWindows - 1
  <1>1. /\ WindowSize \in Nat \ {0} /\ ReliableWindows \in Nat /\ FreeWindows \in Nat
        /\ k \in Nat /\ k >= 2 /\ k + 3 < ReliableWindows + 1
    BY WindowAssumption
  <1> HIDE DEF k
  <1>2. WindowSize * k \in Nat /\ WindowSize * k >= WindowSize
    BY <1>1, SMT
  <1>3. WindowSize * (k + 2) <= WindowSize * ReliableWindows
    BY <1>1, SMT
  <1>4. WindowSize * (k + 2) = WindowSize * k + 2 * WindowSize
    BY <1>1, SMT
  <1>5. WindowSize * ReliableWindows = ReliableWindows * WindowSize
        /\ ReliableWindows * WindowSize \in Nat
    BY <1>1, SMT
  <1>6. Span = WindowSize * k - 1
    BY DEF Span, k
  <1>7. Lifetime \in Nat /\ Lifetime + 2 * WindowSize <= ReliableWindows * WindowSize
    BY LimitAssumption, LifetimeAssumption
  <1> QED BY <1>1, <1>2, <1>3, <1>4, <1>5, <1>6, <1>7, SMT DEF Reach, SequenceSpace

\* An outstanding command is at most Span behind.
LEMMA OutstandingSpan ==
  ASSUME NEW H \in [Channels -> Nat], SenderInv, OutstandingRecent(H), NEW m \in Outstanding
  PROVE  H[m.ch] <= m.num + Span
  <1> DEFINE h == H[m.ch]
             u == Window(m.num)
             v == Window(h)
             k == ReliableWindows - FreeWindows - 2
  <1>1. m.ch \in Channels /\ m.num \in Nat /\ h \in Nat
    BY CommandFields DEF SenderInv
  <1>2. /\ u \in Int /\ v \in Int /\ v - u <= k
        /\ WindowSize * u <= m.num
        /\ h < WindowSize * v + WindowSize
    BY <1>1, WindowBounds DEF OutstandingRecent
  <1>3. WindowSize \in Nat \ {0} /\ k \in Nat
    BY WindowAssumption
  <1>4. Span = WindowSize * (k + 1) - 1
    BY WindowAssumption DEF Span
  <1> HIDE DEF h, u, v, k
  <1>5. WindowSize * v <= WindowSize * (u + k)
    BY <1>2, <1>3, SMT
  <1>6. /\ WindowSize * (u + k) = WindowSize * u + WindowSize * k
        /\ WindowSize * (k + 1) = WindowSize * k + WindowSize
        /\ WindowSize * u \in Int /\ WindowSize * v \in Int /\ WindowSize * k \in Int
    BY <1>2, <1>3, SMT
  <1>7. h <= m.num + Span
    BY <1>1, <1>2, <1>3, <1>4, <1>5, <1>6, SMT
  <1> QED BY <1>7 DEF h

\* The 16 bits of an acknowledgement name one outstanding command.
LEMMA MatchFromInv ==
  ASSUME NEW H \in [Channels -> Nat], Typed, StreamInv(H)
  PROVE  /\ AcknowledgementsMatch
         /\ \A a \in ackNet : \A m \in FindSentReliableCommand(a) :
              m \in Outstanding /\ m.ch = a.ch /\ m.num = a.num
  <1>1. ASSUME NEW a \in ackNet, NEW m \in FindSentReliableCommand(a)
        PROVE  m \in Outstanding /\ m.ch = a.ch /\ m.num = a.num
    <2>1. m \in Outstanding /\ m.ch = a.ch /\ SequenceNumber(m.num) = SequenceNumber(a.num)
      BY DEF FindSentReliableCommand, Outstanding, Acknowledges
    <2>2. a.ch \in Channels /\ a.num \in Nat /\ m.num \in Nat
      BY <2>1, CommandFields DEF Typed, SenderInv, NetType, Acknowledgement
    <2> DEFINE h == H[a.ch]
    <2>3. h \in Nat /\ m.num <= h /\ a.num <= h /\ h <= m.num + Span
          /\ h <= a.num + Reach + 2 * WindowSize - 1
      BY <2>1, <2>2, OutstandingSpan DEF Typed, StreamInv, SentUpTo, AcknowledgementsRecent
    <2> HIDE DEF h
    <2>4. m.num - a.num < SequenceSpace /\ a.num - m.num < SequenceSpace
      BY <2>2, <2>3, ReachFits, SequenceSpaceType, WindowAssumption
    <2>5. m.num = a.num
      BY <2>1, <2>2, <2>4, ModEqual, SequenceSpaceType DEF SequenceNumber
    <2> QED BY <2>1, <2>5
  <1> QED BY <1>1 DEF AcknowledgementsMatch

-----------------------------------------------------------------------------
(* The steps that keep H.                                                  *)

\* Steps that send nothing new: datagrams are lost or forgotten, commands
\* time out, and what arrives is acknowledged.
LEMMA NothingSent ==
  ASSUME NEW H \in [Channels -> Nat], Typed, StreamInv(H),
         Outstanding' = Outstanding,
         UNCHANGED <<outgoingReliableSequenceNumber, unsent>>,
         dataNet' \subseteq dataNet, ackNet' \subseteq ackNet,
         \A a \in acknowledgements' :
           a \in acknowledgements \/ \E m \in dataNet : a = [ch |-> m.ch, num |-> m.num]
  PROVE  StreamInv(H)'
  <1>1. \A c, n : Waits(c, n)' <=> Waits(c, n)
    BY DEF Waits
  <1>2. SentUpTo(H)'
    BY DEF StreamInv, SentUpTo
  <1>3. WindowOpen(H)'
    BY <1>1 DEF StreamInv, WindowOpen
  <1>4. OutstandingRecent(H)'
    BY DEF StreamInv, OutstandingRecent
  <1>5. DataRecent(H)' /\ AcknowledgementsRecent(H)'
    BY DEF StreamInv, DataRecent, AcknowledgementsRecent
  <1>6. QueuedRecent(H)'
    <2>1. ASSUME NEW a \in acknowledgements'
          PROVE  /\ a.num <= H[a.ch]
                 /\ \A n \in (a.num + Reach + 1)..H[a.ch] :
                      Waits(a.ch, n)' /\ \A b \in ackNet' : ~(b.ch = a.ch /\ b.num = n)
      <3>1. CASE a \in acknowledgements
        BY <1>1, <3>1 DEF StreamInv, QueuedRecent
      <3>2. CASE \E m \in dataNet : a = [ch |-> m.ch, num |-> m.num]
        <4>1. PICK m \in dataNet : a = [ch |-> m.ch, num |-> m.num]
          BY <3>2
        <4>2. m.ch \in Channels /\ m.num \in Nat /\ a.ch = m.ch /\ a.num = m.num
          BY <4>1 DEF Typed, NetType, Command
        <4>3. H[a.ch] \in Nat /\ a.num \in Nat /\ a.num <= H[a.ch] /\ H[a.ch] <= a.num + Reach
          BY <4>2 DEF StreamInv, DataRecent
        <4>4. (a.num + Reach + 1)..H[a.ch] = {}
          BY <4>3, ReachFits
        <4> QED BY <4>3, <4>4
      <3> QED BY <2>1, <3>1, <3>2
    <2> QED BY <2>1 DEF QueuedRecent
  <1> QED BY <1>2, <1>3, <1>4, <1>5, <1>6 DEF StreamInv

\* A command sent again is outstanding, so it is not far behind.
LEMMA ResendStream ==
  ASSUME NEW H \in [Channels -> Nat], Typed, StreamInv(H), NEW m \in resend, Resend(m)
  PROVE  StreamInv(H)'
  <1>1. /\ Outstanding' = Outstanding
        /\ UNCHANGED <<outgoingReliableSequenceNumber, unsent, acknowledgements, ackNet>>
    BY DEF Resend, Outstanding, receiverVars
  <1>2. \A c, n : Waits(c, n)' <=> Waits(c, n)
    BY <1>1 DEF Waits
  <1>3. SentUpTo(H)'
    BY <1>1 DEF StreamInv, SentUpTo
  <1>4. WindowOpen(H)' /\ OutstandingRecent(H)' /\ AcknowledgementsRecent(H)' /\ QueuedRecent(H)'
    BY <1>1, <1>2 DEF StreamInv, WindowOpen, OutstandingRecent, AcknowledgementsRecent, QueuedRecent
  <1>5. DataRecent(H)'
    <2>1. m \in Outstanding
      BY DEF Outstanding
    <2>2. m.num \in Nat /\ m.ch \in Channels /\ H[m.ch] \in Nat
      BY <2>1, CommandFields DEF Typed, SenderInv
    <2>3. m.num <= H[m.ch] /\ H[m.ch] <= m.num + Span
      BY <2>1, OutstandingSpan DEF Typed, StreamInv, SentUpTo
    <2>4. H[m.ch] <= m.num + Reach
      BY <2>2, <2>3, ReachFits
    <2>5. \A x \in dataNet' : x \in dataNet \/ x = m
      BY DEF Resend, Transmit
    <2> QED BY <2>3, <2>4, <2>5 DEF StreamInv, DataRecent
  <1> QED BY <1>3, <1>4, <1>5 DEF StreamInv

\* enet_peer_send appends the commands after the last one queued.
LEMMA EnetPeerSendStream ==
  ASSUME NEW H \in [Channels -> Nat], Typed, StreamInv(H),
         NEW c \in Channels, NEW k \in FragmentCounts, EnetPeerSend(c, k)
  PROVE  StreamInv(H)'
  <1> DEFINE top == outgoingReliableSequenceNumber[c]
             new == PacketCommands(c, top + 1, k)
             L == Len(unsent)
  <1>1. /\ k \in Nat /\ k > 0 /\ top \in Nat /\ L \in Nat
        /\ \A d \in Channels : outgoingReliableSequenceNumber[d] \in Nat
        /\ \A i \in 1..L : unsent[i].ch \in Channels /\ unsent[i].num \in Nat
    BY LimitAssumption, CommandFields DEF Typed, SenderInv
  <1>2. /\ unsent' = unsent \o new
        /\ outgoingReliableSequenceNumber' = [outgoingReliableSequenceNumber EXCEPT ![c] = top + k]
        /\ UNCHANGED <<acknowledgements, ackNet, dataNet>>
        /\ Outstanding' = Outstanding
    BY DEF EnetPeerSend, receiverVars, netVars, Outstanding
  <1>3. /\ new \in Seq(Command) /\ Len(new) = k
        /\ \A i \in 1..k : new[i].ch = c /\ new[i].num = top + i
    BY <1>1 DEF PacketCommands, Command
  <1>4. /\ Len(unsent') = L + k
        /\ \A i \in 1..L : unsent'[i] = unsent[i]
        /\ \A i \in 1..k : unsent'[L + i] = new[i]
    <2> HIDE DEF new, L
    <2>1. unsent \in Seq(Command) /\ new \in Seq(Command)
      BY <1>3 DEF Typed, SenderInv, SenderType
    <2>2. /\ Len(unsent \o new) = Len(unsent) + Len(new)
          /\ \A i \in 1..Len(unsent) : (unsent \o new)[i] = unsent[i]
          /\ \A i \in 1..Len(new) : (unsent \o new)[Len(unsent) + i] = new[i]
      BY <2>1, ConcatParts, SMTT(30)
    <2> QED BY <1>2, <1>3, <2>2 DEF L
  <1>5. outgoingReliableSequenceNumber \in [Channels -> Nat]
    BY DEF Typed, SenderInv, SenderType
  <1>6. /\ outgoingReliableSequenceNumber'[c] = top + k
        /\ \A d \in Channels \ {c} :
             outgoingReliableSequenceNumber'[d] = outgoingReliableSequenceNumber[d]
    BY <1>2, <1>5
  <1>7. /\ \A d \in Channels : H[d] \in Nat /\ H[d] <= outgoingReliableSequenceNumber[d]
        /\ \A m \in Outstanding : m.num <= H[m.ch]
        /\ \A i \in 1..L : H[unsent[i].ch] < unsent[i].num
        /\ \A d \in Channels : \A n \in (H[d] + 1)..outgoingReliableSequenceNumber[d] :
             \E i \in 1..L : unsent[i].ch = d /\ unsent[i].num = n
    BY DEF StreamInv, SentUpTo
  <1> HIDE DEF new, top, L
  <1>8. \A d \in Channels : H[d] <= outgoingReliableSequenceNumber'[d]
    BY <1>1, <1>6, <1>7 DEF top
  <1>9. ASSUME NEW i \in 1..Len(unsent') PROVE H[unsent'[i].ch] < unsent'[i].num
    <2>1. CASE i \in 1..L
      BY <1>4, <1>7, <2>1
    <2>2. CASE i \notin 1..L
      <3>1. i - L \in 1..k /\ L + (i - L) = i
        BY <1>1, <1>4, <2>2
      <3>2. unsent'[i].ch = c /\ unsent'[i].num = top + (i - L)
        BY <1>3, <1>4, <3>1
      <3>3. H[c] \in Nat /\ H[c] <= top
        BY <1>7 DEF top
      <3> QED BY <1>1, <3>1, <3>2, <3>3
    <2> QED BY <2>1, <2>2
  <1>10. ASSUME NEW d \in Channels, NEW n \in (H[d] + 1)..outgoingReliableSequenceNumber'[d]
         PROVE  \E i \in 1..Len(unsent') : unsent'[i].ch = d /\ unsent'[i].num = n
    <2>1. n \in Nat /\ H[d] \in Nat /\ H[d] + 1 <= n /\ n <= outgoingReliableSequenceNumber'[d]
      <3>1. outgoingReliableSequenceNumber'[d] \in Nat /\ H[d] \in Nat
        BY <1>1, <1>6, <1>7
      <3> QED BY <3>1
    <2>2. CASE n <= outgoingReliableSequenceNumber[d]
      <3>1. n \in (H[d] + 1)..outgoingReliableSequenceNumber[d]
        BY <1>1, <2>1, <2>2
      <3>2. PICK i \in 1..L : unsent[i].ch = d /\ unsent[i].num = n
        BY <1>7, <3>1
      <3>3. i \in 1..Len(unsent') /\ unsent'[i] = unsent[i]
        BY <1>1, <1>4
      <3> QED BY <3>2, <3>3
    <2>3. CASE ~(n <= outgoingReliableSequenceNumber[d])
      <3>1. d = c /\ top < n /\ n <= top + k
        BY <1>1, <1>6, <2>1, <2>3 DEF top
      <3>2. n - top \in 1..k /\ L + (n - top) \in 1..Len(unsent') /\ top + (n - top) = n
        BY <1>1, <1>4, <2>1, <3>1
      <3>3. unsent'[L + (n - top)] = new[n - top]
        BY <1>4, <3>2
      <3> QED BY <1>3, <3>1, <3>2, <3>3
    <2> QED BY <2>2, <2>3
  <1>11. SentUpTo(H)'
    <2>1. \A m \in Outstanding' : m.num <= H[m.ch]
      BY <1>2, <1>7
    <2> QED BY <1>8, <1>9, <1>10, <2>1 DEF SentUpTo
  <1>12. \A d, n : Waits(d, n)' <=> Waits(d, n)
    BY <1>2 DEF Waits
  <1>13. /\ WindowOpen(H)' /\ OutstandingRecent(H)' /\ DataRecent(H)'
         /\ QueuedRecent(H)' /\ AcknowledgementsRecent(H)'
    BY <1>2, <1>12 DEF StreamInv, WindowOpen, OutstandingRecent, DataRecent,
                       QueuedRecent, AcknowledgementsRecent
  <1> QED BY <1>11, <1>13 DEF StreamInv

-----------------------------------------------------------------------------
(* The first transmission of a command.                                    *)

\* The command sent is the one after the last one sent on its channel.
LEMMA FirstSendCommand ==
  ASSUME NEW H \in [Channels -> Nat], Typed, SentUpTo(H), FirstSend
  PROVE  /\ Head(unsent) \in Command
         /\ Head(unsent).ch \in Channels
         /\ Head(unsent).num = H[Head(unsent).ch] + 1
         /\ Outstanding' = Outstanding \cup {Head(unsent)}
         /\ Len(unsent') = Len(unsent) - 1
         /\ Len(unsent) \in Nat \ {0}
         /\ Head(unsent) = unsent[1]
         /\ \A i \in 1..Len(unsent') : unsent'[i] = unsent[i + 1]
         /\ \A i \in 1..Len(unsent) : unsent[i].ch \in Channels /\ unsent[i].num \in Nat
         /\ \A i \in 2..Len(unsent) : unsent[i].ch = Head(unsent).ch => Head(unsent).num < unsent[i].num
  <1> DEFINE m == Head(unsent)
  <1>1. /\ unsent \in Seq(Command) /\ unsent # <<>>
        /\ unsent' = Tail(unsent)
        /\ sentReliableCommands' = sentReliableCommands \cup {m}
        /\ resend' = resend
    BY DEF FirstSend, Typed, SenderInv, SenderType
  <1>2. /\ m \in Command
        /\ m = unsent[1]
        /\ Len(unsent) \in Nat \ {0}
        /\ Len(unsent') = Len(unsent) - 1
        /\ \A i \in 1..Len(unsent') : unsent'[i] = unsent[i + 1]
    <2> HIDE DEF Command
    <2> QED BY <1>1, HeadTailProperties, EmptySeq, LenProperties
  <1>3. m.ch \in Channels /\ m.num \in Nat
    BY <1>2 DEF Command
  <1> HIDE DEF m
  <1>4. Outstanding' = Outstanding \cup {m}
    BY <1>1 DEF Outstanding
  <1>5. /\ 1 \in 1..Len(unsent)
        /\ H[m.ch] < m.num
        /\ m.num <= outgoingReliableSequenceNumber[m.ch]
        /\ outgoingReliableSequenceNumber[m.ch] \in Nat
        /\ H[m.ch] \in Nat
    <2>1. 1 \in 1..Len(unsent)
      BY <1>2
    <2> QED BY <1>2, <1>3, <2>1, CommandFields DEF SentUpTo, Typed, SenderInv, CommandsOrdered
  <1>6. H[m.ch] + 1 \in (H[m.ch] + 1)..outgoingReliableSequenceNumber[m.ch]
    BY <1>3, <1>5
  <1>7. PICK i \in 1..Len(unsent) : unsent[i].ch = m.ch /\ unsent[i].num = H[m.ch] + 1
    BY <1>3, <1>6 DEF SentUpTo
  <1>8. i = 1 \/ m.num < unsent[i].num
    <2>1. i = 1 \/ 1 < i
      BY <1>2
    <2> QED BY <1>2, <1>5, <1>7, <2>1 DEF Typed, SenderInv, CommandsOrdered
  <1>9. m.num = H[m.ch] + 1
    BY <1>2, <1>3, <1>5, <1>7, <1>8
  <1>10. \A j \in 1..Len(unsent) : unsent[j].ch \in Channels /\ unsent[j].num \in Nat
    BY CommandFields DEF Typed, SenderInv
  <1>11. ASSUME NEW j \in 2..Len(unsent), unsent[j].ch = m.ch PROVE m.num < unsent[j].num
    <2>1. j \in 1..Len(unsent) /\ 1 < j
      BY <1>2
    <2> QED BY <1>2, <1>5, <1>11, <2>1 DEF Typed, SenderInv, CommandsOrdered
  <1> QED BY <1>2, <1>3, <1>4, <1>9, <1>10, <1>11 DEF m

\* The first command of a window is sent only when a command of the window
\* before it was acknowledged, and when the window that would be too far
\* behind has none outstanding.
LEMMA WindowNotBlocked ==
  ASSUME Typed, NEW c \in Channels, NEW n \in Nat, n % WindowSize = 0, n > 0,
         ~WindowBlocked(c, SequenceNumber(n))
  PROVE  /\ \E p \in Int : Window(p) = Window(n) - 1 /\ ~Waits(c, p)
         /\ \A m \in Outstanding :
              m.ch = c => Window(n) - Window(m.num) # ReliableWindows - FreeWindows - 1
  <1> DEFINE v == Window(n)
             s == SequenceNumber(n)
             w == Window(s)
             RW == ReliableWindows
  <1>1. /\ w = v % RW /\ s % WindowSize = 0 /\ v \in Nat
    BY WindowOfPosition
  <1>2. /\ RW \in Nat \ {0} /\ FreeWindows \in Nat /\ FreeWindows + 2 < RW
        /\ WindowSize \in Nat \ {0}
    BY WindowAssumption
  <1>3. v > 0 /\ n = WindowSize * v
    <2>1. n = WindowSize * v + 0
      <3>1. n \in Int /\ n = WindowSize * (n \div WindowSize) + (n % WindowSize)
        BY <1>2, DivMod
      <3> QED BY <1>1, <1>2, <3>1 DEF Window
    <2> HIDE DEF v
    <2>2. WindowSize * v \in Nat
      BY <1>1, <1>2
    <2>3. v = 0 => WindowSize * v = 0
      BY <1>2
    <2> QED BY <1>1, <2>1, <2>2, <2>3
  <1>4. /\ reliableWindows[c][(w + RW - 1) % RW] < WindowSize
        /\ \A k \in 0..(FreeWindows + 1) : (w + k) % RW \notin usedReliableWindows[c]
    <2> DEFINE j == (w + RW - 1) % RW
    <2>1. ~(reliableWindows[c][j] >= WindowSize)
          /\ \A k \in 0..(FreeWindows + 1) : (w + k) % RW \notin usedReliableWindows[c]
      BY <1>1 DEF WindowBlocked
    <2>2. w + RW - 1 \in Int
      <3>1. w \in Int
        BY <1>1, <1>2, DivMod
      <3> QED BY <1>2, <3>1
    <2>3. j \in 0..(RW - 1)
      BY <1>2, <2>2, DivMod
    <2> HIDE DEF j
    <2>4. reliableWindows[c][j] \in Nat
      BY <2>3 DEF Typed, SenderInv, SenderType
    <2> QED BY <1>2, <2>1, <2>4 DEF j
  <1> HIDE DEF w, v, s
  <1>5. w \in 0..(RW - 1) /\ \A u \in Int : u % RW \in 0..(RW - 1)
    <2>1. ASSUME NEW u \in Int PROVE u % RW \in 0..(RW - 1)
      BY <1>2, DivMod
    <2>2. v \in Int
      BY <1>1
    <2> QED BY <1>1, <2>1, <2>2
  <1>6. (w + RW - 1) % RW = (v - 1) % RW
    <2>1. RW - 1 \in Int /\ v - 1 \in Int /\ v \in Int
          /\ w + RW - 1 = w + (RW - 1) /\ v + (RW - 1) = (v - 1) + RW
      BY <1>1, <1>2, <1>5
    <2>2. ((v % RW) + (RW - 1)) % RW = (v + (RW - 1)) % RW
      BY <1>2, <2>1, ModShift
    <2>3. ((v - 1) + RW) % RW = (v - 1) % RW
      BY <1>2, <2>1, ModPeriod
    <2> QED BY <1>1, <2>1, <2>2, <2>3
  <1>7. \E p \in Int : Window(p) = v - 1 /\ ~Waits(c, p)
    <2> DEFINE P == (WindowSize * (v - 1))..(WindowSize * (v - 1) + WindowSize - 1)
    <2> SUFFICES ASSUME \A p \in Int : Window(p) = v - 1 => Waits(c, p)
                 PROVE  FALSE
      OBVIOUS
    <2>1. WindowSize * (v - 1) \in Nat
      BY <1>1, <1>2, <1>3, SMT
    <2>2. /\ IsFiniteSet(P) /\ Cardinality(P) = WindowSize
      <3> DEFINE a == WindowSize * (v - 1)
      <3> HIDE DEF a
      <3>1. a \in Int /\ a + WindowSize - 1 \in Int /\ ~(a > a + WindowSize - 1)
            /\ (a + WindowSize - 1) - a + 1 = WindowSize
        BY <1>2, <2>1 DEF a
      <3>2. IsFiniteSet(a..(a + WindowSize - 1))
            /\ Cardinality(a..(a + WindowSize - 1)) = (a + WindowSize - 1) - a + 1
        BY <3>1, FS_Interval
      <3> QED BY <3>1, <3>2 DEF a
    <2>3. ASSUME NEW p \in P PROVE p \in Nat /\ Window(p) = v - 1 /\ Waits(c, p)
      <3>1. p \in Nat /\ WindowSize * (v - 1) <= p /\ p < WindowSize * (v - 1) + WindowSize
        BY <1>2, <2>1
      <3>2. Window(p) = v - 1
        BY <1>1, <3>1, WindowIs
      <3> QED BY <3>1, <3>2
    <2> DEFINE j == (v - 1) % RW
               B == InWindow(c, j)
    <2>4. j \in 0..(RW - 1)
      BY <1>1, <1>5
    <2>5. IsFiniteSet(B) /\ reliableWindows[c][j] = Cardinality(B)
      BY <2>4, OutstandingFinite DEF Typed, SenderInv, WindowAccounting, WindowsCounted
    <2>6. \A p \in P : \E m \in B : m.num = p
      <3>1. ASSUME NEW p \in P PROVE \E m \in B : m.num = p
        <4>1. PICK m \in Outstanding : m.ch = c /\ m.num = p
          BY <2>3 DEF Waits
        <4>2. Window(SequenceNumber(p)) = j
          BY <2>3, WindowOfPosition
        <4>3. m \in B
          BY <4>1, <4>2 DEF InWindow
        <4> QED BY <4>1, <4>3
      <3> QED BY <3>1
    <2> DEFINE f == [p \in P |-> CHOOSE m \in B : m.num = p]
    <2> HIDE DEF B, P, j
    <2>7. \A p \in P : f[p] \in B /\ f[p].num = p
      BY <2>6
    <2>8. f \in Injection(P, B)
      <3>1. f \in [P -> B]
        BY <2>7
      <3>2. \A p, q \in P : f[p] = f[q] => p = q
        BY <2>7
      <3> HIDE DEF f
      <3> QED BY <3>1, <3>2 DEF Injection, IsInjective
    <2>9. Cardinality(P) <= Cardinality(B)
      BY <2>2, <2>5, <2>8, FS_Injection
    <2>10. Cardinality(B) < WindowSize
      BY <1>4, <1>6, <2>5 DEF j
    <2> QED BY <1>2, <2>2, <2>5, <2>9, <2>10, FS_CardinalityType
  <1>8. ASSUME NEW m \in Outstanding, m.ch = c, v - Window(m.num) = RW - FreeWindows - 1
        PROVE  FALSE
    <2> DEFINE u == Window(m.num)
               j == (w + (FreeWindows + 1)) % RW
    <2>1. m.num \in Nat /\ u \in Nat /\ Window(SequenceNumber(m.num)) = u % RW
      BY CommandFields, WindowOfPosition DEF Typed, SenderInv
    <2>2. u % RW \in 0..(RW - 1)
      BY <1>5, <2>1
    <2>3. u % RW \in usedReliableWindows[c]
      <3>1. m \in InWindow(c, u % RW)
        BY <1>8, <2>1 DEF InWindow
      <3> QED BY <2>2, <3>1 DEF Typed, SenderInv, WindowAccounting, WindowsCounted
    <2>4. j = u % RW
      <3>1. u \in Int /\ v \in Int /\ FreeWindows + 1 \in Int /\ v + (FreeWindows + 1) = u + RW
        BY <1>1, <1>2, <1>8, <2>1
      <3>2. ((v % RW) + (FreeWindows + 1)) % RW = (v + (FreeWindows + 1)) % RW
        BY <1>2, <3>1, ModShift
      <3>3. (u + RW) % RW = u % RW
        BY <1>2, <3>1, ModPeriod
      <3> QED BY <1>1, <3>1, <3>2, <3>3
    <2>5. j \notin usedReliableWindows[c]
      <3>1. FreeWindows + 1 \in 0..(FreeWindows + 1)
        BY <1>2
      <3> QED BY <1>4, <3>1
    <2> QED BY <2>3, <2>4, <2>5
  <1> QED BY <1>7, <1>8 DEF v

\* The first transmission of a command moves H of its channel on by one.
LEMMA FirstSendStream ==
  ASSUME NEW H \in [Channels -> Nat], Typed, StreamInv(H), FirstSend,
         NEW G, G = [H EXCEPT ![Head(unsent).ch] = Head(unsent).num]
  PROVE  StreamInv(G)'
  <1> DEFINE m == Head(unsent)
             c == m.ch
             n == m.num
  <1>1. /\ m \in Command /\ c \in Channels /\ n = H[c] + 1 /\ n \in Nat
        /\ Outstanding' = Outstanding \cup {m}
        /\ Len(unsent') = Len(unsent) - 1 /\ Len(unsent) \in Nat \ {0} /\ m = unsent[1]
        /\ \A i \in 1..Len(unsent') : unsent'[i] = unsent[i + 1]
        /\ \A i \in 1..Len(unsent) : unsent[i].ch \in Channels /\ unsent[i].num \in Nat
        /\ \A i \in 2..Len(unsent) : unsent[i].ch = c => n < unsent[i].num
    BY FirstSendCommand DEF StreamInv, Command
  <1>2. /\ ~WindowBlocked(c, SequenceNumber(n))
        /\ dataNet' = Transmit(Alive(dataNet, c, n), {m})
        /\ ackNet' = Alive(ackNet, c, n)
        /\ UNCHANGED <<outgoingReliableSequenceNumber, acknowledgements>>
    BY DEF FirstSend, receiverVars
  <1> HIDE DEF m, c, n
  <1>3. /\ \A d \in Channels : H[d] \in Nat /\ G[d] \in Nat /\ H[d] <= G[d]
        /\ G[c] = n
        /\ \A d \in Channels \ {c} : G[d] = H[d]
    BY <1>1 DEF m, n, c
  <1>4. /\ \A d \in Channels : H[d] <= outgoingReliableSequenceNumber[d]
        /\ \A x \in Outstanding : x.num <= H[x.ch]
        /\ \A i \in 1..Len(unsent) : H[unsent[i].ch] < unsent[i].num
        /\ \A d \in Channels : \A k \in (H[d] + 1)..outgoingReliableSequenceNumber[d] :
             \E i \in 1..Len(unsent) : unsent[i].ch = d /\ unsent[i].num = k
        /\ \A d \in Channels : outgoingReliableSequenceNumber[d] \in Nat
        /\ \A x \in Outstanding : x.ch \in Channels /\ x.num \in Nat
        /\ n <= outgoingReliableSequenceNumber[c]
    <2>1. n <= outgoingReliableSequenceNumber[c]
      <3>1. 1 \in 1..Len(unsent)
        BY <1>1
      <3> QED BY <1>1, <3>1 DEF Typed, SenderInv, CommandsOrdered, n, c
    <2> QED BY <2>1, CommandFields DEF StreamInv, SentUpTo, Typed, SenderInv
  <1>5. SentUpTo(G)'
    <2>1. \A d \in Channels : G[d] <= outgoingReliableSequenceNumber'[d]
      BY <1>2, <1>3, <1>4
    <2>2. \A x \in Outstanding' : x.num <= G[x.ch]
      <3>1. ASSUME NEW x \in Outstanding PROVE x.num <= G[x.ch]
        BY <1>3, <1>4
      <3> QED BY <1>1, <1>3, <3>1 DEF n, c
    <2>3. ASSUME NEW i \in 1..Len(unsent') PROVE G[unsent'[i].ch] < unsent'[i].num
      <3>1. i + 1 \in 1..Len(unsent) /\ i + 1 \in 2..Len(unsent) /\ unsent'[i] = unsent[i + 1]
        BY <1>1
      <3>2. CASE unsent[i + 1].ch = c
        BY <1>1, <1>3, <3>1, <3>2
      <3>3. CASE unsent[i + 1].ch # c
        <4>1. G[unsent[i + 1].ch] = H[unsent[i + 1].ch]
          BY <1>1, <1>3, <3>1, <3>3
        <4> QED BY <1>4, <3>1, <4>1
      <3> QED BY <3>2, <3>3
    <2>4. ASSUME NEW d \in Channels, NEW k \in (G[d] + 1)..outgoingReliableSequenceNumber'[d]
          PROVE  \E i \in 1..Len(unsent') : unsent'[i].ch = d /\ unsent'[i].num = k
      <3>1. /\ k \in (H[d] + 1)..outgoingReliableSequenceNumber[d] /\ k \in Nat
            /\ (d = c => n < k)
        BY <1>1, <1>2, <1>3, <1>4
      <3>2. PICK i \in 1..Len(unsent) : unsent[i].ch = d /\ unsent[i].num = k
        BY <1>4, <3>1
      <3>3. i # 1
        BY <1>1, <3>1, <3>2 DEF n, c
      <3>4. i - 1 \in 1..Len(unsent') /\ (i - 1) + 1 = i
        BY <1>1, <3>3
      <3>5. unsent'[i - 1] = unsent[i]
        BY <1>1, <3>4
      <3> QED BY <3>2, <3>4, <3>5
    <2> QED BY <2>1, <2>2, <2>3, <2>4 DEF SentUpTo
  <1>6. \A d, k : Waits(d, k)' <=> Waits(d, k) \/ (d = c /\ k = n)
    BY <1>1 DEF Waits, c, n
  <1>7. /\ Window(n) = IF n % WindowSize = 0 THEN Window(H[c]) + 1 ELSE Window(H[c])
        /\ Window(n) \in Nat /\ Window(H[c]) \in Nat
    <2>1. H[c] \in Nat
      BY <1>1, <1>3
    <2> QED BY <1>1, <2>1, NextPosition, WindowOfPosition
  <1>8. /\ WindowOpen(H) /\ OutstandingRecent(H) /\ DataRecent(H)
        /\ QueuedRecent(H) /\ AcknowledgementsRecent(H)
    BY DEF StreamInv
  <1>9. n % WindowSize = 0 =>
          /\ \E p \in Int : Window(p) = Window(n) - 1 /\ ~Waits(c, p)
          /\ \A x \in Outstanding :
               x.ch = c => Window(n) - Window(x.num) # ReliableWindows - FreeWindows - 1
    <2>1. n > 0
      BY <1>1, <1>3
    <2> QED BY <1>1, <1>2, <2>1, WindowNotBlocked
  <1>10. WindowOpen(G)'
    <2>1. ASSUME NEW d \in Channels
          PROVE  \E p \in Int : Window(p) = Window(G[d]) - 1 /\ ~(Waits(d, p)')
      <3>1. CASE d # c
        BY <1>3, <1>6, <1>8, <3>1 DEF WindowOpen
      <3>2. CASE d = c
        <4>1. PICK p \in Int : Window(p) = Window(n) - 1 /\ ~Waits(c, p)
          <5>1. CASE n % WindowSize = 0
            BY <1>9, <5>1
          <5>2. CASE n % WindowSize # 0
            BY <1>1, <1>7, <1>8, <5>2 DEF WindowOpen
          <5> QED BY <5>1, <5>2
        <4>2. p # n
          BY <1>7, <4>1
        <4> QED BY <1>3, <1>6, <3>2, <4>1, <4>2
      <3> QED BY <3>1, <3>2
    <2> QED BY <2>1 DEF WindowOpen
  <1>11. OutstandingRecent(G)'
    <2> DEFINE k == ReliableWindows - FreeWindows - 2
    <2>1. ASSUME NEW x \in Outstanding' PROVE Window(G[x.ch]) - Window(x.num) <= k
      <3>1. CASE x = m
        <4>1. Window(G[x.ch]) = Window(n) /\ Window(x.num) = Window(n)
          BY <1>3, <3>1 DEF n, c
        <4> QED BY <1>7, <4>1, WindowAssumption
      <3>2. CASE x \in Outstanding /\ x.ch # c
        BY <1>3, <1>4, <1>8, <3>2 DEF OutstandingRecent
      <3>3. CASE x \in Outstanding /\ x.ch = c
        <4>1. Window(H[c]) - Window(x.num) <= k /\ Window(x.num) \in Nat /\ k \in Int
          <5>1. x.num \in Nat /\ Window(x.num) \in Nat
            BY <1>4, <3>3, WindowOfPosition
          <5>2. k \in Int
            BY WindowAssumption
          <5>3. Window(H[c]) - Window(x.num) <= k
            BY <1>8, <3>3 DEF OutstandingRecent
          <5> QED BY <5>1, <5>2, <5>3
        <4>2. Window(n) - Window(x.num) <= k
          <5>1. CASE n % WindowSize = 0
            <6>1. Window(n) - Window(x.num) # k + 1
              BY <1>9, <3>3, <5>1, WindowAssumption
            <6> HIDE DEF k
            <6> QED BY <1>7, <4>1, <5>1, <6>1
          <5>2. CASE n % WindowSize # 0
            BY <1>7, <4>1, <5>2
          <5> QED BY <5>1, <5>2
        <4> QED BY <1>3, <3>3, <4>2
      <3> QED BY <1>1, <3>1, <3>2, <3>3
    <2> QED BY <2>1 DEF OutstandingRecent
  <1>12. DataRecent(G)'
    <2>1. ASSUME NEW x \in dataNet' PROVE x.num <= G[x.ch] /\ G[x.ch] <= x.num + Reach
      <3>1. x = m \/ (x \in dataNet /\ (x.ch = c => n <= x.num + Lifetime))
        BY <1>2 DEF Transmit, Alive
      <3>2. CASE x = m
        BY <1>1, <1>3, <3>2, ReachFits DEF n, c
      <3>3. CASE x \in dataNet /\ (x.ch = c => n <= x.num + Lifetime)
        <4>1. x.ch \in Channels /\ x.num \in Nat
          BY <3>3 DEF Typed, NetType, Command
        <4>2. x.num <= H[x.ch] /\ H[x.ch] <= x.num + Reach
          BY <1>8, <3>3 DEF DataRecent
        <4>3. Lifetime \in Nat /\ Reach \in Nat /\ Lifetime <= Reach
          BY ReachFits, LimitAssumption DEF Reach
        <4> QED BY <1>1, <1>3, <3>3, <4>1, <4>2, <4>3
      <3> QED BY <3>1, <3>2, <3>3
    <2> QED BY <2>1 DEF DataRecent
  <1>13. AcknowledgementsRecent(G)'
    <2>1. ASSUME NEW a \in ackNet'
          PROVE  a.num <= G[a.ch] /\ G[a.ch] <= a.num + Reach + 2 * WindowSize - 1
      <3>1. a \in ackNet /\ (a.ch = c => n <= a.num + Lifetime)
        BY <1>2 DEF Alive
      <3>2. a.ch \in Channels /\ a.num \in Nat
        BY <3>1 DEF Typed, NetType, Acknowledgement
      <3>3. a.num <= H[a.ch] /\ H[a.ch] <= a.num + Reach + 2 * WindowSize - 1
        BY <1>8, <3>1 DEF AcknowledgementsRecent
      <3>4. Lifetime \in Nat /\ Reach \in Nat /\ Lifetime <= Reach /\ WindowSize \in Nat \ {0}
        BY ReachFits, LimitAssumption, WindowAssumption DEF Reach
      <3> QED BY <1>1, <1>3, <3>1, <3>2, <3>3, <3>4
    <2> QED BY <2>1 DEF AcknowledgementsRecent
  <1>14. QueuedRecent(G)'
    <2>1. ASSUME NEW a \in acknowledgements'
          PROVE  /\ a.num <= G[a.ch]
                 /\ \A k \in (a.num + Reach + 1)..G[a.ch] :
                      Waits(a.ch, k)' /\ \A b \in ackNet' : ~(b.ch = a.ch /\ b.num = k)
      <3>1. a \in acknowledgements /\ a.ch \in Channels /\ a.num \in Nat
        BY <1>2 DEF Typed, ReceiverType, Acknowledgement
      <3>2. /\ a.num <= H[a.ch]
            /\ \A k \in (a.num + Reach + 1)..H[a.ch] :
                 Waits(a.ch, k) /\ \A b \in ackNet : ~(b.ch = a.ch /\ b.num = k)
        BY <1>8, <3>1 DEF QueuedRecent
      <3>3. \A b \in ackNet' : b \in ackNet /\ b.num <= H[b.ch]
        BY <1>2, <1>8 DEF Alive, AcknowledgementsRecent
      <3>4. ASSUME NEW k \in (a.num + Reach + 1)..G[a.ch]
            PROVE  Waits(a.ch, k)' /\ \A b \in ackNet' : ~(b.ch = a.ch /\ b.num = k)
        <4>1. CASE k <= H[a.ch]
          <5>1. k \in (a.num + Reach + 1)..H[a.ch]
            BY <1>3, <3>1, <4>1, ReachFits
          <5> QED BY <1>6, <3>2, <3>3, <5>1
        <4>2. CASE ~(k <= H[a.ch])
          <5>1. k \in Int /\ k <= G[a.ch]
            BY <1>3, <3>1, ReachFits
          <5>2. a.ch = c /\ k = n
            BY <1>1, <1>3, <3>1, <4>2, <5>1
          <5>3. Waits(a.ch, k)'
            BY <1>6, <5>2
          <5>4. \A b \in ackNet' : ~(b.ch = a.ch /\ b.num = k)
            BY <3>3, <4>2
          <5> QED BY <5>3, <5>4
        <4> QED BY <4>1, <4>2
      <3>5. a.num <= G[a.ch]
        BY <1>3, <3>1, <3>2
      <3> QED BY <3>4, <3>5
    <2> QED BY <2>1 DEF QueuedRecent
  <1> QED BY <1>5, <1>10, <1>11, <1>12, <1>13, <1>14 DEF StreamInv

-----------------------------------------------------------------------------
(* Acknowledgements.                                                       *)

\* What an acknowledgement takes off the lists is the command it is for, so
\* no command that must still be waiting is taken off.
LEMMA HandleAcknowledgeStream ==
  ASSUME NEW H \in [Channels -> Nat], Typed, StreamInv(H),
         NEW a \in ackNet, NEW net \in SUBSET ackNet, HandleAcknowledge(a, net)
  PROVE  StreamInv(H)'
  <1>1. /\ UNCHANGED <<outgoingReliableSequenceNumber, unsent, acknowledgements, dataNet>>
        /\ ackNet' \subseteq ackNet
    BY DEF HandleAcknowledge, receiverVars
  <1>2. CASE UNCHANGED <<resend, sentReliableCommands>>
    <2>1. Outstanding' = Outstanding
      BY <1>2 DEF Outstanding
    <2> QED BY <1>1, <2>1, NothingSent
  <1>3. ASSUME NEW m \in FindSentReliableCommand(a), RemoveSentReliableCommand(m)
        PROVE  StreamInv(H)'
    <2>1. m \in Outstanding /\ m.ch = a.ch /\ m.num = a.num
      BY MatchFromInv
    <2>2. Outstanding' = Outstanding \ {m}
      BY <1>3, <2>1, LeaveWindow DEF Typed, SenderInv, WindowAccounting
    <2>3. \A d, n : Waits(d, n)' => Waits(d, n)
      BY <2>2 DEF Waits
    <2>4. \A d, n : Waits(d, n) => Waits(d, n)' \/ (d = a.ch /\ n = a.num)
      BY <2>1, <2>2 DEF Waits
    <2>5. SentUpTo(H)'
      BY <1>1, <2>2 DEF StreamInv, SentUpTo
    <2>6. WindowOpen(H)'
      BY <2>3 DEF StreamInv, WindowOpen
    <2>7. OutstandingRecent(H)' /\ DataRecent(H)' /\ AcknowledgementsRecent(H)'
      BY <1>1, <2>2 DEF StreamInv, OutstandingRecent, DataRecent, AcknowledgementsRecent
    <2>8. QueuedRecent(H)'
      <3>1. ASSUME NEW b \in acknowledgements
            PROVE  /\ b.num <= H[b.ch]
                   /\ \A n \in (b.num + Reach + 1)..H[b.ch] :
                        Waits(b.ch, n)' /\ \A x \in ackNet' : ~(x.ch = b.ch /\ x.num = n)
        <4>1. /\ b.num <= H[b.ch]
              /\ \A n \in (b.num + Reach + 1)..H[b.ch] :
                   Waits(b.ch, n) /\ \A x \in ackNet : ~(x.ch = b.ch /\ x.num = n)
          BY DEF StreamInv, QueuedRecent
        <4> QED BY <1>1, <2>4, <4>1
      <3> QED BY <1>1, <3>1 DEF QueuedRecent
    <2> QED BY <2>5, <2>6, <2>7, <2>8 DEF StreamInv
  <1> QED BY <1>2, <1>3 DEF HandleAcknowledge

\* An acknowledgement leaves for the sender while everything the sender has
\* sent since is outstanding.  That cannot be a whole window, so it is less
\* than two.
LEMMA SendAcknowledgementsStream ==
  ASSUME NEW H \in [Channels -> Nat], Typed, StreamInv(H), SendAcknowledgements
  PROVE  StreamInv(H)'
  <1>1. /\ acknowledgements' = {}
        /\ UNCHANGED <<outgoingReliableSequenceNumber, unsent, dataNet>>
        /\ Outstanding' = Outstanding
        /\ \A a \in ackNet' : a \in ackNet \/ a \in acknowledgements
    BY DEF SendAcknowledgements, senderVars, Outstanding, Transmit
  <1>2. \A c, n : Waits(c, n)' <=> Waits(c, n)
    BY <1>1 DEF Waits
  <1>3. SentUpTo(H)' /\ WindowOpen(H)' /\ OutstandingRecent(H)' /\ DataRecent(H)' /\ QueuedRecent(H)'
    BY <1>1, <1>2 DEF StreamInv, SentUpTo, WindowOpen, OutstandingRecent, DataRecent, QueuedRecent
  <1>4. ASSUME NEW a \in acknowledgements
        PROVE  a.num <= H[a.ch] /\ H[a.ch] <= a.num + Reach + 2 * WindowSize - 1
    <2> DEFINE h == H[a.ch]
               v == Window(h)
    <2>1. a.ch \in Channels /\ a.num \in Nat /\ h \in Nat
      BY DEF Typed, ReceiverType, Acknowledgement
    <2>2. a.num <= h /\ \A n \in (a.num + Reach + 1)..h : Waits(a.ch, n)
      BY DEF StreamInv, QueuedRecent
    <2>3. PICK p \in Int : Window(p) = v - 1 /\ ~Waits(a.ch, p)
      BY <2>1 DEF StreamInv, WindowOpen
    <2>4. /\ v \in Int /\ h < WindowSize * v + WindowSize /\ WindowSize * v <= h
          /\ WindowSize * (v - 1) <= p
          /\ (h <= p => v <= v - 1)
      <3>1. WindowSize * Window(p) <= p /\ (h <= p => v <= Window(p))
        BY <2>1, WindowBounds
      <3> QED BY <2>1, <2>3, <3>1, WindowBounds
    <2>5. WindowSize \in Nat \ {0} /\ Reach \in Nat
      BY WindowAssumption, ReachFits
    <2> HIDE DEF h, v
    <2>6. WindowSize * (v - 1) = WindowSize * v - WindowSize /\ WindowSize * v \in Int
      BY <2>4, <2>5, SMT
    <2>7. p < h
      BY <2>1, <2>4
    <2>8. ~(p \in (a.num + Reach + 1)..h)
      BY <2>2, <2>3
    <2>9. p < a.num + Reach + 1
      BY <2>1, <2>5, <2>7, <2>8
    <2>10. h <= a.num + Reach + 2 * WindowSize - 1
      BY <2>1, <2>4, <2>5, <2>6, <2>9
    <2> QED BY <2>2, <2>10 DEF h
  <1>5. AcknowledgementsRecent(H)'
    BY <1>1, <1>4 DEF StreamInv, AcknowledgementsRecent
  <1> QED BY <1>3, <1>5 DEF StreamInv

-----------------------------------------------------------------------------
(* The steps together.                                                     *)

\* Nothing has been sent when the two peers start, so the invariant holds.
LEMMA InitStream == Init => AcknowledgementInv
  <1> SUFFICES ASSUME Init PROVE AcknowledgementInv
    OBVIOUS
  <1>1. Typed
    <2>1. SequenceNumber(StartPosition) \in 0..(SequenceSpace - 1)
      BY SequenceNumberType, LimitAssumption
    <2>2. ReceiverType /\ NetType
      BY <2>1 DEF Init, ReceiverType, NetType
    <2> QED BY <2>2, InitSender DEF Typed
  <1> DEFINE G == [c \in Channels |-> StartPosition]
  <1>2. G \in [Channels -> Nat]
    BY LimitAssumption
  <1>3. Outstanding = {} /\ unsent = <<>> /\ dataNet = {} /\ ackNet = {} /\ acknowledgements = {}
        /\ \A c \in Channels : outgoingReliableSequenceNumber[c] = StartPosition
    BY DEF Init, Outstanding
  <1>4. SentUpTo(G)
    <2>1. StartPosition \in Nat /\ (StartPosition + 1)..StartPosition = {}
      BY LimitAssumption
    <2>2. \A c \in Channels : \A n \in (G[c] + 1)..outgoingReliableSequenceNumber[c] :
            \E i \in 1..Len(unsent) : unsent[i].ch = c /\ unsent[i].num = n
      BY <1>3, <2>1
    <2> QED BY <1>3, <2>1, <2>2 DEF SentUpTo
  <1>5. WindowOpen(G)
    <2>1. ASSUME NEW c \in Channels
          PROVE  \E p \in Int : Window(p) = Window(G[c]) - 1 /\ ~Waits(c, p)
      <3> DEFINE u == Window(StartPosition) - 1
                 a == WindowSize * u
      <3>1. WindowSize \in Nat \ {0} /\ u \in Int
        BY LimitAssumption, WindowAssumption, WindowOfPosition
      <3> HIDE DEF u
      <3>2. a \in Int /\ a <= a /\ a < a + WindowSize
        BY <3>1
      <3>3. Window(a) = u
        BY <3>1, <3>2, WindowIs
      <3>4. ~Waits(c, a)
        BY <1>3 DEF Waits
      <3> QED BY <3>2, <3>3, <3>4 DEF u
    <2> QED BY <2>1 DEF WindowOpen
  <1>6. StreamInv(G)
    BY <1>3, <1>4, <1>5 DEF StreamInv, OutstandingRecent, DataRecent, QueuedRecent,
                            AcknowledgementsRecent
  <1> QED BY <1>1, <1>2, <1>6 DEF AcknowledgementInv

\* The sender's, the receiver's, the network's and the application's parts of the
\* type invariant are kept together by a step.
LEMMA NextTyped == Typed /\ [Next]_vars => Typed'
  <1> SUFFICES ASSUME Typed, [Next]_vars PROVE Typed'
    OBVIOUS
  <1>1. SenderType
    BY DEF Typed, SenderInv
  <1> QED BY <1>1, NextSender, NextReceiver, NextNet DEF Typed

\* Every step keeps the invariant, FirstSend with another H.
LEMMA NextStream ==
  ASSUME NEW H \in [Channels -> Nat], Typed, StreamInv(H), [Next]_vars
  PROVE  \E G \in [Channels -> Nat] :
           /\ StreamInv(G)'
           /\ IF FirstSend THEN G = [H EXCEPT ![Head(unsent).ch] = Head(unsent).num]
                           ELSE G = H
  <1>1. CASE FirstSend
    <2> DEFINE m == Head(unsent)
    <2>1. m.ch \in Channels /\ m.num \in Nat
      <3>1. m \in Command
        BY <1>1, FirstSendCommand DEF StreamInv
      <3> QED BY <3>1 DEF Command
    <2>2. PICK G : G = [H EXCEPT ![m.ch] = m.num]
      OBVIOUS
    <2>3. G \in [Channels -> Nat]
      BY <2>1, <2>2
    <2>4. StreamInv(G)'
      BY <1>1, <2>2, FirstSendStream
    <2> QED BY <1>1, <2>2, <2>3, <2>4
  <1>2. SUFFICES ASSUME ~FirstSend PROVE StreamInv(H)'
    BY <1>1
  <1>3. ASSUME NEW c \in Channels, NEW k \in FragmentCounts, EnetPeerSend(c, k)
        PROVE  StreamInv(H)'
    BY <1>3, EnetPeerSendStream
  <1>4. ASSUME NEW m \in resend, Resend(m) PROVE StreamInv(H)'
    BY <1>4, ResendStream
  <1>5. ASSUME NEW T \in SUBSET sentReliableCommands, CheckTimeouts(T) PROVE StreamInv(H)'
    <2>1. Outstanding' = Outstanding
      BY <1>5 DEF CheckTimeouts, Outstanding
    <2> QED BY <1>5, <2>1, NothingSent DEF CheckTimeouts, receiverVars, netVars
  <1>6. CASE HandleAck
    <2>1. PICK a \in ackNet : \E net \in {ackNet, ackNet \ {a}} : HandleAcknowledge(a, net)
      BY <1>6 DEF HandleAck
    <2>2. PICK net \in SUBSET ackNet : HandleAcknowledge(a, net)
      BY <2>1
    <2> QED BY <2>2, HandleAcknowledgeStream
  <1>7. CASE HandleData
    <2>1. PICK m \in dataNet : \E net \in {dataNet, dataNet \ {m}} : HandleIncomingCommand(m, net)
      BY <1>7 DEF HandleData
    <2>2. PICK net \in SUBSET dataNet : HandleIncomingCommand(m, net)
      BY <2>1
    <2>3. Outstanding' = Outstanding /\ UNCHANGED <<outgoingReliableSequenceNumber, unsent, ackNet>>
          /\ dataNet' \subseteq dataNet
      BY <2>2 DEF HandleIncomingCommand, senderVars, Outstanding
    <2>4. acknowledgements' = acknowledgements \/ QueueAcknowledgement(m)
      BY <2>2 DEF HandleIncomingCommand, DiscardCommand, DiscardDuplicate, MarkFragment,
                  QueueIncomingCommand, RefuseCommand, receiverVars
    <2>5. \A a \in acknowledgements' :
            a \in acknowledgements \/ \E x \in dataNet : a = [ch |-> x.ch, num |-> x.num]
      BY <2>4 DEF QueueAcknowledgement
    <2> QED BY <2>3, <2>5, NothingSent
  <1>8. CASE SendAcknowledgements
    BY <1>8, SendAcknowledgementsStream
  <1>9. CASE EnetPeerReceive \/ LoseData \/ LoseAcknowledgement \/ UNCHANGED vars
    <2>1. /\ UNCHANGED senderVars /\ UNCHANGED acknowledgements
          /\ dataNet' \subseteq dataNet /\ ackNet' \subseteq ackNet
      BY <1>9 DEF EnetPeerReceive, LoseData, LoseAcknowledgement, vars, receiverVars, netVars
    <2>2. Outstanding' = Outstanding /\ UNCHANGED <<outgoingReliableSequenceNumber, unsent>>
      BY <2>1 DEF senderVars, Outstanding
    <2> QED BY <2>1, <2>2, NothingSent
  <1> QED BY <1>2, <1>3, <1>4, <1>5, <1>6, <1>7, <1>8, <1>9 DEF Next

\* Every acknowledgement waiting or under way, and every copy of a command, is of a
\* command sent less than half the number space ago: the numbers read from them by
\* the receiver and by enet_protocol_remove_sent_reliable_command are not mistaken.
THEOREM AcknowledgementInvariant == Spec => []AcknowledgementInv
  <1>1. AcknowledgementInv /\ [Next]_vars => AcknowledgementInv'
    <2> SUFFICES ASSUME AcknowledgementInv, [Next]_vars PROVE AcknowledgementInv'
      OBVIOUS
    <2>1. Typed'
      BY NextTyped DEF AcknowledgementInv
    <2>2. PICK H \in [Channels -> Nat] : StreamInv(H)
      BY DEF AcknowledgementInv
    <2>3. PICK G \in [Channels -> Nat] : StreamInv(G)'
      BY <2>2, NextStream DEF AcknowledgementInv
    <2> QED BY <2>1, <2>3 DEF AcknowledgementInv
  <1> QED BY <1>1, InitStream, PTL DEF Spec

\* handle_acknowledge never takes an acknowledgement for one of a later or
\* an earlier command with the same sequence number, however long it was on
\* its way within Lifetime: any number of channels, any window layout.
THEOREM AcknowledgementsAlwaysMatch == Spec => []AcknowledgementsMatch
  <1>1. AcknowledgementInv => AcknowledgementsMatch
    BY MatchFromInv DEF AcknowledgementInv
  <1> QED BY <1>1, AcknowledgementInvariant, PTL

=============================================================================
