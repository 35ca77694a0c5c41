----------------------------- MODULE EnetTiming -----------------------------
(***************************************************************************)
(* The clock of a host and the timeouts of one peer: when a reliable       *)
(* command is sent again, when the peer is given up, and the round trip    *)
(* times that decide it.  Times are enet_uint32 milliseconds that wrap at  *)
(* Modulus (2^32) and are compared as in time.h; an acknowledgement echoes *)
(* the low bits of the time its command was sent at.  What the commands    *)
(* carry, windows and channels are in EnetReliable.                        *)
(***************************************************************************)
EXTENDS Integers, FiniteSets, SequencesExt

CONSTANTS
  Modulus,          \* 2^32
  Overflow,         \* ENET_TIME_OVERFLOW
  Low,              \* 2^16, what an acknowledgement echoes of a time
  Commands,         \* the names of the commands that may be on their way at one time
  TimeoutLimit,     \* peer->timeoutLimit
  TimeoutMinimum,
  TimeoutMaximum,
  DefaultRoundTripTime,
  Pauses,           \* bound: the time between two calls into the host
  Lifetime,         \* bound: the age an acknowledgement may have when it arrives
  MaxUnserved,      \* bound: the time a timeout may be overdue when the host is flushed
  MaxUnanswered     \* the time within which a command is acknowledged or the peer given up

ASSUME TimingAssumption ==
  /\ Low \in Nat \ {0} /\ Low % 2 = 0
  /\ Modulus \in Nat /\ Modulus % Low = 0
  /\ Overflow \in Low..(Modulus - Low)
  /\ TimeoutLimit \in Nat \ {0}
  /\ TimeoutMinimum \in 1..TimeoutMaximum
  /\ DefaultRoundTripTime \in Nat \ {0}
  /\ Pauses \subseteq Nat
  /\ Lifetime \in 1..(Low - 1)
  /\ MaxUnserved \in 1..Overflow
  /\ MaxUnanswered \in Nat

VARIABLES
  serviceTime,      \* of the host
  connected,        \* the peer is; it is not once it was given up
  waiting,          \* its outgoing commands
  sentReliableCommands,
  nextTimeout,
  earliestTimeout,
  roundTripTime,
  roundTripTimeVariance,
  heard,            \* lastReceiveTime > 0
  net               \* the acknowledgements that may still arrive

vars == <<serviceTime, connected, waiting, sentReliableCommands, nextTimeout, earliestTimeout,
          roundTripTime, roundTripTimeVariance, heard, net>>

estimates == <<roundTripTime, roundTripTimeVariance, heard>>

-----------------------------------------------------------------------------
(* time.h.                                                                 *)

Time == 0..(Modulus - 1)
Minus(a, b) == (a - b + Modulus) % Modulus
Plus(a, b) == (a + b) % Modulus

\* Mutant: the times are compared as numbers.
TimeLessPlain(a, b) == a < b

\* ENET_TIME_LESS
TimeLess(a, b) == Minus(a, b) >= Overflow

\* ENET_TIME_DIFFERENCE
TimeDifference(a, b) == IF Minus(a, b) >= Overflow THEN Minus(b, a) ELSE Minus(a, b)

Larger(a, b) == IF a > b THEN a ELSE b

-----------------------------------------------------------------------------
\* A command: first, the time it was sent for the first time, is no part of the code.
NewCommand(name) ==
  [name |-> name, sendAttempts |-> 0, roundTripTimeout |-> 0, sentTime |-> 0, first |-> 0]

Init ==
  /\ serviceTime \in Time
  /\ connected = TRUE
  /\ waiting = <<>>
  /\ sentReliableCommands = <<>>
  /\ nextTimeout = 0
  /\ earliestTimeout = 0
  /\ roundTripTime = DefaultRoundTripTime
  /\ roundTripTimeVariance = 0
  /\ heard = FALSE
  /\ net = {}

DueTime(c) == Plus(c.sentTime, c.roundTripTimeout)

-----------------------------------------------------------------------------
(* enet_protocol_check_timeouts, at a given time.  The state it works on is *)
(* a record; over tells that the peer is given up.                         *)

Scan == [sent |-> sentReliableCommands, requeued |-> <<>>, next |-> nextTimeout,
         earliest |-> earliestTimeout, over |-> FALSE]

Overdue(c, now) == TimeDifference(now, c.sentTime) >= c.roundTripTimeout

\* Mutant: the minimum is not waited for.
GivesUpYoung(c, earliest, now) ==
  /\ earliest # 0
  /\ \/ TimeDifference(now, earliest) >= TimeoutMaximum
     \/ 2 ^ (c.sendAttempts - 1) >= TimeoutLimit

\* The backoff has reached its limit and the minimum has passed, or the maximum has.
GivesUp(c, earliest, now) ==
  /\ earliest # 0
  /\ \/ TimeDifference(now, earliest) >= TimeoutMaximum
     \/ /\ 2 ^ (c.sendAttempts - 1) >= TimeoutLimit
        /\ TimeDifference(now, earliest) >= TimeoutMinimum

\* Mutant: the next timeout is not brought up to date.
NextOfKeeps(sent, next) == next

\* The front of the list decides when it is looked at again.
NextOf(sent, next) == IF sent = <<>> THEN next ELSE DueTime(Head(sent))

\* enet_list_remove of the command of that name, if it is in the list.
Without(queue, name) ==
  IF \E i \in DOMAIN queue : queue[i].name = name
  THEN RemoveAt(queue, CHOOSE i \in DOMAIN queue : queue[i].name = name)
  ELSE queue

\* One command of the loop.
ScanCommand(scan, c, now) ==
  LET earliest == IF scan.earliest = 0 \/ TimeLess(c.sentTime, scan.earliest)
                  THEN c.sentTime ELSE scan.earliest
      left == Without(scan.sent, c.name)
  IN  IF scan.over \/ ~Overdue(c, now) THEN scan
      ELSE IF GivesUp(c, earliest, now) THEN [scan EXCEPT !.over = TRUE]
      ELSE [sent |-> left,
            requeued |-> Append(scan.requeued, [c EXCEPT !.roundTripTimeout = 2 * @]),
            next |-> IF Head(scan.sent).name = c.name THEN NextOf(left, scan.next) ELSE scan.next,
            earliest |-> earliest,
            over |-> FALSE]

\* The loop after each of the commands that were in the list.
ScanAll(now) ==
  LET after[n \in 0..Len(sentReliableCommands)] ==
        IF n = 0 THEN Scan ELSE ScanCommand(after[n - 1], sentReliableCommands[n], now)
  IN  after

CheckTimeouts(now) ==
  IF sentReliableCommands = <<>> \/ TimeLess(now, nextTimeout) THEN Scan
  ELSE ScanAll(now)[Len(sentReliableCommands)]

-----------------------------------------------------------------------------
(* Sending.                                                                *)

\* enet_protocol_check_outgoing_commands, of one command.
SentAt(c, now) ==
  [c EXCEPT !.sendAttempts = @ + 1,
            !.roundTripTimeout = IF @ = 0 THEN roundTripTime + 4 * roundTripTimeVariance ELSE @,
            !.sentTime = now,
            !.first = IF c.sendAttempts = 0 THEN now ELSE @]

\* The commands in front of queue are sent, behind what was sent before; the windows
\* of EnetReliable decide how many, but the first command of all always fits.  The
\* first in an empty list sets nextTimeout.
Send(scan, queue, now) ==
  \E sends \in 0..Len(queue) :
    LET sending == [i \in 1..sends |-> SentAt(queue[i], now)]
    IN  /\ scan.sent = <<>> /\ queue # <<>> => sends > 0
        /\ sentReliableCommands' = scan.sent \o sending
        /\ nextTimeout' = IF scan.sent = <<>> /\ sends > 0 THEN DueTime(Head(sending)) ELSE scan.next
        /\ waiting' = SubSeq(queue, sends + 1, Len(queue))
        \* each copy may be acknowledged, once, twice or not at all
        /\ net' = {a \in net : Minus(now, a.sentTime) <= Lifetime}
                  \cup {[name |-> c.name, sentTime |-> now] : c \in ToSet(sending)}

\* enet_protocol_notify_disconnect: all that was known of the peer is dropped.
GiveUp ==
  /\ connected' = FALSE
  /\ waiting' = <<>>
  /\ sentReliableCommands' = <<>>
  /\ nextTimeout' = 0
  /\ earliestTimeout' = 0
  /\ roundTripTime' = DefaultRoundTripTime
  /\ roundTripTimeVariance' = 0
  /\ heard' = FALSE
  /\ net' = {}

\* enet_host_service at a later time: what is overdue is queued in front, or the
\* peer is given up; then what waits is sent.
EnetHostService(now) ==
  LET scan == CheckTimeouts(now)
  IN  /\ connected
      /\ serviceTime' = now
      /\ \/ /\ scan.over
            /\ GiveUp
         \/ /\ ~scan.over
            /\ Send(scan, scan.requeued \o waiting, now)
            /\ earliestTimeout' = scan.earliest
            /\ UNCHANGED <<connected, estimates>>

\* enet_host_flush: the same without the timeouts.  Bound: the application does not
\* go on flushing long after the timeouts should have been looked at.
EnetHostFlush(now) ==
  /\ connected
  /\ sentReliableCommands # <<>> => TimeLess(now, Plus(nextTimeout, MaxUnserved))
  /\ serviceTime' = now
  /\ Send(Scan, waiting, now)
  /\ UNCHANGED <<connected, earliestTimeout, estimates>>

\* enet_peer_send.  Bound: the name of a command is used again only when no
\* acknowledgement of an earlier one can arrive.
EnetPeerSend ==
  /\ connected
  /\ \E name \in Commands :
       /\ \A c \in ToSet(waiting) \cup ToSet(sentReliableCommands) : c.name # name
       /\ \A a \in net : a.name # name
       /\ waiting' = Append(waiting, NewCommand(name))
  /\ UNCHANGED <<serviceTime, connected, sentReliableCommands, nextTimeout, earliestTimeout, estimates, net>>

-----------------------------------------------------------------------------
(* enet_protocol_handle_acknowledge.                                       *)

\* The high bits are those of the clock; an upper half seen in a lower one is of the
\* turn before.
High(time) == time - (time % Low)
UpperHalf(time) == time % Low >= Low \div 2

\* Mutant: an echo is always of the present turn.
WidenedThisTurn(echo) == High(serviceTime) + echo

Widened(echo) ==
  IF UpperHalf(echo) /\ ~UpperHalf(serviceTime)
  THEN Minus(High(serviceTime) + echo, Low)
  ELSE High(serviceTime) + echo

MeasuredTime(sentTime) == Larger(TimeDifference(serviceTime, sentTime), 1)

\* The estimates that a measured time leaves.
Measured(time) ==
  LET variance == roundTripTimeVariance - roundTripTimeVariance \div 4
      longer == time >= roundTripTime
      diff == IF longer THEN time - roundTripTime ELSE roundTripTime - time
  IN  IF ~heard THEN <<time, (time + 1) \div 2>>
      ELSE <<IF longer THEN roundTripTime + diff \div 8 ELSE roundTripTime - diff \div 8,
             variance + diff \div 4>>

\* The command is taken out of what was sent, or out of what waits to be sent again;
\* the front of the list decides the next timeout.
RemoveSentReliableCommand(name) ==
  /\ sentReliableCommands' = Without(sentReliableCommands, name)
  /\ waiting' = Without(waiting, name)
  /\ nextTimeout' = NextOf(Without(sentReliableCommands, name), nextTimeout)

HandleAcknowledge(a) ==
  LET sentTime == Widened(a.sentTime % Low)
      measured == Measured(MeasuredTime(sentTime))
  IN  /\ connected
      /\ ~TimeLess(serviceTime, sentTime)
      /\ roundTripTime' = measured[1]
      /\ roundTripTimeVariance' = measured[2]
      /\ heard' = TRUE
      /\ earliestTimeout' = 0
      /\ RemoveSentReliableCommand(a.name)
      /\ UNCHANGED <<serviceTime, connected, net>>

\* A new connection.
Connect ==
  /\ ~connected
  /\ connected' = TRUE
  /\ UNCHANGED <<serviceTime, waiting, sentReliableCommands, nextTimeout, earliestTimeout, estimates, net>>

Next ==
  \/ \E pause \in Pauses : EnetHostService(Plus(serviceTime, pause))
  \/ \E pause \in Pauses : EnetHostFlush(Plus(serviceTime, pause))
  \/ EnetPeerSend
  \/ \E a \in net : HandleAcknowledge(a)
  \/ Connect

Spec == Init /\ [][Next]_vars

-----------------------------------------------------------------------------
(* Properties.                                                             *)

Names(queue) == {c.name : c \in ToSet(queue)}
Unacknowledged == ToSet(sentReliableCommands) \cup {c \in ToSet(waiting) : c.sendAttempts > 0}

\* Every command is in one list once; what was sent has a timeout.
TypeOK ==
  /\ serviceTime \in Time /\ nextTimeout \in Time /\ earliestTimeout \in Time
  /\ connected \in BOOLEAN /\ heard \in BOOLEAN
  /\ roundTripTime \in Nat \ {0} /\ roundTripTimeVariance \in Nat
  /\ Names(sentReliableCommands) \cap Names(waiting) = {}
  /\ \A queue \in {waiting, sentReliableCommands} :
       /\ Cardinality(Names(queue)) = Len(queue)
       /\ \A c \in ToSet(queue) :
            /\ c.name \in Commands
            /\ {c.sentTime, c.first} \subseteq Time
            /\ c.sendAttempts > 0 <=> c.roundTripTimeout > 0
  /\ \A c \in ToSet(sentReliableCommands) : c.sendAttempts > 0
  /\ \A a \in net : a.name \in Commands /\ a.sentTime \in Time

\* The loop over the timeouts is entered when the oldest transmission is overdue:
\* nextTimeout is kept by three functions (protocol.c:290, 1464, 1570).  The list
\* is in the order of transmissions: a command behind a front whose timeout was
\* doubled may be due before it, and is looked at with it.
NextTimeoutIsDue ==
  sentReliableCommands # <<>> => nextTimeout = DueTime(Head(sentReliableCommands))

\* The time an acknowledgement echoes is known exactly, across both turns of the
\* clock, or the acknowledgement is ignored; that only when it is more than half a
\* turn old.
EchoTellsTime ==
  \A a \in net :
    LET sentTime == Widened(a.sentTime % Low)
    IN  IF TimeLess(serviceTime, sentTime)
        THEN Minus(serviceTime, a.sentTime) > Low \div 2
        ELSE sentTime = a.sentTime

\* A peer is given up only for a cause the documentation of enet_peer_timeout names
\* (enet.h:820-830): something was not acknowledged for the maximum, or for the
\* minimum when a timeout was doubled to the limit; a wrapped clock gives no cause.
GivesUpForCause ==
  [][connected /\ ~connected' =>
       \E c \in Unacknowledged :
         \/ Minus(serviceTime', c.first) >= TimeoutMaximum
         \/ /\ Minus(serviceTime', c.first) >= TimeoutMinimum
            /\ \E d \in Unacknowledged : 2 ^ (d.sendAttempts - 1) >= TimeoutLimit]_vars

\* No command stays unacknowledged for long: it is acknowledged, or the peer is
\* given up in time, however the application mixes its calls and whatever else of
\* the peer is acknowledged meanwhile, which sets earliestTimeout back to 0
\* (protocol.c:964).
GivenUpInTime ==
  \A c \in Unacknowledged : Minus(serviceTime, c.first) <= MaxUnanswered
=============================================================================
