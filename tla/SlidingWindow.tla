--------------------------- MODULE SlidingWindow ---------------------------
(***************************************************************************)
(* FIN::CircularArray and FIN::SlidingWindowThrottling of throttling.h,    *)
(* the copy of NSE FO, IIBX (Slack = 0) and of MCX ETI, BSE ETI            *)
(* (Slack = 2: the constructor of their CircularArray takes size - 2).     *)
(*                                                                         *)
(* One thread, the one that reads the OMS, calls checkThrottleLimit.       *)
(* The clock is system_clock: it advances on its own and, when             *)
(* ClockMaySet, it may be set back.  MCX and BSE build a new throttle on   *)
(* every logon response and throttle update; that is Renew.                *)
(***************************************************************************)
EXTENDS Integers, Sequences, FiniteSets

CONSTANTS
  MsgLimit,     \* msgLimit given to the constructor
  Slack,        \* what the constructor of CircularArray takes off the size
  TimeLimit,    \* _timeLimit
  ClockMaySet,  \* whether the wall clock can be set back
  MaxClock,     \* bound: largest clock reading
  MaxSent,      \* bound: number of admissions
  MaxEpoch      \* bound: a throttle is renewed only below this many admissions

ASSUME ThrottleAssumption ==
  /\ MsgLimit \in Nat /\ Slack \in Nat /\ MsgLimit - Slack >= 1
  /\ TimeLimit \in Nat
  /\ ClockMaySet \in BOOLEAN
  /\ MaxClock \in Nat /\ MaxSent \in Nat /\ MaxEpoch \in Nat

VARIABLES
  ptr, frontIndex, writeIndex, fullOnce,  \* CircularArray
  now,                                    \* system_clock::now()
  waiting,                                \* inside checkThrottleLimit
  sent,                                   \* history: readings stored, oldest first
  epoch                                   \* history: Len(sent) at the last Renew

ring == <<ptr, frontIndex, writeIndex, fullOnce>>
vars == <<ptr, frontIndex, writeIndex, fullOnce, now, waiting, sent, epoch>>

maxSize == MsgLimit - Slack
Slots   == 0 .. maxSize - 1

\* Mutant of Wrap: the index wraps one slot late.
WrapLate(i) == IF i > maxSize THEN i - maxSize ELSE i

Wrap(i) == IF i >= maxSize THEN i - maxSize ELSE i

front == ptr[frontIndex]

\* Mutant of moveFront: the front of a full array stays where it is.
moveFrontNever == frontIndex

\* A front that moves past the end of the array restarts at its beginning.
moveFront == IF fullOnce THEN Wrap(frontIndex + 1) ELSE frontIndex

store(val) ==
  /\ frontIndex' = moveFront
  /\ ptr' = [ptr EXCEPT ![writeIndex] = val]
  /\ fullOnce' = (fullOnce \/ writeIndex + 1 >= maxSize)
  /\ writeIndex' = Wrap(writeIndex + 1)

\* The array is uninitialised memory: 0 stands for whatever it holds, no
\* reader looks at a slot before it is written.
setSize == [i \in Slots |-> 0]

\* Mutant of CanPass: a message exactly TimeLimit old has left the window.
CanPassEarly == ~fullOnce \/ now - front >= TimeLimit

CanPass == ~fullOnce \/ now - front > TimeLimit

Init ==
  /\ ptr = setSize
  /\ frontIndex = 0 /\ writeIndex = 0 /\ fullOnce = FALSE
  /\ now \in 0 .. MaxClock
  /\ waiting = FALSE
  /\ sent = <<>>
  /\ epoch = 0

\* An order arrives and its thread enters checkThrottleLimit.
Enter ==
  /\ ~waiting
  /\ Len(sent) < MaxSent
  /\ waiting' = TRUE
  /\ UNCHANGED <<ring, now, sent, epoch>>

\* Mutant of checkThrottleLimit: an admission by a full array is not stored.
checkNotStored ==
  /\ waiting
  /\ CanPass
  /\ IF fullOnce THEN UNCHANGED ring ELSE store(now)
  /\ sent' = Append(sent, now)
  /\ waiting' = FALSE
  /\ UNCHANGED <<now, epoch>>

\* The pass of the loop that returns.  A pass that does not return changes
\* nothing: it spins, or sleeps and spins.
checkThrottleLimit ==
  /\ waiting
  /\ CanPass
  /\ store(now)
  /\ sent' = Append(sent, now)
  /\ waiting' = FALSE
  /\ UNCHANGED <<now, epoch>>

\* A logon response or a throttle update replaces the throttle object.  A
\* caller that waits keeps the old object, which nobody reads again: its
\* admission leaves no trace in the new one.
Renew ==
  /\ Len(sent) < MaxEpoch
  /\ ptr' = setSize
  /\ frontIndex' = 0 /\ writeIndex' = 0 /\ fullOnce' = FALSE
  /\ epoch' = Len(sent)
  /\ waiting' = FALSE
  /\ UNCHANGED <<now, sent>>

Tick ==
  /\ now < MaxClock
  /\ now' = now + 1
  /\ UNCHANGED <<ring, waiting, sent, epoch>>

SetClock ==
  /\ ClockMaySet
  /\ now' \in 0 .. now - 1
  /\ UNCHANGED <<ring, waiting, sent, epoch>>

Next == Enter \/ checkThrottleLimit \/ Renew \/ Tick \/ SetClock

Spec == Init /\ [][Next]_vars

TypeOK ==
  /\ ptr \in [Slots -> Nat]
  /\ frontIndex \in Slots /\ writeIndex \in Slots
  /\ fullOnce \in BOOLEAN /\ waiting \in BOOLEAN
  /\ now \in Nat
  /\ sent \in Seq(Nat)
  /\ epoch \in 0 .. Len(sent)
-----------------------------------------------------------------------------
(* The properties.                                                         *)

Stored == Len(sent) - epoch

\* The ring decides exactly as if it remembered every admission: it is full
\* once maxSize admissions were stored, and its front is the maxSize-th last.
RingIsExact ==
  /\ fullOnce <=> Stored >= maxSize
  /\ fullOnce => front = sent[Len(sent) + 1 - maxSize]

\* Two admissions that are maxSize apart are more than TimeLimit apart on
\* the clock that was read, whatever that clock does in between.
WindowBound ==
  \A i \in epoch + 1 .. Len(sent) - maxSize :
    sent[i + maxSize] - sent[i] > TimeLimit

\* What the exchange enforces: while the clock that was read is not set back,
\* no stretch of admissions as short as TimeLimit has more than MsgLimit.
NoBurst ==
  \A i, j \in epoch + 1 .. Len(sent) :
    (\A k \in i .. j - 1 : sent[k] <= sent[k + 1]) /\ sent[j] - sent[i] <= TimeLimit
      => j - i < MsgLimit

Abstract == INSTANCE RateLimit WITH Limit <- maxSize

\* The ring implements the throttle that remembers every admission.
ImplementsRateLimit == Abstract!Spec
=============================================================================
