------------------------ MODULE SlidingWindowDeque -------------------------
(***************************************************************************)
(* FIN::SlidingWindowThrottling of NSE COM, which keeps the readings of    *)
(* the present window in a deque.  A call that finds the window full       *)
(* sleeps until its oldest entry would expire and then RETURNS: the call   *)
(* that would check again is commented out, and the message that is sent   *)
(* next is not recorded.                                                   *)
(***************************************************************************)
EXTENDS Integers, Sequences

CONSTANTS
  MsgLimit, TimeLimit,
  MaxClock,     \* bound: largest clock reading
  MaxSent       \* bound: number of admissions

VARIABLES
  timestamps,   \* the deque
  now,          \* system_clock::now()
  wakeAt,       \* when the sleeping caller wakes up; Awake when none sleeps
  sent          \* history: every return of checkThrottleLimit, oldest first

vars == <<timestamps, now, wakeAt, sent>>

Awake == -1

\* Timestamps older than the window are removed from the front, up to the
\* first that is not.
Old(i) == now - timestamps[i] > TimeLimit
Removed == {k \in 0 .. Len(timestamps) : \A i \in 1 .. k : Old(i)}
PopExpired ==
  LET k == CHOOSE n \in Removed : \A m \in Removed : m <= n
  IN  SubSeq(timestamps, k + 1, Len(timestamps))

Init ==
  /\ timestamps = <<>>
  /\ now = 0
  /\ wakeAt = Awake
  /\ sent = <<>>

\* checkThrottleLimit up to its return, or up to its sleep_for.
checkThrottleLimit ==
  /\ wakeAt = Awake
  /\ Len(sent) < MaxSent
  /\ \/ /\ Len(PopExpired) < MsgLimit
        /\ timestamps' = Append(PopExpired, now)
        /\ sent' = Append(sent, [at |-> now, waited |-> FALSE])
        /\ UNCHANGED wakeAt
     \/ /\ Len(PopExpired) >= MsgLimit
        /\ timestamps' = PopExpired
        /\ wakeAt' = now + TimeLimit - (now - Head(PopExpired))
        /\ UNCHANGED sent
  /\ UNCHANGED now

\* sleep_for ends: the call returns without another look at the window.
WakeUp ==
  /\ wakeAt # Awake /\ now >= wakeAt
  /\ wakeAt' = Awake
  /\ sent' = Append(sent, [at |-> now, waited |-> TRUE])
  /\ UNCHANGED <<timestamps, now>>

Tick ==
  /\ now < MaxClock
  /\ now' = now + 1
  /\ UNCHANGED <<timestamps, wakeAt, sent>>

Next == checkThrottleLimit \/ WakeUp \/ Tick

Spec == Init /\ [][Next]_vars

TypeOK ==
  /\ timestamps \in Seq(0 .. MaxClock) /\ sent \in Seq([at : 0 .. MaxClock, waited : BOOLEAN])
  /\ now \in 0 .. MaxClock
  /\ wakeAt \in {Awake} \cup 0 .. MaxClock + TimeLimit
-----------------------------------------------------------------------------
\* Messages of s that are MsgLimit apart are at least TimeLimit apart.
Spaced(s) ==
  \A i \in 1 .. Len(s) - MsgLimit : s[i + MsgLimit].at - s[i].at >= TimeLimit

\* "After waiting, re-check and process": a message that waited leaves when
\* the window has room for it, so that no window holds more than MsgLimit.
WindowBound == Spaced(sent)
=============================================================================
